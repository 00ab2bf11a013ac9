-------------------------- MODULE PremiumStructure --------------------------
(***************************************************************************)
(* The engine that reads the 1-minute candles of an option's premium:      *)
(* MarketStructureEngine of backend/engine/market_structure.py.  One       *)
(* update per closed candle moves the trend (breaks of structure and       *)
(* changes of character), the pullback within it and the recovery from     *)
(* it, which the unified strategy trades on.                               *)
(*                                                                         *)
(* A trend is "up", "down" or "ranging".  Scores, patterns, support and    *)
(* resistance and liquidity events are output only and are left out.       *)
(***************************************************************************)
EXTENDS Swings

CONSTANTS
  MinBars,        \* no pullback is looked for in fewer candles: 5 in the code
  NestedAfter,    \* a pullback may be nested after so many candles: 5 in the code
  ExpiresAfter    \* a recovery expires after so many: 12 in the code

VARIABLES
  trend,
  pull,           \* [active, type, start, duration]
  recovery        \* [status, start]

premiumVars == <<trend, pull, recovery>>

NoRecovery == [status |-> "NONE", start |-> 0]

PremiumInit ==
  /\ trend = "ranging"
  /\ pull = [active |-> FALSE, type |-> "NONE", start |-> 0, duration |-> 0]
  /\ recovery = NoRecovery

-----------------------------------------------------------------------------
(* Trend.                                                                  *)

\* Without a major swing on each side there is no trend.
NoStructure ==
  /\ ~BothMajors
  /\ trend' = "ranging" /\ UNCHANGED <<breaks, protected>>

\* Out of a range, a close beyond the last major swing starts a trend.
FirstBreak ==
  /\ BothMajors /\ trend = "ranging"
  /\ LET s == IF Beyond("up", Close, Major("up").price) THEN "up" ELSE "down"
     IN  IF Beyond(s, Close, Major(s).price)
         THEN /\ trend' = s /\ breaks' = Append(breaks, Break("BOS", s, Major(s).price))
              /\ protected' = [protected EXCEPT ![s] = Protected(s, Major(s).at, @)]
         ELSE UNCHANGED <<trend, protected, breaks>>

\* Within a trend: a close beyond the last major swing confirms it and moves the level
\* that protects it; a close beyond that level, in the same candle even, turns it round.
InTrend ==
  /\ BothMajors /\ trend \in Sides
  /\ LET s == trend
         t == Other(s)
         confirmed == Beyond(s, Close, Major(s).price)
         bos == IF confirmed THEN Protected(s, Major(s).at, protected[s]) ELSE protected[s]
         limit == IF bos # <<>> THEN bos[1] ELSE Major(t).price
         turned == Beyond(t, Close, limit)
     IN  /\ trend' = IF turned THEN t ELSE s
         /\ protected' = [protected EXCEPT ![s] = bos,
                                           ![t] = IF turned THEN Protected(t, Now, @) ELSE @]
         /\ breaks' = breaks \o (IF confirmed THEN <<Break("BOS", s, Major(s).price)>> ELSE <<>>)
                             \o (IF turned THEN <<Break("CHOCH", t, limit)>> ELSE <<>>)

PremiumBreaks == NoStructure \/ FirstBreak \/ InTrend

-----------------------------------------------------------------------------
(* Pullback and recovery.                                                  *)

\* The furthest edge on side s of the candles from position p on.
Furthest(s, p) ==
  LET since == {Edge(s, bars'[i]) : i \in p..Now}
  IN  CHOOSE x \in since : \A y \in since : ~Beyond(s, y, x)

Gap(x, y) == IF x > y THEN x - y ELSE y - x

\* What a close at `depth` of an impulse of `height` is called.
Depth(depth, height) ==
  IF 100 * depth < 50 * height THEN "HEALTHY" ELSE IF depth < height THEN "DEEP" ELSE "FAILED"

Ended == [pull EXCEPT !.active = FALSE, !.type = "NONE", !.duration = 0]

Going(type) == [active |-> TRUE, type |-> type,
                start |-> IF pull.active THEN pull.start ELSE Now,
                duration |-> IF pull.active THEN pull.duration + 1 ELSE 1]

Retraced ==
  IF trend' \notin Sides THEN Ended
  ELSE LET s == trend'
           origin == Major(Other(s))
           peak == Furthest(s, origin.at)
           height == IF Beyond(s, peak, origin.price) THEN Gap(peak, origin.price) ELSE 0
           depth == Gap(peak, Close)
       IN  IF height = 0 THEN pull
           ELSE IF 100 * depth >= 15 * height THEN Going(Depth(depth, height)) ELSE Ended

SwingsSince(p) ==
  UNION {{<<s, swings'[s][i].at>> : i \in DOMAIN swings'[s]} : s \in Sides} \cap (Sides \X (p..Now))

\* A long pullback with swings of its own is nested, one that has failed included.
Nested(p) ==
  p.active /\ p.duration > NestedAfter /\ \E a, b \in SwingsSince(p.start) : a # b

Pullback ==
  pull' = IF Nested(Retraced) THEN [Retraced EXCEPT !.type = "NESTED"] ELSE Retraced

\* The side's last swing, if it is in the pullback.
SwingInPullback(s) ==
  {q \in {swings'[s][i] : i \in DOMAIN swings'[s]} :
     /\ q.at >= pull'.start
     /\ q = swings'[s][Len(swings'[s])]}

Recovering(s) ==
  LET r == IF recovery.status = "NONE" THEN [status |-> "ACTIVE", start |-> Now] ELSE recovery
  IN  IF \E q \in SwingInPullback(s) : Beyond(s, Close, q.price)
      THEN [r EXCEPT !.status = "CONFIRMED"]
      ELSE IF Now - r.start > ExpiresAfter THEN [r EXCEPT !.status = "EXPIRED"] ELSE r

Recovery ==
  recovery' =
    IF pull'.active /\ pull'.type # "FAILED"
    THEN LET s == IF trend' = "up" THEN "up" ELSE "down"
         IN  IF Beyond(s, Close, Furthest(Other(s), pull'.start)) THEN Recovering(s) ELSE recovery
    ELSE NoRecovery

AnalyzePullbackRecovery ==
  IF Now >= MinBars /\ BothMajors THEN Pullback /\ Recovery ELSE UNCHANGED <<pull, recovery>>

PremiumUpdate(c) ==
  /\ bars' = Append(bars, c)
  /\ DetectSwings
  /\ PremiumBreaks
  /\ zones' = Mitigated(LastOf(zones \o NewZone("up") \o NewZone("down"), MaxSwings))
  /\ AnalyzePullbackRecovery

PremiumNext == \E c \in Fed : PremiumUpdate(c)

-----------------------------------------------------------------------------
PremiumTypeOK ==
  /\ trend \in Sides \cup {"ranging"}
  /\ pull.type \in {"NONE", "HEALTHY", "DEEP", "FAILED", "NESTED"}
  /\ recovery.status \in {"NONE", "ACTIVE", "CONFIRMED", "EXPIRED"}
  /\ pull.start \in 0..Len(bars) /\ recovery.start \in 0..Len(bars)

\* A recovery belongs to the pullback under way: it never outlives it into the next one.
RecoveryInPullback ==
  recovery.status # "NONE" => pull.active /\ recovery.start >= pull.start

\* No trend survives a close beyond the level that protects it, whether the level was
\* there before the candle or has been moved by it.  Only the candle that breaks to the
\* trend's side may leave it there: it takes the level from swings that the close has passed.
TrendProtected ==
  \A s \in Sides :
    /\ trend = s /\ protected[s] # <<>>
    /\ Beyond(Other(s), bars[Len(bars)].close, protected[s][1])
    => \E i \in DOMAIN breaks : breaks[i].at = Len(bars) /\ breaks[i].side = s
=============================================================================
