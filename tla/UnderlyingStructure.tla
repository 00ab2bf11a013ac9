------------------------ MODULE UnderlyingStructure -------------------------
(***************************************************************************)
(* The engine that reads the 5-minute candles of the underlying index:     *)
(* UnderlyingMarketStructureEngine of                                      *)
(* backend/engine/underlying_market_structure.py.  Its trend is not a      *)
(* state of its own: it is read off the streaks of rising and of falling   *)
(* swings and off the last change of character, whose side wins while it   *)
(* is recent.                                                              *)
(*                                                                         *)
(* Support and resistance, liquidity events, patterns, the market phase    *)
(* and the confidence are output only and are left out.                    *)
(***************************************************************************)
EXTENDS Swings, FiniteSets

CONSTANTS
  ChochLasts,     \* candles for which a change of character decides the bias: 8
  FailsWithin     \* a break may fail for so many candles: 5 in the code

VARIABLE streak   \* for each side, the swings counted in a row towards it

underlyingVars == <<streak>>

UnderlyingInit == streak = [s \in Sides |-> 0]

-----------------------------------------------------------------------------
\* HH, HL, LH, LL: the latest swing of all against the one before it on its side.  The
\* count is taken at every candle, whether or not the swing is new.
Tally ==
  LET h == swings'["up"]
      l == swings'["down"]
      q == IF h[Len(h)].at > l[Len(l)].at THEN h ELSE l
      a == q[Len(q) - 1].price
      b == q[Len(q)].price
      s == IF b > a THEN "up" ELSE "down"
  IN  IF Len(h) < 2 \/ Len(l) < 2 THEN streak
      ELSE IF a = b THEN streak
      ELSE [[t \in Sides |-> 0] EXCEPT ![s] = streak[s] + 1]

\* The side of a recent change of character, else that of the streak.
Bias(run) ==
  LET chochs == {i \in DOMAIN breaks : breaks[i].type = "CHOCH" /\ Now - breaks[i].at <= ChochLasts}
      last == CHOOSE i \in chochs : \A j \in chochs : j <= i
  IN  IF chochs # {} THEN breaks[last].side
      ELSE IF \E s \in Sides : run[s] > 0 THEN CHOOSE s \in Sides : run[s] > 0 ELSE "none"

\* Among the last three breaks there is this one.
Recorded(bs, type, s, level) ==
  \E i \in DOMAIN bs : /\ i > Len(bs) - 3
                       /\ bs[i].type = type /\ bs[i].side = s /\ bs[i].level = level

\* For mutation: only the last break is looked at.
FailingLast(bs) ==
  [i \in DOMAIN bs |->
     [bs[i] EXCEPT !.failed =
        @ \/ /\ i = Len(bs) /\ Now - bs[i].at <= FailsWithin
             /\ Beyond(Other(bs[i].side), Close, bs[i].level)]]

\* A recent break beyond whose level the price has closed back has failed.
Failing(bs) ==
  [i \in DOMAIN bs |->
     [bs[i] EXCEPT !.failed =
        @ \/ /\ i > Len(bs) - 5 /\ Now - bs[i].at <= FailsWithin
             /\ Beyond(Other(bs[i].side), Close, bs[i].level)]]

\* A close beyond the last major swing is a break of structure, and moves the level that
\* protects its side; a close beyond the level that protects the bias is a change of
\* character, and ends its streak.
UnderlyingBreaks ==
  IF ~BothMajors THEN streak' = Tally /\ UNCHANGED <<breaks, protected>>
  ELSE LET s == IF Beyond("up", Close, Major("up").price) THEN "up" ELSE "down"
           level == Major(s).price
           bos == Beyond(s, Close, level) /\ ~Recorded(breaks, "BOS", s, level)
           added == IF bos THEN Append(breaks, Break("BOS", s, level)) ELSE breaks
           moved == IF bos THEN [protected EXCEPT ![s] = Protected(s, Major(s).at, @)] ELSE protected
           b == Bias(Tally)
           choch == /\ b \in Sides /\ moved[b] # <<>>
                    /\ Beyond(Other(b), Close, moved[b][1])
                    /\ ~Recorded(added, "CHOCH", Other(b), moved[b][1])
       IN  /\ protected' = moved
           /\ breaks' = Failing(IF choch THEN Append(added, Break("CHOCH", Other(b), moved[b][1]))
                                         ELSE added)
           /\ streak' = IF choch THEN [Tally EXCEPT ![b] = 0] ELSE Tally

UnderlyingUpdate(c) ==
  /\ bars' = Append(bars, c)
  /\ DetectSwings
  /\ UnderlyingBreaks
  /\ zones' = Mitigated(zones \o NewZone("up") \o NewZone("down"))

UnderlyingNext == \E c \in Fed : UnderlyingUpdate(c)

-----------------------------------------------------------------------------
UnderlyingTypeOK == \A s \in Sides : streak[s] \in 0..Len(bars)

\* Candle k of bs closed back beyond the level of break x, while that was recent.
ClosesBack(bs, x, k) == k - x.at <= FailsWithin /\ Beyond(Other(x.side), bs[k].close, x.level)

ClosedBack(bs, x) == \E k \in x.at .. Len(bs) : ClosesBack(bs, x, k)

\* A break that is marked as failed did fail: the marking goes by position in a list, never
\* by the break.
FailuresReal == \A i \in DOMAIN breaks : breaks[i].failed => ClosedBack(bars, breaks[i])

\* A major swing is among the latest MaxSwings swings of the whole history bs.
MajorInReach(bs, s) ==
  \E p \in Confirmed(bs, s) : /\ IsSwing(bs, s, p, MajorW)
                              /\ Cardinality({r \in Confirmed(bs, s) : r > p}) < MaxSwings

\* At candle k the engine looks at the i-th of the breaks q: at that candle there is a major
\* swing in reach on both sides, and the break is one of the last five.
Watched(bs, q, i, k) ==
  /\ \A s \in Sides : MajorInReach(SubSeq(bs, 1, k), s)
  /\ i + 5 \in DOMAIN q => q[i + 5].at > k

\* A break of q beyond whose level a candle closed back while the engine looked is marked.
Noticed(bs, q) ==
  \A i \in DOMAIN q : \A k \in q[i].at .. Len(bs) :
    ClosesBack(bs, q[i], k) /\ Watched(bs, q, i, k) => q[i].failed

FailuresNoticed == Noticed(bars, breaks)

\* The stronger statement, whether or not the engine looked: false where the list is so short,
\* or the time in which a break may fail so long, that the last major swing is lost before.
NoFailureMissed == \A i \in DOMAIN breaks : ClosedBack(bars, breaks[i]) => breaks[i].failed

\* "consecutive HH + HL" (underlying_market_structure.py:308): a streak counts swings, so
\* it is never longer than the swings there are.
SwingsCountedOnce ==
  \A s \in Sides :
    streak[s] <= Cardinality({x \in Sides \X DOMAIN bars : IsSwing(bars, x[1], x[2], MinorW)})
=============================================================================
