--------------------------- MODULE CandlePipeline ---------------------------
(***************************************************************************)
(* The shared candles of one symbol and those who read them                *)
(* (backend/shared/candle_builder.py, indicator_engine.py,                 *)
(* market_structure_engine.py, strategy_engine.py).                        *)
(*                                                                         *)
(* A builder thread turns ticks into 1-minute bars and every Span minutes  *)
(* into a longer bar, keeps both in memory, and copies them to Redis every *)
(* TicksPerSave ticks and when it is stopped; the developing bar is        *)
(* written to a hash at every tick.  A closed bar is announced on a        *)
(* channel; the readers then fetch the lists from Redis, not the bar       *)
(* announced.  A stopped builder's thread may still handle one tick, when  *)
(* a new builder may already run.  A bar is known by its minute, counted   *)
(* from 1; 0 stands for the last bar of the day before.                    *)
(***************************************************************************)
EXTENDS Integers, Sequences, FiniteSets

CONSTANTS
  Builders,       \* SharedCandleBuilder objects, one registered at a time
  Span,           \* minutes of a longer bar: 5 in the code
  KeepBars,       \* a list keeps so many bars: 750 and 150 in the code
  TicksPerSave,   \* 60 in the code
  History,        \* rows of the day before that the preload finds
  StructureRows,  \* rows the structure engine needs: 5 in the code
  StrategyRows,   \* rows the strategies need: 25 in the code
  MaxMinute,      \* bound: last minute of the clock
  MaxEvents       \* bound: announcements a reader has not handled

ASSUME CandleAssumption ==
  /\ Span \in Nat \ {0} /\ KeepBars \in Nat \ {0} /\ TicksPerSave \in Nat \ {0}
  /\ History \in Nat /\ MaxMinute \in Nat \ {0}

NoBuilder == "none"
Readers == {"indicator", "structure", "strategy"}

VARIABLES
  minute,       \* the clock
  registered,   \* the builder in _instances
  builder,      \* for each builder its mode and its memory
  store,        \* Redis: the two lists, the minute of the developing bar, history
  events,       \* for each reader, announcements on their way
  readings      \* what the readers made of them

candleVars == <<minute, registered, builder, store, events, readings>>

CandleInit ==
  /\ minute = 1 /\ registered = NoBuilder
  /\ builder = [b \in Builders |->
       [mode |-> "new", ones |-> <<>>, fives |-> <<>>, cur |-> 0, ticks |-> 0]]
  /\ store = [ones |-> <<>>, fives |-> <<>>, cur |-> 0, history |-> 0]
  /\ events = [r \in Readers |-> <<>>]
  /\ readings = [indicator |-> <<>>, analyzed |-> 0, fed |-> <<>>, fedFives |-> <<>>, signals |-> 0]

KeepLast(q, n) == IF Len(q) > n THEN SubSeq(q, Len(q) - n + 1, Len(q)) ELSE q
Minutes(ones) == [i \in DOMAIN ones |-> ones[i].at]

-----------------------------------------------------------------------------
(* The builder.                                                            *)

\* get_or_create: a new builder takes up what Redis holds; bars read back have times that
\* are strings.
StartBuilder(b) ==
  /\ registered = NoBuilder /\ builder[b].mode = "new"
  /\ registered' = b
  /\ store' = [store EXCEPT !.history = History]
  /\ builder' = [builder EXCEPT ![b] =
       [mode |-> "running", fives |-> store.fives, cur |-> store.cur, ticks |-> 0,
        ones |-> [i \in DOMAIN store.ones |-> [at |-> store.ones[i], loaded |-> TRUE]]]]
  /\ UNCHANGED <<minute, events, readings>>

\* The longer bar is made of the closed bars after minute - Span.
Window(ones) ==
  {i \in DOMAIN ones : /\ i > Len(ones) - (Span + 1) /\ ~ones[i].loaded
                       /\ ones[i].at > minute - Span /\ ones[i].at <= minute}

Announce(es) ==
  events' = [r \in Readers |-> IF registered = NoBuilder THEN events[r] ELSE events[r] \o es]

\* _process_tick: the first tick of another minute closes the bar under way.
ProcessTick(b) ==
  LET m == builder[b]
      closing == m.cur # minute /\ m.cur # 0
      ones == IF closing THEN KeepLast(Append(m.ones, [at |-> m.cur, loaded |-> FALSE]), KeepBars)
                         ELSE m.ones
      long == closing /\ minute % Span = 0 /\ Window(ones) # {}
      bar == [at |-> minute, of |-> {ones[i].at : i \in Window(ones)}]
      fives == IF long THEN KeepLast(Append(m.fives, bar), KeepBars) ELSE m.fives
  IN  /\ m.mode \in {"running", "stopping"} /\ m.ticks < TicksPerSave
      /\ \A r \in Readers : Len(events[r]) + 2 <= MaxEvents
      /\ builder' = [builder EXCEPT ![b] =
           [mode |-> IF m.mode = "stopping" THEN "last" ELSE m.mode,
            ones |-> ones, fives |-> fives, cur |-> minute, ticks |-> m.ticks + 1]]
      /\ store' = [store EXCEPT !.cur = minute, !.fives = IF long THEN fives ELSE @]
      /\ Announce((IF closing THEN <<[interval |-> "1m", ts |-> minute]>> ELSE <<>>)
                  \o (IF long THEN <<[interval |-> "5m", ts |-> minute]>> ELSE <<>>))
      /\ UNCHANGED <<minute, registered, readings>>

\* For mutation: the developing bar is saved with the closed ones.
SavedAll(m) ==
  [store EXCEPT !.ones = Minutes(m.ones) \o <<m.cur>>, !.fives = m.fives,
                !.cur = IF m.cur = 0 THEN @ ELSE m.cur]

Saved(m) ==
  [store EXCEPT !.ones = Minutes(m.ones), !.fives = m.fives,
                !.cur = IF m.cur = 0 THEN @ ELSE m.cur]

Forgotten == [readings EXCEPT !.analyzed = 0, !.fed = <<>>, !.fedFives = <<>>]

\* Every so many ticks the tick's handler saves the lists.
SaveToRedis(b) ==
  /\ builder[b].mode \in {"running", "stopping", "last"}
  /\ builder[b].ticks = TicksPerSave
  /\ store' = Saved(builder[b])
  /\ builder' = [builder EXCEPT ![b].ticks = 0]
  /\ UNCHANGED <<minute, registered, events, readings>>

\* The orchestrator's thread stops the builder, whose own may be handling a tick, and the
\* readers with it: their successors start afresh.
StopBuilder(b) ==
  /\ registered = b
  /\ registered' = NoBuilder
  /\ builder' = [builder EXCEPT ![b].mode = "stopping"]
  /\ store' = Saved(builder[b])
  /\ events' = [r \in Readers |-> <<>>] /\ readings' = Forgotten
  /\ UNCHANGED minute

\* The worker dies: what only memory held is lost, the readers' state included.
CrashBuilder ==
  /\ \E b \in Builders : builder[b].mode = "running"
  /\ registered' = NoBuilder
  /\ builder' = [b \in Builders |-> IF builder[b].mode = "new" THEN builder[b]
                                    ELSE [builder[b] EXCEPT !.mode = "dead"]]
  /\ events' = [r \in Readers |-> <<>>] /\ readings' = Forgotten
  /\ UNCHANGED <<minute, store>>

NextMinute ==
  /\ minute < MaxMinute /\ minute' = minute + 1
  /\ UNCHANGED <<registered, builder, store, events, readings>>

-----------------------------------------------------------------------------
(* The readers: the rows of the day before come first.                     *)

OnesRows == store.history + Len(store.ones)
LastOne == IF store.ones = <<>> THEN 0 ELSE store.ones[Len(store.ones)]
FivesRows == store.history + Len(store.fives)
LastFive == IF store.fives = <<>> THEN 0 ELSE store.fives[Len(store.fives)].at

Take(r) ==
  /\ events[r] # <<>> /\ events' = [events EXCEPT ![r] = Tail(@)]
  /\ UNCHANGED <<minute, registered, builder, store>>

\* Indicators of the last bar read, 1-minute or longer, into one hash.
OnCandleClose ==
  /\ Take("indicator")
  /\ LET e == Head(events["indicator"])
         rows == IF e.interval = "1m" THEN OnesRows ELSE FivesRows
         bar == [interval |-> e.interval, bar |-> IF e.interval = "1m" THEN LastOne ELSE LastFive]
     IN  readings' = IF rows < 3 THEN readings ELSE [readings EXCEPT !.indicator = <<bar>>]

\* The structure engine takes the last bar read, unless it has handled this very minute.
AnalyzeStructure ==
  /\ Take("structure")
  /\ LET e == Head(events["structure"])
     IN  readings' =
           IF e.interval = "1m"
           THEN IF readings.analyzed = e.ts \/ OnesRows < StructureRows THEN readings
                ELSE [readings EXCEPT !.analyzed = e.ts, !.fed = Append(@, LastOne)]
           ELSE IF FivesRows = 0 THEN readings
                ELSE [readings EXCEPT !.fedFives = Append(@, LastFive)]

\* The strategies look at the last bar read and at the indicators, if there are any, and
\* may publish a signal; no signal has the id that would tell it from the one before.
EvaluateStrategies ==
  /\ Take("strategy")
  /\ LET ready == /\ Head(events["strategy"]).interval = "1m"
                  /\ OnesRows >= StrategyRows /\ readings.indicator # <<>>
     IN  \E n \in 0 .. IF ready THEN 1 ELSE 0 :
           readings' = [readings EXCEPT !.signals = IF n = 0 THEN @ ELSE LastOne]

\* The subscription breaks: what is published until it is renewed is lost.
LoseEvents(r) ==
  /\ events[r] # <<>> /\ events' = [events EXCEPT ![r] = <<>>]
  /\ UNCHANGED <<minute, registered, builder, store, readings>>

CandleNext ==
  \/ \E b \in Builders : StartBuilder(b) \/ ProcessTick(b) \/ SaveToRedis(b) \/ StopBuilder(b)
  \/ CrashBuilder \/ NextMinute
  \/ OnCandleClose \/ AnalyzeStructure \/ EvaluateStrategies
  \/ \E r \in Readers : LoseEvents(r)

-----------------------------------------------------------------------------
CandleTypeOK ==
  /\ minute \in 1..MaxMinute
  /\ registered \in Builders \cup {NoBuilder}
  /\ \A b \in Builders : /\ builder[b].mode \in {"new", "running", "stopping", "last", "dead"}
                         /\ builder[b].cur \in 0..MaxMinute /\ builder[b].ticks \in 0..TicksPerSave
                         /\ Len(builder[b].ones) <= KeepBars
  /\ store.cur \in 0..MaxMinute /\ store.history \in {0, History}

Ascending(q) == \A i, j \in DOMAIN q : i < j => q[i] < q[j]

\* Through saves, stops, crashes and a builder that overlaps the one before, each minute
\* has at most one bar, bars are in order, and the developing bar is later than them all.
BarsAscending ==
  /\ Ascending(store.ones)
  /\ store.ones # <<>> => LastOne < store.cur
  /\ \A b \in Builders :
       LET q == Minutes(builder[b].ones)
       IN  Ascending(q) /\ (q # <<>> => q[Len(q)] < builder[b].cur)

\* "Find 1m bars in the last 5 minutes" (candle_builder.py:322): a longer bar is made of all
\* the bars its builder has closed in the Span minutes before it.
FiveMinutesWhole ==
  \A b \in Builders : \A i \in DOMAIN builder[b].fives :
    LET f == builder[b].fives[i]
    IN  \A j \in DOMAIN builder[b].ones :
          builder[b].ones[j].at \in f.at - Span .. f.at - 1 /\ ~builder[b].ones[j].loaded
            => builder[b].ones[j].at \in f.of

\* "Tracking to prevent duplicate analysis" (market_structure_engine.py:47): no bar is fed
\* to the structure engine twice.
FedOnce == \A i, j \in DOMAIN readings.fed : i # j => readings.fed[i] # readings.fed[j]
=============================================================================
