---------------------------- MODULE OptionSeries ----------------------------
(***************************************************************************)
(* Which option a symbol's engine looks at, and whose candles it holds for *)
(* it: SymbolEngine._check_direction, _check_itm_depth, _refresh_candles,  *)
(* _refresh_candles_on_new_bar, _load_new_instrument_candles and the tick  *)
(* handlers of backend/engine/engine_v6.py.                                *)
(*                                                                         *)
(* Threads: "loop" polls every 65 s, "bar" is started with every new       *)
(* minute of the underlying, a loader with every new instrument; the       *)
(* stream thread's ticks are actions of their own.  _dir_lock keeps two    *)
(* flips apart and nothing else: a fetch blocks on the broker, and what it *)
(* brings is stored without a look at the instrument by then.              *)
(*                                                                         *)
(* An instrument is [side, strike]; a series is the set of instruments     *)
(* that the rows of the day come from.  Rows of the days before are mixed  *)
(* on purpose and left out, and the 5-minute series, which goes the same   *)
(* way; the exit that precedes a flip is in SymbolEngine.                  *)
(***************************************************************************)
EXTENDS Integers

CONSTANTS
  Strikes,      \* strikes a selection may choose
  Loaders,      \* threads of _load_new_instrument_candles
  MaxTurns,     \* bound: turns of the market
  MaxDeep,      \* bound: times the strike is found too deep
  MaxTicks      \* bound: ticks of the option

ASSUME SeriesAssumption ==
  Strikes # {} /\ MaxTurns \in Nat /\ MaxDeep \in Nat /\ MaxTicks \in Nat

OptTypes == {"CE", "PE"}
Instruments == [side : OptTypes, strike : Strikes]
NoKey == [side |-> "none", strike |-> 0]
Jobs == {"loop", "bar"} \cup Loaders

VARIABLES
  market,       \* the side the averages of the underlying favour, and the turns so far
  ltpKnown,     \* underlying_ltp is not None
  direction,    \* the side last taken up, "none" at first
  instrument,   \* instrument_key
  optType,      \* opt_type
  flipper,      \* the thread that holds _dir_lock
  series,       \* the instruments of the rows of opt_df
  forming,      \* the instruments of the ticks of _cur_candle
  job,          \* for each thread [at, key, rows]
  deep,         \* reselections so far
  ticks

seriesVars == <<market, ltpKnown, direction, instrument, optType, flipper, series, forming,
                job, deep, ticks>>

Idle == [at |-> "idle", key |-> NoKey, rows |-> {}]

SeriesInit ==
  /\ market = [side |-> "CE", turns |-> 0] /\ ltpKnown = FALSE
  /\ direction = "none" /\ instrument = NoKey /\ optType = "none" /\ flipper = "none"
  /\ series = {} /\ forming = {}
  /\ job = [j \in Jobs |-> Idle]
  /\ deep = 0 /\ ticks = 0

Go(j, at) == [job EXCEPT ![j] = [Idle EXCEPT !.at = at]]

\* A thread that loads the instrument just selected; it reads which when it starts.
Spawned(jobs) ==
  {[jobs EXCEPT ![l] = [Idle EXCEPT !.at = "fetch"]] : l \in {k \in Loaders : jobs[k].at = "idle"}}

-----------------------------------------------------------------------------
(* The market and the stream.                                              *)

Turn ==
  /\ market.turns < MaxTurns
  /\ market' = [side |-> IF market.side = "CE" THEN "PE" ELSE "CE", turns |-> market.turns + 1]
  /\ UNCHANGED <<ltpKnown, direction, instrument, optType, flipper, series, forming, job, deep, ticks>>

\* _process_ul_tick: the first tick of a minute starts a refresh.
UnderlyingTick ==
  /\ ltpKnown' = TRUE
  /\ \/ job["bar"].at = "idle" /\ job' = Go("bar", "fetch")
     \/ ~ltpKnown /\ UNCHANGED job
  /\ UNCHANGED <<market, direction, instrument, optType, flipper, series, forming, deep, ticks>>

\* _process_opt_tick within a minute.
OptionTick ==
  /\ instrument # NoKey /\ ticks < MaxTicks
  /\ ticks' = ticks + 1 /\ forming' = forming \cup {instrument}
  /\ UNCHANGED <<market, ltpKnown, direction, instrument, optType, flipper, series, job, deep>>

\* ...and of another minute: the bar is appended, unless a fetch has brought it before or
\* there are no rows.
OptionBar ==
  /\ instrument # NoKey /\ ticks < MaxTicks
  /\ ticks' = ticks + 1 /\ forming' = {instrument}
  /\ series' \in IF series = {} THEN {series} ELSE {series, series \cup forming}
  /\ UNCHANGED <<market, ltpKnown, direction, instrument, optType, flipper, job, deep>>

-----------------------------------------------------------------------------
(* The threads.  "depth" and "fetch" are steps of the loop; every thread   *)
(* but a loader ends by looking at the direction.                          *)

StartPoll ==
  /\ job["loop"].at = "idle" /\ job' = Go("loop", "depth")
  /\ UNCHANGED <<market, ltpKnown, direction, instrument, optType, flipper, series, forming, deep, ticks>>

\* _check_itm_depth: not deep, no instrument, or the selection fails...
StayAtStrike ==
  /\ job["loop"].at = "depth" /\ job' = Go("loop", "fetch")
  /\ UNCHANGED <<market, ltpKnown, direction, instrument, optType, flipper, series, forming, deep, ticks>>

\* ...or it selects for the side it reads now...
TooDeep ==
  /\ job["loop"].at = "depth" /\ instrument # NoKey /\ ltpKnown /\ deep < MaxDeep
  /\ deep' = deep + 1
  /\ job' = [job EXCEPT !["loop"] = [at |-> "reselect", key |-> [side |-> optType, strike |-> 0], rows |-> {}]]
  /\ UNCHANGED <<market, ltpKnown, direction, instrument, optType, flipper, series, forming, ticks>>

\* ...and moves to what it was given, whatever the instrument is by then.
Reselect ==
  /\ job["loop"].at = "reselect"
  /\ \E k \in Instruments :
       /\ k.side = job["loop"].key.side /\ k # instrument
       /\ instrument' = k
  /\ series' = {} /\ job' \in Spawned(Go("loop", "fetch"))
  /\ UNCHANGED <<market, ltpKnown, direction, optType, flipper, forming, deep, ticks>>

\* For mutation: without an instrument it is asked all the same.
AskAlways(j) ==
  /\ job[j].at = "fetch"
  /\ job' = [job EXCEPT ![j] = [at |-> "asked", key |-> instrument, rows |-> {}]]
  /\ UNCHANGED <<market, ltpKnown, direction, instrument, optType, flipper, series, forming, deep, ticks>>

\* The broker is asked for the instrument of this moment.
Ask(j) ==
  /\ job[j].at = "fetch"
  /\ job' = [job EXCEPT ![j] = IF instrument = NoKey THEN [Idle EXCEPT !.at = "direction"]
                               ELSE [at |-> "asked", key |-> instrument, rows |-> {}]]
  /\ UNCHANGED <<market, ltpKnown, direction, instrument, optType, flipper, series, forming, deep, ticks>>

\* For mutation: the rows are merged with those that are there.
StoreMerged(j) ==
  /\ job[j].at = "asked"
  /\ series' = series \cup {job[j].key}
  /\ job' = Go(j, IF j \in Loaders THEN "idle" ELSE "direction")
  /\ UNCHANGED <<market, ltpKnown, direction, instrument, optType, flipper, forming, deep, ticks>>

\* It answers, and the rows of the day are replaced...
Store(j) ==
  /\ job[j].at = "asked"
  /\ series' = {job[j].key}
  /\ job' = Go(j, IF j \in Loaders THEN "idle" ELSE "direction")
  /\ UNCHANGED <<market, ltpKnown, direction, instrument, optType, flipper, forming, deep, ticks>>

\* ...or it has nothing, or fails.
StoreNothing(j) ==
  /\ job[j].at = "asked"
  /\ job' = Go(j, IF j \in Loaders THEN "idle" ELSE "direction")
  /\ UNCHANGED <<market, ltpKnown, direction, instrument, optType, flipper, series, forming, deep, ticks>>

\* _check_direction: nothing new, or another thread is at it.
SameDirection(j) ==
  /\ job[j].at = "direction" /\ (market.side = direction \/ flipper # "none")
  /\ job' = Go(j, "idle")
  /\ UNCHANGED <<market, ltpKnown, direction, instrument, optType, flipper, series, forming, deep, ticks>>

\* The direction is taken up before an instrument for it is found; without a price of the
\* underlying none is looked for.
Flip(j) ==
  /\ job[j].at = "direction" /\ market.side # direction /\ flipper = "none"
  /\ direction' = market.side
  /\ IF ltpKnown THEN flipper' = j /\ job' = Go(j, "select")
                 ELSE job' = Go(j, "idle") /\ UNCHANGED flipper
  /\ UNCHANGED <<market, ltpKnown, instrument, optType, series, forming, deep, ticks>>

SelectFlipped(j) ==
  /\ job[j].at = "select"
  /\ \E k \in Instruments : k.side = direction /\ instrument' = k
  /\ optType' = direction /\ series' = {} /\ flipper' = "none"
  /\ job' \in Spawned(Go(j, "idle"))
  /\ UNCHANGED <<market, ltpKnown, direction, forming, deep, ticks>>

\* get_itm_instrument raises: the direction stays, the instrument of the old one too.
SelectFails(j) ==
  /\ job[j].at = "select"
  /\ flipper' = "none" /\ job' = Go(j, "idle")
  /\ UNCHANGED <<market, ltpKnown, direction, instrument, optType, series, forming, deep, ticks>>

JobAdvances(j) == \/ Ask(j) \/ Store(j) \/ StoreNothing(j)
                  \/ SameDirection(j) \/ Flip(j) \/ SelectFlipped(j) \/ SelectFails(j)

SeriesNext ==
  \/ Turn \/ UnderlyingTick \/ OptionTick \/ OptionBar
  \/ StartPoll \/ StayAtStrike \/ TooDeep \/ Reselect
  \/ \E j \in Jobs : JobAdvances(j)

-----------------------------------------------------------------------------
SeriesTypeOK ==
  /\ direction \in OptTypes \cup {"none"} /\ optType \in OptTypes \cup {"none"}
  /\ instrument \in Instruments \cup {NoKey}
  /\ flipper \in Jobs \cup {"none"}
  /\ series \subseteq Instruments /\ forming \subseteq Instruments
  /\ \A j \in Jobs : job[j].at \in {"idle", "depth", "reselect", "fetch", "asked", "direction", "select"}

\* Rows of another instrument get into the series (a late fetch, a bar that began before a
\* flip) but not for good: the poll replaces them.
SeriesSettles == []<>(series \subseteq {instrument})

\* "Instant direction flip ... responds immediately to every bar" (engine_v6.py:834-835): once
\* the direction has been taken up, the instrument is of its side.
InstrumentFollows ==
  direction # "none" /\ flipper = "none" => instrument.side = direction
=============================================================================
