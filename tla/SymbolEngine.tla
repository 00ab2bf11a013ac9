---------------------------- MODULE SymbolEngine ----------------------------
(***************************************************************************)
(* The position of one symbol: backend/engine/engine_v6.py, SymbolEngine,  *)
(* from the order of an entry to the record of its exit, with the paper    *)
(* book (services/paper_trading.py) or the broker as the order's other end *)
(* and the approval path and squareoff handler of worker.py.               *)
(*                                                                         *)
(* position, sl_order_id, trailing_sl and instrument_key have no lock.     *)
(* Several threads read a position, block (a broker call, an alert, a      *)
(* sleep) and act on what they read; each stretch between two blocking     *)
(* calls is one step.                                                      *)
(*                                                                         *)
(* An entry is a number, which also stands for its position dict (shared   *)
(* by reference, so trade[e].trigger outlives the position) and its stop   *)
(* order.  0 is None.                                                      *)
(***************************************************************************)
EXTENDS Integers

CONSTANTS
  Paper,        \* paper_mode: the paper book, or the broker
  Threads,      \* the threads that run, of AllThreads
  Keys,         \* option instruments
  Levels,       \* stop-loss triggers
  MaxEntries,   \* bound: entries tried
  MaxEdits      \* bound: stop modifications asked for

(***************************************************************************)
(* tick: the streamer's callback.  command: the worker's command loop.     *)
(* telegram: the bot's poller, which calls the engine itself.  flip: the   *)
(* thread that holds _dir_lock.  candle: the 65 s candle loop.  approve:   *)
(* the main event loop.                                                    *)
(***************************************************************************)
AllThreads == {"tick", "command", "telegram", "flip", "candle", "approve"}
Commanders == {"command", "telegram"}

Entries == 1..MaxEntries

ASSUME EngineAssumption ==
  /\ Paper \in BOOLEAN
  /\ Threads \subseteq AllThreads
  /\ Keys # {}
  /\ Levels \subseteq Nat \ {0} /\ Levels # {}
  /\ MaxEntries \in Nat /\ MaxEdits \in Nat

VARIABLES
  position,     \* self.position
  stopRef,      \* self.sl_order_id
  trailing,     \* self.trailing_sl
  instrument,   \* self.instrument_key
  trade,        \* per entry: buy and stop orders, instruments, stop triggers
  entries,      \* entries tried so far (bounded)
  edits,        \* stop modifications so far (bounded)
  pc,           \* where each thread is
  mine,         \* the position a thread has read
  aim,          \* the trigger a thread is setting
  sold,         \* history: completed exit SELLs per entry and thread, counted to 2
  revived,      \* history: closed entries that became the position again
  answered,     \* history: entries a square-off was reported as closed for
  unheard,      \* history: entries with a SELL or a new trigger the broker took and
                \*   the engine never heard of
  missold       \* history: entries whose exit SELL was for another instrument

engine   == <<position, stopRef, trailing, instrument>>
thread   == <<pc, mine, aim>>
history  == <<sold, revived, answered, unheard, missold>>
bounds   == <<entries, edits>>
vars     == <<engine, trade, bounds, thread, history>>

NoTrade(k) ==
  [buy |-> "none", stop |-> "none", key |-> k, stopAt |-> 0, trigger |-> 0]

Init ==
  /\ position = 0 /\ stopRef = 0 /\ trailing = 0
  /\ instrument \in Keys
  /\ trade = [e \in Entries |-> NoTrade(instrument)]
  /\ entries = 0 /\ edits = 0
  /\ pc = [t \in Threads |-> "idle"]
  /\ mine = [t \in Threads |-> 0]
  /\ aim = [t \in Threads |-> 0]
  /\ sold = [e \in Entries |-> [t \in Threads |-> 0]]
  /\ revived = {} /\ answered = {} /\ unheard = {} /\ missold = {}

At(t, p)    == t \in Threads /\ pc[t] = p
Reads(t, e) == mine' = [mine EXCEPT ![t] = e]
GoTo(t, p)  == pc' = [pc EXCEPT ![t] = p]

-----------------------------------------------------------------------------
(* Entry: _place_trade on the tick thread (what the execution layer lets   *)
(* through is ExecutionRouter's), _place_order_from_signal on the main     *)
(* loop for an approved signal.                                            *)

\* A strategy checks for a position and fires; an approval checks nothing.
Enter(t) ==
  /\ At(t, "idle")
  /\ (t = "tick" /\ position = 0) \/ t = "approve"
  /\ entries < MaxEntries
  /\ entries' = entries + 1
  /\ Reads(t, entries')
  /\ GoTo(t, "entering")
  /\ UNCHANGED <<engine, trade, edits, aim, history>>

(***************************************************************************)
(* _place_order: the broker takes the order or not (taken), and the engine *)
(* learns its id or not (told).  An exception or a response it cannot read *)
(* answers None for an order that the broker has.                          *)
(***************************************************************************)
Answers(taken, told) == (told => taken) /\ (Paper => told)

\* The BUY of the current instrument; a paper order is filled at once.
PlaceBuy(t, taken, told) ==
  /\ At(t, "entering")
  /\ Answers(taken, told)
  /\ trade' = [trade EXCEPT
       ![mine[t]].buy =
         IF ~taken THEN "rejected" ELSE IF Paper THEN "complete" ELSE "open",
       ![mine[t]].key = instrument]
  /\ GoTo(t, IF told THEN "bought" ELSE "idle")
  /\ UNCHANGED <<engine, bounds, mine, aim, history>>

\* _get_fill_price sees no fill in time, or one at price 0: the entry is
\* abandoned, not the order.
GiveUp(t) ==
  /\ At(t, "bought")
  /\ GoTo(t, "idle")
  /\ UNCHANGED <<engine, trade, bounds, mine, aim, history>>

\* Where the stop's answer sends the entry: only a live _place_trade verifies it.
AfterStop(t, told) ==
  IF ~told THEN "exposed" ELSE IF t = "tick" /\ ~Paper THEN "placed" ELSE "verified"

\* For mutation: the stop without the wait for the fill.
PlaceStopAtOnce(t, level, taken, told) ==
  /\ At(t, "bought")
  /\ Answers(taken, told)
  /\ trade' = IF ~taken THEN trade
              ELSE [trade EXCEPT ![mine[t]].stop = "open", ![mine[t]].stopAt = level,
                                 ![mine[t]].trigger = level]
  /\ GoTo(t, AfterStop(t, told))
  /\ UNCHANGED <<engine, bounds, mine, aim, history>>

\* For mutation: the broker's raw status is stored for the stop.
PlaceStopRaw(t, level, taken, told) ==
  /\ At(t, "bought")
  /\ trade[mine[t]].buy = "complete"
  /\ Answers(taken, told)
  /\ trade' = IF ~taken THEN trade
              ELSE [trade EXCEPT ![mine[t]].stop = "trigger_pending", ![mine[t]].stopAt = level,
                                 ![mine[t]].trigger = level]
  /\ GoTo(t, AfterStop(t, told))
  /\ UNCHANGED <<engine, bounds, mine, aim, history>>

\* The fill is known: the stop order, whose trigger the position dict will carry.
PlaceStop(t, level, taken, told) ==
  /\ At(t, "bought")
  /\ trade[mine[t]].buy = "complete"
  /\ Answers(taken, told)
  /\ trade' = IF ~taken THEN trade
              ELSE [trade EXCEPT ![mine[t]].stop = "open", ![mine[t]].stopAt = level,
                                 ![mine[t]].trigger = level]
  /\ GoTo(t, AfterStop(t, told))
  /\ UNCHANGED <<engine, bounds, mine, aim, history>>

\* A poll finds the stop waiting for its trigger, or already filled.
StopVerified(t) ==
  /\ At(t, "placed")
  /\ trade[mine[t]].stop \in {"open", "complete"}
  /\ GoTo(t, "verified")
  /\ UNCHANGED <<engine, trade, bounds, mine, aim, history>>

\* A poll finds the stop rejected, or none of 5 s finds a status it knows: the
\* stop stays at the broker as it is.
StopUnverified(t) ==
  /\ At(t, "placed")
  /\ GoTo(t, "exposed")
  /\ UNCHANGED <<engine, trade, bounds, mine, aim, history>>

\* The position dict is set, whatever became of the stop since.
TakePosition(t, key) ==
  /\ At(t, "verified")
  /\ t = "tick" => key = instrument          \* an approval takes its signal's
  /\ trade' = [trade EXCEPT ![mine[t]].key = key]
  /\ position' = mine[t] /\ stopRef' = mine[t] /\ trailing' = trade[mine[t]].trigger
  /\ GoTo(t, "idle")
  /\ UNCHANGED <<instrument, bounds, mine, aim, history>>

\* Only the direction flip names the position's own instrument.
SellKey(t) == IF t = "flip" THEN trade[mine[t]].key ELSE instrument

\* A SELL of what the thread holds that the broker takes.
Sells(t) ==
  /\ sold' = [sold EXCEPT ![mine[t]][t] = IF @ < 2 THEN @ + 1 ELSE @]
  /\ missold' = missold \cup (IF SellKey(t) = trade[mine[t]].key THEN {} ELSE {mine[t]})

\* The stop was refused or not verified: one SELL, whose outcome is ignored.
EmergencySell(t) ==
  /\ At(t, "exposed")
  /\ Sells(t) \/ UNCHANGED <<sold, missold>>
  /\ GoTo(t, "idle")
  /\ UNCHANGED <<engine, trade, bounds, mine, aim, revived, answered, unheard>>

-----------------------------------------------------------------------------
(* Exits.  All of them cancel the stop, sell, record and clear.            *)

(***************************************************************************)
(* cancel_order and the SL_CANCEL alert.  The paper book marks any order   *)
(* cancelled; the broker cancels an open one, or the call fails, which     *)
(* every caller ignores.                                                   *)
(***************************************************************************)
CancelStop(t, e) ==
  /\ \/ /\ Paper \/ trade[e].stop = "open"
        /\ trade' = [trade EXCEPT ![e].stop = "cancelled"]
     \/ ~Paper /\ UNCHANGED trade
  /\ Reads(t, e)
  /\ GoTo(t, "cancelled")
  /\ UNCHANGED <<engine, bounds, aim, history>>

\* _manage_position at the near target: _book_profit.
BookProfit == At("tick", "idle") /\ position # 0 /\ CancelStop("tick", position)

\* _squareoff_from_telegram, from either of its callers.
Squareoff(t) == t \in Commanders /\ At(t, "idle") /\ position # 0 /\ CancelStop(t, position)

\* _check_direction with a position: _emergency_exit.
FlipExit == At("flip", "idle") /\ position # 0 /\ CancelStop("flip", position)

SellAccepted(t) ==
  /\ At(t, "cancelled")
  /\ Sells(t)
  /\ GoTo(t, "sold")
  /\ UNCHANGED <<engine, trade, bounds, mine, aim, revived, answered, unheard>>

\* For mutation: every exit gives up when its SELL is rejected.
SellRejectedStops(t) ==
  /\ At(t, "cancelled")
  /\ ~Paper
  /\ GoTo(t, "idle")
  /\ UNCHANGED <<engine, trade, bounds, mine, aim, history>>

\* A square-off stops here (and is reported closed); the others record an exit.
GivesUp(t) ==
  /\ GoTo(t, IF t \in Commanders THEN "idle" ELSE "sold")
  /\ answered' = IF t \in Commanders THEN answered \cup {mine[t]} ELSE answered

SellRejected(t) ==
  /\ At(t, "cancelled")
  /\ ~Paper
  /\ GivesUp(t)
  /\ UNCHANGED <<engine, trade, bounds, mine, aim, sold, revived, unheard, missold>>

\* The broker sells and the answer is lost: handled as a rejection.
SellUnheard(t) ==
  /\ At(t, "cancelled")
  /\ ~Paper
  /\ Sells(t) /\ GivesUp(t)
  /\ unheard' = unheard \cup {mine[t]}
  /\ UNCHANGED <<engine, trade, bounds, mine, aim, revived>>

\* The tick thread finds the stop filled: check_sl_filled, or the webhook or poll.
StopFilled ==
  /\ At("tick", "idle")
  /\ position # 0
  /\ \/ Paper /\ trade[position].stop = "open"
     \/ ~Paper /\ trade[position].stop = "complete"
  /\ trade' = [trade EXCEPT ![position].stop = "complete"]
  /\ Reads("tick", position)
  /\ GoTo("tick", "sold")
  /\ UNCHANGED <<engine, bounds, aim, history>>

(***************************************************************************)
(* _record_exit up to its alerts: it reads self.position again, which may  *)
(* be gone (the exception ends the exit) or another one.                   *)
(***************************************************************************)
RecordExit(t) ==
  /\ At(t, "sold")
  /\ GoTo(t, IF position = 0 THEN "idle" ELSE "recorded")
  /\ UNCHANGED <<engine, trade, bounds, mine, aim, history>>

\* For mutation: the position outlives its exit.
ClearStopOnly(t) ==
  /\ At(t, "recorded")
  /\ stopRef' = 0 /\ trailing' = 0
  /\ GoTo(t, IF t = "flip" THEN "select" ELSE "idle")
  /\ UNCHANGED <<position, instrument, trade, bounds, mine, aim, history>>

\* The end of _record_exit: whatever is the position now is cleared.
ClearPosition(t) ==
  /\ At(t, "recorded")
  /\ position' = 0 /\ stopRef' = 0 /\ trailing' = 0
  /\ GoTo(t, IF t = "flip" THEN "select" ELSE "idle")
  /\ answered' = IF t \in Commanders THEN answered \cup {mine[t]} ELSE answered
  /\ UNCHANGED <<instrument, trade, bounds, mine, aim, sold, revived, unheard, missold>>

-----------------------------------------------------------------------------
(* The stop's trigger: _maybe_trail and _modify_sl_from_telegram.          *)

\* For mutation: a proposal that is only different.
Moves(level)  == level # trailing
Raises(level) == level > trailing

\* modify_order: an open order takes the trigger; the paper book ignores others.
ModifyStop(e, level) ==
  \/ /\ trade[e].stop = "open"
     /\ trade' = [trade EXCEPT ![e].stopAt = level]
  \/ /\ Paper /\ trade[e].stop # "open"
     /\ UNCHANGED trade

\* A proposed trail; a call the broker refuses returns and changes nothing.
Trail(level) ==
  /\ At("tick", "idle")
  /\ position # 0 /\ stopRef # 0 /\ trailing # 0
  /\ Raises(level)
  /\ ModifyStop(stopRef, level)
  /\ Reads("tick", stopRef)
  /\ aim' = [aim EXCEPT !["tick"] = level]
  /\ GoTo("tick", "trailing")
  /\ UNCHANGED <<engine, bounds, history>>

\* Back from the call: trailing_sl, then the dict that is the position by now.
TrailWrite ==
  /\ At("tick", "trailing")
  /\ trailing' = aim["tick"]
  /\ trade' = IF position = 0 THEN trade
              ELSE [trade EXCEPT ![position].trigger = aim["tick"]]
  /\ GoTo("tick", "idle")
  /\ UNCHANGED <<position, stopRef, instrument, bounds, mine, aim, history>>

ModifySl(t, level) ==
  /\ t \in Commanders
  /\ At(t, "idle")
  /\ position # 0
  /\ edits < MaxEdits /\ edits' = edits + 1
  /\ ModifyStop(position, level)
  /\ Reads(t, position)
  /\ aim' = [aim EXCEPT ![t] = level]
  /\ GoTo(t, "modifying")
  /\ UNCHANGED <<engine, entries, history>>

\* self.position = pos: the dict read before the call is written back.
ModifyWrite(t) ==
  /\ At(t, "modifying")
  /\ trade' = [trade EXCEPT ![mine[t]].trigger = aim[t]]
  /\ position' = mine[t] /\ trailing' = aim[t]
  /\ revived' = IF position = mine[t] THEN revived ELSE revived \cup {mine[t]}
  /\ GoTo(t, "idle")
  /\ UNCHANGED <<stopRef, instrument, bounds, mine, aim,
                 sold, answered, unheard, missold>>

\* The call raises although the broker took the trigger: nothing is written.
ModifyUnheard(t) ==
  /\ At(t, "trailing") \/ At(t, "modifying")
  /\ ~Paper
  /\ unheard' = unheard \cup {mine[t]}
  /\ GoTo(t, "idle")
  /\ UNCHANGED <<engine, trade, bounds, mine, aim, sold, revived, answered, missold>>

-----------------------------------------------------------------------------
(* The instrument: _check_direction and _check_itm_depth, which look for a *)
(* position first and select afterwards.                                   *)

LookBeforeSelect(t) ==
  /\ t \in {"flip", "candle"}
  /\ At(t, "idle")
  /\ position = 0
  /\ GoTo(t, "select")
  /\ UNCHANGED <<engine, trade, bounds, mine, aim, history>>

\* get_itm_instrument; it may also fail, and the instrument stays.
Select(t, k) ==
  /\ At(t, "select")
  /\ instrument' = k
  /\ GoTo(t, "idle")
  /\ UNCHANGED <<position, stopRef, trailing, trade, bounds, mine, aim, history>>

-----------------------------------------------------------------------------
(* The broker (external): it fills or rejects what it accepted.            *)

BrokerBuy(e, outcome) ==
  /\ ~Paper
  /\ trade[e].buy = "open"
  /\ trade' = [trade EXCEPT ![e].buy = outcome]
  /\ UNCHANGED <<engine, bounds, thread, history>>

BrokerStop(e, outcome) ==
  /\ ~Paper
  /\ trade[e].stop = "open"
  /\ trade' = [trade EXCEPT ![e].stop = outcome]
  /\ UNCHANGED <<engine, bounds, thread, history>>

-----------------------------------------------------------------------------
EntryStep(t) ==
  \/ Enter(t)
  \/ \E taken, told \in BOOLEAN :
       \/ PlaceBuy(t, taken, told)
       \/ \E level \in Levels : PlaceStop(t, level, taken, told)
  \/ GiveUp(t)
  \/ StopVerified(t) \/ StopUnverified(t)
  \/ \E key \in Keys : TakePosition(t, key)
  \/ EmergencySell(t)

ExitStep(t) ==
  \/ Squareoff(t)
  \/ SellAccepted(t) \/ SellRejected(t) \/ SellUnheard(t)
  \/ RecordExit(t) \/ ClearPosition(t)

Next ==
  \/ \E t \in Threads :
       \/ EntryStep(t) \/ ExitStep(t)
       \/ \E level \in Levels : ModifySl(t, level)
       \/ ModifyWrite(t) \/ ModifyUnheard(t)
       \/ LookBeforeSelect(t)
       \/ \E k \in Keys : Select(t, k)
  \/ BookProfit \/ FlipExit \/ StopFilled
  \/ \E level \in Levels : Trail(level)
  \/ TrailWrite
  \/ \E e \in Entries, outcome \in {"complete", "rejected"} :
       BrokerBuy(e, outcome) \/ BrokerStop(e, outcome)

Spec == Init /\ [][Next]_vars

-----------------------------------------------------------------------------
Orders == {"none", "open", "complete", "rejected", "cancelled"}
Trades == [buy : Orders, stop : Orders, key : Keys,
           stopAt : Levels \cup {0}, trigger : Levels \cup {0}]
Places == {"idle", "entering", "bought", "placed", "verified", "exposed",
           "cancelled", "sold", "recorded", "trailing", "modifying", "select"}

TypeOK ==
  /\ position \in 0..MaxEntries /\ stopRef \in 0..MaxEntries
  /\ trailing \in Levels \cup {0}
  /\ instrument \in Keys
  /\ trade \in [Entries -> Trades]
  /\ entries \in 0..MaxEntries /\ edits \in 0..MaxEdits
  /\ pc \in [Threads -> Places]
  /\ mine \in [Threads -> 0..MaxEntries]
  /\ aim \in [Threads -> Levels \cup {0}]
  /\ sold \in [Entries -> [Threads -> 0..2]]
  /\ revived \subseteq Entries /\ answered \subseteq Entries
  /\ unheard \subseteq Entries /\ missold \subseteq Entries

(***************************************************************************)
(* Whatever the threads do to each other, the engine never manages a       *)
(* position whose BUY was not filled or whose stop the broker never took.  *)
(***************************************************************************)
EntryConfirmed ==
  position # 0 => trade[position].buy = "complete" /\ trade[position].stop # "none"

(***************************************************************************)
(* How often one position can be sold: several exit paths may each sell    *)
(* what they read before the others cleared it, but no path sells the same *)
(* position twice, unless a stop modification wrote it back or the answer  *)
(* to a SELL was lost.                                                     *)
(***************************************************************************)
SoldOncePerPath ==
  \A e \in Entries, t \in Threads : sold[e][t] <= 1 \/ e \in revived \cup unheard

(***************************************************************************)
(* The tick thread of a paper engine ends a position once, by its stop or  *)
(* by a SELL, whatever other paths do meanwhile.                           *)
(***************************************************************************)
OneExitPerEntry ==
  Paper /\ "tick" \in Threads =>
    \A e \in Entries :
      sold[e]["tick"] + (IF trade[e].stop = "complete" THEN 1 ELSE 0) <= 1 \/ e \in revived

(***************************************************************************)
(* A position whose stop was cancelled is being exited: a rejected SELL, a *)
(* flip or an approval that replaces it never leaves it open without one.  *)
(* Only a square-off gives up a rejected SELL (it was answered all the     *)
(* same), and a modification may write a sold position back.               *)
(***************************************************************************)
Covered ==
  position # 0 /\ trade[position].stop = "cancelled" =>
    \/ \E t \in Threads : mine[t] = position /\ pc[t] \in {"cancelled", "sold", "recorded"}
    \/ position \in answered \cup revived

(***************************************************************************)
(* Without commands and approvals, _maybe_trail only ever raises a stop,   *)
(* also when a flip ends the position while the modification is under way; *)
(* but the engine must have heard of the trigger it raises.                *)
(***************************************************************************)
StopOnlyRises ==
  [][\A e \in Entries : trade'[e].stopAt >= trade[e].stopAt \/ e \in unheard]_vars

(***************************************************************************)
(* What a square-off reports (Telegram: "Square Off Done", "SL cancelled + *)
(* Market exit"; the worker: closed): the position was sold.               *)
(***************************************************************************)
SquareoffTrue == \A e \in answered : \E t \in Threads : sold[e][t] > 0

(***************************************************************************)
(* What _book_profit says it does: "Cancel SL (frees margin) then market   *)
(* exit", an exit of the position's own instrument.                        *)
(***************************************************************************)
ExitsItsInstrument == missold = {}
=============================================================================
