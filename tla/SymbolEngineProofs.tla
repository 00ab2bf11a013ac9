------------------------ MODULE SymbolEngineProofs ------------------------
(***************************************************************************)
(* Proofs about SymbolEngine for a paper or a live engine, any of its      *)
(* threads, and any number of instruments, triggers, entries and edits.    *)
(***************************************************************************)
EXTENDS SymbolEngine, TLAPS

(***************************************************************************)
(* An entry under way belongs to one thread, and nobody has read or sold   *)
(* it; entries not yet tried are untouched.                                *)
(***************************************************************************)
EntryPlaces == {"entering", "bought", "placed", "verified", "exposed"}

MineInv ==
  /\ position <= entries /\ stopRef <= entries
  /\ \A t \in Threads :
       /\ mine[t] <= entries
       /\ pc[t] \notin {"idle", "select"} => mine[t] # 0

LaterInv ==
  \A e \in Entries : e > entries =>
    trade[e].buy = "none" /\ \A t \in Threads : sold[e][t] = 0

FreshInv ==
  \A t \in Threads : pc[t] \in EntryPlaces =>
    /\ mine[t] # position /\ mine[t] # stopRef
    /\ pc[t] = "entering" => trade[mine[t]].buy = "none"
    /\ \A u \in Threads : sold[mine[t]][u] = 0 /\ (u # t => mine[u] # mine[t])

(***************************************************************************)
(* EntryConfirmed alone is not inductive: an entry whose stop was answered *)
(* will become the position, and a modification under way will write the   *)
(* position it has read back.                                              *)
(***************************************************************************)
Confirmed(e) == trade[e].buy = "complete" /\ trade[e].stop # "none"

ConfirmedInv ==
  /\ position # 0 => Confirmed(position)
  /\ \A t \in Threads : pc[t] \in {"placed", "verified", "modifying"} => Confirmed(mine[t])

(***************************************************************************)
(* A path that has sold a position still holds it, or the position is gone *)
(* for that path; so what it reads to exit, it has not sold.               *)
(***************************************************************************)
SoldInv ==
  \A e \in Entries, t \in Threads : e \notin revived \cup unheard =>
    /\ sold[e][t] <= 1
    /\ sold[e][t] # 0 => position # e \/ (pc[t] \in {"sold", "recorded"} /\ mine[t] = e)
    /\ pc[t] = "cancelled" /\ mine[t] = e => sold[e][t] = 0

EngineInv == TypeOK /\ MineInv /\ LaterInv /\ FreshInv /\ ConfirmedInv /\ SoldInv

-----------------------------------------------------------------------------
(* Type correctness. *)

LEMMA EngineInitTypes == ASSUME EngineAssumption, Init PROVE TypeOK
<1>1. NoTrade(instrument) \in Trades
  BY DEF Init, NoTrade, Trades, Orders, EngineAssumption
<1>2. trade \in [Entries -> Trades]
  BY <1>1 DEF Init
<1>3. pc \in [Threads -> Places] /\ mine \in [Threads -> 0..MaxEntries] /\ aim \in [Threads -> Levels \cup {0}]
  BY DEF Init, Places, EngineAssumption
<1>4. sold \in [Entries -> [Threads -> 0..2]]
  BY DEF Init
<1>5. QED
  BY <1>2, <1>3, <1>4 DEF Init, TypeOK, EngineAssumption

\* A thread that goes or reads leaves the two tables well typed.
LEMMA ThreadTypes ==
  ASSUME TypeOK, NEW t \in Threads, NEW p \in Places, NEW e \in 0..MaxEntries, NEW l \in Levels \cup {0}
  PROVE  /\ GoTo(t, p) => pc' \in [Threads -> Places]
         /\ Reads(t, e) => mine' \in [Threads -> 0..MaxEntries]
         /\ aim' = [aim EXCEPT ![t] = l] => aim' \in [Threads -> Levels \cup {0}]
BY DEF TypeOK, GoTo, Reads

\* Changing an entry's fields leaves it well typed.
LEMMA TradeTypes ==
  ASSUME TypeOK, NEW e \in Entries, NEW o \in Orders, NEW k \in Keys, NEW l \in Levels \cup {0}
  PROVE  /\ [trade EXCEPT ![e].buy = o] \in [Entries -> Trades]
         /\ [trade EXCEPT ![e].stop = o] \in [Entries -> Trades]
         /\ [trade EXCEPT ![e].stopAt = l] \in [Entries -> Trades]
         /\ [trade EXCEPT ![e].trigger = l] \in [Entries -> Trades]
         /\ [trade EXCEPT ![e].key = k] \in [Entries -> Trades]
         /\ [trade EXCEPT ![e].buy = o, ![e].key = k] \in [Entries -> Trades]
         /\ [trade EXCEPT ![e].stop = o, ![e].stopAt = l, ![e].trigger = l] \in [Entries -> Trades]
<1>1. trade \in [Entries -> Trades] /\ trade[e] \in Trades
  BY DEF TypeOK
<1>2. /\ [trade[e] EXCEPT !.buy = o] \in Trades /\ [trade[e] EXCEPT !.stop = o] \in Trades
      /\ [trade[e] EXCEPT !.stopAt = l] \in Trades /\ [trade[e] EXCEPT !.trigger = l] \in Trades
      /\ [trade[e] EXCEPT !.key = k] \in Trades
  BY <1>1 DEF Trades
<1>3. [trade[e] EXCEPT !.buy = o, !.key = k] \in Trades
  BY <1>1 DEF Trades
<1>4. [trade[e] EXCEPT !.stop = o, !.stopAt = l, !.trigger = l] \in Trades
  BY <1>1, Zenon DEF Trades
<1>5. [trade EXCEPT ![e].buy = o] \in [Entries -> Trades]
  BY <1>1, <1>2
<1>6. [trade EXCEPT ![e].stop = o] \in [Entries -> Trades]
  BY <1>1, <1>2
<1>7. [trade EXCEPT ![e].stopAt = l] \in [Entries -> Trades]
  BY <1>1, <1>2
<1>8. [trade EXCEPT ![e].trigger = l] \in [Entries -> Trades]
  BY <1>1, <1>2
<1>9. [trade EXCEPT ![e].key = k] \in [Entries -> Trades]
  BY <1>1, <1>2
<1>10. [trade EXCEPT ![e].buy = o, ![e].key = k] \in [Entries -> Trades]
  BY <1>1, <1>3
<1>11. [trade EXCEPT ![e].stop = o, ![e].stopAt = l, ![e].trigger = l] \in [Entries -> Trades]
  BY <1>1, <1>4
<1>12. QED
  BY <1>5, <1>6, <1>7, <1>8, <1>9, <1>10, <1>11

\* An order's new status alone.
LEMMA OrderTypes ==
  ASSUME TypeOK, NEW e \in Entries, NEW o \in Orders
  PROVE  /\ [trade EXCEPT ![e].buy = o] \in [Entries -> Trades]
         /\ [trade EXCEPT ![e].stop = o] \in [Entries -> Trades]
<1>1. instrument \in Keys /\ 0 \in Levels \cup {0}
  BY DEF TypeOK
<1>2. QED
  BY <1>1, TradeTypes, Zenon

\* A thread that is not idle or about to select holds one of the entries.
LEMMA Holds ==
  ASSUME EngineAssumption, TypeOK, MineInv, NEW t \in Threads, pc[t] \notin {"idle", "select"}
  PROVE  mine[t] \in Entries /\ mine[t] <= entries
BY DEF EngineAssumption, TypeOK, MineInv, Entries

\* The same in the shape of the groups of variables.
EngineOK  == /\ position \in 0..MaxEntries /\ stopRef \in 0..MaxEntries
             /\ trailing \in Levels \cup {0} /\ instrument \in Keys
TradeOK   == trade \in [Entries -> Trades]
BoundsOK  == entries \in 0..MaxEntries /\ edits \in 0..MaxEdits
ThreadOK  == /\ pc \in [Threads -> Places] /\ mine \in [Threads -> 0..MaxEntries]
             /\ aim \in [Threads -> Levels \cup {0}]
SalesOK   == sold \in [Entries -> [Threads -> 0..2]]
ClaimsOK  == /\ revived \subseteq Entries /\ answered \subseteq Entries
             /\ unheard \subseteq Entries /\ missold \subseteq Entries

LEMMA TypeGroups ==
  /\ TypeOK <=> EngineOK /\ TradeOK /\ BoundsOK /\ ThreadOK /\ SalesOK /\ ClaimsOK
  /\ TypeOK' <=> EngineOK' /\ TradeOK' /\ BoundsOK' /\ ThreadOK' /\ SalesOK' /\ ClaimsOK'
BY DEF TypeOK, EngineOK, TradeOK, BoundsOK, ThreadOK, SalesOK, ClaimsOK

\* A group that is left alone stays well typed.
LEMMA TypesKept ==
  ASSUME TypeOK
  PROVE  /\ UNCHANGED engine => EngineOK'
         /\ UNCHANGED trade => TradeOK'
         /\ UNCHANGED bounds => BoundsOK'
         /\ UNCHANGED thread => ThreadOK'
         /\ UNCHANGED sold => SalesOK'
         /\ UNCHANGED <<revived, answered, unheard, missold>> => ClaimsOK'
BY DEF TypeOK, engine, bounds, thread, EngineOK, TradeOK, BoundsOK, ThreadOK, SalesOK, ClaimsOK

LEMMA ThreadKept ==
  ASSUME TypeOK, NEW t \in Threads, NEW p \in Places, GoTo(t, p), UNCHANGED aim,
         UNCHANGED mine \/ \E e \in 0..MaxEntries : Reads(t, e)
  PROVE  ThreadOK'
BY ThreadTypes DEF TypeOK, ThreadOK, GoTo, Reads

LEMMA SaleTypes ==
  ASSUME TypeOK, NEW t \in Threads, mine[t] \in Entries, Sells(t)
  PROVE  /\ SalesOK'
         /\ missold' \subseteq Entries
         /\ \A e \in Entries, u \in Threads : <<e, u>> # <<mine[t], t>> => sold'[e][u] = sold[e][u]
         /\ sold[mine[t]][t] = 0 => sold'[mine[t]][t] = 1
<1>1. sold \in [Entries -> [Threads -> 0..2]] /\ sold[mine[t]] \in [Threads -> 0..2]
  BY DEF TypeOK
<1>2. sold' = [sold EXCEPT ![mine[t]][t] = IF @ < 2 THEN @ + 1 ELSE @]
  BY DEF Sells
<1>3. [sold[mine[t]] EXCEPT ![t] = IF @ < 2 THEN @ + 1 ELSE @] \in [Threads -> 0..2]
  BY <1>1
<1>4. SalesOK'
  BY <1>1, <1>2, <1>3 DEF SalesOK
<1>5. missold' \subseteq Entries
  BY DEF Sells, TypeOK
<1>6. \A e \in Entries, u \in Threads : <<e, u>> # <<mine[t], t>> => sold'[e][u] = sold[e][u]
  BY <1>1, <1>2
<1>7. sold[mine[t]][t] = 0 => sold'[mine[t]][t] = 1
  BY <1>1, <1>2
<1>8. QED
  BY <1>4, <1>5, <1>6, <1>7

(***************************************************************************)
(* The steps of an entry between Enter and TakePosition that place nothing *)
(* and sell nothing.                                                       *)
(***************************************************************************)
Waits(t) == GiveUp(t) \/ StopVerified(t) \/ StopUnverified(t)

\* Every step of an entry is of one of these kinds.
LEMMA EntryKinds ==
  ASSUME NEW t \in Threads, EntryStep(t)
  PROVE  \/ Enter(t)
         \/ \E taken, told \in BOOLEAN : PlaceBuy(t, taken, told)
         \/ \E taken, told \in BOOLEAN, level \in Levels : PlaceStop(t, level, taken, told)
         \/ Waits(t)
         \/ \E key \in Keys : TakePosition(t, key)
         \/ EmergencySell(t)
BY DEF EntryStep, Waits

\* What the answer to a stop order makes of the entry.
LEMMA AfterStopPlaces ==
  ASSUME NEW t, NEW told \in BOOLEAN
  PROVE  AfterStop(t, told) \in {"placed", "verified", "exposed"}
BY DEF AfterStop

LEMMA EntryTypes ==
  ASSUME EngineAssumption, TypeOK, MineInv, NEW t \in Threads, EntryStep(t)
  PROVE  TypeOK'
<1>0. /\ {"idle", "entering", "bought", "placed", "verified", "exposed"} \subseteq Places
      /\ {"none", "open", "complete", "rejected", "cancelled"} \subseteq Orders
      /\ Levels \subseteq Levels \cup {0}
      /\ instrument \in Keys /\ trade \in [Entries -> Trades]
  BY DEF Places, Orders, TypeOK
<1>1. CASE Enter(t)
  <2>1. entries' \in 0..MaxEntries /\ UNCHANGED edits
    BY <1>1 DEF Enter, TypeOK, EngineAssumption
  <2>2. BoundsOK'
    BY <2>1 DEF BoundsOK, TypeOK
  <2>3. ThreadOK'
    BY <1>0, <1>1, <2>1, ThreadKept DEF Enter
  <2>4. QED
    BY <1>1, <2>2, <2>3, TypesKept, TypeGroups DEF Enter, history
<1>2. ASSUME NEW taken \in BOOLEAN, NEW told \in BOOLEAN, PlaceBuy(t, taken, told) PROVE TypeOK'
  <2>1. mine[t] \in Entries
    BY <1>2, Holds DEF PlaceBuy, At
  <2> DEFINE outcome == IF ~taken THEN "rejected" ELSE IF Paper THEN "complete" ELSE "open"
  <2>2. outcome \in Orders /\ trade' = [trade EXCEPT ![mine[t]].buy = outcome, ![mine[t]].key = instrument]
    BY <1>0, <1>2 DEF PlaceBuy
  <2>3. TradeOK'
    BY <1>0, <2>1, <2>2, TradeTypes DEF TradeOK
  <2>4. ThreadOK'
    BY <1>0, <1>2, ThreadKept DEF PlaceBuy
  <2>5. QED
    BY <1>2, <2>3, <2>4, TypesKept, TypeGroups DEF PlaceBuy, history
<1>3. ASSUME NEW taken \in BOOLEAN, NEW told \in BOOLEAN, NEW level \in Levels,
             PlaceStop(t, level, taken, told)
      PROVE  TypeOK'
  <2>1. mine[t] \in Entries
    BY <1>3, Holds DEF PlaceStop, At
  <2>2. [trade EXCEPT ![mine[t]].stop = "open", ![mine[t]].stopAt = level, ![mine[t]].trigger = level]
          \in [Entries -> Trades]
    BY <1>0, <2>1, TradeTypes
  <2>3. TradeOK'
    BY <1>0, <1>3, <2>2 DEF PlaceStop, TradeOK
  <2>4. AfterStop(t, told) \in Places
    BY <1>0, AfterStopPlaces
  <2>5. ThreadOK'
    BY <1>3, <2>4, ThreadKept DEF PlaceStop
  <2>6. QED
    BY <1>3, <2>3, <2>5, TypesKept, TypeGroups DEF PlaceStop, history
<1>4. CASE Waits(t)
  <2>1. ThreadOK'
    BY <1>0, <1>4, ThreadKept DEF Waits, GiveUp, StopVerified, StopUnverified
  <2>2. QED
    BY <1>4, <2>1, TypesKept, TypeGroups DEF Waits, GiveUp, StopVerified, StopUnverified, history
<1>5. ASSUME NEW key \in Keys, TakePosition(t, key) PROVE TypeOK'
  <2>1. mine[t] \in Entries /\ trade[mine[t]] \in Trades
    BY <1>0, <1>5, Holds DEF TakePosition, At
  <2>2. 0 \in Levels \cup {0} /\ "none" \in Orders
    BY <1>0
  <2>3. [trade EXCEPT ![mine[t]].key = key] \in [Entries -> Trades]
    BY <2>1, <2>2, TradeTypes
  <2>4. TradeOK'
    BY <1>5, <2>3 DEF TakePosition, TradeOK
  <2>5. EngineOK'
    BY <1>5, <2>1 DEF TakePosition, EngineOK, TypeOK, Entries, Trades
  <2>6. ThreadOK'
    BY <1>0, <1>5, ThreadKept DEF TakePosition
  <2>7. QED
    BY <1>5, <2>4, <2>5, <2>6, TypesKept, TypeGroups DEF TakePosition, history
<1>6. CASE EmergencySell(t)
  <2>1. mine[t] \in Entries
    BY <1>6, Holds DEF EmergencySell, At
  <2>2. SalesOK' /\ missold' \subseteq Entries
    BY <1>6, <2>1, SaleTypes, TypesKept DEF EmergencySell, TypeOK
  <2>3. ThreadOK'
    BY <1>0, <1>6, ThreadKept DEF EmergencySell
  <2>4. ClaimsOK'
    BY <1>6, <2>2 DEF EmergencySell, ClaimsOK, TypeOK
  <2>5. QED
    BY <1>6, <2>2, <2>3, <2>4, TypesKept, TypeGroups DEF EmergencySell
<1>7. QED
  BY <1>1, <1>2, <1>3, <1>4, <1>5, <1>6, EntryKinds

LEMMA CancelTypes ==
  ASSUME EngineAssumption, TypeOK, NEW t \in Threads, NEW e \in Entries, CancelStop(t, e)
  PROVE  TypeOK'
<1>0. {"cancelled"} \subseteq Places \cap Orders /\ e \in 0..MaxEntries
  BY DEF Places, Orders, Entries
<1>1. TradeOK'
  <2>1. [trade EXCEPT ![e].stop = "cancelled"] \in [Entries -> Trades]
    BY <1>0, OrderTypes
  <2>2. QED
    BY <2>1 DEF CancelStop, TradeOK, TypeOK
<1>2. ThreadOK'
  BY <1>0, ThreadKept DEF CancelStop
<1>3. QED
  BY <1>1, <1>2, TypesKept, TypeGroups DEF CancelStop, history

\* Every exit that begins by cancelling the stop reads the position.
CancelsPosition ==
  \E t \in Threads : At(t, "idle") /\ position # 0 /\ CancelStop(t, position)

LEMMA CancelShape ==
  ASSUME BookProfit \/ FlipExit \/ \E t \in Threads : Squareoff(t)
  PROVE  CancelsPosition
BY DEF BookProfit, FlipExit, Squareoff, CancelsPosition, At

\* Then it sells, records and clears.
AfterCancel(t) ==
  SellAccepted(t) \/ SellRejected(t) \/ SellUnheard(t) \/ RecordExit(t) \/ ClearPosition(t)

\* Its place is one of these, before and after.
LEMMA ExitPlaces ==
  ASSUME NEW t \in Threads, AfterCancel(t)
  PROVE  /\ pc[t] \in {"cancelled", "sold", "recorded"}
         /\ \E p \in {"idle", "sold", "recorded", "select"} : pc' = [pc EXCEPT ![t] = p]
         /\ UNCHANGED <<mine, aim, trade, bounds, revived>>
BY DEF AfterCancel, SellAccepted, SellRejected, SellUnheard, GivesUp, RecordExit, ClearPosition,
       At, GoTo, history

LEMMA ExitTypes ==
  ASSUME EngineAssumption, TypeOK, MineInv, NEW t \in Threads, AfterCancel(t)
  PROVE  TypeOK'
<1>0. {"idle", "sold", "recorded", "select"} \subseteq Places
  BY DEF Places
<1>1. mine[t] \in Entries
  BY Holds, ExitPlaces
<1>2. ThreadOK' /\ UNCHANGED <<trade, bounds>>
  BY <1>0, ExitPlaces DEF ThreadOK, TypeOK
<1>3. CASE SellAccepted(t)
  <2>1. SalesOK' /\ missold' \subseteq Entries
    BY <1>1, <1>3, SaleTypes DEF SellAccepted
  <2>2. ClaimsOK'
    BY <1>3, <2>1 DEF SellAccepted, ClaimsOK, TypeOK
  <2>3. QED
    BY <1>2, <1>3, <2>1, <2>2, TypesKept, TypeGroups DEF SellAccepted
<1>4. CASE SellRejected(t)
  <2>1. ClaimsOK'
    BY <1>1, <1>4 DEF SellRejected, GivesUp, ClaimsOK, TypeOK
  <2>2. QED
    BY <1>2, <1>4, <2>1, TypesKept, TypeGroups DEF SellRejected
<1>5. CASE SellUnheard(t)
  <2>1. SalesOK' /\ missold' \subseteq Entries
    BY <1>1, <1>5, SaleTypes DEF SellUnheard
  <2>2. ClaimsOK'
    BY <1>1, <1>5, <2>1 DEF SellUnheard, GivesUp, ClaimsOK, TypeOK
  <2>3. QED
    BY <1>2, <1>5, <2>1, <2>2, TypesKept, TypeGroups DEF SellUnheard
<1>6. CASE RecordExit(t)
  BY <1>2, <1>6, TypesKept, TypeGroups DEF RecordExit, history
<1>7. CASE ClearPosition(t)
  <2>1. EngineOK'
    BY <1>7 DEF ClearPosition, EngineOK, TypeOK, EngineAssumption
  <2>2. ClaimsOK'
    BY <1>1, <1>7 DEF ClearPosition, ClaimsOK, TypeOK
  <2>3. QED
    BY <1>2, <1>7, <2>1, <2>2, TypesKept, TypeGroups DEF ClearPosition
<1>8. QED
  BY <1>3, <1>4, <1>5, <1>6, <1>7 DEF AfterCancel

LEMMA StopTypes ==
  ASSUME TypeOK, NEW e \in Entries, NEW level \in Levels, ModifyStop(e, level)
  PROVE  TradeOK'
<1>1. [trade EXCEPT ![e].stopAt = level] \in [Entries -> Trades]
  <2>1. level \in Levels \cup {0} /\ trade \in [Entries -> Trades] /\ trade[e] \in Trades
    BY DEF TypeOK
  <2>2. [trade[e] EXCEPT !.stopAt = level] \in Trades
    BY <2>1 DEF Trades
  <2>3. QED
    BY <2>1, <2>2
<1>2. QED
  BY <1>1 DEF ModifyStop, TradeOK, TypeOK

LEMMA TriggerTypes ==
  ASSUME TypeOK, NEW e \in Entries, NEW level \in Levels \cup {0}
  PROVE  [trade EXCEPT ![e].trigger = level] \in [Entries -> Trades]
<1>1. trade \in [Entries -> Trades] /\ trade[e] \in Trades
  BY DEF TypeOK
<1>2. [trade[e] EXCEPT !.trigger = level] \in Trades
  BY <1>1 DEF Trades
<1>3. QED
  BY <1>1, <1>2

LEMMA TickTypes ==
  ASSUME EngineAssumption, TypeOK, MineInv,
         StopFilled \/ (\E level \in Levels : Trail(level)) \/ TrailWrite
  PROVE  TypeOK'
<1>0. /\ {"idle", "sold", "trailing"} \subseteq Places /\ "complete" \in Orders
      /\ position \in 0..MaxEntries /\ (position # 0 => position \in Entries)
      /\ stopRef \in 0..MaxEntries /\ (stopRef # 0 => stopRef \in Entries)
      /\ trade \in [Entries -> Trades]
  BY DEF Places, Orders, TypeOK, Entries, EngineAssumption
<1>1. CASE StopFilled
  <2>1. "tick" \in Threads /\ position \in Entries
    BY <1>0, <1>1 DEF StopFilled, At
  <2>2. TradeOK'
    BY <1>0, <1>1, <2>1, OrderTypes DEF StopFilled, TradeOK
  <2>3. ThreadOK'
    BY <1>0, <1>1, <2>1, ThreadKept DEF StopFilled
  <2>4. QED
    BY <1>1, <2>2, <2>3, TypesKept, TypeGroups DEF StopFilled, history
<1>2. ASSUME NEW level \in Levels, Trail(level) PROVE TypeOK'
  <2>1. "tick" \in Threads /\ stopRef \in Entries /\ level \in Levels \cup {0}
    BY <1>0, <1>2 DEF Trail, At
  <2>2. TradeOK'
    BY <1>2, <2>1, StopTypes DEF Trail
  <2>3. ThreadOK'
    BY <1>0, <1>2, <2>1, ThreadTypes DEF Trail, ThreadOK
  <2>4. QED
    BY <1>2, <2>2, <2>3, TypesKept, TypeGroups DEF Trail, history
<1>3. CASE TrailWrite
  <2>1. "tick" \in Threads /\ aim["tick"] \in Levels \cup {0}
    BY <1>3 DEF TrailWrite, At, TypeOK
  <2>2. TradeOK'
    BY <1>0, <1>3, <2>1, TriggerTypes DEF TrailWrite, TradeOK
  <2>3. EngineOK'
    BY <1>3, <2>1 DEF TrailWrite, EngineOK, TypeOK
  <2>4. ThreadOK'
    BY <1>0, <1>3, <2>1, ThreadKept DEF TrailWrite
  <2>5. QED
    BY <1>3, <2>2, <2>3, <2>4, TypesKept, TypeGroups DEF TrailWrite, history
<1>4. QED
  BY <1>1, <1>2, <1>3

LEMMA CommandTypes ==
  ASSUME EngineAssumption, TypeOK, MineInv, NEW t \in Threads,
         (\E level \in Levels : ModifySl(t, level)) \/ ModifyWrite(t) \/ ModifyUnheard(t)
  PROVE  TypeOK'
<1>0. {"idle", "modifying"} \subseteq Places
  BY DEF Places
<1>1. ASSUME NEW level \in Levels, ModifySl(t, level) PROVE TypeOK'
  <2>1. position \in Entries /\ position \in 0..MaxEntries /\ level \in Levels \cup {0}
    BY <1>1 DEF ModifySl, TypeOK, Entries, EngineAssumption
  <2>2. TradeOK'
    BY <1>1, <2>1, StopTypes DEF ModifySl
  <2>3. ThreadOK'
    BY <1>0, <1>1, <2>1, ThreadTypes DEF ModifySl, ThreadOK
  <2>4. BoundsOK'
    BY <1>1 DEF ModifySl, BoundsOK, TypeOK, EngineAssumption
  <2>5. QED
    BY <1>1, <2>2, <2>3, <2>4, TypesKept, TypeGroups DEF ModifySl, history
<1>2. CASE ModifyWrite(t)
  <2>1. mine[t] \in Entries /\ aim[t] \in Levels \cup {0}
    BY <1>2, Holds DEF ModifyWrite, At, TypeOK
  <2>2. TradeOK'
    BY <1>2, <2>1, TriggerTypes DEF ModifyWrite, TradeOK
  <2>3. EngineOK'
    BY <1>2, <2>1 DEF ModifyWrite, EngineOK, TypeOK, Entries
  <2>4. ClaimsOK'
    BY <1>2, <2>1 DEF ModifyWrite, ClaimsOK, TypeOK
  <2>5. ThreadOK'
    BY <1>0, <1>2, ThreadKept DEF ModifyWrite
  <2>6. QED
    BY <1>2, <2>2, <2>3, <2>4, <2>5, TypesKept, TypeGroups DEF ModifyWrite
<1>3. CASE ModifyUnheard(t)
  <2>1. mine[t] \in Entries
    BY <1>3, Holds DEF ModifyUnheard, At
  <2>2. ClaimsOK'
    BY <1>3, <2>1 DEF ModifyUnheard, ClaimsOK, TypeOK
  <2>3. ThreadOK'
    BY <1>0, <1>3, ThreadKept DEF ModifyUnheard
  <2>4. QED
    BY <1>3, <2>2, <2>3, TypesKept, TypeGroups DEF ModifyUnheard
<1>4. QED
  BY <1>1, <1>2, <1>3

LEMMA SelectTypes ==
  ASSUME EngineAssumption, TypeOK, NEW t \in Threads,
         LookBeforeSelect(t) \/ \E k \in Keys : Select(t, k)
  PROVE  TypeOK'
<1>0. {"idle", "select"} \subseteq Places
  BY DEF Places
<1>1. CASE LookBeforeSelect(t)
  <2>1. ThreadOK'
    BY <1>0, <1>1, ThreadKept DEF LookBeforeSelect
  <2>2. QED
    BY <1>1, <2>1, TypesKept, TypeGroups DEF LookBeforeSelect, history
<1>2. ASSUME NEW k \in Keys, Select(t, k) PROVE TypeOK'
  <2>1. ThreadOK'
    BY <1>0, <1>2, ThreadKept DEF Select
  <2>2. EngineOK'
    BY <1>2 DEF Select, EngineOK, TypeOK
  <2>3. QED
    BY <1>2, <2>1, <2>2, TypesKept, TypeGroups DEF Select, history
<1>3. QED
  BY <1>1, <1>2

BrokerStep ==
  \E e \in Entries, outcome \in {"complete", "rejected"} :
    BrokerBuy(e, outcome) \/ BrokerStop(e, outcome)

LEMMA BrokerTypes ==
  ASSUME EngineAssumption, TypeOK, BrokerStep
  PROVE  TypeOK'
<1>1. PICK e \in Entries, outcome \in {"complete", "rejected"} :
        BrokerBuy(e, outcome) \/ BrokerStop(e, outcome)
  BY DEF BrokerStep
<1>2. outcome \in Orders
  BY DEF Orders
<1>3. TradeOK'
  <2>1. /\ [trade EXCEPT ![e].buy = outcome] \in [Entries -> Trades]
        /\ [trade EXCEPT ![e].stop = outcome] \in [Entries -> Trades]
    BY <1>2, OrderTypes
  <2>2. QED
    BY <1>1, <2>1 DEF BrokerBuy, BrokerStop, TradeOK
<1>4. QED
  BY <1>1, <1>3, TypesKept, TypeGroups DEF BrokerBuy, BrokerStop, history

(***************************************************************************)
(* Every step is of one of these kinds; the invariants go through them.    *)
(***************************************************************************)
TickStep == StopFilled \/ (\E level \in Levels : Trail(level)) \/ TrailWrite
CommandStep(t) ==
  (\E level \in Levels : ModifySl(t, level)) \/ ModifyWrite(t) \/ ModifyUnheard(t)
SelectStep(t)  == LookBeforeSelect(t) \/ \E k \in Keys : Select(t, k)

LEMMA StepKinds ==
  ASSUME [Next]_vars
  PROVE  \/ UNCHANGED vars
         \/ CancelsPosition
         \/ \E t \in Threads : EntryStep(t) \/ AfterCancel(t) \/ CommandStep(t) \/ SelectStep(t)
         \/ TickStep
         \/ BrokerStep
BY CancelShape DEF Next, ExitStep, AfterCancel, CommandStep, SelectStep, TickStep, BrokerStep

LEMMA EngineTypes ==
  ASSUME EngineAssumption, TypeOK, MineInv, [Next]_vars
  PROVE  TypeOK'
<1>1. CASE UNCHANGED vars
  BY <1>1, TypesKept, TypeGroups DEF vars, history
<1>2. CASE CancelsPosition
  <2>1. PICK t \in Threads : At(t, "idle") /\ position # 0 /\ CancelStop(t, position)
    BY <1>2 DEF CancelsPosition
  <2>2. position \in Entries
    BY <2>1 DEF TypeOK, Entries, EngineAssumption
  <2>3. QED
    BY <2>1, <2>2, CancelTypes
<1>3. ASSUME NEW t \in Threads, EntryStep(t) \/ AfterCancel(t) \/ CommandStep(t) \/ SelectStep(t)
      PROVE  TypeOK'
  BY <1>3, EntryTypes, ExitTypes, CommandTypes, SelectTypes DEF CommandStep, SelectStep
<1>4. CASE TickStep
  BY <1>4, TickTypes DEF TickStep
<1>5. CASE BrokerStep
  BY <1>5, BrokerTypes
<1>6. QED
  BY <1>1, <1>2, <1>3, <1>4, <1>5, StepKinds

-----------------------------------------------------------------------------
(* Which entries the threads hold. *)

\* What the waiting steps of an entry do to its place.
LEMMA WaitsShape ==
  ASSUME NEW t \in Threads, Waits(t)
  PROVE  /\ pc[t] \in {"bought", "placed"}
         /\ \/ pc[t] = "bought" /\ pc' = [pc EXCEPT ![t] = "idle"]
            \/ pc[t] = "placed" /\ pc' = [pc EXCEPT ![t] = "verified"]
            \/ pc[t] = "placed" /\ pc' = [pc EXCEPT ![t] = "exposed"]
         /\ UNCHANGED <<position, stopRef, trailing, trade, entries, mine, aim, history>>
BY DEF Waits, GiveUp, StopVerified, StopUnverified, At, GoTo, engine, bounds

LEMMA MineStep ==
  ASSUME EngineAssumption, TypeOK, MineInv, [Next]_vars
  PROVE  MineInv'
<1>0. /\ position \in 0..MaxEntries /\ stopRef \in 0..MaxEntries
      /\ entries \in 0..MaxEntries /\ MaxEntries \in Nat
      /\ mine \in [Threads -> 0..MaxEntries] /\ pc \in [Threads -> Places]
  BY DEF TypeOK, EngineAssumption
<1>1. CASE UNCHANGED vars
  BY <1>1 DEF vars, engine, bounds, thread, MineInv
<1>2. CASE CancelsPosition
  BY <1>0, <1>2 DEF CancelsPosition, CancelStop, engine, bounds, MineInv, Reads, GoTo, At
<1>3. ASSUME NEW t \in Threads, EntryStep(t) PROVE MineInv'
  <2>1. CASE Enter(t)
    BY <1>0, <2>1 DEF Enter, engine, MineInv, Reads, GoTo, At
  <2>2. ASSUME NEW taken \in BOOLEAN, NEW told \in BOOLEAN, PlaceBuy(t, taken, told) PROVE MineInv'
    BY <1>0, <2>2 DEF PlaceBuy, engine, bounds, MineInv, GoTo, At
  <2>3. ASSUME NEW taken \in BOOLEAN, NEW told \in BOOLEAN, NEW level \in Levels,
               PlaceStop(t, level, taken, told)
        PROVE  MineInv'
    BY <1>0, <2>3 DEF PlaceStop, engine, bounds, MineInv, GoTo, At
  <2>4. CASE Waits(t)
    BY <1>0, <2>4, WaitsShape DEF MineInv
  <2>5. ASSUME NEW key \in Keys, TakePosition(t, key) PROVE MineInv'
    BY <1>0, <2>5 DEF TakePosition, bounds, MineInv, GoTo, At
  <2>6. CASE EmergencySell(t)
    BY <1>0, <2>6 DEF EmergencySell, engine, bounds, MineInv, GoTo, At
  <2>7. QED
    BY <1>3, <2>1, <2>2, <2>3, <2>4, <2>5, <2>6, EntryKinds
<1>4. ASSUME NEW t \in Threads, AfterCancel(t) PROVE MineInv'
  <2>1. position' \in {0, position} /\ stopRef' \in {0, stopRef}
    BY <1>4 DEF AfterCancel, SellAccepted, SellRejected, SellUnheard, RecordExit, ClearPosition, engine
  <2>2. QED
    BY <1>0, <1>4, <2>1, ExitPlaces DEF bounds, MineInv
<1>5. ASSUME NEW t \in Threads, CommandStep(t) PROVE MineInv'
  BY <1>0, <1>5 DEF CommandStep, ModifySl, ModifyWrite, ModifyUnheard, engine, bounds, MineInv, Reads, GoTo, At
<1>6. ASSUME NEW t \in Threads, SelectStep(t) PROVE MineInv'
  BY <1>0, <1>6 DEF SelectStep, LookBeforeSelect, Select, engine, bounds, MineInv, GoTo, At
<1>7. CASE TickStep
  BY <1>0, <1>7 DEF TickStep, StopFilled, Trail, TrailWrite, engine, bounds, MineInv, Reads, GoTo, At
<1>8. CASE BrokerStep
  BY <1>8 DEF BrokerStep, BrokerBuy, BrokerStop, engine, bounds, thread, MineInv
<1>9. QED
  BY <1>1, <1>2, <1>3, <1>4, <1>5, <1>6, <1>7, <1>8, StepKinds

-----------------------------------------------------------------------------
(* The BUYs of the entries: only placing one, or the broker, changes them. *)

LEMMA BuysKept ==
  ASSUME TypeOK, NEW t \in Threads
  PROVE  /\ \A e \in Entries : CancelStop(t, e) => \A f \in Entries : trade'[f].buy = trade[f].buy
         /\ \A l \in Levels, taken, told \in BOOLEAN :
              PlaceStop(t, l, taken, told) => \A f \in Entries : trade'[f].buy = trade[f].buy
         /\ \A k \in Keys : TakePosition(t, k) => \A f \in Entries : trade'[f].buy = trade[f].buy
         /\ CommandStep(t) => \A f \in Entries : trade'[f].buy = trade[f].buy
         /\ TickStep => \A f \in Entries : trade'[f].buy = trade[f].buy
<1>0. trade \in [Entries -> Trades] /\ \A f \in Entries : trade[f] \in Trades
  BY DEF TypeOK
<1>1. ASSUME NEW e \in Entries, CancelStop(t, e), NEW f \in Entries
      PROVE  trade'[f].buy = trade[f].buy
  BY <1>0, <1>1 DEF CancelStop, Trades
<1>2. ASSUME NEW l \in Levels, NEW taken \in BOOLEAN, NEW told \in BOOLEAN,
             PlaceStop(t, l, taken, told), NEW f \in Entries
      PROVE  trade'[f].buy = trade[f].buy
  BY <1>0, <1>2 DEF PlaceStop, Trades
<1>2a. ASSUME NEW k \in Keys, TakePosition(t, k), NEW f \in Entries
      PROVE  trade'[f].buy = trade[f].buy
  BY <1>0, <1>2a DEF TakePosition, Trades
<1>3. ASSUME CommandStep(t), NEW f \in Entries
      PROVE  trade'[f].buy = trade[f].buy
  <2>1. ASSUME NEW level \in Levels, ModifySl(t, level) PROVE trade'[f].buy = trade[f].buy
    BY <1>0, <2>1 DEF ModifySl, ModifyStop, Trades
  <2>2. CASE ModifyWrite(t)
    BY <1>0, <2>2 DEF ModifyWrite, Trades
  <2>3. CASE ModifyUnheard(t)
    BY <2>3 DEF ModifyUnheard
  <2>4. QED
    BY <1>3, <2>1, <2>2, <2>3 DEF CommandStep
<1>4. ASSUME TickStep, NEW f \in Entries
      PROVE  trade'[f].buy = trade[f].buy
  <2>1. CASE StopFilled
    BY <1>0, <2>1 DEF StopFilled, Trades
  <2>2. ASSUME NEW level \in Levels, Trail(level) PROVE trade'[f].buy = trade[f].buy
    BY <1>0, <2>2 DEF Trail, ModifyStop, Trades
  <2>3. CASE TrailWrite
    BY <1>0, <2>3 DEF TrailWrite, Trades
  <2>4. QED
    BY <1>4, <2>1, <2>2, <2>3 DEF TickStep
<1>5. QED
  BY <1>1, <1>2, <1>2a, <1>3, <1>4

LEMMA BrokerKeeps ==
  ASSUME TypeOK, BrokerStep, NEW f \in Entries
  PROVE  /\ trade[f].buy \in {"none", "complete"} => trade'[f].buy = trade[f].buy
         /\ trade[f].stop # "none" => trade'[f].stop # "none"
<1>0. trade \in [Entries -> Trades] /\ trade[f] \in Trades
  BY DEF TypeOK
<1>1. PICK e \in Entries, outcome \in {"complete", "rejected"} :
        BrokerBuy(e, outcome) \/ BrokerStop(e, outcome)
  BY DEF BrokerStep
<1>2. CASE BrokerBuy(e, outcome)
  BY <1>0, <1>1, <1>2 DEF BrokerBuy, Trades
<1>3. CASE BrokerStop(e, outcome)
  BY <1>0, <1>1, <1>3 DEF BrokerStop, Trades
<1>4. QED
  BY <1>1, <1>2, <1>3

-----------------------------------------------------------------------------
(* Entries not tried yet. *)

\* What a thread sells is an entry that was tried.
LEMMA LaterSales ==
  ASSUME EngineAssumption, TypeOK, MineInv, LaterInv, NEW t \in Threads,
         pc[t] \notin {"idle", "select"}, Sells(t) \/ UNCHANGED sold, UNCHANGED <<entries, trade>>
  PROVE  LaterInv'
<1>1. mine[t] \in Entries /\ mine[t] <= entries
  BY Holds
<1>2. \A e \in Entries, u \in Threads : e # mine[t] => sold'[e][u] = sold[e][u]
  BY <1>1, SaleTypes
<1>3. \A e \in Entries : e > entries => e # mine[t]
  BY <1>1 DEF TypeOK, EngineAssumption, Entries
<1>4. QED
  BY <1>2, <1>3 DEF LaterInv

LEMMA LaterStep ==
  ASSUME EngineAssumption, TypeOK, MineInv, LaterInv, [Next]_vars
  PROVE  LaterInv'
<1>0. /\ position \in 0..MaxEntries /\ entries \in 0..MaxEntries /\ MaxEntries \in Nat
      /\ Entries = 1..MaxEntries
      /\ trade \in [Entries -> Trades] /\ sold \in [Entries -> [Threads -> 0..2]]
      /\ position <= entries
  BY DEF TypeOK, EngineAssumption, Entries, MineInv
<1>1. CASE UNCHANGED vars
  BY <1>1 DEF vars, bounds, history, LaterInv
<1>2. CASE CancelsPosition
  <2>1. PICK t \in Threads : At(t, "idle") /\ position # 0 /\ CancelStop(t, position)
    BY <1>2 DEF CancelsPosition
  <2>2. position \in Entries
    BY <1>0, <2>1
  <2>3. /\ \A e \in Entries : trade'[e].buy = trade[e].buy
        /\ UNCHANGED <<entries, sold>>
    BY <2>1, <2>2, BuysKept DEF CancelStop, bounds, history
  <2>4. QED
    BY <2>3 DEF LaterInv
<1>3. ASSUME NEW t \in Threads, EntryStep(t) PROVE LaterInv'
  <2>1. CASE Enter(t)
    BY <1>0, <2>1 DEF Enter, history, LaterInv
  <2>2. ASSUME NEW taken \in BOOLEAN, NEW told \in BOOLEAN, PlaceBuy(t, taken, told) PROVE LaterInv'
    <3>1. mine[t] \in Entries /\ mine[t] <= entries
      BY <2>2, Holds DEF PlaceBuy, At
    <3>2. \A e \in Entries : e # mine[t] => trade'[e] = trade[e]
      BY <1>0, <2>2 DEF PlaceBuy
    <3>3. UNCHANGED <<entries, sold>>
      BY <2>2 DEF PlaceBuy, bounds, history
    <3>4. \A e \in Entries : e > entries => e # mine[t]
      BY <1>0, <3>1
    <3>5. QED
      BY <3>2, <3>3, <3>4 DEF LaterInv
  <2>3. ASSUME NEW taken \in BOOLEAN, NEW told \in BOOLEAN, NEW level \in Levels,
               PlaceStop(t, level, taken, told)
        PROVE  LaterInv'
    <3>1. \A e \in Entries : trade'[e].buy = trade[e].buy
      BY <2>3, BuysKept
    <3>2. QED
      BY <2>3, <3>1 DEF PlaceStop, bounds, history, LaterInv
  <2>4. CASE Waits(t)
    BY <2>4, WaitsShape DEF history, LaterInv
  <2>5. ASSUME NEW key \in Keys, TakePosition(t, key) PROVE LaterInv'
    <3>1. \A e \in Entries : trade'[e].buy = trade[e].buy
      BY <2>5, BuysKept
    <3>2. QED
      BY <2>5, <3>1 DEF TakePosition, bounds, history, LaterInv
  <2>6. CASE EmergencySell(t)
    <3>1. pc[t] \notin {"idle", "select"} /\ UNCHANGED <<entries, trade>>
      BY <2>6 DEF EmergencySell, At, bounds
    <3>2. Sells(t) \/ UNCHANGED sold
      BY <2>6 DEF EmergencySell
    <3>3. QED
      BY <3>1, <3>2, LaterSales
  <2>7. QED
    BY <1>3, <2>1, <2>2, <2>3, <2>4, <2>5, <2>6, EntryKinds
<1>4. ASSUME NEW t \in Threads, AfterCancel(t) PROVE LaterInv'
  <2>1. pc[t] \notin {"idle", "select"} /\ UNCHANGED <<entries, trade>>
    BY <1>4, ExitPlaces DEF bounds
  <2>2. Sells(t) \/ UNCHANGED sold
    BY <1>4 DEF AfterCancel, SellAccepted, SellRejected, SellUnheard, RecordExit, ClearPosition, history
  <2>3. QED
    BY <2>1, <2>2, LaterSales
<1>5. ASSUME NEW t \in Threads, CommandStep(t) PROVE LaterInv'
  <2>1. /\ \A e \in Entries : trade'[e].buy = trade[e].buy
        /\ UNCHANGED <<entries, sold>>
    BY <1>5, BuysKept DEF CommandStep, ModifySl, ModifyWrite, ModifyUnheard, bounds, history
  <2>2. QED
    BY <2>1 DEF LaterInv
<1>6. ASSUME NEW t \in Threads, SelectStep(t) PROVE LaterInv'
  BY <1>6 DEF SelectStep, LookBeforeSelect, Select, bounds, history, LaterInv
<1>7. CASE TickStep
  <2>1. /\ \A e \in Entries : trade'[e].buy = trade[e].buy
        /\ UNCHANGED <<entries, sold>>
    BY <1>0, <1>7, BuysKept DEF TickStep, StopFilled, Trail, TrailWrite, At, bounds, history
  <2>2. QED
    BY <2>1 DEF LaterInv
<1>8. CASE BrokerStep
  <2>1. /\ \A e \in Entries : trade[e].buy = "none" => trade'[e].buy = "none"
        /\ UNCHANGED <<entries, sold>>
    BY <1>8, BrokerKeeps DEF BrokerStep, BrokerBuy, BrokerStop, bounds, history
  <2>2. QED
    BY <2>1 DEF LaterInv
<1>9. QED
  BY <1>1, <1>2, <1>3, <1>4, <1>5, <1>6, <1>7, <1>8, StepKinds

-----------------------------------------------------------------------------
(* Entries under way. *)

LEMMA FreshStep ==
  ASSUME EngineAssumption, TypeOK, MineInv, LaterInv, FreshInv, [Next]_vars
  PROVE  FreshInv'
<1>0. /\ position \in 0..MaxEntries /\ entries \in 0..MaxEntries /\ MaxEntries \in Nat
      /\ Entries = 1..MaxEntries
      /\ trade \in [Entries -> Trades] /\ sold \in [Entries -> [Threads -> 0..2]]
      /\ pc \in [Threads -> Places] /\ mine \in [Threads -> 0..MaxEntries]
      /\ stopRef \in 0..MaxEntries /\ stopRef <= entries
      /\ position <= entries /\ \A t \in Threads : mine[t] <= entries
  BY DEF TypeOK, EngineAssumption, Entries, MineInv
<1>00. \A t \in Threads : pc[t] \in EntryPlaces => mine[t] \in Entries
  BY Holds DEF EntryPlaces
<1>1. CASE UNCHANGED vars
  BY <1>1 DEF vars, engine, thread, history, FreshInv
<1>2. CASE CancelsPosition
  <2>1. PICK t \in Threads : At(t, "idle") /\ position # 0 /\ CancelStop(t, position)
    BY <1>2 DEF CancelsPosition
  <2>0. position \in Entries
    BY <1>0, <2>1
  <2>2. /\ \A e \in Entries : trade'[e].buy = trade[e].buy
        /\ UNCHANGED <<position, stopRef, sold>>
    BY <1>0, <2>0, <2>1, BuysKept DEF CancelStop, engine, history
  <2>3. QED
    BY <1>0, <1>00, <2>1, <2>2 DEF CancelStop, Reads, GoTo, EntryPlaces, FreshInv
<1>3. ASSUME NEW t \in Threads, EntryStep(t) PROVE FreshInv'
  <2>1. CASE Enter(t)
    BY <1>0, <2>1 DEF Enter, Reads, GoTo, engine, history, LaterInv, EntryPlaces, FreshInv
  <2>2. ASSUME NEW taken \in BOOLEAN, NEW told \in BOOLEAN, PlaceBuy(t, taken, told) PROVE FreshInv'
    <3>1. \A e \in Entries : e # mine[t] => trade'[e] = trade[e]
      BY <1>0, <2>2 DEF PlaceBuy
    <3>2. QED
      BY <1>0, <1>00, <2>2, <3>1 DEF PlaceBuy, At, GoTo, engine, history, EntryPlaces, FreshInv
  <2>3. ASSUME NEW taken \in BOOLEAN, NEW told \in BOOLEAN, NEW level \in Levels,
               PlaceStop(t, level, taken, told)
        PROVE  FreshInv'
    <3>1. \A e \in Entries : trade'[e].buy = trade[e].buy
      BY <2>3, BuysKept
    <3>2. AfterStop(t, told) # "entering"
      BY AfterStopPlaces
    <3>3. QED
      BY <1>0, <1>00, <2>3, <3>1, <3>2 DEF PlaceStop, At, GoTo, engine, history, EntryPlaces, FreshInv
  <2>4. CASE Waits(t)
    BY <1>0, <2>4, WaitsShape DEF history, EntryPlaces, FreshInv
  <2>5. ASSUME NEW key \in Keys, TakePosition(t, key) PROVE FreshInv'
    <3>1. \A e \in Entries : trade'[e].buy = trade[e].buy
      BY <2>5, BuysKept
    <3>2. QED
      BY <1>0, <1>00, <2>5, <3>1 DEF TakePosition, At, GoTo, history, EntryPlaces, FreshInv
  <2>6. CASE EmergencySell(t)
    <3>1. pc[t] = "exposed" /\ pc' = [pc EXCEPT ![t] = "idle"]
          /\ UNCHANGED <<position, stopRef, trade, mine>>
      BY <2>6 DEF EmergencySell, At, GoTo, engine
    <3>2. mine[t] \in Entries
      BY <1>00, <3>1 DEF EntryPlaces
    <3>3. \A e \in Entries, u \in Threads : e # mine[t] => sold'[e][u] = sold[e][u]
      BY <2>6, <3>2, SaleTypes DEF EmergencySell
    <3>4. QED
      BY <1>0, <1>00, <3>1, <3>3 DEF EntryPlaces, FreshInv
  <2>7. QED
    BY <1>3, <2>1, <2>2, <2>3, <2>4, <2>5, <2>6, EntryKinds
<1>4. ASSUME NEW t \in Threads, AfterCancel(t) PROVE FreshInv'
  <2>1. /\ pc[t] \in {"cancelled", "sold", "recorded"}
        /\ \E p \in {"idle", "sold", "recorded", "select"} : pc' = [pc EXCEPT ![t] = p]
        /\ UNCHANGED <<mine, trade>>
    BY <1>4, ExitPlaces
  <2>2. mine[t] \in Entries
    BY <2>1, Holds
  <2>3. Sells(t) \/ UNCHANGED sold
    BY <1>4 DEF AfterCancel, SellAccepted, SellRejected, SellUnheard, RecordExit, ClearPosition, history
  <2>4. \A e \in Entries, u \in Threads : e # mine[t] => sold'[e][u] = sold[e][u]
    BY <2>2, <2>3, SaleTypes
  <2>5. position' \in {0, position} /\ stopRef' \in {0, stopRef}
    BY <1>4 DEF AfterCancel, SellAccepted, SellRejected, SellUnheard, RecordExit, ClearPosition, engine
  <2>6. \A u \in Threads : pc'[u] \in EntryPlaces => u # t /\ pc'[u] = pc[u] /\ mine[u] # mine[t]
    BY <1>0, <2>1 DEF EntryPlaces, FreshInv
  <2>7. \A u \in Threads : pc'[u] \in EntryPlaces => mine[u] \in Entries /\ mine[u] # 0
    BY <1>0, <1>00, <2>6
  <2>8. QED
    BY <1>0, <2>1, <2>4, <2>5, <2>6, <2>7 DEF FreshInv
<1>5. ASSUME NEW t \in Threads, CommandStep(t) PROVE FreshInv'
  <2>1. /\ \A e \in Entries : trade'[e].buy = trade[e].buy
        /\ UNCHANGED <<sold, stopRef>>
    BY <1>5, BuysKept DEF CommandStep, ModifySl, ModifyWrite, ModifyUnheard, engine, history
  <2>2. ASSUME NEW level \in Levels, ModifySl(t, level) PROVE FreshInv'
    BY <1>0, <1>00, <2>1, <2>2 DEF ModifySl, At, Reads, GoTo, engine, EntryPlaces, FreshInv
  <2>3. CASE ModifyWrite(t)
    BY <1>0, <1>00, <2>1, <2>3 DEF ModifyWrite, At, GoTo, EntryPlaces, FreshInv
  <2>4. CASE ModifyUnheard(t)
    BY <1>0, <2>1, <2>4 DEF ModifyUnheard, At, GoTo, engine, EntryPlaces, FreshInv
  <2>5. QED
    BY <1>5, <2>2, <2>3, <2>4 DEF CommandStep
<1>6. ASSUME NEW t \in Threads, SelectStep(t) PROVE FreshInv'
  <2>1. /\ pc' = [pc EXCEPT ![t] = "select"] \/ pc' = [pc EXCEPT ![t] = "idle"]
        /\ UNCHANGED <<position, stopRef, mine, trade, sold>>
    BY <1>6 DEF SelectStep, LookBeforeSelect, Select, GoTo, engine, history
  <2>2. QED
    BY <1>0, <2>1 DEF EntryPlaces, FreshInv
<1>7. CASE TickStep
  <2>1. /\ \A e \in Entries : trade'[e].buy = trade[e].buy
        /\ UNCHANGED sold
    BY <1>0, <1>7, BuysKept DEF TickStep, StopFilled, Trail, TrailWrite, At, history
  <2>2. QED
    BY <1>0, <1>00, <1>7, <2>1 DEF TickStep, StopFilled, Trail, TrailWrite, At, Reads, GoTo, engine,
                                  EntryPlaces, FreshInv
<1>8. CASE BrokerStep
  <2>1. /\ \A e \in Entries : trade[e].buy = "none" => trade'[e].buy = "none"
        /\ UNCHANGED <<engine, thread, sold>>
    BY <1>8, BrokerKeeps DEF BrokerStep, BrokerBuy, BrokerStop, history
  <2>2. QED
    BY <1>00, <2>1 DEF engine, thread, FreshInv
<1>9. QED
  BY <1>1, <1>2, <1>3, <1>4, <1>5, <1>6, <1>7, <1>8, StepKinds

-----------------------------------------------------------------------------
(* Confirmed entries. *)

\* What was filled and stopped stays so, whatever becomes of its orders.
LEMMA StaysConfirmed ==
  ASSUME EngineAssumption, TypeOK, MineInv, FreshInv, [Next]_vars, NEW f \in Entries, Confirmed(f)
  PROVE  Confirmed(f)'
<1>0. trade \in [Entries -> Trades] /\ trade[f] \in Trades /\ trade[f].buy = "complete" /\ trade[f].stop # "none"
  BY DEF TypeOK, Confirmed
<1>1. CASE UNCHANGED vars
  BY <1>0, <1>1 DEF vars, Confirmed
<1>2. CASE CancelsPosition
  BY <1>0, <1>2 DEF CancelsPosition, CancelStop, Confirmed, Trades
<1>3. ASSUME NEW t \in Threads, EntryStep(t) PROVE Confirmed(f)'
  <2>1. CASE Enter(t) \/ Waits(t) \/ EmergencySell(t)
    BY <1>0, <2>1, WaitsShape DEF Enter, EmergencySell, Confirmed
  <2>2. ASSUME NEW taken \in BOOLEAN, NEW told \in BOOLEAN, PlaceBuy(t, taken, told)
        PROVE  Confirmed(f)'
    <3>1. f # mine[t]
      BY <1>0, <2>2 DEF PlaceBuy, At, EntryPlaces, FreshInv
    <3>2. trade'[f] = trade[f]
      BY <1>0, <2>2, <3>1 DEF PlaceBuy
    <3>3. QED
      BY <1>0, <3>2 DEF Confirmed
  <2>3. ASSUME NEW taken \in BOOLEAN, NEW told \in BOOLEAN, NEW level \in Levels,
               PlaceStop(t, level, taken, told)
        PROVE  Confirmed(f)'
    BY <1>0, <2>3 DEF PlaceStop, Confirmed, Trades
  <2>4. ASSUME NEW key \in Keys, TakePosition(t, key) PROVE Confirmed(f)'
    BY <1>0, <2>4 DEF TakePosition, Confirmed, Trades
  <2>5. QED
    BY <1>3, <2>1, <2>2, <2>3, <2>4, EntryKinds
<1>4. ASSUME NEW t \in Threads, AfterCancel(t) PROVE Confirmed(f)'
  BY <1>0, <1>4, ExitPlaces DEF Confirmed
<1>5. ASSUME NEW t \in Threads, CommandStep(t) PROVE Confirmed(f)'
  BY <1>0, <1>5 DEF CommandStep, ModifySl, ModifyStop, ModifyWrite, ModifyUnheard, Confirmed, Trades
<1>6. ASSUME NEW t \in Threads, SelectStep(t) PROVE Confirmed(f)'
  BY <1>0, <1>6 DEF SelectStep, LookBeforeSelect, Select, Confirmed
<1>7. CASE TickStep
  BY <1>0, <1>7 DEF TickStep, StopFilled, Trail, TrailWrite, ModifyStop, Confirmed, Trades
<1>8. CASE BrokerStep
  BY <1>0, <1>8, BrokerKeeps DEF Confirmed
<1>9. QED
  BY <1>1, <1>2, <1>3, <1>4, <1>5, <1>6, <1>7, <1>8, StepKinds

LEMMA ConfirmedStep ==
  ASSUME EngineAssumption, TypeOK, MineInv, FreshInv, ConfirmedInv, [Next]_vars
  PROVE  ConfirmedInv'
<1>0. /\ Entries = 1..MaxEntries /\ MaxEntries \in Nat /\ position \in 0..MaxEntries
      /\ pc \in [Threads -> Places] /\ mine \in [Threads -> 0..MaxEntries]
      /\ \A t \in Threads : pc[t] \notin {"idle", "select"} => mine[t] \in Entries
  BY Holds DEF TypeOK, EngineAssumption, Entries
<1>00. \A e \in Entries : Confirmed(e) => Confirmed(e)'
  BY StaysConfirmed
<1>000. /\ position # 0 => Confirmed(position)
        /\ \A t \in Threads : pc[t] \in {"placed", "verified", "modifying"} => Confirmed(mine[t])
  BY DEF ConfirmedInv
<1> DEFINE Good(e) == trade'[e].buy = "complete" /\ trade'[e].stop # "none"
           Goods   == /\ position' # 0 => Good(position')
                      /\ \A t \in Threads :
                           pc'[t] \in {"placed", "verified", "modifying"} => Good(mine'[t])
<1>a. /\ position # 0 => Good(position)
      /\ \A t \in Threads : pc[t] \in {"placed", "verified", "modifying"} => Good(mine[t])
  BY <1>0, <1>00, <1>000 DEF Confirmed
<1>b. SUFFICES Goods
  BY DEF ConfirmedInv, Confirmed
<1> HIDE DEF Good
<1>1. CASE UNCHANGED vars
  BY <1>a, <1>1 DEF vars, engine, thread
<1>2. CASE CancelsPosition
  BY <1>0, <1>a, <1>2 DEF CancelsPosition, CancelStop, Reads, GoTo, engine
<1>3. ASSUME NEW t \in Threads, EntryStep(t) PROVE Goods
  <2>1. CASE Enter(t)
    BY <1>0, <1>a, <2>1 DEF Enter, Reads, GoTo, engine
  <2>2. ASSUME NEW taken \in BOOLEAN, NEW told \in BOOLEAN, PlaceBuy(t, taken, told) PROVE Goods
    BY <1>0, <1>a, <2>2 DEF PlaceBuy, GoTo, engine
  <2>3. ASSUME NEW taken \in BOOLEAN, NEW told \in BOOLEAN, NEW level \in Levels,
               PlaceStop(t, level, taken, told)
        PROVE  Goods
    <3>1. mine[t] \in Entries /\ trade[mine[t]] \in Trades /\ trade \in [Entries -> Trades]
      BY <2>3, Holds DEF PlaceStop, At, TypeOK
    <3>2. AfterStop(t, told) \in {"placed", "verified"} => Good(mine[t])
      BY <2>3, <3>1 DEF PlaceStop, AfterStop, Answers, Good, Trades
    <3>3. AfterStop(t, told) # "modifying"
      BY AfterStopPlaces
    <3>4. QED
      BY <1>0, <1>a, <2>3, <3>2, <3>3 DEF PlaceStop, GoTo, engine
  <2>4. CASE Waits(t)
    BY <1>0, <1>a, <2>4, WaitsShape
  <2>5. ASSUME NEW key \in Keys, TakePosition(t, key) PROVE Goods
    BY <1>0, <1>a, <2>5 DEF TakePosition, At, GoTo
  <2>6. CASE EmergencySell(t)
    BY <1>0, <1>a, <2>6 DEF EmergencySell, GoTo, engine
  <2>7. QED
    BY <1>3, <2>1, <2>2, <2>3, <2>4, <2>5, <2>6, EntryKinds
<1>4. ASSUME NEW t \in Threads, AfterCancel(t) PROVE Goods
  <2>1. position' \in {0, position}
    BY <1>4 DEF AfterCancel, SellAccepted, SellRejected, SellUnheard, RecordExit, ClearPosition, engine
  <2>2. QED
    BY <1>0, <1>a, <1>4, <2>1, ExitPlaces
<1>5. ASSUME NEW t \in Threads, CommandStep(t) PROVE Goods
  BY <1>0, <1>a, <1>5 DEF CommandStep, ModifySl, ModifyWrite, ModifyUnheard, At, Reads, GoTo, engine
<1>6. ASSUME NEW t \in Threads, SelectStep(t) PROVE Goods
  BY <1>0, <1>a, <1>6 DEF SelectStep, LookBeforeSelect, Select, GoTo, engine
<1>7. CASE TickStep
  BY <1>0, <1>a, <1>7 DEF TickStep, StopFilled, Trail, TrailWrite, Reads, GoTo, engine
<1>8. CASE BrokerStep
  BY <1>a, <1>8 DEF BrokerStep, BrokerBuy, BrokerStop, engine, thread
<1>9. QED
  BY <1>1, <1>2, <1>3, <1>4, <1>5, <1>6, <1>7, <1>8, StepKinds

-----------------------------------------------------------------------------
(* Sales. *)

LEMMA SoldStep ==
  ASSUME EngineAssumption, TypeOK, MineInv, FreshInv, SoldInv, [Next]_vars
  PROVE  SoldInv'
<1>0. /\ Entries = 1..MaxEntries /\ MaxEntries \in Nat /\ position \in 0..MaxEntries
      /\ pc \in [Threads -> Places] /\ mine \in [Threads -> 0..MaxEntries]
      /\ \A t \in Threads : pc[t] \notin {"idle", "select"} => mine[t] \in Entries
      /\ sold \in [Entries -> [Threads -> 0..2]]
  BY Holds DEF TypeOK, EngineAssumption, Entries
<1>1. CASE UNCHANGED vars
  BY <1>1 DEF vars, engine, thread, history, SoldInv
<1>2. CASE CancelsPosition
  <2>1. PICK t \in Threads : At(t, "idle") /\ position # 0 /\ CancelStop(t, position)
    BY <1>2 DEF CancelsPosition
  <2>2. /\ pc' = [pc EXCEPT ![t] = "cancelled"] /\ pc[t] = "idle"
        /\ mine' = [mine EXCEPT ![t] = position]
        /\ UNCHANGED <<position, sold, revived, unheard>>
    BY <2>1 DEF CancelStop, Reads, GoTo, At, engine, history
  <2>3. QED
    BY <1>0, <2>2 DEF SoldInv
<1>3. ASSUME NEW t \in Threads, EntryStep(t) PROVE SoldInv'
  <2>1. CASE Enter(t)
    BY <1>0, <2>1 DEF Enter, Reads, GoTo, At, engine, history, SoldInv
  <2>2. ASSUME NEW taken \in BOOLEAN, NEW told \in BOOLEAN, PlaceBuy(t, taken, told) PROVE SoldInv'
    BY <1>0, <2>2 DEF PlaceBuy, GoTo, At, engine, history, SoldInv
  <2>3. ASSUME NEW taken \in BOOLEAN, NEW told \in BOOLEAN, NEW level \in Levels,
               PlaceStop(t, level, taken, told)
        PROVE  SoldInv'
    <3>1. AfterStop(t, told) # "cancelled"
      BY AfterStopPlaces
    <3>2. QED
      BY <1>0, <2>3, <3>1 DEF PlaceStop, GoTo, At, engine, history, SoldInv
  <2>4. CASE Waits(t)
    BY <1>0, <2>4, WaitsShape DEF history, SoldInv
  <2>5. ASSUME NEW key \in Keys, TakePosition(t, key) PROVE SoldInv'
    <3>1. mine[t] \in Entries /\ \A u \in Threads : sold[mine[t]][u] = 0
      BY <1>0, <2>5 DEF TakePosition, At, EntryPlaces, FreshInv
    <3>2. /\ pc' = [pc EXCEPT ![t] = "idle"] /\ pc[t] = "verified" /\ position' = mine[t]
          /\ UNCHANGED <<mine, sold, revived, unheard>>
      BY <2>5 DEF TakePosition, GoTo, At, history
    <3>3. QED
      BY <1>0, <3>1, <3>2 DEF SoldInv
  <2>6. CASE EmergencySell(t)
    <3>1. /\ mine[t] # position /\ mine[t] \in Entries /\ sold[mine[t]][t] = 0
          /\ \A u \in Threads : u # t => mine[u] # mine[t]
      BY <1>0, <2>6 DEF EmergencySell, At, EntryPlaces, FreshInv
    <3>2. sold' \in [Entries -> [Threads -> 0..2]]
      BY <1>0, <2>6, <3>1, SaleTypes DEF EmergencySell, SalesOK
    <3>3. /\ \A e \in Entries, u \in Threads : <<e, u>> # <<mine[t], t>> => sold'[e][u] = sold[e][u]
          /\ sold'[mine[t]][t] \in {0, 1}
      BY <1>0, <2>6, <3>1, SaleTypes DEF EmergencySell
    <3>4. /\ pc' = [pc EXCEPT ![t] = "idle"] /\ pc[t] = "exposed"
          /\ UNCHANGED <<position, mine, revived, unheard>>
      BY <2>6 DEF EmergencySell, GoTo, At, engine
    <3>5. QED
      BY <1>0, <3>1, <3>2, <3>3, <3>4 DEF SoldInv
  <2>7. QED
    BY <1>3, <2>1, <2>2, <2>3, <2>4, <2>5, <2>6, EntryKinds
<1>4. ASSUME NEW t \in Threads, AfterCancel(t) PROVE SoldInv'
  <2>1. CASE SellAccepted(t)
    <3>1. mine[t] \in Entries /\ (mine[t] \notin revived \cup unheard => sold[mine[t]][t] = 0)
      BY <1>0, <2>1 DEF SellAccepted, At, SoldInv
    <3>2. sold' \in [Entries -> [Threads -> 0..2]]
      BY <1>0, <2>1, <3>1, SaleTypes DEF SellAccepted, SalesOK
    <3>3. /\ \A e \in Entries, u \in Threads : <<e, u>> # <<mine[t], t>> => sold'[e][u] = sold[e][u]
          /\ mine[t] \notin revived \cup unheard => sold'[mine[t]][t] = 1
      BY <1>0, <2>1, <3>1, SaleTypes DEF SellAccepted
    <3>4. /\ pc' = [pc EXCEPT ![t] = "sold"] /\ pc[t] = "cancelled"
          /\ UNCHANGED <<position, mine, revived, unheard>>
      BY <2>1 DEF SellAccepted, GoTo, At, engine
    <3>5. QED
      BY <1>0, <3>1, <3>2, <3>3, <3>4 DEF SoldInv
  <2>2. CASE SellRejected(t)
    BY <1>0, <2>2 DEF SellRejected, GivesUp, GoTo, At, engine, SoldInv
  <2>3. CASE SellUnheard(t)
    <3>1. mine[t] \in Entries
      BY <1>0, <2>3 DEF SellUnheard, At
    <3>2. \A e \in Entries, u \in Threads : e # mine[t] => sold'[e][u] = sold[e][u]
      BY <2>3, <3>1, SaleTypes DEF SellUnheard
    <3>3. /\ \E p \in {"idle", "sold"} : pc' = [pc EXCEPT ![t] = p]
          /\ pc[t] = "cancelled" /\ unheard' = unheard \cup {mine[t]}
          /\ UNCHANGED <<position, mine, revived>>
      BY <2>3 DEF SellUnheard, GivesUp, GoTo, At, engine
    <3>4. QED
      BY <1>0, <3>2, <3>3 DEF SoldInv
  <2>4. CASE RecordExit(t)
    BY <1>0, <2>4 DEF RecordExit, GoTo, At, engine, history, SoldInv
  <2>5. CASE ClearPosition(t)
    BY <1>0, <2>5 DEF ClearPosition, GoTo, At, SoldInv
  <2>6. QED
    BY <1>4, <2>1, <2>2, <2>3, <2>4, <2>5 DEF AfterCancel
<1>5. ASSUME NEW t \in Threads, CommandStep(t) PROVE SoldInv'
  <2>1. ASSUME NEW level \in Levels, ModifySl(t, level) PROVE SoldInv'
    BY <1>0, <2>1 DEF ModifySl, Reads, GoTo, At, engine, history, SoldInv
  <2>2. CASE ModifyWrite(t)
    BY <1>0, <2>2 DEF ModifyWrite, GoTo, At, SoldInv
  <2>3. CASE ModifyUnheard(t)
    BY <1>0, <2>3 DEF ModifyUnheard, GoTo, At, engine, SoldInv
  <2>4. QED
    BY <1>5, <2>1, <2>2, <2>3 DEF CommandStep
<1>6. ASSUME NEW t \in Threads, SelectStep(t) PROVE SoldInv'
  <2>1. /\ \E p \in {"idle", "select"} : pc' = [pc EXCEPT ![t] = p]
        /\ pc[t] \in {"idle", "select"}
        /\ UNCHANGED <<position, mine, sold, revived, unheard>>
    BY <1>6 DEF SelectStep, LookBeforeSelect, Select, GoTo, At, engine, history
  <2>2. \A u \in Threads :
          /\ pc'[u] = "cancelled" => pc[u] = "cancelled"
          /\ pc[u] \in {"sold", "recorded"} => pc'[u] = pc[u]
    BY <1>0, <2>1
  <2>3. QED
    BY <2>1, <2>2 DEF SoldInv
<1>7. CASE TickStep
  <2>1. CASE StopFilled
    BY <1>0, <2>1 DEF StopFilled, Reads, GoTo, At, engine, history, SoldInv
  <2>2. ASSUME NEW level \in Levels, Trail(level) PROVE SoldInv'
    BY <1>0, <2>2 DEF Trail, Reads, GoTo, At, engine, history, SoldInv
  <2>3. CASE TrailWrite
    BY <1>0, <2>3 DEF TrailWrite, GoTo, At, history, SoldInv
  <2>4. QED
    BY <1>7, <2>1, <2>2, <2>3 DEF TickStep
<1>8. CASE BrokerStep
  BY <1>8 DEF BrokerStep, BrokerBuy, BrokerStop, engine, thread, history, SoldInv
<1>9. QED
  BY <1>1, <1>2, <1>3, <1>4, <1>5, <1>6, <1>7, <1>8, StepKinds

-----------------------------------------------------------------------------
(* The theorems. *)

(***************************************************************************)
(* The invariant of the engine's threads: who holds which entry, what is   *)
(* confirmed at the broker, and who has sold what.                         *)
(***************************************************************************)
THEOREM EngineInvariant == Spec => []EngineInv
<1>1. Init => EngineInv
  <2> SUFFICES ASSUME Init PROVE EngineInv
    OBVIOUS
  <2>1. TypeOK
    BY EngineInitTypes, EngineAssumption
  <2>2. MineInv /\ LaterInv /\ FreshInv
    BY <2>1 DEF Init, NoTrade, MineInv, LaterInv, FreshInv, EntryPlaces, TypeOK, Entries, EngineAssumption
  <2>3. ConfirmedInv /\ SoldInv
    BY <2>1 DEF Init, ConfirmedInv, SoldInv, Entries
  <2>4. QED
    BY <2>1, <2>2, <2>3 DEF EngineInv
<1>2. EngineInv /\ [Next]_vars => EngineInv'
  BY EngineAssumption, EngineTypes, MineStep, LaterStep, FreshStep, ConfirmedStep, SoldStep DEF EngineInv
<1>3. QED
  BY <1>1, <1>2, PTL DEF Spec

(***************************************************************************)
(* Every variable of the engine keeps its type; in particular a thread     *)
(* only ever reads, cancels or sells an entry that was tried.              *)
(***************************************************************************)
THEOREM EngineTypeCorrect == Spec => []TypeOK
<1>1. EngineInv => TypeOK
  BY DEF EngineInv
<1>2. QED
  BY <1>1, EngineInvariant, PTL

(***************************************************************************)
(* The position of SymbolEngine always is an entry whose BUY was filled    *)
(* and whose stop was accepted: also when a modification writes a dict     *)
(* back, whatever other threads did during the broker's answer.            *)
(***************************************************************************)
THEOREM EntryConfirmedHolds == Spec => []EntryConfirmed
<1>1. EngineInv => EntryConfirmed
  BY DEF EngineInv, ConfirmedInv, Confirmed, EntryConfirmed
<1>2. QED
  BY <1>1, EngineInvariant, PTL

(***************************************************************************)
(* No exit path (_book_profit, _squareoff_from_telegram, _emergency_exit,  *)
(* the refused stop) sells one position twice, unless                      *)
(* _modify_sl_from_telegram wrote a closed position back or the broker's   *)
(* answer to a SELL was lost.                                              *)
(***************************************************************************)
THEOREM SoldOncePerPathHolds == Spec => []SoldOncePerPath
<1>1. EngineInv => SoldOncePerPath
  BY DEF EngineInv, SoldInv, SoldOncePerPath
<1>2. QED
  BY <1>1, EngineInvariant, PTL

-----------------------------------------------------------------------------
(* A cancelled stop is somebody's exit.  Covered is inductive beside the   *)
(* entries the threads hold: a path gives up what it cancelled by clearing *)
(* the position or by an answer, a revived position is excepted, and what  *)
(* becomes the position has not been cancelled, as only a position is.     *)

UncancelledInv ==
  \A e \in Entries : trade[e].stop = "cancelled" =>
    e <= entries /\ \A t \in Threads : pc[t] \in EntryPlaces => mine[t] # e

\* Only an exit cancels a stop, that of the position.
LEMMA OnlyCancels ==
  ASSUME EngineAssumption, TypeOK, MineInv, [Next]_vars, NEW e \in Entries,
         trade'[e].stop = "cancelled"
  PROVE  \/ trade[e].stop = "cancelled"
         \/ /\ e = position
            /\ \E t \in Threads : At(t, "idle") /\ CancelStop(t, position)
<1>0. trade \in [Entries -> Trades] /\ trade[e] \in Trades
  BY DEF TypeOK
<1>1. CASE UNCHANGED vars
  BY <1>1 DEF vars
<1>2. CASE CancelsPosition
  BY <1>0, <1>2 DEF CancelsPosition, CancelStop, Trades
<1>3. ASSUME NEW t \in Threads, EntryStep(t) PROVE trade[e].stop = "cancelled"
  <2>1. CASE Enter(t) \/ Waits(t) \/ EmergencySell(t)
    BY <2>1, WaitsShape DEF Enter, EmergencySell
  <2>2. ASSUME NEW taken \in BOOLEAN, NEW told \in BOOLEAN, PlaceBuy(t, taken, told)
        PROVE  trade[e].stop = "cancelled"
    BY <1>0, <2>2 DEF PlaceBuy, Trades
  <2>3. ASSUME NEW taken \in BOOLEAN, NEW told \in BOOLEAN, NEW level \in Levels,
               PlaceStop(t, level, taken, told)
        PROVE  trade[e].stop = "cancelled"
    BY <1>0, <2>3 DEF PlaceStop, Trades
  <2>4. ASSUME NEW key \in Keys, TakePosition(t, key) PROVE trade[e].stop = "cancelled"
    BY <1>0, <2>4 DEF TakePosition, Trades
  <2>5. QED
    BY <1>3, <2>1, <2>2, <2>3, <2>4, EntryKinds
<1>4. ASSUME NEW t \in Threads, AfterCancel(t) \/ SelectStep(t) PROVE trade[e].stop = "cancelled"
  BY <1>4, ExitPlaces DEF SelectStep, LookBeforeSelect, Select
<1>5. ASSUME NEW t \in Threads, CommandStep(t) PROVE trade[e].stop = "cancelled"
  BY <1>0, <1>5 DEF CommandStep, ModifySl, ModifyStop, ModifyWrite, ModifyUnheard, Trades
<1>6. CASE TickStep
  BY <1>0, <1>6 DEF TickStep, StopFilled, Trail, TrailWrite, ModifyStop, Trades
<1>7. CASE BrokerStep
  <2>1. PICK f \in Entries, outcome \in {"complete", "rejected"} :
          BrokerBuy(f, outcome) \/ BrokerStop(f, outcome)
    BY <1>7 DEF BrokerStep
  <2>2. CASE BrokerBuy(f, outcome)
    BY <1>0, <2>2 DEF BrokerBuy, Trades
  <2>3. CASE BrokerStop(f, outcome)
    BY <1>0, <2>1, <2>3 DEF BrokerStop, Trades
  <2>4. QED
    BY <2>1, <2>2, <2>3
<1>8. QED
  BY <1>1, <1>2, <1>3, <1>4, <1>5, <1>6, <1>7, StepKinds

\* An entry under way was under way before the step, or the step begins it.
LEMMA EntryGoesOn ==
  ASSUME EngineAssumption, TypeOK, [Next]_vars, NEW t \in Threads, pc'[t] \in EntryPlaces
  PROVE  \/ pc[t] \in EntryPlaces /\ mine'[t] = mine[t] /\ entries' >= entries
         \/ mine'[t] = entries + 1 /\ entries' = entries + 1
<1>0. /\ pc \in [Threads -> Places] /\ mine \in [Threads -> 0..MaxEntries]
      /\ entries \in 0..MaxEntries /\ MaxEntries \in Nat
  BY DEF TypeOK, EngineAssumption
<1>1. CASE UNCHANGED vars \/ BrokerStep
  BY <1>0, <1>1 DEF vars, BrokerStep, BrokerBuy, BrokerStop, thread, bounds
<1>2. CASE CancelsPosition
  BY <1>0, <1>2 DEF CancelsPosition, CancelStop, Reads, GoTo, bounds, EntryPlaces
<1>3. ASSUME NEW u \in Threads, EntryStep(u)
      PROVE  \/ pc[t] \in EntryPlaces /\ mine'[t] = mine[t] /\ entries' >= entries
             \/ mine'[t] = entries + 1 /\ entries' = entries + 1
  <2>1. CASE Enter(u)
    BY <1>0, <2>1 DEF Enter, Reads, GoTo, EntryPlaces
  <2>2. ASSUME NEW taken \in BOOLEAN, NEW told \in BOOLEAN, PlaceBuy(u, taken, told)
        PROVE  pc[t] \in EntryPlaces /\ mine'[t] = mine[t] /\ entries' >= entries
    BY <1>0, <2>2 DEF PlaceBuy, At, GoTo, bounds, EntryPlaces
  <2>3. ASSUME NEW taken \in BOOLEAN, NEW told \in BOOLEAN, NEW level \in Levels,
               PlaceStop(u, level, taken, told)
        PROVE  pc[t] \in EntryPlaces /\ mine'[t] = mine[t] /\ entries' >= entries
    BY <1>0, <2>3 DEF PlaceStop, At, GoTo, bounds, EntryPlaces
  <2>4. CASE Waits(u)
    BY <1>0, <2>4, WaitsShape DEF EntryPlaces
  <2>5. ASSUME NEW key \in Keys, TakePosition(u, key)
        PROVE  pc[t] \in EntryPlaces /\ mine'[t] = mine[t] /\ entries' >= entries
    BY <1>0, <2>5 DEF TakePosition, GoTo, bounds, EntryPlaces
  <2>6. CASE EmergencySell(u)
    BY <1>0, <2>6 DEF EmergencySell, GoTo, bounds, EntryPlaces
  <2>7. QED
    BY <1>3, <2>1, <2>2, <2>3, <2>4, <2>5, <2>6, EntryKinds
<1>4. ASSUME NEW u \in Threads, AfterCancel(u)
      PROVE  pc[t] \in EntryPlaces /\ mine'[t] = mine[t] /\ entries' >= entries
  BY <1>0, <1>4, ExitPlaces DEF bounds, EntryPlaces
<1>5. ASSUME NEW u \in Threads, CommandStep(u) \/ SelectStep(u)
      PROVE  pc[t] \in EntryPlaces /\ mine'[t] = mine[t] /\ entries' >= entries
  BY <1>0, <1>5 DEF CommandStep, ModifySl, ModifyWrite, ModifyUnheard, SelectStep, LookBeforeSelect,
                    Select, Reads, GoTo, bounds, EntryPlaces
<1>6. CASE TickStep
  BY <1>0, <1>6 DEF TickStep, StopFilled, Trail, TrailWrite, Reads, GoTo, bounds, EntryPlaces
<1>7. QED
  BY <1>1, <1>2, <1>3, <1>4, <1>5, <1>6, StepKinds

\* The count of entries never falls.
LEMMA EntriesGrow ==
  ASSUME TypeOK, [Next]_vars
  PROVE  entries' \in {entries, entries + 1}
<1>1. ASSUME NEW t \in Threads, EntryStep(t) PROVE entries' \in {entries, entries + 1}
  BY <1>1, EntryKinds, WaitsShape DEF Enter, PlaceBuy, PlaceStop, TakePosition, EmergencySell, bounds
<1>2. ASSUME NEW t \in Threads, AfterCancel(t) PROVE entries' = entries
  BY <1>2, ExitPlaces DEF bounds
<1>3. QED
  BY <1>1, <1>2, StepKinds DEF vars, bounds, CancelsPosition, CancelStop, CommandStep, ModifySl, ModifyWrite,
     ModifyUnheard, SelectStep, LookBeforeSelect, Select, TickStep, StopFilled, Trail, TrailWrite,
     BrokerStep, BrokerBuy, BrokerStop

LEMMA UncancelledStep ==
  ASSUME EngineAssumption, TypeOK, MineInv, FreshInv, UncancelledInv, [Next]_vars
  PROVE  UncancelledInv'
<1> SUFFICES ASSUME NEW e \in Entries, trade'[e].stop = "cancelled"
             PROVE  e <= entries' /\ \A t \in Threads : pc'[t] \in EntryPlaces => mine'[t] # e
  BY DEF UncancelledInv
<1>0. /\ entries \in 0..MaxEntries /\ MaxEntries \in Nat /\ Entries = 1..MaxEntries
      /\ position <= entries
  BY DEF TypeOK, EngineAssumption, Entries, MineInv
<1>1. e <= entries /\ \A t \in Threads : pc[t] \in EntryPlaces => mine[t] # e
  BY OnlyCancels, <1>0 DEF UncancelledInv, FreshInv
<1>2. QED
  BY <1>0, <1>1, EntryGoesOn, EntriesGrow

LEMMA CoveredStep ==
  ASSUME EngineAssumption, TypeOK, MineInv, FreshInv, UncancelledInv, Covered, [Next]_vars
  PROVE  Covered'
<1>0. /\ Entries = 1..MaxEntries /\ MaxEntries \in Nat /\ position \in 0..MaxEntries
      /\ pc \in [Threads -> Places] /\ mine \in [Threads -> 0..MaxEntries]
      /\ trade \in [Entries -> Trades]
      /\ \A t \in Threads : pc[t] \notin {"idle", "select"} => mine[t] \in Entries
      /\ revived \subseteq Entries /\ answered \subseteq Entries
  BY Holds DEF TypeOK, EngineAssumption, Entries
<1>1. CASE UNCHANGED vars
  BY <1>1 DEF vars, engine, thread, history, Covered
<1>2. CASE CancelsPosition
  <2>1. PICK t \in Threads : At(t, "idle") /\ position # 0 /\ CancelStop(t, position)
    BY <1>2 DEF CancelsPosition
  <2>2. /\ pc' = [pc EXCEPT ![t] = "cancelled"] /\ mine' = [mine EXCEPT ![t] = position]
        /\ UNCHANGED position
    BY <2>1 DEF CancelStop, Reads, GoTo, engine
  <2>3. QED
    BY <1>0, <2>2 DEF Covered
<1>3. ASSUME NEW t \in Threads, EntryStep(t) PROVE Covered'
  <2>1. CASE Enter(t)
    BY <1>0, <2>1 DEF Enter, Reads, GoTo, At, engine, history, Covered
  <2>2. ASSUME NEW taken \in BOOLEAN, NEW told \in BOOLEAN, PlaceBuy(t, taken, told) PROVE Covered'
    <3>1. mine[t] # position
      BY <2>2 DEF PlaceBuy, At, EntryPlaces, FreshInv
    <3>2. position # 0 => trade'[position] = trade[position]
      BY <1>0, <2>2, <3>1 DEF PlaceBuy
    <3>3. QED
      BY <1>0, <2>2, <3>2 DEF PlaceBuy, GoTo, At, engine, history, Covered
  <2>3. ASSUME NEW taken \in BOOLEAN, NEW told \in BOOLEAN, NEW level \in Levels,
               PlaceStop(t, level, taken, told)
        PROVE  Covered'
    <3>1. mine[t] # position
      BY <2>3 DEF PlaceStop, At, EntryPlaces, FreshInv
    <3>2. position # 0 => trade'[position] = trade[position]
      BY <1>0, <2>3, <3>1 DEF PlaceStop
    <3>3. QED
      BY <1>0, <2>3, <3>2 DEF PlaceStop, GoTo, At, engine, history, Covered
  <2>4. CASE Waits(t)
    BY <1>0, <2>4, WaitsShape DEF history, Covered
  <2>5. ASSUME NEW key \in Keys, TakePosition(t, key) PROVE Covered'
    <3>1. mine[t] \in Entries /\ trade[mine[t]] \in Trades /\ trade[mine[t]].stop # "cancelled"
      BY <1>0, <2>5 DEF TakePosition, At, EntryPlaces, UncancelledInv
    <3>2. trade'[mine[t]].stop = trade[mine[t]].stop /\ position' = mine[t]
      BY <1>0, <2>5, <3>1 DEF TakePosition, Trades
    <3>3. QED
      BY <3>1, <3>2 DEF Covered
  <2>6. CASE EmergencySell(t)
    BY <1>0, <2>6 DEF EmergencySell, GoTo, At, engine, Covered
  <2>7. QED
    BY <1>3, <2>1, <2>2, <2>3, <2>4, <2>5, <2>6, EntryKinds
<1>4. ASSUME NEW t \in Threads, AfterCancel(t) PROVE Covered'
  <2>1. CASE SellAccepted(t)
    BY <1>0, <2>1 DEF SellAccepted, GoTo, At, engine, Covered
  <2>2. CASE SellRejected(t)
    BY <1>0, <2>2 DEF SellRejected, GivesUp, GoTo, At, engine, Covered
  <2>3. CASE SellUnheard(t)
    BY <1>0, <2>3 DEF SellUnheard, GivesUp, GoTo, At, engine, Covered
  <2>4. CASE RecordExit(t)
    BY <1>0, <2>4 DEF RecordExit, GoTo, At, engine, history, Covered
  <2>5. CASE ClearPosition(t)
    BY <1>0, <2>5 DEF ClearPosition, Covered
  <2>6. QED
    BY <1>4, <2>1, <2>2, <2>3, <2>4, <2>5 DEF AfterCancel
<1>5. ASSUME NEW t \in Threads, CommandStep(t) PROVE Covered'
  <2>1. ASSUME NEW level \in Levels, ModifySl(t, level) PROVE Covered'
    <3>1. position \in Entries /\ trade[position] \in Trades
      BY <1>0, <2>1 DEF ModifySl
    <3>2. trade'[position].stop = trade[position].stop
      BY <1>0, <2>1, <3>1 DEF ModifySl, ModifyStop, Trades
    <3>3. QED
      BY <1>0, <2>1, <3>2 DEF ModifySl, Reads, GoTo, At, engine, history, Covered
  <2>2. CASE ModifyWrite(t)
    <3>1. mine[t] \in Entries /\ trade[mine[t]] \in Trades
      BY <1>0, <2>2 DEF ModifyWrite, At
    <3>2. trade'[mine[t]].stop = trade[mine[t]].stop
      BY <1>0, <2>2, <3>1 DEF ModifyWrite, Trades
    <3>3. QED
      BY <1>0, <2>2, <3>2 DEF ModifyWrite, GoTo, At, Covered
  <2>3. CASE ModifyUnheard(t)
    BY <1>0, <2>3 DEF ModifyUnheard, GoTo, At, engine, Covered
  <2>4. QED
    BY <1>5, <2>1, <2>2, <2>3 DEF CommandStep
<1>6. ASSUME NEW t \in Threads, SelectStep(t) PROVE Covered'
  <2>1. /\ pc' = [pc EXCEPT ![t] = "select"] \/ pc' = [pc EXCEPT ![t] = "idle"]
        /\ pc[t] \in {"idle", "select"}
        /\ UNCHANGED <<position, mine, trade, answered, revived>>
    BY <1>6 DEF SelectStep, LookBeforeSelect, Select, GoTo, At, engine, history
  <2>2. QED
    BY <1>0, <2>1 DEF Covered
<1>7. CASE TickStep
  <2>1. CASE StopFilled
    <3>1. trade'[position].stop = "complete"
      BY <1>0, <2>1 DEF StopFilled, Trades
    <3>2. QED
      BY <2>1, <3>1 DEF StopFilled, engine, Covered
  <2>2. ASSUME NEW level \in Levels, Trail(level) PROVE Covered'
    <3>1. \A e \in Entries : trade'[e].stop = trade[e].stop
      BY <1>0, <2>2 DEF Trail, ModifyStop, Trades
    <3>2. QED
      BY <1>0, <2>2, <3>1 DEF Trail, Reads, GoTo, At, engine, history, Covered
  <2>3. CASE TrailWrite
    <3>1. \A e \in Entries : trade'[e].stop = trade[e].stop
      BY <1>0, <2>3 DEF TrailWrite, Trades
    <3>2. QED
      BY <1>0, <2>3, <3>1 DEF TrailWrite, GoTo, At, history, Covered
  <2>4. QED
    BY <1>7, <2>1, <2>2, <2>3 DEF TickStep
<1>8. CASE BrokerStep
  <2>1. \A e \in Entries : trade'[e].stop = "cancelled" => trade[e].stop = "cancelled"
    <3>1. PICK f \in Entries, outcome \in {"complete", "rejected"} :
            BrokerBuy(f, outcome) \/ BrokerStop(f, outcome)
      BY <1>8 DEF BrokerStep
    <3>2. trade[f] \in Trades
      BY <1>0
    <3>3. trade'[f].stop = trade[f].stop \/ trade'[f].stop = outcome
      BY <1>0, <3>1, <3>2 DEF BrokerBuy, BrokerStop, Trades
    <3>4. \A e \in Entries : e # f => trade'[e] = trade[e]
      BY <1>0, <3>1 DEF BrokerBuy, BrokerStop
    <3>5. QED
      BY <3>3, <3>4
  <2>2. UNCHANGED <<engine, thread, history>>
    BY <1>8 DEF BrokerStep, BrokerBuy, BrokerStop
  <2>3. QED
    BY <1>0, <2>1, <2>2 DEF engine, thread, history, Covered
<1>9. QED
  BY <1>1, <1>2, <1>3, <1>4, <1>5, <1>6, <1>7, <1>8, StepKinds

(***************************************************************************)
(* A position whose stop was cancelled is being exited by a thread, for    *)
(* both kinds of engine and however the paths of _record_exit, a flip and  *)
(* an approval interleave; the exceptions are a square-off that gave up a  *)
(* rejected SELL and a modification that wrote a sold position back.       *)
(***************************************************************************)
THEOREM CoveredHolds == Spec => []Covered
<1>1. Init => Covered /\ UncancelledInv
  BY DEF Init, NoTrade, Covered, UncancelledInv
<1>2. EngineInv /\ Covered /\ UncancelledInv /\ [Next]_vars => Covered' /\ UncancelledInv'
  BY EngineAssumption, CoveredStep, UncancelledStep DEF EngineInv
<1>3. QED
  BY <1>1, <1>2, EngineInvariant, PTL DEF Spec

-----------------------------------------------------------------------------
(* The tick thread of a paper engine: what it has sold, its stop did not   *)
(* fill, and what it is about to sell has no filled stop.  The paper book  *)
(* always answers.                                                         *)

PaperAnswers ==
  Paper => unheard = {} /\ \A t \in Threads : pc[t] \notin {"placed", "exposed"}

PaperExits ==
  /\ PaperAnswers
  /\ Paper /\ "tick" \in Threads => \A e \in Entries : e \notin revived =>
       /\ sold[e]["tick"] # 0 => trade[e].stop # "complete"
       /\ pc["tick"] = "cancelled" /\ mine["tick"] = e => trade[e].stop # "complete"

\* Only check_sl_filled completes a paper stop, of the position, on an idle tick thread.
LEMMA PaperCompletes ==
  ASSUME EngineAssumption, TypeOK, MineInv, Paper, [Next]_vars, NEW e \in Entries,
         trade'[e].stop = "complete"
  PROVE  trade[e].stop = "complete" \/ (StopFilled /\ e = position)
<1>0. trade \in [Entries -> Trades] /\ trade[e] \in Trades
  BY DEF TypeOK
<1>1. CASE UNCHANGED vars
  BY <1>1 DEF vars
<1>2. CASE CancelsPosition
  BY <1>0, <1>2 DEF CancelsPosition, CancelStop, Trades
<1>3. ASSUME NEW t \in Threads, EntryStep(t) PROVE trade[e].stop = "complete"
  <2>1. CASE Enter(t) \/ Waits(t) \/ EmergencySell(t)
    BY <2>1, WaitsShape DEF Enter, EmergencySell
  <2>2. ASSUME NEW taken \in BOOLEAN, NEW told \in BOOLEAN, PlaceBuy(t, taken, told)
        PROVE  trade[e].stop = "complete"
    BY <1>0, <2>2 DEF PlaceBuy, Trades
  <2>3. ASSUME NEW taken \in BOOLEAN, NEW told \in BOOLEAN, NEW level \in Levels,
               PlaceStop(t, level, taken, told)
        PROVE  trade[e].stop = "complete"
    BY <1>0, <2>3 DEF PlaceStop, Trades
  <2>4. ASSUME NEW key \in Keys, TakePosition(t, key) PROVE trade[e].stop = "complete"
    BY <1>0, <2>4 DEF TakePosition, Trades
  <2>5. QED
    BY <1>3, <2>1, <2>2, <2>3, <2>4, EntryKinds
<1>4. ASSUME NEW t \in Threads, AfterCancel(t) \/ SelectStep(t) PROVE trade[e].stop = "complete"
  BY <1>4, ExitPlaces DEF SelectStep, LookBeforeSelect, Select
<1>5. ASSUME NEW t \in Threads, CommandStep(t) PROVE trade[e].stop = "complete"
  BY <1>0, <1>5 DEF CommandStep, ModifySl, ModifyStop, ModifyWrite, ModifyUnheard, Trades
<1>6. CASE TickStep
  BY <1>0, <1>6 DEF TickStep, StopFilled, Trail, TrailWrite, ModifyStop, Trades
<1>7. CASE BrokerStep
  BY <1>7 DEF BrokerStep, BrokerBuy, BrokerStop
<1>8. QED
  BY <1>1, <1>2, <1>3, <1>4, <1>5, <1>6, <1>7, StepKinds

LEMMA PaperAnswersStep ==
  ASSUME EngineAssumption, TypeOK, MineInv, PaperAnswers, [Next]_vars
  PROVE  PaperAnswers'
<1> SUFFICES ASSUME Paper PROVE unheard' = {} /\ \A u \in Threads : pc'[u] \notin {"placed", "exposed"}
  BY DEF PaperAnswers
<1>0. pc \in [Threads -> Places] /\ unheard = {} /\ \A u \in Threads : pc[u] \notin {"placed", "exposed"}
  BY DEF TypeOK, PaperAnswers
<1>1. CASE UNCHANGED vars \/ BrokerStep
  BY <1>0, <1>1 DEF vars, BrokerStep, BrokerBuy, BrokerStop, thread, history
<1>2. CASE CancelsPosition
  BY <1>0, <1>2 DEF CancelsPosition, CancelStop, GoTo, history
<1>3. ASSUME NEW t \in Threads, EntryStep(t)
      PROVE  unheard' = {} /\ \A u \in Threads : pc'[u] \notin {"placed", "exposed"}
  <2>1. CASE Enter(t)
    BY <1>0, <2>1 DEF Enter, GoTo, history
  <2>2. ASSUME NEW taken \in BOOLEAN, NEW told \in BOOLEAN, PlaceBuy(t, taken, told)
        PROVE  unheard' = {} /\ \A u \in Threads : pc'[u] \notin {"placed", "exposed"}
    BY <1>0, <2>2 DEF PlaceBuy, GoTo, history
  <2>3. ASSUME NEW taken \in BOOLEAN, NEW told \in BOOLEAN, NEW level \in Levels,
               PlaceStop(t, level, taken, told)
        PROVE  unheard' = {} /\ \A u \in Threads : pc'[u] \notin {"placed", "exposed"}
    <3>1. AfterStop(t, told) = "verified"
      BY <2>3 DEF PlaceStop, Answers, AfterStop
    <3>2. QED
      BY <1>0, <2>3, <3>1 DEF PlaceStop, GoTo, history
  <2>4. CASE Waits(t)
    BY <1>0, <2>4, WaitsShape DEF history
  <2>5. ASSUME NEW key \in Keys, TakePosition(t, key)
        PROVE  unheard' = {} /\ \A u \in Threads : pc'[u] \notin {"placed", "exposed"}
    BY <1>0, <2>5 DEF TakePosition, GoTo, history
  <2>6. CASE EmergencySell(t)
    BY <1>0, <2>6 DEF EmergencySell, At
  <2>7. QED
    BY <1>3, <2>1, <2>2, <2>3, <2>4, <2>5, <2>6, EntryKinds
<1>4. ASSUME NEW t \in Threads, AfterCancel(t)
      PROVE  unheard' = {} /\ \A u \in Threads : pc'[u] \notin {"placed", "exposed"}
  <2>1. unheard' = {}
    BY <1>0, <1>4 DEF AfterCancel, SellAccepted, SellRejected, SellUnheard, RecordExit, ClearPosition, history
  <2>2. QED
    BY <1>0, <1>4, <2>1, ExitPlaces
<1>5. ASSUME NEW t \in Threads, CommandStep(t) \/ SelectStep(t)
      PROVE  unheard' = {} /\ \A u \in Threads : pc'[u] \notin {"placed", "exposed"}
  BY <1>0, <1>5 DEF CommandStep, ModifySl, ModifyWrite, ModifyUnheard, SelectStep, LookBeforeSelect,
                    Select, GoTo, history
<1>6. CASE TickStep
  BY <1>0, <1>6 DEF TickStep, StopFilled, Trail, TrailWrite, GoTo, history
<1>7. QED
  BY <1>1, <1>2, <1>3, <1>4, <1>5, <1>6, StepKinds

\* The tick thread's sales: one per SELL it had cancelled for.
LEMMA TickSells ==
  ASSUME EngineAssumption, TypeOK, MineInv, PaperAnswers, Paper, "tick" \in Threads, [Next]_vars,
         NEW e \in Entries, sold'[e]["tick"] # sold[e]["tick"]
  PROVE  pc["tick"] = "cancelled" /\ mine["tick"] = e /\ UNCHANGED trade
<1>1. ASSUME NEW t \in Threads, EntryStep(t) PROVE UNCHANGED sold
  <2>1. ~EmergencySell(t)
    BY DEF EmergencySell, At, PaperAnswers
  <2>2. QED
    BY <1>1, <2>1, EntryKinds, WaitsShape DEF Enter, PlaceBuy, PlaceStop, TakePosition, history
<1>2. ASSUME NEW t \in Threads, CommandStep(t) \/ SelectStep(t) PROVE UNCHANGED sold
  BY <1>2 DEF CommandStep, ModifySl, ModifyWrite, ModifyUnheard, SelectStep, LookBeforeSelect, Select, history
<1>3. CancelsPosition \/ TickStep \/ BrokerStep \/ UNCHANGED vars => UNCHANGED sold
  BY DEF CancelsPosition, CancelStop, TickStep, StopFilled, Trail, TrailWrite, BrokerStep, BrokerBuy,
         BrokerStop, vars, history
<1>4. PICK t \in Threads : AfterCancel(t)
  BY <1>1, <1>2, <1>3, StepKinds
<1>5. SellAccepted(t)
  BY <1>4 DEF AfterCancel, SellRejected, SellUnheard, RecordExit, ClearPosition, history
<1>6. mine[t] \in Entries
  BY <1>5, Holds DEF SellAccepted, At
<1>7. t = "tick" /\ mine[t] = e
  BY <1>5, <1>6, SaleTypes DEF SellAccepted
<1>8. QED
  BY <1>5, <1>7 DEF SellAccepted, At

\* The tick thread gets to "cancelled" by cancelling the stop of what it reads.
LEMMA TickCancels ==
  ASSUME EngineAssumption, TypeOK, MineInv, Paper, "tick" \in Threads, [Next]_vars,
         pc'["tick"] = "cancelled"
  PROVE  \/ pc["tick"] = "cancelled" /\ mine'["tick"] = mine["tick"]
         \/ mine'["tick"] = position /\ position \in Entries /\ trade'[position].stop = "cancelled"
<1>0. /\ pc \in [Threads -> Places] /\ mine \in [Threads -> 0..MaxEntries]
      /\ trade \in [Entries -> Trades] /\ (position # 0 => position \in Entries)
  BY DEF TypeOK, EngineAssumption, Entries
<1>1. CASE CancelsPosition
  <2>1. PICK t \in Threads : At(t, "idle") /\ position # 0 /\ CancelStop(t, position)
    BY <1>1 DEF CancelsPosition
  <2>2. /\ pc' = [pc EXCEPT ![t] = "cancelled"] /\ mine' = [mine EXCEPT ![t] = position]
        /\ trade' = [trade EXCEPT ![position].stop = "cancelled"]
    BY <2>1 DEF CancelStop, Reads, GoTo
  <2>3. trade'[position].stop = "cancelled"
    BY <1>0, <2>1, <2>2 DEF Trades
  <2>4. QED
    BY <1>0, <2>1, <2>2, <2>3
<1>2. ASSUME NEW t \in Threads, EntryStep(t)
      PROVE  pc["tick"] = "cancelled" /\ mine'["tick"] = mine["tick"]
  <2>1. ASSUME NEW taken \in BOOLEAN, NEW told \in BOOLEAN, NEW level \in Levels,
               PlaceStop(t, level, taken, told)
        PROVE  pc["tick"] = "cancelled" /\ mine'["tick"] = mine["tick"]
    BY <1>0, <2>1, AfterStopPlaces DEF PlaceStop, GoTo
  <2>2. ASSUME NEW taken \in BOOLEAN, NEW told \in BOOLEAN, PlaceBuy(t, taken, told)
        PROVE  pc["tick"] = "cancelled" /\ mine'["tick"] = mine["tick"]
    BY <1>0, <2>2 DEF PlaceBuy, GoTo
  <2>3. CASE Waits(t)
    BY <1>0, <2>3, WaitsShape
  <2>4. CASE Enter(t) \/ EmergencySell(t) \/ \E key \in Keys : TakePosition(t, key)
    BY <1>0, <2>4 DEF Enter, EmergencySell, TakePosition, Reads, GoTo
  <2>5. QED
    BY <1>2, <2>1, <2>2, <2>3, <2>4, EntryKinds
<1>3. ASSUME NEW t \in Threads, CommandStep(t) \/ SelectStep(t)
      PROVE  pc["tick"] = "cancelled" /\ mine'["tick"] = mine["tick"]
  BY <1>0, <1>3 DEF CommandStep, ModifySl, ModifyWrite, ModifyUnheard, SelectStep, LookBeforeSelect,
                    Select, Reads, GoTo
<1>4. ASSUME NEW t \in Threads, AfterCancel(t)
      PROVE  pc["tick"] = "cancelled" /\ mine'["tick"] = mine["tick"]
  BY <1>0, <1>4, ExitPlaces
<1>5. CASE TickStep
  BY <1>0, <1>5 DEF TickStep, StopFilled, Trail, TrailWrite, GoTo
<1>6. CASE UNCHANGED vars \/ BrokerStep
  BY <1>6 DEF BrokerStep, BrokerBuy, BrokerStop, vars, thread
<1>7. QED
  BY <1>1, <1>2, <1>3, <1>4, <1>5, <1>6, StepKinds

\* What was revived stays in the history.
LEMMA RevivedGrows ==
  ASSUME [Next]_vars
  PROVE  revived \subseteq revived'
<1>1. ASSUME NEW t \in Threads, EntryStep(t) PROVE UNCHANGED revived
  BY <1>1, EntryKinds, WaitsShape DEF Enter, PlaceBuy, PlaceStop, TakePosition, EmergencySell, history
<1>2. ASSUME NEW t \in Threads, AfterCancel(t) PROVE UNCHANGED revived
  BY <1>2, ExitPlaces
<1>3. QED
  BY <1>1, <1>2, StepKinds DEF vars, history, CancelsPosition, CancelStop, CommandStep, ModifySl,
     ModifyWrite, ModifyUnheard, SelectStep, LookBeforeSelect, Select, TickStep, StopFilled, Trail,
     TrailWrite, BrokerStep, BrokerBuy, BrokerStop

LEMMA PaperExitsStep ==
  ASSUME EngineAssumption, TypeOK, MineInv, SoldInv, PaperExits, [Next]_vars
  PROVE  PaperExits'
<1> SUFFICES ASSUME Paper, "tick" \in Threads, NEW e \in Entries, e \notin revived'
             PROVE  /\ sold'[e]["tick"] # 0 => trade'[e].stop # "complete"
                    /\ pc'["tick"] = "cancelled" /\ mine'["tick"] = e => trade'[e].stop # "complete"
  BY PaperAnswersStep DEF PaperExits
<1>0. e \notin revived \cup unheard
  BY RevivedGrows DEF PaperExits, PaperAnswers
<1>00. /\ sold[e]["tick"] # 0 => trade[e].stop # "complete"
       /\ pc["tick"] = "cancelled" /\ mine["tick"] = e => trade[e].stop # "complete"
       /\ sold[e]["tick"] # 0 /\ pc["tick"] = "idle" => position # e
  BY <1>0 DEF PaperExits, SoldInv
<1>1. trade'[e].stop = "complete" => trade[e].stop = "complete" \/ (StopFilled /\ e = position)
  BY PaperCompletes
<1>2. ASSUME sold'[e]["tick"] # 0 PROVE trade'[e].stop # "complete"
  <2>1. CASE sold[e]["tick"] # 0
    BY <1>00, <1>1, <2>1 DEF StopFilled, At
  <2>2. CASE sold[e]["tick"] = 0
    BY <1>00, <1>2, <2>2, TickSells DEF PaperExits
  <2>3. QED
    BY <2>1, <2>2
<1>3. ASSUME pc'["tick"] = "cancelled", mine'["tick"] = e PROVE trade'[e].stop # "complete"
  <2>1. CASE pc["tick"] = "cancelled" /\ mine["tick"] = e
    BY <1>00, <1>1, <2>1 DEF StopFilled, At
  <2>2. CASE e = position /\ trade'[position].stop = "cancelled"
    BY <2>2
  <2>3. QED
    BY <1>3, <2>1, <2>2, TickCancels
<1>4. QED
  BY <1>2, <1>3

(***************************************************************************)
(* A paper position ends once on the tick thread: by its stop, found by    *)
(* check_sl_filled, or by one SELL of _book_profit,                        *)
(* whatever flips, square-offs and approvals do in between.                *)
(***************************************************************************)
THEOREM OneExitPerEntryHolds == Spec => []OneExitPerEntry
<1>1. Init => PaperExits
  BY DEF Init, NoTrade, PaperExits, PaperAnswers
<1>2. EngineInv /\ PaperExits /\ [Next]_vars => PaperExits'
  BY EngineAssumption, PaperExitsStep DEF EngineInv
<1>3. EngineInv /\ PaperExits => OneExitPerEntry
  BY DEF EngineInv, TypeOK, SoldInv, PaperExits, PaperAnswers, OneExitPerEntry
<1>4. QED
  BY <1>1, <1>2, <1>3, EngineInvariant, PTL DEF Spec

-----------------------------------------------------------------------------
(* The stop without commands and approvals: only the tick thread enters    *)
(* and trails.  A flip may clear the position while a modification is      *)
(* under way; the trail then writes its trigger over the cleared one, but  *)
(* with no stop to refer to.                                               *)

OnlyTrails == Threads \cap (Commanders \cup {"approve"}) = {}

Trusted(e) == e # 0 /\ e \notin unheard

RiseInv ==
  /\ \A e \in Entries : e > entries => trade[e].stopAt = 0
  /\ \A t \in Threads :
       /\ pc[t] \in EntryPlaces => t = "tick"
       /\ pc[t] \in {"entering", "bought"} => trade[mine[t]].stopAt = 0
       /\ pc[t] \in {"placed", "verified"} => trade[mine[t]].stopAt <= trade[mine[t]].trigger
       /\ pc[t] = "trailing" => t = "tick" /\ trailing < aim[t] /\ stopRef \in {0, mine[t]}
       /\ pc[t] # "modifying"
  /\ Trusted(stopRef) =>
       \/ trade[stopRef].stopAt <= trailing
       \/ At("tick", "trailing") /\ trade[stopRef].stopAt <= aim["tick"]

StopsRise == \A e \in Entries : trade'[e].stopAt >= trade[e].stopAt \/ e \in unheard

\* What the invariant and its steps are about, typed.
LEMMA RiseTypes ==
  ASSUME EngineAssumption, TypeOK, MineInv
  PROVE  /\ trade \in [Entries -> Trades]
         /\ \A e \in Entries : trade[e].stopAt \in Nat /\ trade[e].trigger \in Nat
         /\ trailing \in Nat /\ stopRef \in 0..MaxEntries /\ (stopRef # 0 => stopRef \in Entries)
         /\ MaxEntries \in Nat /\ entries \in 0..MaxEntries /\ Entries = 1..MaxEntries
         /\ pc \in [Threads -> Places] /\ mine \in [Threads -> 0..MaxEntries] /\ aim \in [Threads -> Nat]
         /\ \A t \in Threads : pc[t] \notin {"idle", "select"} => mine[t] \in Entries
         /\ stopRef <= entries
<1>0. Levels \cup {0} \subseteq Nat
  BY DEF EngineAssumption
<1>1. \A e \in Entries : trade[e].stopAt \in Nat /\ trade[e].trigger \in Nat
  <2> SUFFICES ASSUME NEW e \in Entries PROVE trade[e].stopAt \in Nat /\ trade[e].trigger \in Nat
    OBVIOUS
  <2>1. trade[e] \in Trades
    BY DEF TypeOK
  <2>2. QED
    BY <1>0, <2>1 DEF Trades
<1>2. aim \in [Threads -> Nat] /\ trailing \in Nat
  BY <1>0 DEF TypeOK
<1>3. stopRef \in 0..MaxEntries /\ (stopRef # 0 => stopRef \in Entries)
  BY DEF TypeOK, EngineAssumption, Entries
<1>4. QED
  BY <1>1, <1>2, <1>3, Holds DEF TypeOK, EngineAssumption, Entries, MineInv

\* A step that leaves the stops' triggers, the reference and the entries alone, and
\* begins nothing on any thread.
LEMMA RiseKept ==
  ASSUME EngineAssumption, TypeOK, MineInv, RiseInv,
         \A e \in Entries : trade'[e].stopAt = trade[e].stopAt /\ trade'[e].trigger = trade[e].trigger,
         (stopRef' = 0 /\ trailing' = 0) \/ UNCHANGED <<stopRef, trailing>>,
         entries' = entries, unheard \subseteq unheard',
         \A t \in Threads :
           \/ pc[t] # "trailing" /\ pc'[t] \notin EntryPlaces \cup {"trailing", "modifying"}
           \/ /\ mine'[t] = mine[t] /\ aim'[t] = aim[t]
              /\ \/ pc'[t] = pc[t]
                 \/ pc[t] = "entering" /\ pc'[t] = "bought"
                 \/ pc[t] = "placed" /\ pc'[t] \in {"verified", "exposed"}
  PROVE  RiseInv' /\ StopsRise
<1> USE RiseTypes
<1>1. StopsRise
  BY DEF StopsRise
<1>2. \A e \in Entries : e > entries' => trade'[e].stopAt = 0
  BY DEF RiseInv
<1>3. stopRef' # 0 => stopRef' = stopRef /\ trailing' = trailing /\ stopRef \in Entries
  OBVIOUS
<1>4. ASSUME NEW t \in Threads
      PROVE  /\ pc'[t] \in EntryPlaces => t = "tick"
             /\ pc'[t] \in {"entering", "bought"} => trade'[mine'[t]].stopAt = 0
             /\ pc'[t] \in {"placed", "verified"} => trade'[mine'[t]].stopAt <= trade'[mine'[t]].trigger
             /\ pc'[t] = "trailing" => t = "tick" /\ trailing' < aim'[t] /\ stopRef' \in {0, mine'[t]}
             /\ pc'[t] # "modifying"
  <2>1. CASE pc[t] # "trailing" /\ pc'[t] \notin EntryPlaces \cup {"trailing", "modifying"}
    BY <2>1 DEF EntryPlaces
  <2>2. CASE mine'[t] = mine[t] /\ aim'[t] = aim[t] /\ pc'[t] = pc[t]
    <3>1. pc[t] \in EntryPlaces => mine[t] \in Entries
      BY DEF EntryPlaces
    <3>2. pc[t] = "trailing" => trailing' < aim[t] /\ stopRef' \in {0, mine[t]}
      BY DEF RiseInv
    <3>3. QED
      BY <2>2, <3>1, <3>2 DEF RiseInv, EntryPlaces
  <2>3. CASE mine'[t] = mine[t] /\ pc[t] = "entering" /\ pc'[t] = "bought"
    BY <2>3 DEF RiseInv, EntryPlaces
  <2>4. CASE mine'[t] = mine[t] /\ pc[t] = "placed" /\ pc'[t] \in {"verified", "exposed"}
    BY <2>4 DEF RiseInv, EntryPlaces
  <2>5. QED
    BY <2>1, <2>2, <2>3, <2>4
<1>5. Trusted(stopRef)' => Trusted(stopRef)
  BY <1>3 DEF Trusted
<1>6. Trusted(stopRef)' =>
        \/ trade'[stopRef'].stopAt <= trailing'
        \/ "tick" \in Threads /\ pc'["tick"] = "trailing" /\ trade'[stopRef'].stopAt <= aim'["tick"]
  BY <1>3, <1>5 DEF RiseInv, At, Trusted
<1>7. QED
  BY <1>1, <1>2, <1>4, <1>6 DEF RiseInv, At

\* An order's other fields and the sale of a position do not touch its triggers.
LEMMA TriggersKept ==
  ASSUME EngineAssumption, TypeOK, MineInv,
         \/ CancelsPosition \/ StopFilled \/ BrokerStep
         \/ \E t \in Threads : AfterCancel(t) \/ SelectStep(t) \/ ModifyUnheard(t)
         \/ \E t \in Threads : Enter(t) \/ Waits(t) \/ EmergencySell(t)
         \/ \E t \in Threads, taken, told \in BOOLEAN : PlaceBuy(t, taken, told)
         \/ \E t \in Threads, key \in Keys : TakePosition(t, key)
  PROVE  \A e \in Entries : trade'[e].stopAt = trade[e].stopAt /\ trade'[e].trigger = trade[e].trigger
<1> SUFFICES ASSUME NEW e \in Entries
             PROVE  trade'[e].stopAt = trade[e].stopAt /\ trade'[e].trigger = trade[e].trigger
  OBVIOUS
<1>0. trade \in [Entries -> Trades] /\ trade[e] \in Trades
  BY DEF TypeOK
<1> DEFINE Kept == trade'[e].stopAt = trade[e].stopAt /\ trade'[e].trigger = trade[e].trigger
<1>1. CASE CancelsPosition
  BY <1>0, <1>1 DEF CancelsPosition, CancelStop, Trades
<1>2. CASE StopFilled
  BY <1>0, <1>2 DEF StopFilled, Trades
<1>3. CASE BrokerStep
  <2>1. PICK f \in Entries, outcome \in {"complete", "rejected"} :
          BrokerBuy(f, outcome) \/ BrokerStop(f, outcome)
    BY <1>3 DEF BrokerStep
  <2>2. QED
    BY <1>0, <2>1 DEF BrokerBuy, BrokerStop, Trades
<1>4. ASSUME NEW t \in Threads, AfterCancel(t) \/ SelectStep(t) \/ ModifyUnheard(t) PROVE Kept
  BY <1>4, ExitPlaces DEF SelectStep, LookBeforeSelect, Select, ModifyUnheard
<1>5. ASSUME NEW t \in Threads, Enter(t) \/ Waits(t) \/ EmergencySell(t) PROVE Kept
  BY <1>5, WaitsShape DEF Enter, EmergencySell
<1>6. ASSUME NEW t \in Threads, NEW taken \in BOOLEAN, NEW told \in BOOLEAN, PlaceBuy(t, taken, told) PROVE Kept
  BY <1>0, <1>6 DEF PlaceBuy, Trades
<1>7. ASSUME NEW t \in Threads, NEW key \in Keys, TakePosition(t, key) PROVE Kept
  BY <1>0, <1>7 DEF TakePosition, Trades
<1>8. QED
  BY <1>1, <1>2, <1>3, <1>4, <1>5, <1>6, <1>7

LEMMA RiseEntry ==
  ASSUME EngineAssumption, TypeOK, MineInv, FreshInv, RiseInv, OnlyTrails, NEW t \in Threads, EntryStep(t)
  PROVE  RiseInv' /\ StopsRise
<1> USE RiseTypes
<1>1. CASE Enter(t)
  <2>1. /\ t = "tick" /\ entries' = entries + 1 /\ entries' \in Entries /\ mine'["tick"] = entries'
        /\ pc' = [pc EXCEPT !["tick"] = "entering"] /\ pc["tick"] = "idle"
        /\ UNCHANGED <<stopRef, trailing, trade, unheard>>
    <3>1. t \notin {"approve"}
      BY DEF OnlyTrails
    <3>2. t = "tick" /\ entries < MaxEntries /\ entries' = entries + 1 /\ pc[t] = "idle"
      BY <1>1, <3>1 DEF Enter, At
    <3>3. mine' = [mine EXCEPT ![t] = entries'] /\ pc' = [pc EXCEPT ![t] = "entering"]
      BY <1>1 DEF Enter, Reads, GoTo
    <3>4. UNCHANGED <<stopRef, trailing, trade, unheard>>
      BY <1>1 DEF Enter, engine, history
    <3>5. QED
      BY <3>2, <3>3, <3>4
  <2>2. StopsRise
    <3>1. \A e \in Entries : trade'[e].stopAt = trade[e].stopAt /\ trade[e].stopAt \in Nat
      BY <2>1
    <3>2. QED
      BY <3>1 DEF StopsRise
  <2>3. /\ trade'[entries'].stopAt = 0
        /\ \A e \in Entries : e > entries' => trade'[e].stopAt = 0
    BY <2>1 DEF RiseInv
  <2>4. ASSUME NEW u \in Threads
        PROVE  /\ pc'[u] \in EntryPlaces => u = "tick" /\ mine'[u] = entries' /\ pc'[u] = "entering"
               /\ pc'[u] \notin {"trailing", "modifying"}
    BY <2>1 DEF RiseInv, EntryPlaces
  <2>5. Trusted(stopRef)' => trade'[stopRef'].stopAt <= trailing'
    BY <2>1 DEF RiseInv, At, Trusted
  <2>6. QED
    BY <2>2, <2>3, <2>4, <2>5 DEF RiseInv, EntryPlaces
<1>2. ASSUME NEW taken \in BOOLEAN, NEW told \in BOOLEAN, PlaceBuy(t, taken, told) PROVE RiseInv' /\ StopsRise
  <2>1. \A e \in Entries : trade'[e].stopAt = trade[e].stopAt /\ trade'[e].trigger = trade[e].trigger
    BY <1>2, TriggersKept
  <2>2. /\ pc[t] = "entering" /\ pc' = [pc EXCEPT ![t] = IF told THEN "bought" ELSE "idle"]
        /\ UNCHANGED <<stopRef, trailing, entries, mine, aim, unheard>>
    BY <1>2 DEF PlaceBuy, At, GoTo, engine, bounds, history
  <2>3. \A u \in Threads : pc'[u] = pc[u] \/ (pc[u] = "entering" /\ pc'[u] \in {"bought", "idle"})
    BY <2>2
  <2>4. QED
    BY <2>1, <2>2, <2>3, RiseKept DEF EntryPlaces
<1>3. CASE Waits(t)
  <2>1. \A e \in Entries : trade'[e].stopAt = trade[e].stopAt /\ trade'[e].trigger = trade[e].trigger
    BY <1>3, TriggersKept
  <2>2. UNCHANGED <<stopRef, trailing, entries, mine, aim, unheard>>
    BY <1>3, WaitsShape DEF history
  <2>3. \A u \in Threads :
          \/ pc'[u] = pc[u]
          \/ pc[u] = "bought" /\ pc'[u] = "idle"
          \/ pc[u] = "placed" /\ pc'[u] \in {"verified", "exposed"}
    BY <1>3, WaitsShape
  <2>4. QED
    BY <2>1, <2>2, <2>3, RiseKept DEF EntryPlaces
<1>4. ASSUME NEW taken \in BOOLEAN, NEW told \in BOOLEAN, NEW level \in Levels,
             PlaceStop(t, level, taken, told)
      PROVE  RiseInv' /\ StopsRise
  <2>1. level \in Nat \ {0}
    BY DEF EngineAssumption
  <2>2. /\ pc[t] = "bought" /\ mine[t] \in Entries
        /\ entries' = entries /\ mine' = mine
        /\ pc' = [pc EXCEPT ![t] = AfterStop(t, told)]
        /\ UNCHANGED <<stopRef, trailing, unheard>>
    BY <1>4 DEF PlaceStop, At, GoTo, engine, bounds, history
  <2>3. t = "tick" /\ trade[mine[t]].stopAt = 0 /\ stopRef # mine[t]
    BY <2>2 DEF RiseInv, FreshInv, EntryPlaces
  <2>4. /\ \/ trade'[mine[t]] = trade[mine[t]] /\ ~told
           \/ trade'[mine[t]].stopAt = level /\ trade'[mine[t]].trigger = level
        /\ \A e \in Entries : e # mine[t] => trade'[e] = trade[e]
    BY <1>4, <2>2 DEF PlaceStop, Answers, Trades
  <2>5. StopsRise
    BY <2>1, <2>2, <2>3, <2>4 DEF StopsRise
  <2>6. \A e \in Entries : e > entries' => trade'[e].stopAt = 0
    BY <2>2, <2>4 DEF RiseInv, MineInv
  <2>7. /\ AfterStop(t, told) \in {"placed", "verified", "exposed"}
        /\ AfterStop(t, told) # "exposed" => told
    BY AfterStopPlaces DEF AfterStop
  <2>8. ASSUME NEW u \in Threads
        PROVE  /\ pc'[u] \in EntryPlaces => u = "tick"
               /\ pc'[u] \notin {"entering", "bought", "trailing", "modifying"}
               /\ pc'[u] \in {"placed", "verified"} => trade'[mine'[u]].stopAt <= trade'[mine'[u]].trigger
    <3>1. CASE u # t
      <4>1. pc'[u] = pc[u] /\ u # "tick"
        BY <2>2, <2>3, <3>1
      <4>2. QED
        BY <4>1 DEF RiseInv, EntryPlaces
    <3>2. CASE u = t
      <4>1. pc'[u] = AfterStop(t, told) /\ mine'[u] = mine[t]
        BY <2>2, <3>2
      <4>2. pc'[u] # "exposed" => trade'[mine[t]].stopAt = level /\ trade'[mine[t]].trigger = level
        BY <2>4, <2>7, <4>1
      <4>3. QED
        BY <2>1, <2>3, <2>7, <3>2, <4>1, <4>2
    <3>3. QED
      BY <3>1, <3>2
  <2>9. Trusted(stopRef)' => trade'[stopRef'].stopAt <= trailing'
    <3>1. ASSUME Trusted(stopRef)' PROVE trade[stopRef].stopAt <= trailing /\ stopRef \in Entries
      BY <2>2, <2>3, <3>1 DEF RiseInv, At, Trusted
    <3>2. QED
      BY <2>2, <2>3, <2>4, <3>1
  <2>10. QED
    BY <2>5, <2>6, <2>8, <2>9 DEF RiseInv, EntryPlaces
<1>5. ASSUME NEW key \in Keys, TakePosition(t, key) PROVE RiseInv' /\ StopsRise
  <2>1. \A e \in Entries : trade'[e].stopAt = trade[e].stopAt /\ trade'[e].trigger = trade[e].trigger
    BY <1>5, TriggersKept
  <2>2. /\ pc[t] = "verified" /\ mine[t] \in Entries
        /\ stopRef' = mine[t] /\ trailing' = trade[mine[t]].trigger /\ entries' = entries /\ mine' = mine
        /\ pc' = [pc EXCEPT ![t] = "idle"] /\ unheard' = unheard
    BY <1>5 DEF TakePosition, At, GoTo, bounds, history
  <2>3. t = "tick" /\ trade[mine[t]].stopAt <= trade[mine[t]].trigger
    BY <2>2 DEF RiseInv, EntryPlaces
  <2>4. StopsRise
    BY <2>1 DEF StopsRise
  <2>5. \A e \in Entries : e > entries' => trade'[e].stopAt = 0
    BY <2>1, <2>2 DEF RiseInv
  <2>6. \A u \in Threads : pc'[u] \notin EntryPlaces \cup {"trailing", "modifying"}
    BY <2>2, <2>3 DEF RiseInv, EntryPlaces
  <2>7. trade'[stopRef'].stopAt <= trailing'
    BY <2>1, <2>2, <2>3
  <2>8. QED
    BY <2>4, <2>5, <2>6, <2>7 DEF RiseInv, EntryPlaces
<1>6. CASE EmergencySell(t)
  <2>1. \A e \in Entries : trade'[e].stopAt = trade[e].stopAt /\ trade'[e].trigger = trade[e].trigger
    BY <1>6, TriggersKept
  <2>2. /\ pc[t] = "exposed" /\ pc' = [pc EXCEPT ![t] = "idle"]
        /\ UNCHANGED <<stopRef, trailing, entries, mine, aim, unheard>>
    BY <1>6 DEF EmergencySell, At, GoTo, engine, bounds
  <2>3. QED
    BY <2>1, <2>2, RiseKept DEF EntryPlaces
<1>7. QED
  BY <1>1, <1>2, <1>3, <1>4, <1>5, <1>6, EntryKinds

LEMMA RiseTick ==
  ASSUME EngineAssumption, TypeOK, MineInv, RiseInv, TickStep
  PROVE  RiseInv' /\ StopsRise
<1> USE RiseTypes
<1>1. CASE StopFilled
  <2>1. \A e \in Entries : trade'[e].stopAt = trade[e].stopAt /\ trade'[e].trigger = trade[e].trigger
    BY <1>1, TriggersKept
  <2>2. /\ pc["tick"] = "idle" /\ "tick" \in Threads /\ pc' = [pc EXCEPT !["tick"] = "sold"]
        /\ mine' = [mine EXCEPT !["tick"] = position]
        /\ UNCHANGED <<stopRef, trailing, entries, aim, unheard>>
    BY <1>1 DEF StopFilled, At, Reads, GoTo, engine, bounds, history
  <2>3. QED
    BY <2>1, <2>2, RiseKept DEF EntryPlaces
<1>2. ASSUME NEW level \in Levels, Trail(level) PROVE RiseInv' /\ StopsRise
  <2>1. level \in Nat \ {0}
    BY DEF EngineAssumption
  <2>2. /\ "tick" \in Threads /\ pc["tick"] = "idle" /\ pc' = [pc EXCEPT !["tick"] = "trailing"]
        /\ aim' = [aim EXCEPT !["tick"] = level] /\ mine' = [mine EXCEPT !["tick"] = stopRef]
        /\ stopRef \in Entries /\ trailing < level
        /\ UNCHANGED <<stopRef, trailing, entries, unheard>>
    BY <1>2, <2>1 DEF Trail, Raises, At, Reads, GoTo, engine, bounds, history
  <2>3. /\ trade'[stopRef].stopAt \in {level, trade[stopRef].stopAt}
        /\ \A e \in Entries : e # stopRef => trade'[e] = trade[e]
    BY <1>2, <2>2 DEF Trail, ModifyStop, Trades
  <2>4. stopRef \notin unheard => trade[stopRef].stopAt <= trailing
    BY <2>2 DEF RiseInv, At, Trusted
  <2>5. StopsRise
    BY <2>1, <2>2, <2>3, <2>4 DEF StopsRise
  <2>6. \A e \in Entries : e > entries' => trade'[e].stopAt = 0
    <3>1. stopRef <= entries /\ \A e \in Entries : e > entries => trade[e].stopAt = 0
      BY DEF RiseInv
    <3>2. ASSUME NEW e \in Entries, e > entries PROVE e # stopRef
      BY <3>1, <3>2
    <3>3. QED
      BY <2>2, <2>3, <3>1, <3>2
  <2>7. \A t \in Threads : /\ pc'[t] \notin EntryPlaces \cup {"modifying"}
                           /\ pc'[t] = "trailing" =>
                                t = "tick" /\ trailing' < aim'[t] /\ stopRef' = mine'[t]
    <3>1. \A t \in Threads : t # "tick" => pc[t] \notin EntryPlaces \cup {"modifying", "trailing"}
      BY DEF RiseInv
    <3>2. QED
      BY <2>2, <3>1 DEF EntryPlaces
  <2>8. Trusted(stopRef) => trade'[stopRef].stopAt <= aim'["tick"]
    BY <2>1, <2>2, <2>3, <2>4 DEF Trusted
  <2>9. QED
    BY <2>2, <2>5, <2>6, <2>7, <2>8 DEF RiseInv, At, Trusted, EntryPlaces
<1>3. CASE TrailWrite
  <2>1. \A e \in Entries : trade'[e].stopAt = trade[e].stopAt
    BY <1>3 DEF TrailWrite, Trades
  <2>2. /\ "tick" \in Threads /\ pc["tick"] = "trailing" /\ pc' = [pc EXCEPT !["tick"] = "idle"]
        /\ trailing' = aim["tick"]
        /\ UNCHANGED <<stopRef, entries, mine, aim, unheard>>
    BY <1>3 DEF TrailWrite, At, GoTo, bounds, history
  <2>3. trailing < aim["tick"]
    BY <2>2 DEF RiseInv
  <2>4. Trusted(stopRef) => trade[stopRef].stopAt <= aim["tick"]
    BY <2>2, <2>3 DEF RiseInv, Trusted
  <2>5. StopsRise
    BY <2>1 DEF StopsRise
  <2>6. \A e \in Entries : e > entries' => trade'[e].stopAt = 0
    BY <2>1, <2>2 DEF RiseInv
  <2>7. \A t \in Threads : pc'[t] \notin EntryPlaces \cup {"trailing", "modifying"}
    BY <2>2 DEF RiseInv, EntryPlaces
  <2>8. Trusted(stopRef)' => trade'[stopRef'].stopAt <= trailing'
    BY <2>1, <2>2, <2>4 DEF Trusted
  <2>9. QED
    BY <2>5, <2>6, <2>7, <2>8 DEF RiseInv, EntryPlaces
<1>4. QED
  BY <1>1, <1>2, <1>3 DEF TickStep

\* A trail whose answer is lost: its stop is trusted no more.
LEMMA RiseUnheard ==
  ASSUME EngineAssumption, TypeOK, MineInv, RiseInv, NEW t \in Threads, ModifyUnheard(t)
  PROVE  RiseInv' /\ StopsRise
<1> USE RiseTypes
<1>1. /\ t = "tick" /\ pc[t] = "trailing" /\ pc' = [pc EXCEPT ![t] = "idle"]
      /\ unheard' = unheard \cup {mine[t]} /\ stopRef \in {0, mine[t]}
      /\ UNCHANGED <<stopRef, trailing, entries, mine, aim, trade>>
  BY DEF ModifyUnheard, At, GoTo, engine, bounds, RiseInv
<1>2. StopsRise
  BY <1>1 DEF StopsRise
<1>3. \A e \in Entries : e > entries' => trade'[e].stopAt = 0
  BY <1>1 DEF RiseInv
<1>4. \A u \in Threads : pc'[u] \notin EntryPlaces \cup {"trailing", "modifying"}
  BY <1>1 DEF RiseInv, EntryPlaces
<1>5. ~Trusted(stopRef)'
  BY <1>1 DEF Trusted
<1>6. QED
  BY <1>2, <1>3, <1>4, <1>5 DEF RiseInv, EntryPlaces

LEMMA RiseStep ==
  ASSUME EngineAssumption, TypeOK, MineInv, FreshInv, RiseInv, OnlyTrails, [Next]_vars
  PROVE  RiseInv' /\ StopsRise
<1> USE RiseTypes
<1>1. CASE UNCHANGED vars
  BY <1>1 DEF vars, engine, thread, bounds, history, RiseInv, StopsRise, At, Trusted
<1>2. CASE CancelsPosition
  <2>1. \A e \in Entries : trade'[e].stopAt = trade[e].stopAt /\ trade'[e].trigger = trade[e].trigger
    BY <1>2, TriggersKept
  <2>2. PICK t \in Threads : At(t, "idle") /\ position # 0 /\ CancelStop(t, position)
    BY <1>2 DEF CancelsPosition
  <2>3. /\ pc[t] = "idle" /\ pc' = [pc EXCEPT ![t] = "cancelled"]
        /\ mine' = [mine EXCEPT ![t] = position]
        /\ UNCHANGED <<stopRef, trailing, entries, aim, unheard>>
    BY <2>2 DEF CancelStop, At, Reads, GoTo, engine, bounds, history
  <2>4. QED
    BY <2>1, <2>3, RiseKept DEF EntryPlaces
<1>3. ASSUME NEW t \in Threads, EntryStep(t) PROVE RiseInv' /\ StopsRise
  BY <1>3, RiseEntry
<1>4. ASSUME NEW t \in Threads, AfterCancel(t) PROVE RiseInv' /\ StopsRise
  <2>1. \A e \in Entries : trade'[e].stopAt = trade[e].stopAt /\ trade'[e].trigger = trade[e].trigger
    BY <1>4, TriggersKept
  <2>2. /\ pc[t] \in {"cancelled", "sold", "recorded"}
        /\ \E p \in {"idle", "sold", "recorded", "select"} : pc' = [pc EXCEPT ![t] = p]
        /\ UNCHANGED <<entries, mine, aim>>
    BY <1>4, ExitPlaces DEF bounds
  <2>3. /\ (stopRef' = 0 /\ trailing' = 0) \/ UNCHANGED <<stopRef, trailing>>
        /\ unheard \subseteq unheard'
    BY <1>4 DEF AfterCancel, SellAccepted, SellRejected, SellUnheard, RecordExit, ClearPosition, engine, history
  <2>4. QED
    BY <2>1, <2>2, <2>3, RiseKept DEF EntryPlaces
<1>5. ASSUME NEW t \in Threads, SelectStep(t) PROVE RiseInv' /\ StopsRise
  <2>1. \A e \in Entries : trade'[e].stopAt = trade[e].stopAt /\ trade'[e].trigger = trade[e].trigger
    BY <1>5, TriggersKept
  <2>2. /\ pc[t] \in {"idle", "select"}
        /\ \E p \in {"idle", "select"} : pc' = [pc EXCEPT ![t] = p]
        /\ UNCHANGED <<stopRef, trailing, entries, mine, aim, unheard>>
    BY <1>5 DEF SelectStep, LookBeforeSelect, Select, At, GoTo, engine, bounds, history
  <2>3. QED
    BY <2>1, <2>2, RiseKept DEF EntryPlaces
<1>6. ASSUME NEW t \in Threads, CommandStep(t) PROVE RiseInv' /\ StopsRise
  <2>1. ModifyUnheard(t)
    BY <1>6 DEF CommandStep, ModifySl, ModifyWrite, At, OnlyTrails, RiseInv
  <2>2. QED
    BY <2>1, RiseUnheard
<1>7. CASE TickStep
  BY <1>7, RiseTick
<1>8. CASE BrokerStep
  <2>1. \A e \in Entries : trade'[e].stopAt = trade[e].stopAt /\ trade'[e].trigger = trade[e].trigger
    BY <1>8, TriggersKept
  <2>2. UNCHANGED <<stopRef, trailing, entries, pc, mine, aim, unheard>>
    BY <1>8 DEF BrokerStep, BrokerBuy, BrokerStop, engine, bounds, thread, history
  <2>3. QED
    BY <2>1, <2>2, RiseKept
<1>9. QED
  BY <1>1, <1>2, <1>3, <1>4, <1>5, <1>6, <1>7, <1>8, StepKinds

(***************************************************************************)
(* An engine that nobody sends stop modifications to and that approves     *)
(* nothing never lowers a stop whose trigger it has heard of: neither      *)
(* _maybe_trail nor the next entry does, also when _check_direction clears *)
(* trailing_sl while the broker answers.                                   *)
(***************************************************************************)
THEOREM StopOnlyRisesHolds == ASSUME OnlyTrails PROVE Spec => StopOnlyRises
<1>1. Init => RiseInv
  <2> SUFFICES ASSUME Init PROVE RiseInv
    OBVIOUS
  <2>1. /\ stopRef = 0 /\ entries = 0 /\ pc = [t \in Threads |-> "idle"]
        /\ trade = [e \in Entries |-> NoTrade(instrument)]
    BY DEF Init
  <2>2. \A e \in Entries : trade[e].stopAt = 0
    BY <2>1 DEF NoTrade
  <2>3. QED
    BY <2>1, <2>2 DEF RiseInv, EntryPlaces, Trusted
<1>2. EngineInv /\ RiseInv /\ [Next]_vars => RiseInv' /\ StopsRise
  BY EngineAssumption, RiseStep DEF EngineInv
<1>3. EngineInv /\ RiseInv /\ [Next]_vars =>
        [\A e \in Entries : trade'[e].stopAt >= trade[e].stopAt \/ e \in unheard]_vars
  BY <1>2 DEF StopsRise
<1>4. QED
  BY <1>1, <1>2, <1>3, EngineInvariant, PTL DEF Spec, StopOnlyRises
=============================================================================
