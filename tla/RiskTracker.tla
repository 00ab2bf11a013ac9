---------------------------- MODULE RiskTracker ----------------------------
(***************************************************************************)
(* The account-wide daily risk counters of one user:                       *)
(* backend/engine/engine_v6.py, class RiskTracker, and the three places of *)
(* the SymbolEngine that use it (_on_bar_close/_risk_ok, _place_trade,     *)
(* _record_exit) plus the approval path of worker.py.                      *)
(*                                                                         *)
(* One tracker object is shared by one SymbolEngine thread per symbol.     *)
(* Every method of the tracker holds its lock, so each is one step; what   *)
(* happens between two methods (an order, a fill wait of up to 20 s) is    *)
(* not covered by the lock, so check and record_entry are separate steps.  *)
(***************************************************************************)
EXTENDS Integers, FiniteSets

CONSTANTS
  Engines,       \* one SymbolEngine per traded symbol
  Strategies,    \* how many strategies one bar close evaluates in turn (7 in the code)
  MaxTrades,     \* cfg["max_trades_per_day"]
  MaxLoss,       \* cfg["max_loss_per_day"]
  PnLs,          \* the profit or loss a closed trade can bring
  MaxDay,        \* bound: number of calendar days explored
  MaxApprovals,  \* bound: number of approved pending trades
  MaxExits       \* bound: threads inside an exit of one engine at a time

ASSUME RiskAssumption ==
  /\ IsFiniteSet(Engines) /\ Engines # {}
  /\ Strategies \in Nat \ {0}
  /\ MaxTrades \in Nat \ {0}
  /\ MaxLoss \in Nat \ {0}
  /\ PnLs \subseteq Int
  /\ MaxDay \in Nat \ {0}
  /\ MaxApprovals \in Nat
  /\ MaxExits \in Nat

Breaches == {"max_trades", "max_loss"}
Days     == 1..MaxDay
Stages   == {"idle", "eval", "placing"}

VARIABLES
  today,          \* the wall-clock date
  lastDate,       \* _last_date; 0 is None
  tradesToday,    \* trades_today
  netPnl,         \* net_pnl_today
  alerted,        \* the limits whose _alerted_..._today flag is set
  stage,          \* where an engine's _on_bar_close is: idle, past its check
                  \* and evaluating strategies, or inside _place_trade
  left,           \* the strategies that _on_bar_close has not evaluated yet
  open,           \* the engines whose self.position is set
  exiting,        \* threads of an engine that are inside an exit
  approvals,      \* approved pending trades so far (bounded)
  spent,          \* history: the engines that entered on their current check
  bypassed,       \* history: entries of the tracker's date with no check of their own
  lateEntries,    \* history: checked entries recorded since the loss limit was hit
  alerts          \* history: RISK_LIMIT_HIT events per date and breach

counters == <<lastDate, tradesToday, netPnl, alerted>>
bar      == <<stage, left, spent>>
trades   == <<open, exiting, approvals>>
history  == <<bypassed, lateEntries, alerts>>
vars     == <<today, counters, bar, trades, history>>

Init ==
  /\ today = 1
  /\ lastDate = 0
  /\ tradesToday = 0
  /\ netPnl = 0
  /\ alerted = {}
  /\ stage = [e \in Engines |-> "idle"]
  /\ left = [e \in Engines |-> 0]
  /\ open = {}
  /\ exiting = [e \in Engines |-> 0]
  /\ approvals = 0
  /\ spent = {}
  /\ bypassed = 0
  /\ lateEntries = 0
  /\ alerts = [d \in Days |-> [b \in Breaches |-> 0]]

(***************************************************************************)
(* _maybe_reset, the first statement of every method: the value a counter  *)
(* has after it.                                                           *)
(***************************************************************************)
Current(value, zero) == IF lastDate = today THEN value ELSE zero

Trades  == Current(tradesToday, 0)
Pnl     == Current(netPnl, 0)
Alerted == Current(alerted, {})

\* The two limits of check.
\* Off by one, for mutation: a limit that is only reached when exceeded.
TradeCapExceeded == Trades > MaxTrades
TradeCapHit      == Trades >= MaxTrades
LossExceeded     == Pnl < -MaxLoss
LossHit          == Pnl <= -MaxLoss

\* For the history only: an account at or below its loss limit.
UnderLimit(pnl) == pnl <= -MaxLoss

\* What _maybe_reset leaves of the counters a method does not change itself.
KeepTrades == tradesToday' = Trades
KeepPnl    == netPnl' = Pnl
DropAlerts == alerted' = {}            \* for mutation: flags not kept within a day
KeepAlerts == alerted' = Alerted
Rolled     == lastDate' = today

NewDay ==
  /\ today < MaxDay
  /\ today' = today + 1
  /\ UNCHANGED <<counters, bar, trades, history>>

(***************************************************************************)
(* The start of _on_bar_close: one check, and the one alert of a first     *)
(* breach.  When the check passes, the strategies are evaluated in turn,   *)
(* and none of them checks again.                                          *)
(***************************************************************************)
Breach(kind) ==
  /\ alerted' = Alerted \cup {kind}
  /\ alerts' = IF kind \in Alerted THEN alerts
                                   ELSE [alerts EXCEPT ![today][kind] = @ + 1]
  /\ UNCHANGED bar

Check(e) ==
  /\ stage[e] = "idle"
  /\ Rolled /\ KeepTrades /\ KeepPnl
  /\ \/ TradeCapHit /\ Breach("max_trades")
     \/ ~TradeCapHit /\ LossHit /\ Breach("max_loss")
     \/ /\ ~TradeCapHit /\ ~LossHit
        /\ KeepAlerts
        /\ stage' = [stage EXCEPT ![e] = "eval"]
        /\ left' = [left EXCEPT ![e] = Strategies]
        /\ spent' = spent \ {e}
        /\ UNCHANGED alerts
  /\ bypassed' = Current(bypassed, 0)
  /\ lateEntries' = Current(lateEntries, 0)
  /\ UNCHANGED <<today, trades>>

\* A strategy fires: each of them returns first when there is a position.
Fire(e) ==
  /\ stage[e] = "eval"
  /\ left[e] > 0
  /\ e \notin open
  /\ stage' = [stage EXCEPT ![e] = "placing"]
  /\ left' = [left EXCEPT ![e] = @ - 1]
  /\ UNCHANGED <<today, counters, spent, trades, history>>

\* The BUY was rejected, never confirmed, or left for an approval: the next
\* strategy is evaluated.
Abandon(e) ==
  /\ stage[e] = "placing"
  /\ stage' = [stage EXCEPT ![e] = "eval"]
  /\ UNCHANGED <<today, counters, left, spent, trades, history>>

(***************************************************************************)
(* The last lines of _place_trade: the position, and record_entry without  *)
(* a second check.  The position may already have been closed by another   *)
(* thread when a later strategy of the same bar close enters again.        *)
(***************************************************************************)
RecordEntry(e) ==
  /\ stage[e] = "placing"
  /\ stage' = [stage EXCEPT ![e] = "eval"]
  /\ spent' = spent \cup {e}
  /\ open' = open \cup {e}
  /\ Rolled /\ KeepPnl /\ KeepAlerts
  /\ tradesToday' = Trades + 1
  /\ bypassed' = Current(bypassed, 0) + (IF e \in spent THEN 1 ELSE 0)
  /\ lateEntries' = IF UnderLimit(Pnl) /\ e \notin spent
                      THEN Current(lateEntries, 0) + 1 ELSE Current(lateEntries, 0)
  /\ UNCHANGED <<today, left, exiting, approvals, alerts>>

\* No strategy is left, or none of the others fires.
EndBar(e) ==
  /\ stage[e] = "eval"
  /\ stage' = [stage EXCEPT ![e] = "idle"]
  /\ left' = [left EXCEPT ![e] = 0]
  /\ UNCHANGED <<today, counters, spent, trades, history>>

(***************************************************************************)
(* An approved pending trade is entered by the worker, whatever the engine *)
(* is doing and without asking the tracker.                                *)
(***************************************************************************)
ApprovedEntry(e) ==
  /\ approvals < MaxApprovals
  /\ approvals' = approvals + 1
  /\ open' = open \cup {e}
  /\ Rolled /\ KeepPnl /\ KeepAlerts
  /\ tradesToday' = Trades + 1
  /\ bypassed' = Current(bypassed, 0) + 1
  /\ lateEntries' = Current(lateEntries, 0)
  /\ UNCHANGED <<today, bar, exiting, alerts>>

(***************************************************************************)
(* An exit: a thread (tick, direction flip, square off) sees the position  *)
(* and sells, which takes a while, then runs _record_exit.  Two threads    *)
(* may be inside the exit of one position.                                 *)
(***************************************************************************)
BeginExit(e) ==
  /\ e \in open
  /\ exiting[e] < MaxExits
  /\ exiting' = [exiting EXCEPT ![e] = @ + 1]
  /\ UNCHANGED <<today, counters, bar, open, approvals, history>>

\* For mutation: a closed trade gives its place in the daily cap back.
RecordExitFreesPlace(e, pnl) ==
  /\ exiting[e] > 0
  /\ exiting' = [exiting EXCEPT ![e] = @ - 1]
  /\ open' = open \ {e}
  /\ Rolled /\ KeepAlerts
  /\ tradesToday' = Trades - 1
  /\ netPnl' = Pnl + pnl
  /\ bypassed' = Current(bypassed, 0)
  /\ lateEntries' = IF UnderLimit(Pnl + pnl) THEN Current(lateEntries, 0) ELSE 0
  /\ UNCHANGED <<today, bar, approvals, alerts>>

\* _record_exit: net P&L, wins offset losses.  A caller that computed the
\* P&L itself records it even when another thread has closed the position,
\* and a position opened since is cleared with it.
RecordExit(e, pnl) ==
  /\ exiting[e] > 0
  /\ exiting' = [exiting EXCEPT ![e] = @ - 1]
  /\ open' = open \ {e}
  /\ Rolled /\ KeepTrades /\ KeepAlerts
  /\ netPnl' = Pnl + pnl
  /\ bypassed' = Current(bypassed, 0)
  /\ lateEntries' = IF UnderLimit(Pnl + pnl) THEN Current(lateEntries, 0) ELSE 0
  /\ UNCHANGED <<today, bar, approvals, alerts>>

\* Without a P&L of the caller's, a position that is gone raises first.
LoseExit(e) ==
  /\ exiting[e] > 0
  /\ e \notin open
  /\ exiting' = [exiting EXCEPT ![e] = @ - 1]
  /\ UNCHANGED <<today, counters, bar, open, approvals, history>>

\* The dashboard's snapshot, and the one a breach reports, roll the date too.
Snapshot ==
  /\ Rolled /\ KeepTrades /\ KeepPnl /\ KeepAlerts
  /\ bypassed' = Current(bypassed, 0)
  /\ lateEntries' = Current(lateEntries, 0)
  /\ UNCHANGED <<today, bar, trades, alerts>>

Next ==
  \/ NewDay
  \/ Snapshot
  \/ \E e \in Engines :
       \/ Check(e)
       \/ Fire(e)
       \/ Abandon(e)
       \/ RecordEntry(e)
       \/ EndBar(e)
       \/ ApprovedEntry(e)
       \/ BeginExit(e)
       \/ \E pnl \in PnLs : RecordExit(e, pnl)
       \/ LoseExit(e)

Spec == Init /\ [][Next]_vars

-----------------------------------------------------------------------------
\* The engines that may still enter on a check they have passed.
Fresh == {e \in Engines : stage[e] # "idle" /\ e \notin spent}

(***************************************************************************)
(* Type invariant; the tracker's date never runs ahead of the clock.       *)
(***************************************************************************)
TypeOK ==
  /\ today \in Days
  /\ lastDate \in 0..today
  /\ tradesToday \in Nat
  /\ netPnl \in Int
  /\ alerted \subseteq Breaches
  /\ stage \in [Engines -> Stages]
  /\ left \in [Engines -> 0..Strategies]
  /\ open \subseteq Engines
  /\ exiting \in [Engines -> 0..MaxExits]
  /\ approvals \in 0..MaxApprovals
  /\ spent \subseteq Engines
  /\ bypassed \in Nat
  /\ lateEntries \in Nat
  /\ alerts \in [Days -> [Breaches -> Nat]]

(***************************************************************************)
(* How far trades_today can run past max_trades_per_day: check and         *)
(* record_entry are separate critical sections, so every other engine may  *)
(* be past a check that allowed it; and approved pending trades, as well   *)
(* as a second entry of one bar close, are entered without a check.        *)
(***************************************************************************)
EntryBound == tradesToday <= MaxTrades + Cardinality(Engines) - 1 + bypassed

(***************************************************************************)
(* "caller uses this to send exactly one alert per limit per day": no      *)
(* date gets two RISK_LIMIT_HIT events for the same limit, whichever       *)
(* engines close a bar and in whatever order.                              *)
(***************************************************************************)
OneAlertPerBreach == \A d \in Days, b \in Breaches : alerts[d][b] <= 1

(***************************************************************************)
(* After the net loss limit is hit, the checked entries still recorded     *)
(* (until a win lifts the account over the limit again) are at most one    *)
(* per engine: of those that were past their check when it was hit.        *)
(***************************************************************************)
LossHaltsEntries == lateEntries <= Cardinality(Engines)
=============================================================================
