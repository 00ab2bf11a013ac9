--------------------------- MODULE TradeDecision ---------------------------
(***************************************************************************)
(* What the approval of semi-automatic trades promises, with no database,  *)
(* queue or process in sight (backend/services/execution_layer.py, the     *)
(* docstrings of SemiAutoExecutor and PendingTradeManager): a proposed     *)
(* trade waits, is decided once, and an order is placed for it at most     *)
(* once and only after it was approved.                                    *)
(***************************************************************************)
EXTENDS Naturals

CONSTANT Trades

VARIABLES
  status,   \* the trade's PendingTradeStatus, "none" before it is proposed
  orders    \* how many orders were placed for it

Decisions == {"APPROVED", "REJECTED", "EXPIRED"}

Init ==
  /\ status = [t \in Trades |-> "none"]
  /\ orders = [t \in Trades |-> 0]

Propose(t) ==
  /\ status[t] = "none"
  /\ status' = [status EXCEPT ![t] = "WAITING"]
  /\ UNCHANGED orders

\* Several trades may be decided at once: the expiry sweep takes all that are due.
Decide(batch, decision) ==
  /\ \A t \in batch : status[t] = "WAITING"
  /\ status' = [t \in Trades |-> IF t \in batch THEN decision ELSE status[t]]
  /\ UNCHANGED orders

Order(t) ==
  /\ status[t] = "APPROVED" /\ orders[t] = 0
  /\ orders' = [orders EXCEPT ![t] = 1]
  /\ UNCHANGED status

Next ==
  \/ \E t \in Trades : Propose(t) \/ Order(t)
  \/ \E batch \in SUBSET Trades, decision \in Decisions : Decide(batch, decision)

Spec == Init /\ [][Next]_<<status, orders>>
=============================================================================
