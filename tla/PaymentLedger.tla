--------------------------- MODULE PaymentLedger ---------------------------
(***************************************************************************)
(* What payments and invoices promise, with no transaction, handler or     *)
(* counter in sight (backend/services/invoice_service.py, _finalize_       *)
(* successful_payment of backend/routers/subscription_router.py): a ledger *)
(* to which a payment is added when it is credited, in the same moment in  *)
(* which it counts as paid.  An entry is never changed, moved or removed,  *)
(* and there is at most one of each payment.                               *)
(***************************************************************************)
EXTENDS Naturals, Sequences

CONSTANT Payments

VARIABLES
  standing,   \* what each payment counts as
  ledger      \* the payments credited, in the order of their invoices

Entered(p) == \E n \in DOMAIN ledger : ledger[n] = p

Init ==
  /\ standing = [p \in Payments |-> "none"]
  /\ ledger = <<>>

Order(p) ==
  /\ standing[p] = "none"
  /\ standing' = [standing EXCEPT ![p] = "open"]
  /\ UNCHANGED ledger

Credit(p) ==
  /\ standing[p] # "none" /\ ~Entered(p)
  /\ standing' = [standing EXCEPT ![p] = "paid"]
  /\ ledger' = Append(ledger, p)

\* A refusal may come after the credit, whose entry it leaves.
Refuse(p) ==
  /\ standing[p] # "none"
  /\ standing' = [standing EXCEPT ![p] = "refused"]
  /\ UNCHANGED ledger

Next == \E p \in Payments : Order(p) \/ Credit(p) \/ Refuse(p)

Spec == Init /\ [][Next]_<<standing, ledger>>
=============================================================================
