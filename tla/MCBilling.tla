------------------------------ MODULE MCBilling ------------------------------
(***************************************************************************)
(* One user, two payments and two request handlers, for all orders in      *)
(* which verification, webhook, approval and the daily job can run.        *)
(***************************************************************************)
EXTENDS Billing, TLC

BillingSymmetry == Permutations(Payments) \cup Permutations(Handlers) \cup Permutations(Plans)

\* Everything is of its type, and payments and invoices match one to one, with numbers
\* that leave no gap (_finalize_successful_payment, create_invoice_record).
InvoicesSound == TypeOK /\ InvoicesExact
=============================================================================
