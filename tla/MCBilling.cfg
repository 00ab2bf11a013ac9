SPECIFICATION Spec
CONSTANTS
  Users = {u1}
  Payments = {p1, p2}
  Plans = {basic, pro}
  Handlers = {h1, h2}
  MaxTime = 1
  MaxWork = 4
CHECK_DEADLOCK FALSE
SYMMETRY BillingSymmetry
INVARIANTS
  InvoicesSound
  TrialNeverLive
PROPERTY CreditedOnce
