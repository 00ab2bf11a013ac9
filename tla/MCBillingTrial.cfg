SPECIFICATION Spec
CONSTANTS
  Users = {u1}
  Payments = {p1}
  Plans = {basic}
  Handlers = {h1}
  MaxTime = 1
  MaxWork = 2
CHECK_DEADLOCK FALSE
PROPERTY TrialStartedOnce
