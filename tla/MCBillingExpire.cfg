SPECIFICATION Spec
CONSTANTS
  Users = {u1}
  Payments = {p1, p2}
  Plans = {basic}
  Handlers = {h1}
  MaxTime = 1
  MaxWork = 4
CHECK_DEADLOCK FALSE
PROPERTY ExpiredIsPast
