SPECIFICATION Spec
CONSTANTS
  Trades = {t1, t2}
  Slots = {c1, c2}
  Timeouts = TRUE
  MaxCommands = 2
  MaxWebRejects = 1
  MaxCrashes = 1
SYMMETRY TradeSymmetry
INVARIANTS
  TypeOK
  OrderNeedsApproval
  DoubleOrderNeedsOverlap
