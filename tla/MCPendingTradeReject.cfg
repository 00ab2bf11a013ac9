SPECIFICATION Spec
CONSTANTS
  Trades = {t1}
  Slots = {c1}
  Timeouts = FALSE
  MaxCommands = 1
  MaxWebRejects = 1
  MaxCrashes = 0
PROPERTY RejectedNotOrdered
