SPECIFICATION FairSpec
CONSTANTS
  Trades = {t1, t2}
  Slots = {c1}
  Timeouts = FALSE
  MaxCommands = 3
  MaxWebRejects = 0
  MaxCrashes = 1
INVARIANT AtMostOneOrder
PROPERTIES
  Decided
  EventuallyDecided
