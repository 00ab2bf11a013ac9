SPECIFICATION Spec
CONSTANTS
  Paper = FALSE
  Threads = {"command", "approve"}
  Keys = {k1}
  Levels = {1}
  MaxEntries = 1
  MaxEdits = 0
CHECK_DEADLOCK FALSE   \* entries stop at MaxEntries
INVARIANT SquareoffTrue
