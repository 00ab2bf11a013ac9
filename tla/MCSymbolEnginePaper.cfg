SPECIFICATION Spec
CONSTANTS
  Paper = TRUE
  Threads = {"tick", "flip", "candle"}
  Keys = {k1, k2}
  Levels = {1, 2, 3}
  MaxEntries = 2
  MaxEdits = 0
CHECK_DEADLOCK FALSE   \* entries stop at MaxEntries
INVARIANT OneExitPerEntry
PROPERTY StopOnlyRises
