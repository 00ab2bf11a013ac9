SPECIFICATION Spec
CONSTANTS
  Paper = TRUE
  Threads = {"tick", "candle"}
  Keys = {k1, k2}
  Levels = {1}
  MaxEntries = 1
  MaxEdits = 0
CHECK_DEADLOCK FALSE   \* entries stop at MaxEntries
SYMMETRY KeySymmetry
INVARIANT ExitsItsInstrument
