SPECIFICATION Spec
CONSTANTS
  Paper = FALSE
  Threads = {"tick", "command", "approve"}
  Keys = {k1}
  Levels = {1}
  MaxEntries = 2
  MaxEdits = 1
CHECK_DEADLOCK FALSE   \* entries stop at MaxEntries
INVARIANTS
  TypeOK
  EntryConfirmed
  SoldOncePerPath
  Covered
