SPECIFICATION Spec
CONSTANTS
  Clients = {c1, c2}
  Consumers = {"worker", "shared"}
  MaxQueue = 1
  MaxRequests = 2
  MaxCrashes = 1
CHECK_DEADLOCK FALSE   \* clients stop asking: MaxRequests
SYMMETRY ClientSymmetry
INVARIANTS
  QueueSound
  AtMostOnce
  TruthfulReply
