SPECIFICATION FairSpec
CONSTANTS
  Clients = {c1, c2}
  Consumers = {"worker"}
  MaxQueue = 2
  MaxRequests = 2
  MaxCrashes = 1
CHECK_DEADLOCK FALSE   \* clients stop asking: MaxRequests
INVARIANT SessionOrder
PROPERTY AcceptedIsExecuted
