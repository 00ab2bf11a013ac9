SPECIFICATION MCSpec
CONSTANTS
  Parts = {"bot", "shared", "execution", "orders", "config", "relay"}
  BotUsers = {u1}
  BotSymbols = {s1, s2}
  StatusTTL = 3
  MaxBots = 2
  MaxCrashes = 1
  ShUsers = {u1}
  ShSymbols = {s1}
  Loops = {"worker", "orchestrator"}
  MaxManagers = 2
  MaxReboots = 1
  MaxExec = 2
  MaxTrades = 1
  MaxDays = 1
  MaxSignals = 2
  Orders = {o1}
  MaxInbox = 2
  WorkerThreads = {"w1"}
  TTL = 2
  RedisTTL = 1
  MaxWrites = 2
  Sockets = {"t1", "t2"}
  MaxEmitted = 3
INVARIANTS PlatformTypeOK EnginesOwned EntriesCapped OrderFills ConfigRecent TabsAreFed
PROPERTY StatusConverges
CHECK_DEADLOCK FALSE
