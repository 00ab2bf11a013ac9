SPECIFICATION MCSpec
CONSTANTS
  Parts = {"candles"}
  MinorW = 2
  MajorW = 3
  MaxSwings = 3
  Candles <- MCCandles
  Openings <- MCOpenings
  MaxFree = 4
  MinBars = 3
  NestedAfter = 1
  ExpiresAfter = 1
  ChochLasts = 2
  FailsWithin = 2
  Builders = {b1, b2}
  Span = 2
  KeepBars = 3
  TicksPerSave = 2
  History = 2
  StructureRows = 3
  StrategyRows = 4
  MaxMinute = 4
  MaxEvents = 2
  Strikes = {1, 2}
  Loaders = {"l1", "l2"}
  MaxTurns = 1
  MaxDeep = 1
  MaxTicks = 1
  Feeds = {"f1", "f2"}
  MaxDrops = 2
  Services = {"w1", "w2", "w3"}
  MaxRefreshes = 4
  MaxExpiries = 1
INVARIANT FiveMinutesWhole
CHECK_DEADLOCK FALSE
