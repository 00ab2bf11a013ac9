SPECIFICATION Spec
CONSTANTS
  Engines = {e1, e2}
  Strategies = 2
  MaxTrades = 2
  MaxLoss = 2
  PnLs <- MCPnLs
  MaxDay = 2
  MaxApprovals = 1
  MaxExits = 2
SYMMETRY EngineSymmetry
INVARIANTS
  TypeOK
  EntryBound
  OneAlertPerBreach
  LossHaltsEntries
