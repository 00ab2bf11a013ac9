SPECIFICATION Spec
CONSTANTS
  Signals = {s1, s2}
  TTL = 1
  MaxClock = 2
  MaxSaves = 2
SYMMETRY SignalSymmetry
INVARIANTS
  TypeOK
  ModeRecent
  SteadyModeObeyed
