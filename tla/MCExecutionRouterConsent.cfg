SPECIFICATION Spec
CONSTANTS
  Signals = {s1}
  TTL = 1
  MaxClock = 1
  MaxSaves = 1
PROPERTY ConsentLetsStart
