CONSTANTS
  c0 = c0
  c1 = c1
  NoConfig = NoConfig
  Configs = {c0, c1}
  Valid = {c0, c1}
  Initial = c0
  Formatted <- AsWritten
  Users = {u1}
  MaxId = 3
  MaxVersions = 2
  MaxReloads = 2
  MaxStops = 1
  Faults = {}
  MaxFaults = 0
SPECIFICATION FairSpec
PROPERTIES AppliedIsRunning
