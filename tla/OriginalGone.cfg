SPECIFICATION UninstallSpec
CONSTANTS
  NoUnit = NoUnit
  MaxUninstallRuns = 2
INVARIANTS OriginalComesBack
CHECK_DEADLOCK FALSE
