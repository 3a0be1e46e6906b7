SPECIFICATION Spec
CONSTANTS
  Keys = {listen}
  Vals = {a, b}
  Bodies = {x, y}
  NoConfig = NoConfig
  Unknown = Unknown
  Steady = 1
  MaxId = 5
  MaxVersions = 2
  MaxProcs = 3
  MaxAge = 2
  MaxEvents = 2
PROPERTIES ConfirmedIsWritten
CHECK_DEADLOCK FALSE
