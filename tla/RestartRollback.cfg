SPECIFICATION Spec
CONSTANTS
  Keys = {listen}
  Vals = {a, b}
  Bodies = {x, y}
  NoConfig = NoConfig
  Unknown = Unknown
  Steady = 1
  MaxId = 5
  MaxVersions = 2
  MaxProcs = 3
  MaxAge = 2
  MaxEvents = 1
INVARIANTS TypeOK RecordedIsStarted
PROPERTIES RollbackOnlyPutsBack CarriedIsChecked MarkFollowsService
CHECK_DEADLOCK FALSE
