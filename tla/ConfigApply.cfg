CONSTANTS
  raw = raw
  c0 = c0
  c1 = c1
  bad = bad
  NoConfig = NoConfig
  Configs = {raw, c0, c1, bad}
  Valid = {raw, c0, c1}
  Initial = raw
  Formatted <- AsImported
  Users = {u1}
  MaxId = 4
  MaxVersions = 2
  MaxReloads = 2
  MaxStops = 2
  Faults = {}
  MaxFaults = 0
  Lists = {l1, l2}
  Pages = {p1}
  MaxCopy = 1
  NoFile = NoFile
  Untried = Untried
  KeptVersions = 2
  MaxGeoEvents = 3
  Links = {k1, k2}
  Contents <- ListContents
  QueryNames <- NamesAsked
  MaxPatterns = 1
  MaxFetches = 3
  NoPiece = NoPiece
  Original = Original
  MaxInstallRuns = 2
  MaxInstallEvents = 1
  NoUnit = NoUnit
  MaxUninstallRuns = 3
SPECIFICATION FilesSpec
INVARIANTS
  TypeOK FormalWasInEffect NewestAppliedIsFormal
  NamedFilesExist ListsStay MergedListsHold
  InstallAllOrNothing AskedIsDone
PROPERTIES SupersededWasShown ImplementsAtomicConfig
CHECK_DEADLOCK FALSE
