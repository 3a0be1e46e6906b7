SPECIFICATION Spec
CONSTANTS
  MaxKernel = 2
  NoKernel = NoKernel
  Damaged = Damaged
  HostKinds = {"action", "commit", "empty"}
  MaxKernelFaults = 1
  Intervals = {2, 3}
  Off = Off
  MaxClock = 5
  MaxSets = 2
  MaxTaskEnds = 1
  Nothing = Nothing
  Tags <- ReleaseTags
  MaxReplacements = 1
  Browsers = {b1, b2}
  Addresses = {a1}
  Proxy = proxy
  Junk = junk
  Names = {"n1", "n2"}
  MaxAttempts = 2
  MaxNames = 1
  MaxKeys = 2
  MaxHops = 2
  PasswordSlots = 1
  MaxAccounts = 2
  MaxLogins = 3
  NoUpstream = NoUpstream
  TrendBuckets = 2
  MinBucket = 1
  MaxBucket = 2
  RecentWindow = 2
  ReportsReplies = TRUE
  MaxSecond = 3
  MaxRequestsMade = 2
  MaxSamples = 3
  MaxMetricsEvents = 1
INVARIANTS
  SwitchAllOrNothing WayBackIsKept StartIsNotRefused KeptIsWhole
  AttemptsStayBounded SessionsAreEarned CountsAreTrue
PROPERTIES ObservedSwitchEnds ScheduleIsPaced
CHECK_DEADLOCK FALSE
