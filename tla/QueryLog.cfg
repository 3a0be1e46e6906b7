CONSTANTS
  Handover = "ranges"
  PageSize = 1
  InFlight = 2
  PipelinePages = 2
  PagesPerTick = 2
  RingSize = 2
  EarlyRestarts = FALSE
  Overruns = TRUE
  Ignored = {2}
  Oversized = {}
  MaxSeq = 3
  MaxInstance = 2
  MaxUntracked = 0
  Faults = {"fail", "write", "crash", "clear"}
  MaxFaults = 2
  TicksPerHour = 1
  Retention = 1
  SegmentText = 2
  MaxLogBytes = 3
  PageRecords = 1
  ScanBudget = 2
  OldPlain = TRUE
  MaxRecords = 3
  MaxTick = 2
  MaxLogEvents = 1
  Callers = {c1, c2}
  IdleConnections = 2
  MaxRequests = 3
  MaxPoolEvents = 2
SPECIFICATION AllSpec
INVARIANTS
  NeverTwice NoSilentLoss GapsAreReal DeletedIsStored
  LogIsSound PagesAreComplete CallsAreAnswered
CHECK_DEADLOCK FALSE
