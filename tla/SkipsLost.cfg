CONSTANTS
  Handover = "ranges"
  PageSize = 1
  InFlight = 2
  PipelinePages = 3
  PagesPerTick = 2
  RingSize = 3
  EarlyRestarts = FALSE
  Overruns = FALSE
  Ignored = {}
  Oversized = {2}
  MaxSeq = 3
  MaxInstance = 1
  MaxUntracked = 0
  Faults = {"fail"}
  MaxFaults = 1
SPECIFICATION Spec
INVARIANTS SkipsAreTold
