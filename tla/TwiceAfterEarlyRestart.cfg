CONSTANTS
  Handover = "ranges"
  PageSize = 1
  InFlight = 2
  PipelinePages = 3
  PagesPerTick = 2
  RingSize = 3
  EarlyRestarts = TRUE
  Overruns = FALSE
  Ignored = {}
  Oversized = {}
  MaxSeq = 3
  MaxInstance = 2
  MaxUntracked = 0
  Faults = {"write"}
  MaxFaults = 1
SPECIFICATION Spec
INVARIANTS NeverTwice
