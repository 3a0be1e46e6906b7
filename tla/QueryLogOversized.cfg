CONSTANTS
  Handover = "ranges"
  PageSize = 2
  InFlight = 2
  PipelinePages = 2
  PagesPerTick = 2
  RingSize = 3
  EarlyRestarts = FALSE
  Overruns = FALSE
  Ignored = {}
  Oversized = {2}
  MaxSeq = 4
  MaxInstance = 2
  MaxUntracked = 1
  Faults = {}
  MaxFaults = 0
SPECIFICATION QuietSpec
INVARIANTS TypeOK GapsAreExact BusyToldOnce
PROPERTIES CatchesUp
