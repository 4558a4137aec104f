SPECIFICATION Spec
CONSTANTS
  w1 = w1
  w2 = w2
  rdap = rdap
  crtsh = crtsh
  technology = technology
  r1 = r1
  r2 = r2
  r3 = r3
  NoTask = NoTask
  NumJobs = 1
  Collectors <- OneCollector
  Deferred = {}
  Unregistered = {}
  Unsupported = {}
  Selections <- AllSelected
  Workers <- OneWorker
  MaxConcurrentCollectors = 1
  MaxCrashes = 1
  Expirable = {}
  Requests <- NoRequests
  Kinds = {}
  DashboardOnly = FALSE
  MaxRetries = 0
INVARIANTS RunningIsBeingRun
