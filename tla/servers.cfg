SPECIFICATION ServersSpec
CONSTANTS
  a = a
  b = b
  w1 = w1
  w2 = w2
  rdap = rdap
  crtsh = crtsh
  Launchers = {a, b}
  MaxLaunches = 2
  ReusePids = FALSE
  Overlap = FALSE
  Foreign = {}
  External = FALSE
  NoTask = NoTask
  NumJobs = 2
  Collectors <- OneCollector
  Deferred = {}
  Unregistered = {}
  Unsupported = {}
  Selections <- AllSelected
  Workers <- TwoWorkers
  MaxConcurrentCollectors = 1
  MaxCrashes = 3
  Expirable = {}
INVARIANTS LockInv OneTaskPerJob RunningMeansExecuted
PROPERTIES RefusedForAServer ActsAsOne
CHECK_DEADLOCK FALSE
