SPECIFICATION Spec
CONSTANTS
  w1 = w1
  w2 = w2
  rdap = rdap
  crtsh = crtsh
  technology = technology
  r1 = r1
  r2 = r2
  r3 = r3
  NoTask = NoTask
  NumJobs = 1
  Collectors <- TwoCollectors
  Deferred = {}
  Unregistered = {}
  Unsupported = {}
  Selections <- AllSelected
  Workers <- OneWorker
  MaxConcurrentCollectors = 2
  MaxCrashes = 1
  Expirable = {1}
  Requests <- TwoRequests
  Kinds = {"cancel", "retry", "delete"}
  DashboardOnly = TRUE
  MaxRetries = 1
INVARIANTS DispatchInv NoAbandonedWork VerdictIsTrue
PROPERTIES ImplementsLifecycle DoneIsFinal DeletedStaysDeleted
CHECK_DEADLOCK FALSE
