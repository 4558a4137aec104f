SPECIFICATION FairSpec
CONSTANTS
  w1 = w1
  w2 = w2
  rdap = rdap
  crtsh = crtsh
  technology = technology
  r1 = r1
  r2 = r2
  r3 = r3
  NoTask = NoTask
  NumJobs = 1
  Collectors <- WithTechnology
  Deferred = {technology}
  Unregistered = {crtsh}
  Unsupported = {}
  Selections <- AnySelected
  Workers <- OneWorker
  MaxConcurrentCollectors = 1
  MaxCrashes = 2
  Expirable = {}
  Requests <- OneRequest
  Kinds = {"retry"}
  DashboardOnly = TRUE
  MaxRetries = 1
INVARIANTS ApiTypeOK EvidenceInv RowsWithinAttempts DeferredSeesEverything
PROPERTIES EveryJobEnds InterruptedRunsEnd
