SPECIFICATION DiffSpec
CONSTANTS
  w = w
  wayback = wayback
  technology = technology
  r = r
  NoTask = NoTask
  NumJobs = 2
  Collectors = {wayback}
  Deferred = {}
  Evident = {}
  Unregistered = {}
  Unsupported = {}
  Selections <- AllSelected
  Workers = {w}
  MaxConcurrentCollectors = 1
  MaxCrashes = 1
  Expirable = {1}
  Requests = {}
  Kinds = {}
  DashboardOnly = TRUE
  MaxRetries = 0
  Old = 1
  New = 2
  MaxChanges = 1
CHECK_DEADLOCK FALSE
INVARIANTS DiffInv ReportShowsItsEvidence
