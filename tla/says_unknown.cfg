SPECIFICATION DiffSpec
CONSTANTS
  w = w
  wayback = wayback
  technology = technology
  r = r
  NoTask = NoTask
  NumJobs = 2
  Collectors = {wayback, technology}
  Deferred = {technology}
  Evident = {wayback}
  Unregistered = {}
  Unsupported = {}
  Selections <- AllSelected
  Workers = {w}
  MaxConcurrentCollectors = 1
  MaxCrashes = 0
  Expirable = {}
  Requests = {}
  Kinds = {}
  DashboardOnly = FALSE
  MaxRetries = 0
  Old = 1
  New = 2
  MaxChanges = 1
CHECK_DEADLOCK FALSE
INVARIANTS UnknownIsNotAbsent
