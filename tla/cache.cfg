SPECIFICATION CacheSpec
CONSTANTS
  r1 = r1
  r2 = r2
  Runs = {r1, r2}
  Collectors = {"ripestat", "dns_doh", "commoncrawl"}
  Bootstrapped = {"commoncrawl"}
  Checking = {"ripestat"}
  Paired = {"dns_doh"}
  Tolerant = {"commoncrawl"}
  Targets = {"example"}
  BothRounds = 1
  Rounds = 2
  PositiveTTL = 2
  NegativeTTL = 1
  MaxTime = 2
  MaxPurges = 1
SYMMETRY RunSymmetry
CHECK_DEADLOCK FALSE
INVARIANT HitMeansNoCall
INVARIANT CacheInv
INVARIANT EmptyMeansNothing
PROPERTY OnlyExpiredGo
