SPECIFICATION FairGatewaySpec
CONSTANTS
  Hosts = {"provider", "registry", "elsewhere"}
  AllowedHosts = {"provider"}
  ApprovedHosts = {"registry"}
  DohHost = "provider"
  Addresses = {"public", "target", "loopback"}
  Forbidden = {"loopback"}
  MaxAttempts = 3
  BaseDelay = 1
  CapDelay = 2
  Budget = 4
  MaxRedirects = 2
  AttemptTicks = 2
  MaxHint = 5
  MaxCalls = 1
CHECK_DEADLOCK FALSE
INVARIANT GatewayTypeOK
INVARIANT RequestsBounded
INVARIANT EndsInTime
INVARIANT RetryAfterHonoured
INVARIANT ContactsArePermitted
PROPERTY EveryCallEnds
