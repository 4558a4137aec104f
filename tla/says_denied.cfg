SPECIFICATION FairGatewaySpec
CONSTANTS
  Hosts = {"provider", "registry", "elsewhere"}
  AllowedHosts = {"provider"}
  ApprovedHosts = {"registry"}
  DohHost = "provider"
  Addresses = {"public", "target", "loopback"}
  Forbidden = {"loopback"}
  MaxAttempts = 2
  BaseDelay = 1
  CapDelay = 2
  Budget = 2
  MaxRedirects = 0
  AttemptTicks = 2
  MaxHint = 2
  MaxCalls = 2
CHECK_DEADLOCK FALSE
PROPERTY DiscoveredAreDenied
