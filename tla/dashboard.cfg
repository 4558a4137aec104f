SPECIFICATION FairDashboardSpec
CONSTANTS
  f = f
  Connections <- MCConnections
  Followers <- MCFollowers
  Verdicts = {"failed", "canceled"}
  MaxEvents = 3
  MaxRequeues = 2
  MaxFaults = 1
  MaxGenerations = 3
  MaxUnderWay = 2
  InOrder = TRUE
INVARIANTS DashboardInv HeardInOrder
PROPERTIES HearsEverything SettlesOnTheVerdict
CHECK_DEADLOCK FALSE
