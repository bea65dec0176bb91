CONSTANTS
  Tabs = {"a", "b"}
  RunIds = {"r1"}
  WebLocks = {TRUE, FALSE}
  MaxTokens = 2
  MaxLogins = 1
  MaxLogouts = 1
  MaxFaults = 1
  Sends = {"s1"}
  Others = {"m1"}
  Reports = {"sent", "failed"}
  MaxTries = 2
  MaxMishaps = 1
  Slots = {"c1", "c2"}
  MaxEvents = 2
  MaxDrops = 2
  MaxOnline = 1
SPECIFICATION DashboardSpec
INVARIANTS
  DashboardTypeOK
  SessionIsKept
  StoredOnce
  ThreadShowsAll
  OneConnection
PROPERTIES
  LogoutReachesEveryTab
  MissedIsMadeUp
CHECK_DEADLOCK FALSE
