CONSTANTS
  Tabs = {"a", "b"}
  RunIds = {"r1"}
  WebLocks = {TRUE}
  MaxTokens = 2
  MaxLogins = 1
  MaxLogouts = 1
  MaxFaults = 0
SPECIFICATION SessionSpec
PROPERTIES
  LogoutStands
CHECK_DEADLOCK FALSE
