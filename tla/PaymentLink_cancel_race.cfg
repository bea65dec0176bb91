SPECIFICATION MCSpec
CONSTANTS
  w1 = w1
  w2 = w2
  Workers = {w1, w2}
  Operations = {"create", "cancel"}
  Payments = {"paid"}
  GatewayErrors = {}
  PollOffsets = 1
  MaxFinalRetries = 1
  MaxCrashes = 0
  AccountChanges = 0
INVARIANTS
  CancelledIsClosedThere
CHECK_DEADLOCK FALSE
