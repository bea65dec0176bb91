SPECIFICATION MCSpec
CONSTANTS
  w1 = w1
  w2 = w2
  Workers = {w1, w2}
  Operations = {"create", "cancel", "refresh", "webhook"}
  Payments = {"paid", "mispaid", "partial"}
  GatewayErrors = {"create", "fetch", "cancel"}
  PollOffsets = 1
  MaxFinalRetries = 1
  MaxCrashes = 1
  AccountChanges = 1
INVARIANTS
  TypeOK
  LinkInv
  CalmExpiredIsClosedThere
PROPERTIES
  PromiseKept
  CreatedLinkSettles
  CalmPaymentIsFound
CHECK_DEADLOCK FALSE
