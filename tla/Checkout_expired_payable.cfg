CONSTANTS
  OrderKinds = {"delivery"}
  Requirements = {"store_default"}
  Subtotal = 2
  Advance = 1
  CodFee = 1
  Capacity = 1
  TracksStock = TRUE
  SellerActs = TRUE
  MaxAttempts = 1
  MaxRetries = 1
  GatewayFaults = FALSE
  MaxLosses = 0
SPECIFICATION Spec
INVARIANTS
  ExpiredIsNotPayable
CHECK_DEADLOCK FALSE
