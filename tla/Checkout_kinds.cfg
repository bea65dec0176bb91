CONSTANTS
  OrderKinds = {"delivery", "booking"}
  Requirements = {"store_default", "advance"}
  Subtotal = 3
  Advance = 1
  CodFee = 1
  Capacity = 1
  TracksStock = FALSE
  SellerActs = TRUE
  MaxAttempts = 2
  MaxRetries = 1
  GatewayFaults = FALSE
  MaxLosses = 0
SPECIFICATION FairSpec
INVARIANTS
  PayableLinks
  PaymentsStand
PROPERTIES
  MovesAreLegal
  PaymentReachesOrder
CHECK_DEADLOCK FALSE
