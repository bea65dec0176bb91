CONSTANTS
  OrderKinds = {"delivery"}
  Requirements = {"store_default"}
  Subtotal = 2
  Advance = 1
  CodFee = 1
  Capacity = 1
  TracksStock = TRUE
  SellerActs = FALSE
  MaxAttempts = 2
  MaxRetries = 0
  GatewayFaults = TRUE
  MaxLosses = 1
SPECIFICATION FairSpec
INVARIANTS
  TypeOK
  StockKept
  PaymentsStand
PROPERTIES
  LinksKeepPromise
  CheckoutEnds
CHECK_DEADLOCK FALSE
