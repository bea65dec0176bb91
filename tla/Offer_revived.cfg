CONSTANTS
  Contacts = {"c1", "c2"}
  Claims = {1, 2}
  Sales = {1, 2}
  MaxUses = 1
  MaxPerContact = 2
SPECIFICATION OfferSpec
INVARIANTS
  FulfilledIsRedeemed
CHECK_DEADLOCK FALSE
