CONSTANTS
  Deliveries = {d1}
  Slots = {j1, j2}
  MaxRetries = 2
  MaxWorkerDeaths = 2
  MaxUnpublished = 2
  Plans = {"starter", "growth"}
  TrialPlan = "growth"
  Orders = {"o1", "o2"}
  Subs = {"r1", "r2"}
  Requests = {"q1", "q2"}
  MaxFaults = 1
  Contacts = {"c1", "c2"}
  Claims = {1, 2}
  Sales = {1, 2}
  MaxUses = 1
  MaxPerContact = 2
SPECIFICATION JobsSpec
INVARIANTS
  JobsTypeOK
  OneHolder
  FailedIsRetried
  OrderFulfilledOnce
  ChargesMatchPlan
  PlacesKept
PROPERTIES
  PaidOrderIsApplied
  PlansStand
CHECK_DEADLOCK FALSE
