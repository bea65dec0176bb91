CONSTANTS
  Tasks = {t1, t2}
  Reports = {"delivered", "failed"}
  Deliveries = {"delivered", "failed"}
  Slots = {j1}
  MaxSendRetries = 1
  MaxWaits = 1
  MaxDeaths = 1
  MaxLost = 1
  MaxRetries = 1
  MaxWorkerDeaths = 1
  MaxUnpublished = 1
  MaxFaults = 1
  Recipients = {1, 2}
  Batches = {"b1"}
  BatchSize = 1
  MaxKicks = 1
  MaxSetbacks = 1
SPECIFICATION MessagingSpec
INVARIANTS
  MessagingTypeOK
  SentAtMostOnce
  StatusIsFurthest
  NoReportIgnored
  ProgressIsTrue
PROPERTIES
  ReportsArrive
  MessageSettles
  RecipientCatchesUp
  StoppedIsStopped
  CampaignEnds
CHECK_DEADLOCK FALSE
