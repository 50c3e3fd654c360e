SPECIFICATION FairSpec
CONSTANTS
  t1 = t1
  t2 = t2
  Created <- TwoTasks
  MaxFinalizerRetries = 1
  MaxAttempts = 2
  MaxSettlementRetries = 1
  SettlementBatchSize = 1
  Faults = {"error"}
  MaxPending = 2
PROPERTIES DeliveredIsSettled
