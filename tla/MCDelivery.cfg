SPECIFICATION Spec
CONSTANTS
  t1 = t1
  t2 = t2
  Created <- OneTask
  MaxFinalizerRetries = 1
  MaxAttempts = 3
  MaxSettlementRetries = 1
  SettlementBatchSize = 1
  Faults = {"error", "database", "receipt", "timeout", "refused", "restart"}
  MaxPending = 3
INVARIANTS TypeOK FinishedIsPaid SecretOnlyAfterAcknowledgement PaidSecretOpensModel DeliveredIsOnChain
