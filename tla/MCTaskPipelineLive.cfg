SPECIFICATION FairSpec
CONSTANTS
  t1 = t1
  t2 = t2
  t3 = t3
  NoTask = NoTask
  Tasks = {t1, t2, t3}
  Jobs = {j1, j2}
  UserOf <- MCUserOf
  Worker = 1
  Retried = {}
  Workers <- MCWorkers
  MaxRetries <- MCRetries
  MaxTaskQueueSize = 0
  MaxLeft = 0
  DBMayFail = FALSE

INVARIANTS ClaimedTaskHasJob OneUnfinishedPerUser QueueBounded
PROPERTIES EveryClaimEnds IdleServiceReleased
