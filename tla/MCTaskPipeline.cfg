SPECIFICATION Spec
CONSTANTS
  t1 = t1
  t2 = t2
  t3 = t3
  NoTask = NoTask
  Tasks = {t1, t3}
  Jobs = {j1, j2}
  UserOf <- MCUserOf
  Worker = 1
  Retried = {"finalizer"}
  Workers <- MCWorkers
  MaxRetries <- MCRetries
  MaxTaskQueueSize = 1
  MaxLeft = 1
  DBMayFail = TRUE
SYMMETRY TaskSymmetry
INVARIANTS TypeOK ExclusiveClaim NoWorkOnFailedTask
PROPERTIES OccupiedWhileTraining ImplementsLifecycle
