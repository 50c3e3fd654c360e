SPECIFICATION FairSpec
CONSTANTS
  None = None
  Server = server
  Event = event
  r1 = r1
  r2 = r2
  u1 = u1
  u2 = u2
  s1 = s1
  s2 = s2
  Users = {u1, u2}
  Processes = {server, event}
  PageSize = 1
  MaxBalance = 1
  MaxSyncs = 1
  Faults = {"chain", "database"}
  Requests = {r1}
  UserOf <- OneUser
  Sessions = {s1}
  TokenOf <- OneToken
  Authentic <- Genuine
  Expiry <- EarlyExpiry
  SessionTTL = 1
  Estimate = 0
  Reservation = 1
  MaxCost = 1
  MaxTime = 0

PROPERTIES SyncCatchesUp 
CHECK_DEADLOCK FALSE
