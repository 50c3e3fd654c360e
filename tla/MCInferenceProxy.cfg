SPECIFICATION Spec
CONSTANTS
  None = None
  Server = server
  Event = event
  r1 = r1
  r2 = r2
  u1 = u1
  u2 = u2
  s1 = s1
  s2 = s2
  Users = {u1}
  Processes = {server, event}
  PageSize = 1
  MaxBalance = 1
  MaxSyncs = 1
  Faults = {"chain", "database", "prune"}
  Requests = {r1, r2}
  UserOf <- OneUser
  Sessions = {s1, s2}
  TokenOf <- OneToken
  Authentic <- Genuine
  Expiry <- EarlyExpiry
  SessionTTL = 1
  Estimate = 0
  Reservation = 1
  MaxCost = 1
  MaxTime = 1
INVARIANTS TypeOK ExposureBounded
SYMMETRY Symmetry
PROPERTIES RefusedIsShort SessionIsGood ImplementsMeteredProxy
CHECK_DEADLOCK FALSE
