SPECIFICATION Spec
CONSTANTS
  r1 = r1
  r2 = r2
  r3 = r3
  Purse = 3
  Created <- ThreeRequests
  UserOf <- MCUserOf
  Fee <- MCFee
  Deposit <- MCDeposit
  Settlers = {event}
  BatchSize = 1
  MaxRounds = 2
  Faults = {"send"}
  MaxClock = 2
  MaxPending = 1
PROPERTIES ChargedIsDeleted
