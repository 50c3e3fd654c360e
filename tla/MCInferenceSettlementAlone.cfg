SPECIFICATION FairSpec
CONSTANTS
  r1 = r1
  r2 = r2
  r3 = r3
  Purse = 2
  Created <- ThreeRequests
  UserOf <- MCUserOf
  Fee <- MCFee
  Deposit <- MCDeposit
  Settlers = {event}
  BatchSize = 2
  MaxRounds = 2
  Faults = {"preview", "send"}
  MaxClock = 2
  MaxPending = 1
INVARIANTS ChargedOnce
PROPERTIES AffordableIsCharged
