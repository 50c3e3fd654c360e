SPECIFICATION Spec
CONSTANTS
  r1 = r1
  r2 = r2
  r3 = r3
  Purse = 2
  Created <- TwoRequests
  UserOf <- MCUserOf
  Fee <- MCFee
  Deposit <- MCDeposit
  Settlers = {server, event}
  BatchSize = 1
  MaxRounds = 1
  Faults = {"sign", "receipt", "database", "restart", "withdraw", "signer"}
  MaxClock = 2
  MaxPending = 1
SYMMETRY Symmetry
INVARIANTS TypeOK WrittenOffIsPaid
