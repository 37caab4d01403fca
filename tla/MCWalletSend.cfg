CONSTANTS
  Callers = {c1, c2}
  Keys = {k1, k2}
  Requests = {r1, r2}
  Coins = {1, 2}
  PoolLimit = 1
  MaxTime = 1
  MaxCrashes = 1
SPECIFICATION Spec
INVARIANTS
  CallsMatchRows
  RejectedNotPaid
  AcceptedNotLost
PROPERTIES
  ReceiptsAreFinal
  EveryCallEnds
