CONSTANTS
  r1 = r1
  r2 = r2
  x1 = x1
  Requests <- MCRequests
  Txs = {x1}
  batch_size = 1
  MaxHeight = 2
  MaxFaults = 1
SPECIFICATION Spec
CHECK_DEADLOCK FALSE
INVARIANTS
  ViewsAreFresh
  TransactionsAreFound
PROPERTIES
  QueriesEnd
