CONSTANTS
  n1 = n1
  n2 = n2
  pay = pay
  child = child
  rival = rival
  Nodes <- Pair
  Wired <- PairWired
  Readers = {n2}
  Txs <- MCTxs
  Parents <- MCParents
  Rivals <- MCRivals
  Oversized = {}
  StartPool <- PairPool
  mempool_page_size = 1
  mempool_max_transactions = 2
  snapshot_max_transactions = 2
  snapshot_global_bytes = 2
  MaxHeight <- PairHeight
  BlockSizes = {1}
  MaxFaults = 1
SPECIFICATION Spec
INVARIANTS
  NeverRejected
  SnapshotsAccounted
PROPERTIES
  PoolsConverge
