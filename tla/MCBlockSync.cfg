CONSTANTS
  n1 = n1
  n2 = n2
  Nodes <- Pair
  Wired <- PairWired
  Start <- PairStart
  MaxHeight <- PairHeight
  Late = {n2}
  block_batch_size = 2
  MaxFaults = 1
SPECIFICATION Spec
INVARIANTS
  NeverAccused
  SessionsAreTrue
PROPERTIES
  NothingGoesBack
  Converges
