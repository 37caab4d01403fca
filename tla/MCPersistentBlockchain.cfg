SPECIFICATION Spec
CONSTANTS
    p1 = p1
    p2 = p2
    Procs = {p1, p2}
    Addresses <- MCAddresses
    Transactions <- MCTransactions
    Rewards = {50}
    Times = {0, 1, 2}
    MAX_FUTURE_BLOCK_TIME = 0
    MempoolMaxTransactions = 2
    MempoolMaxBytes = 2
    MaxBlockTransactions = 1
    MaxHeight = 2
    MaxRevision = 4
SYMMETRY Instances
INVARIANTS
    Agreement
    AcknowledgedIsDurable
    AlwaysRecoverable
PROPERTIES
    WritesAreSerial
    ImplementsBlockchain
