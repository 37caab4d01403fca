SPECIFICATION Spec
CONSTANTS
    Addresses <- MCAddresses
    Transactions <- MCTransactions
    Rewards <- MCRewards
    Times = {0, 1, 2}
    MAX_FUTURE_BLOCK_TIME = 1
    MempoolMaxTransactions = 2
    MempoolMaxBytes = 3
    MaxBlockTransactions = 2
    MaxHeight = 3
INVARIANTS
    NoDoubleSpend
    StateIsHistory
    QueriesAgree
    PoolFollowsLedger
    TemplateAcceptable
PROPERTIES
    PoolKeepsTheRest
