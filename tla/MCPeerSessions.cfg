CONSTANTS
    Nodes <- MCNodes
    Callers = {1}
    Conns <- MCTwoConns
    max_peers = 2
    max_concurrent_dials = 1
    MaxFaults = 1

SPECIFICATION Spec
INVARIANTS
    HandshakesAgree
    BooksAgree
PROPERTIES
    Reconnects
