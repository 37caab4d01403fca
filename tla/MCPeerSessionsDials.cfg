CONSTANTS
    Nodes <- MCNodes
    Callers <- MCNodes
    Conns <- MCTwoConns
    max_peers = 2
    max_concurrent_dials = 1
    MaxFaults = 0

SPECIFICATION Spec
PROPERTIES
    DialsSucceed
