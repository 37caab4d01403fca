CONSTANTS
    c1 = c1
    p1 = p1
    Calls = {c1}
    Peers = {p1}
    Sizes = {1, 2}
    inbound_max_events = 2
    inbound_max_bytes = 3
    outbound_max_frames = 2
    outbound_max_bytes = 3

SPECIFICATION Spec
CHECK_DEADLOCK FALSE
INVARIANTS
    BudgetExact
    AnswersAreTrue
PROPERTIES
   StopEnds
