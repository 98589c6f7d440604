SPECIFICATION Spec
CONSTANTS
    Node <- MCNodes
    Http = {h1}
    Worker = Worker
    Peer = {"eve"}
    MaxChainDepth = 2
    MaxEvents = 3
    MaxLessons = 2
    MaxFaults = 0
CHECK_DEADLOCK FALSE
INVARIANTS
    ChainStops
