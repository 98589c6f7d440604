SPECIFICATION FairSpec
CONSTANTS
    Citizen = {aetheria}
    CoS = aetheria
    Work = {c1, c2}
    Relay = {}
    Pulse = {p1}
    None = None
    Thread = {x1}
    Daemon = x1
    MaxLapses = 0
    MaxCrashes = 1
    MaxFaults = 1
CHECK_DEADLOCK FALSE
PROPERTIES
    QueuedCloses
