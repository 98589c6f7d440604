SPECIFICATION Spec
CONSTANTS
    Citizen = {aetheria, eve}
    CoS = aetheria
    Work = {c1, c2}
    Relay = {}
    Pulse = {}
    None = None
    Thread = {x1, x2}
    Daemon = x1
    MaxLapses = 1
    MaxCrashes = 0
    MaxFaults = 0
INVARIANTS
    OnePerCitizen
CHECK_DEADLOCK FALSE
