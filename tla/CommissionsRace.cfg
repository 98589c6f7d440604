SPECIFICATION Spec
CONSTANTS
    Citizen = {aetheria, eve}
    CoS = aetheria
    Work = {c1}
    Relay = {r1, r2}
    Pulse = {}
    None = None
    Thread = {x1, x2}
    Daemon = x1
    MaxLapses = 2
    MaxCrashes = 1
    MaxFaults = 0
SYMMETRY Symmetry
INVARIANTS
    TypeOK
    DoneHasResult
    RelayedOnce
    TogetherByCrossingOnly
PROPERTIES
    RepeatedWasRequeued
    DoneIsLeftByRaceOnly
CHECK_DEADLOCK FALSE
