SPECIFICATION FairSpec
CONSTANTS
    Task = {t1, t2}
    Request = {r1}
    NoTask = NoTask
    Retention = 1
    MaxFaults = 1
    MaxCrashes = 1
PROPERTIES
    DispatchedIsTaken
    ExecutingEnds
CHECK_DEADLOCK FALSE
