SPECIFICATION Spec
CONSTANTS
    Task = {t1}
    Request = {r1, r2}
    NoTask = NoTask
    Retention = 1
    MaxFaults = 0
    MaxCrashes = 0
INVARIANT RejectedIsNotMerged
CHECK_DEADLOCK FALSE
