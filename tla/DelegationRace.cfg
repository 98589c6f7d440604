SPECIFICATION Spec
CONSTANTS
    Task = {t1, t2}
    Request = {r1, r2}
    NoTask = NoTask
    Retention = 1
    MaxFaults = 1
    MaxCrashes = 1
SYMMETRY Symmetry
INVARIANTS
    TypeOK
    LandedIsMerged
    MergedWasProposed
    WorkSurvives
    ReportedWorkIsThere
    ProposalStands
    ExecutingIsAttended
    PrunedToRetention
    RejectedLiveByRaceOnly
PROPERTY ImplementsLifecycle
CHECK_DEADLOCK FALSE
