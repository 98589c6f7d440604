CONSTANTS
    Default = Default
    Gone = Gone
    Turn = {t1, t2}
    Session = {s1}
    Other <- MCIntents
    Message = {m1}
    Sharer = {a1, a2}
    Limit = 1
    MaxFaults = 2
SPECIFICATION FairSpec
CHECK_DEADLOCK FALSE
INVARIANTS
    RetryNeedsFault
    RepeatNeedsFault
    ShareBrake
PROPERTIES
    PendingIsSettled
    ImplementsDelivery
