CONSTANTS
    None = None
    Job = {j1, j2}
    Caller = {a, b}
    Builder = {a}
    Steerer = {b}
    MaxJobs = 1
SPECIFICATION FairSpec
CHECK_DEADLOCK FALSE
INVARIANTS
    LiveIsKnown
PROPERTIES
    TerminalStays
    CallsReturn
