CONSTANTS
    NoRequest = NoRequest
    Turn = {t1, t2}
    Session = {s1}
    Owner = {s1}
    Egress = {t1}
    Decider = {d1}
    Request <- MCRequest
    MaxRounds = 1
    VerifyBudget = 1
    MaxPosts = 1
    MaxFaults = 2
SPECIFICATION FairSpec
CHECK_DEADLOCK FALSE
INVARIANTS
    TypeOK
    EgressNeedsYes
    SentIsApproved
    GuessIsVetted
    HistoryIsHonest
    AssertNeedsCompany
PROPERTIES
    ImplementsTurns
    TurnEnds
