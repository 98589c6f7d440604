SPECIFICATION FairSpec
CONSTANTS
    Node <- MCNodes
    Http = {h1}
    Worker = Worker
    Peer = {"eve"}
    MaxChainDepth = 2
    MaxEvents = 3
    MaxLessons = 2
    MaxFaults = 1
CHECK_DEADLOCK FALSE
INVARIANTS
    TypeOK
    LessonPerArchive
    ChainIsCapped
PROPERTIES
    ArchiveLeftByRaceOnly
    EventsAreSettled
