CONSTANTS
    r1 = r1
    r2 = r2
    d1 = d1
    d2 = d2
    Requests <- TwoRequests
    Streams <- TwoStreams
    MaxSessions = 1
    MaxStreams = 1
SPECIFICATION FairSpec
INVARIANTS
    CountsExact
    ShutdownDrains
PROPERTIES
    ImplementsAdmission
    SlotComesBack
    ShutdownEnds
CHECK_DEADLOCK FALSE
