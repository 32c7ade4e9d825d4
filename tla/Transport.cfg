CONSTANTS
    s1 = s1
    s2 = s2
    s3 = s3
    None = None
    Sockets <- ThreeSockets
    MaxConnections = 2
SPECIFICATION TwoDestroyersSpec
INVARIANTS
    MembersOnCurrentSession
    CountedIffLive
    StateTellsSession
PROPERTIES
    ImplementsSharedSession
    OpenSettles
    SessionLossReachesMembers
CHECK_DEADLOCK FALSE
