CONSTANTS
    MaxUp = 2
    MaxDown = 2
SPECIFICATION FairSpec
INVARIANTS
    Intact
PROPERTIES
    ImplementsChannels
    SessionEndClosesUpstream
    ClientCloseReachesUpstream
CHECK_DEADLOCK FALSE
