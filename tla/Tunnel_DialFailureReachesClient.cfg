CONSTANTS
    MaxUp = 1
    MaxDown = 1
SPECIFICATION FairSpec
PROPERTY
    DialFailureReachesClient
CHECK_DEADLOCK FALSE
