CONSTANTS
    MaxUp = 1
    MaxDown = 1
SPECIFICATION FairSpec
PROPERTY
    EndedStreamIsReleased
CHECK_DEADLOCK FALSE
