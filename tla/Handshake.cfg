CONSTANTS
    Header = 2
    Payload = 2
    Maximum = 3
    JwtEnabled = TRUE
    Versions <- TwoVersions
SPECIFICATION FairSpec
INVARIANTS
    OkMeansAdmitted
PROPERTIES
    ClientSettles
    GatewayLetsGo
CHECK_DEADLOCK FALSE
