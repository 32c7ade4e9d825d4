CONSTANTS
    s1 = s1
    s2 = s2
    s3 = s3
    None = None
    Sockets <- ThreeSockets
    MaxConnections = 1
SPECIFICATION Spec
SYMMETRY Symmetry3
INVARIANT
    ConnectionLimit
CHECK_DEADLOCK FALSE
