SPECIFICATION FairSpec
CONSTANTS
    Clients = {c1, c2}
    IOLoops = 1
    Fds = {1, 2}
    MaxConn = 0
    MaxMsgs = 1
    MaxPushes = 1
    None = none
INVARIANTS
    ConnLimit
PROPERTIES
    GoneIsReleased
CHECK_DEADLOCK FALSE
