SPECIFICATION FairSpec
CONSTANTS
    Clients = {c1, c2}
    IOLoops = 1
    Fds = {1}
    MaxConn = 1
    MaxMsgs = 0
    MaxPushes = 0
    None = none
PROPERTIES
    EmfilePasses
CHECK_DEADLOCK FALSE
