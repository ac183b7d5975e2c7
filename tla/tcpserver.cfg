SPECIFICATION Spec
CONSTANTS
    Clients = {c1, c2, c3}
    IOLoops = 2
    Fds = {1, 2}
    MaxConn = 1
    MaxMsgs = 1
    MaxPushes = 1
    None = none
SYMMETRY Symmetry
INVARIANTS
    TypeOK
    TablesAreLive
    OneOwner
    OpenIsHeld
    DeletesItsOwn
    CloseReportedOnce
    OutputIsArmed
CHECK_DEADLOCK FALSE
