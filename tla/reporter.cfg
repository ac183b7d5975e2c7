SPECIFICATION FairSpec
CONSTANTS
    m_thread_num = 2
    Callers = {io1, io2}
    NullLoop = null
    WildLoop = wild
    Reports <- MCReports
    MaxReports = 3
    MaxFaults = 1
    None = none
INVARIANTS
    TypeOK
    DealsAreReal
PROPERTIES
    RowsFollowReports
    ReportsAreStored
CHECK_DEADLOCK FALSE
