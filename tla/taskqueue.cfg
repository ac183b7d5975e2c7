SPECIFICATION FairSpec
CONSTANTS
    Producers = {p1, p2}
    Loop = loop
    MaxPosts = 2
INVARIANTS
    TypeOK
    NoLostWakeup
PROPERTIES
    IsChannel
    EveryTaskRuns
