SPECIFICATION FairSpec
CONSTANTS
    Half = 16
    Keys <- MCKeys
    SubKey <- MCSubKey
    Conns = {c1, c2}
    Loops = {l1}
    Fds = {3}
    Wait = 2
    MaxVer = 2
    MaxFaults = 1
    None = none
INVARIANTS
    TypeOK
    DataBeforePush
    NoChangeForgotten
    NoNullConnection
PROPERTIES
    SentNeverOlder
    ChangesArePushed
    ServedCatchesUp
