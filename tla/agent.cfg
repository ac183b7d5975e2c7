SPECIFICATION FairSpec
CONSTANTS
    Clients = {c1, c2}
    Servers = {0, 1}
    Keys <- MCKeys
    SubKey <- MCSubKey
    MaxPush = 1
    MaxLb = 3
    Dns = dns
    None = none
INVARIANTS
    TypeOK
    AnswersReachAsker
    NoexistIsPulled
PROPERTIES
    EntryIsPulled
CHECK_DEADLOCK FALSE
