SPECIFICATION Spec
CONSTANTS
    Half = 16
    Keys <- MCKeys
    SubKey <- MCSubKey
    Conns = {c1}
    Loops = {l1}
    Fds = {3}
    Wait = 2
    MaxVer = 1
    MaxFaults = 0
    None = none
INVARIANTS
    OnlySubscribed
