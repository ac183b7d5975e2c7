SPECIFICATION Spec
CONSTANTS
    Readers = {r1, r2}
    Objects = {o1, o2, o3, o4, o5}
    Rows = 2
    MaxVer = 3
    None = none
SYMMETRY Symmetry
INVARIANTS
    TypeOK
    TmpIsPrivate
PROPERTIES
    HeldIsFrozen
    NeverOlder
    IsRegister
