SPECIFICATION Spec
CONSTANTS
    c1 = c1
    c2 = c2
    s1 = s1
    s2 = s2
    l1 = l1
    l2 = l2
    Conns = {c1, c2}
    Refetch = {}
    Pipelined = {c1}
    Lens <- MCLens
    MaxMsg = 6
    Bufs <- MCBufs
    Capacity <- MCCapacity
    None = None
SYMMETRY Symmetry
INVARIANT HandledInOrder
CHECK_DEADLOCK FALSE
