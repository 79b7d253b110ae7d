SPECIFICATION Spec
CONSTANTS
    Cars = {c1, c2, c3}
    Freed = Freed
    None = None
    SlotPerFrame = 4
    HEAD_SLOT = 1
    TAIL_SLOT = 3
    UpLocSlot = 2
    nFrameSta = 2
    NumSlots = 11
    Places = {0, 1}
    CellSize = 1
    Dir <- SameWay
    SafeDists = {1}
    Garbage = {1}
    FreshVehicles <- Zeroed
INVARIANT NoStaleSender
CHECK_DEADLOCK FALSE
