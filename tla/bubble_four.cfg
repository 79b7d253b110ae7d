SPECIFICATION Spec
CONSTANTS
    Cars = {c1, c2, c3, c4}
    Freed = Freed
    None = None
    SlotPerFrame = 5
    HEAD_SLOT = 1
    TAIL_SLOT = 4
    UpLocSlot = 5
    nFrameSta = 2
    NumSlots = 12
    Places = {0, 1}
    CellSize = 1
    Dir <- SameWay
    SafeDists = {1}
    Garbage = {1}
    FreshVehicles <- Zeroed
SYMMETRY Symmetry
INVARIANTS UndeliveredCollided ReceptionAccounting OneHopTruthful
PROPERTIES MergeOnlyAfterCollision
CHECK_DEADLOCK FALSE
