CONSTANTS
    Proc = {p1, p2, p3}
    Block = {b1, b2, b3, b4, b5}
    Data = {0, 1}
    NoBlock = NoBlock
    LogSize = 4
    LogBlocks = 4
    MaxOpBlocks = 2
SYMMETRY Symmetry
SPECIFICATION Spec
INVARIANTS NoLostWakeup Pinned CommitAlone HeaderFits
PROPERTIES RefinesStore
CHECK_DEADLOCK FALSE
