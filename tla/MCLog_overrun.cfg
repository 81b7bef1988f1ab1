CONSTANTS
    Proc = {p1, p2, p3}
    Block = {b1, b2, b3}
    Data = {0}
    NoBlock = NoBlock
    LogSize = 3
    LogBlocks = 3
    MaxOpBlocks = 1
SPECIFICATION Spec
INVARIANTS NoOverrun
CHECK_DEADLOCK FALSE
