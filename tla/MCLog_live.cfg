CONSTANTS
    Proc = {p1, p2, p3}
    Block = {b1, b2}
    Data = {0, 1}
    NoBlock = NoBlock
    LogSize = 3
    LogBlocks = 3
    MaxOpBlocks = 1
SPECIFICATION FairSpec
PROPERTY SleepersWake
CHECK_DEADLOCK FALSE
