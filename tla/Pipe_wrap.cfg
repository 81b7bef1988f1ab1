CONSTANTS
    Proc = {p1, p2}
    Creator = p1
    Data = {0}
    PIPESIZE = 2
    UintMod = 4
    MaxCount = 2
    Killable = {}
SPECIFICATION Spec
INVARIANTS WritableIsNotFull
CHECK_DEADLOCK FALSE
