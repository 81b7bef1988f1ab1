SPECIFICATION Spec
CONSTANTS
    File = {1}
    Data = {1}
    NDirect = 1
    NIndirect = 3
    NBlock = 8
    BPB = 4
    Others <- Nobody
    MaxOpBlocks = 10
    Write_ <- Chunks
    Length <- Lengths
PROPERTY WriteThrough
CHECK_DEADLOCK FALSE
