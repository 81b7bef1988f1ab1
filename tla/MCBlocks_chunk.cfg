SPECIFICATION Spec
CONSTANTS
    File = {1}
    Data = {1}
    NDirect = 1
    NIndirect = 3
    NBlock = 20
    BPB = 4
    Others <- Scattered
    MaxOpBlocks = 10
    Write_ <- Chunks
    Length <- Lengths
INVARIANT ChunkFits
CHECK_DEADLOCK FALSE
