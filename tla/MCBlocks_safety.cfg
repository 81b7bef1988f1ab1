SPECIFICATION Spec
CONSTANTS
    File = {1}
    Data = {1}
    NDirect = 1
    NIndirect = 3
    NBlock = 16
    BPB = 4
    Others <- Scattered
    MaxOpBlocks = 10
    Write_ <- Chunks
    Length <- Lengths
INVARIANTS UsedOnce ChunkLeavesTwo
PROPERTIES LeaksOnlyInReload RefinesFile
CHECK_DEADLOCK FALSE
