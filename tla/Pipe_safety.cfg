CONSTANTS
    Proc = {p1, p2}
    Creator = p1
    Data = {0, 1}
    PIPESIZE = 2
    UintMod = 4
    MaxCount = 2
    Killable = {p2}
SPECIFICATION FairSpec
INVARIANTS NotFreedInUse SleepersJustified ReaderForgottenOnlyByKill
PROPERTIES RefinesQueue PeersSeeClose
CHECK_DEADLOCK FALSE
