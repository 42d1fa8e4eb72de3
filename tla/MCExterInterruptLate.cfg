SPECIFICATION FairSpec
CONSTANTS
    Size = 4
    Chunks = 2
    Word <- Words
    NoWord = none
    Writers = {w1}
    MaxCalls = 1
    Length <- OneCall
    Units = 1
    MaxPackets = 1
    UnitOf <- OneUnit
    MaxStarted = 1
    Dummy = dummy
CHECK_DEADLOCK FALSE
PROPERTIES PacketsReplied
