SPECIFICATION FairSpec
CONSTANTS
    Size = 3
    Chunks = 2
    Word <- Words
    NoWord = none
    Writers = {w1, w2}
    MaxCalls = 2
    Length <- Lengths
    Units = 1
    MaxPackets = 3
    UnitOf <- OneUnit
    MaxStarted = 2
    Dummy = dummy
VIEW InUse
CHECK_DEADLOCK FALSE
INVARIANTS TypeOK WholeCalls NoLostWakeUp DummyOnce RepliedForGood
PROPERTIES FifoSpec CallsFairSpec RepliedUnlessAckedUnmarked
