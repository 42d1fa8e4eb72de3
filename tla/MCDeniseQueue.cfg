SPECIFICATION FairSpec
CONSTANTS
    DENISE_RGA_SLOT_CHUNKS = 3
    LineLen = 2
    Types = {0, 4}
    SemMax = 2
    MaxWrites = 6
    MaxCycle = 2
VIEW InUse
INVARIANTS EntryStable DrawsUnderLock RgaStable IInv
PROPERTIES CpuReturns FifoFairSpec
