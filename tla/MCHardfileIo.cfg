SPECIFICATION FairSpec
CONSTANTS
    Requests = {r1, r2}
    Slots = 2
    Bufs = {b1, b2}
    None = none
    MaxRequests = 2
    MaxReplies = 2
CONSTRAINT TableKept
CHECK_DEADLOCK FALSE
INVARIANTS TypeOK
PROPERTIES BuffersKept TempKept RepliedOnce BuffersFreed RepliedInOrder CpuReturnsInOrder
