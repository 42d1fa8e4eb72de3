SPECIFICATION FairSpec
CONSTANTS
    BYTES_PER_FRAME = 2
    RING_SIZE = 12
    Capacity = 4
    NUM_BUFS = 2
    MaxFrames = 4
    InOrder = TRUE
INVARIANTS CopiesApart RingInv
PROPERTIES StreamSpec Played
