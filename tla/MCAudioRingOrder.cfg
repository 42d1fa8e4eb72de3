SPECIFICATION Spec
CONSTANTS
    BYTES_PER_FRAME = 2
    RING_SIZE = 8
    Capacity = 4
    NUM_BUFS = 2
    MaxFrames = 3
    InOrder = FALSE
INVARIANTS Seamless
