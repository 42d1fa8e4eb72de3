SPECIFICATION FairSpec
CONSTANTS
    ResetKeys = {ctrl, lami}
    AltKey = alt
    AK_RESETWARNING = warn
    OtherKeys = {}
    KEYBUF_SIZE = 3
    LostSync = 2
    WarnLines = 3
    OutLines = 4
    PollLines = 2
    GiveUpSeq = 15
    HardSeq = 5
    cs_resetwarning = TRUE
    CpuBoard = TRUE
    Overlap = FALSE
    MaxPresses = 3
    MaxResets = 1
INVARIANTS KeyboardInv
PROPERTIES HeldInReset ComboResets KeysSent
