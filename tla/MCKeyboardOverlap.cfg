SPECIFICATION FairSpec
CONSTANTS
    ResetKeys = {ctrl, lami}
    AltKey = alt
    AK_RESETWARNING = warn
    OtherKeys = {a}
    KEYBUF_SIZE = 3
    LostSync = 2
    WarnLines = 3
    OutLines = 4
    PollLines = 2
    GiveUpSeq = 15
    HardSeq = 5
    cs_resetwarning = TRUE
    CpuBoard = FALSE
    Overlap = TRUE
    MaxPresses = 2
    MaxResets = 1
PROPERTIES ComboResets
