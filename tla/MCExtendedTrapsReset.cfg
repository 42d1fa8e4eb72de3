SPECIFICATION FairSpec
CONSTANTS
    Tasks = {t1, t2}
    Masks = {0, 7}
    MaxTraps = 2
    MaxResets = 1
CHECK_DEADLOCK FALSE
PROPERTIES EmuReturns
