\* Handlers of both kinds schedule events, so that MISC_handler nests.
SPECIFICATION FairSpec
CONSTANTS
    ev2_max = 3
    Handlers = {ext, blitter, timer}
    Ext = ext
    Blitter = blitter
    Replaceable = {timer}
    Bits = {b1, b2}
    Delays = {1, 2}
    Periodic = {0}
    Periods = {2}
    MaxCycles = 2
    PerPeriodic = 1
    PerOneShot = 1
    MaxDepth = 3
    MaxRestart = 2
    MaxLate = 1
    EVT_MAX = 99
INVARIANTS
    SyncFirst
    TableInv
PROPERTIES
    ScanComplete
    OnTimeUnlessRestarted
    EventsServedUnlessNested
