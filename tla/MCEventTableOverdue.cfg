\* A handler that schedules makes the scan pass over a pending event.
SPECIFICATION Spec
CONSTANTS
    ev2_max = 3
    Handlers = {ext, blitter}
    Ext = ext
    Blitter = blitter
    Replaceable = {}
    Bits = {b1}
    Delays = {1, 2}
    Periodic = {0}
    Periods = {2}
    MaxCycles = 2
    PerPeriodic = 0
    PerOneShot = 1
    MaxDepth = 4
    MaxRestart = 3
    MaxLate = 2
    EVT_MAX = 99
INVARIANT
    NothingOverdue
