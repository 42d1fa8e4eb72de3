SPECIFICATION FairSpec
CONSTANTS
    Tasks = {t1, t2}
    Masks = {0, 7}
    MaxTraps = 3
    MaxResets = 1
VIEW InUse
CONSTRAINT FewOverReset
CHECK_DEADLOCK FALSE
INVARIANTS OneRunner RunsWhereEntered OwnResult CurrentContext TrapInv
PROPERTY EmuReturnsUnlessReset
