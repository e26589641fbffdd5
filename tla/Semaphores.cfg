SPECIFICATION Spec
CONSTANTS
    Proc = {p1, p2, p3}
    SEMMNI = 1
    NSEMS = 2
    SEMVMX = 2
    SEMAEM = 1
    SEMUME = 2
    SEMMNU = 2
    Lists <- MixedLists
    Settings = {0, 2}
    MaxSeq = 1
SYMMETRY Symm
INVARIANTS
    NoLostWakeup
    SleepersBlocked
    UndoAccounted
PROPERTY
    ImplementsSets
