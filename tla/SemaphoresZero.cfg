SPECIFICATION Spec
CONSTANTS
    Proc = {p1, p2}
    SEMMNI = 1
    NSEMS = 1
    SEMVMX = 2
    SEMAEM = 1
    SEMUME = 1
    SEMMNU = 1
    Lists <- TakeLast
    Settings = {0, 2}
    MaxSeq = 1
SYMMETRY Symm
INVARIANTS
    SleepersBlocked
