SPECIFICATION Spec
CONSTANTS
    Proc = {p1, p2, p3}
    File = {f1, f2, f3}
    PIPSIZ = 4
    BSIZE = 2
    Modes <- FewModes
    Texts <- TwoTexts
    Counts = {3}
    Failing = {}
    Bytes <- Letters
    a = a
    b = b
    Stale = Stale
INVARIANTS
    CountsExact
    SleepersBlocked
PROPERTIES
    ImplementsFifo
SYMMETRY Symm
