SPECIFICATION Spec
CONSTANTS
    Proc = {p1, p2, p3}
    NSlot = 2
    Name = {n1, n2}
    n1 = n1
    n2 = n2
    NIno = 4
    INOPB = 1
    NICINOD = 2
    MAXLINK = 3
    Calls <- PipeCalls
    Files <- OneFile
    Special <- NoSpecial
    BadBlocks <- NoBadBlocks
    NoName = NoName
    NoProc = NoProc
SYMMETRY Symm
INVARIANTS
    CountsReferences
