SPECIFICATION Spec
CONSTANTS
    Proc = {p1, p2}
    NSlot = 2
    Name = {n1, n2}
    n1 = n1
    n2 = n2
    NIno = 4
    INOPB = 1
    NICINOD = 2
    MAXLINK = 3
    Calls <- DeviceCalls
    Files <- OneFile
    Special <- OneSpecial
    BadBlocks <- BadDisk
    NoName = NoName
    NoProc = NoProc
SYMMETRY Symm
INVARIANTS
    CountsReferences
    NoDeadlyEmbrace
