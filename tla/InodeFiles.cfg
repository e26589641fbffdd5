SPECIFICATION Spec
CONSTANTS
    Proc = {p1, p2, p3}
    NSlot = 3
    Name = {n1, n2}
    n1 = n1
    n2 = n2
    NIno = 4
    INOPB = 2
    NICINOD = 1
    MAXLINK = 2
    Calls <- FileCalls
    Files <- OneFile
    Special <- NoSpecial
    BadBlocks <- NoBadBlocks
    NoName = NoName
    NoProc = NoProc
SYMMETRY Symm
INVARIANTS
    LockExclusive
    OneSlotPerInode
    NoLostWakeup
    Coherent
    LinkedFilesSurvive
    LinksExact
