SPECIFICATION Spec
CONSTANTS
    Proc = {p1, p2, p3}
    File = {f1}
    MAXEND = 5
    Ranges <- SomeRanges
    Types = {"write"}
    Recs = 6
    Fils = 1
    NoSleep = NoSleep
SYMMETRY Symm
INVARIANTS
    SleepersBlocked
    NoDeadlock
    HeadersExact
    ChangesExact
PROPERTY ImplementsTable
