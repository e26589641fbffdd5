SPECIFICATION Spec
CONSTANTS
    Proc = {p1, p2}
    File = {f1}
    MAXEND = 4
    Ranges <- AllRanges
    Types = {"read", "write"}
    Recs = 5
    Fils = 1
    NoSleep = NoSleep
SYMMETRY Symm
INVARIANT NoConflict
