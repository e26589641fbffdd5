SPECIFICATION Spec
CONSTANTS
    Proc = {p1, p2}
    File = {f1, f2}
    PIPSIZ = 4
    BSIZE = 2
    Modes <- FewModes
    Texts <- TwoTexts
    Counts = {3}
    Failing = {"iomove"}
    Bytes <- Letters
    a = a
    b = b
    Stale = Stale
PROPERTIES
    ImplementsFifo
SYMMETRY Symm
