SPECIFICATION Spec
CONSTANTS
    Proc = {p1, p2, p3}
    Block = {k1, k2, k3, k4, k5}
    k1 = k1
    k2 = k2
    k3 = k3
    k4 = k4
    k5 = k5
    NICFREE = 2
    ReadErrors = TRUE
    NoLink = NoLink
SYMMETRY Symm
INVARIANTS
    UsedOnce
    NoneLost
    SleepersWait
PROPERTY
    NospaceWhenEmpty
