SPECIFICATION Spec
CONSTANTS
    Proc = {p1, p2}
    Buf = {b1, b2, b3}
    Block = {k1, k2}
    k1 = k1
    k2 = k2
    k3 = k3
    d1 = d1
    d2 = d2
    DevOf <- OneDevice
    Value = {v1, v2}
    Calls <- WindowCalls
    AsyncReserve = 0
    Failing = {"READ"}
    ErrorsInWindow = TRUE
    NoProc = NoProc
    NoBuf = NoBuf
    NoBlock = NoBlock
SYMMETRY Symm
INVARIANTS
    ReadsCurrent
