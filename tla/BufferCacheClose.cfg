SPECIFICATION Spec
CONSTANTS
    Proc = {p1, p2}
    Buf = {b1, b2}
    Block = {k1, k2, k3}
    k1 = k1
    k2 = k2
    k3 = k3
    d1 = d1
    d2 = d2
    DevOf <- TwoDevices
    Value = {v1}
    Calls <- CloseCalls
    AsyncReserve = 0
    Failing = {}
    ErrorsInWindow = TRUE
    NoProc = NoProc
    NoBuf = NoBuf
    NoBlock = NoBlock
SYMMETRY Symm
INVARIANTS
    IndInv
    NoLostWakeup
    AsyncCount
    DirtyIsSafe
