SPECIFICATION Spec
CONSTANTS
    Fun = {f1, f2, f3}
    V_CALL = 4
    Times = {1, 2}
    MaxNested = 2
    NoFun = NoFun
    Never = Never
CHECK_DEADLOCK FALSE
INVARIANT PanicOnlyIfFull
