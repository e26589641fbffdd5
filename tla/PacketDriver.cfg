SPECIFICATION Spec
CONSTANTS
    a = a
    b = b
    Side = {a, b}
    Mod = 4
    Window = 2
    Room = 3
    Script <- Turns
    Getries = 2
    Connodata = 3
    MaxNoise = 1
INVARIANTS
    InOrder
    NothingForgotten
