SPECIFICATION Spec
CONSTANTS
    Proc = {p1, p2, p3}
    MSGMNI = 1
    MSGMAP = 3
    MSGTQL = 2
    MSGSEG = 3
    MSGSSZ = 1
    MSGMAX = 2
    MSGMNB = 4
    Sends <- ThreeMessages
    Asks <- AnyOrLowest
    Limits = {2}
    SuperUser = FALSE
    MaxSeq = 1
SYMMETRY Symm
INVARIANT
    Accounted
