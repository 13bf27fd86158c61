\* The transport may fail at any point while the opener A writes one packet: cn.Write errors drive the ET_ERROR and ET_EOF paths and closeWrapper, and the connection tears the dialogues down.
CONSTANTS
    A = A
    B = B
    Cap = 1
    Writers = {A}
    MaxData = 1
    ConnMayFail = TRUE
SPECIFICATION Spec
INVARIANT NoPanic
CHECK_DEADLOCK FALSE
