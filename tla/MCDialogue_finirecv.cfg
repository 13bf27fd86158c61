\* The transport fails during the open; the connection tears the dialogues down.
CONSTANTS
    A = A
    B = B
    Cap = 1
    Writers = {}
    MaxData = 0
    ConnMayFail = TRUE
SPECIFICATION Spec
INVARIANT FiniIsTerminal
CHECK_DEADLOCK FALSE
