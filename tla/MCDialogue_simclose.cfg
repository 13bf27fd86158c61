\* Both ends close at once.
CONSTANTS
    A = A
    B = B
    Cap = 1
    Writers = {}
    MaxData = 0
    ConnMayFail = FALSE
SPECIFICATION Spec
PROPERTY DismissAnswered
CHECK_DEADLOCK FALSE
