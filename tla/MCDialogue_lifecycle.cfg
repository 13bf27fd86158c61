\* Open, then Close or CloseWait from either end or both at once, without data and with the transport up: the two dialogues implement DialogueLifecycle.
CONSTANTS
    A = A
    B = B
    Cap = 1
    Writers = {}
    MaxData = 0
    ConnMayFail = FALSE
SPECIFICATION Spec
PROPERTY LifecycleRefined
CHECK_DEADLOCK FALSE
