\* B's application writes while A closes the dialogue.
CONSTANTS
    A = A
    B = B
    Cap = 1
    Writers = {B}
    MaxData = 2
    ConnMayFail = FALSE
SPECIFICATION Spec
PROPERTY FiniCompletes
CHECK_DEADLOCK FALSE
