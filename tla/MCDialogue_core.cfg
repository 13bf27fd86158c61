\* Open, B writing 2 packets through full 1-slot channels, Close or CloseWait from either or both ends; closeOnce as a working Once.
CONSTANTS
    A = A
    B = B
    Cap = 1
    Writers = {B}
    MaxData = 2
    ConnMayFail = FALSE
SPECIFICATION Spec
INVARIANT TypeOK
INVARIANT NoPanic
INVARIANT FSMClosure
INVARIANT DataConserved
CHECK_DEADLOCK FALSE
