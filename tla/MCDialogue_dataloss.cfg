\* B writes one packet and closes; the Dismiss may overtake the data.
CONSTANTS
    A = A
    B = B
    Cap = 1
    Writers = {B}
    MaxData = 1
    ConnMayFail = FALSE
SPECIFICATION Spec
INVARIANT DataBeforeCloseDelivered
CHECK_DEADLOCK FALSE
