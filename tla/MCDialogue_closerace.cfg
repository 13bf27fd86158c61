\* Both ends close; the write pump acks a Dismiss it finds already answered before CloseWait registers its waiter.
CONSTANTS
    A = A
    B = B
    Cap = 1
    Writers = {}
    MaxData = 0
    ConnMayFail = FALSE
SPECIFICATION Spec
INVARIANT CloseAckAwaited
CHECK_DEADLOCK FALSE
