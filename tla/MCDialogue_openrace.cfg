\* open() queues the Session before it registers its sync-hub waiter.
CONSTANTS
    A = A
    B = B
    Cap = 1
    Writers = {}
    MaxData = 0
    ConnMayFail = FALSE
SPECIFICATION Spec
INVARIANT OpenAckAwaited
CHECK_DEADLOCK FALSE
