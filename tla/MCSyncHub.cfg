\* Two ids, an Ack of nil or of an error, Cancel and the timer in every order; the hub stops once every waiter has its result.
CONSTANTS
    Ids = {i1, i2}
    AckValues = {"nil", "err"}
SPECIFICATION Spec
PROPERTY OneShotRefined
CHECK_DEADLOCK FALSE
