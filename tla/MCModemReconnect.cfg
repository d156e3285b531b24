SPECIFICATION Spec
CONSTANTS
    Threads = {t1, t2}
    NoThread = NoThread
    RebootHoldoff = TRUE
    ErrorDetail = TRUE
    MaxCalls = 2
    MaxObjects = 2
    MaxReboots = 1
INVARIANT TypeOK
INVARIANT TokenHasTaker
CHECK_DEADLOCK FALSE
