SPECIFICATION Spec
CONSTANTS
    Threads = {t1, t2}
    NoThread = NoThread
    RebootHoldoff = FALSE
    ErrorDetail = FALSE
    MaxCalls = 1
    MaxObjects = 1
    MaxReboots = 0
INVARIANT NoLostWakeup
CHECK_DEADLOCK FALSE
