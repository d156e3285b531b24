SPECIFICATION ConnectedSpec
CONSTANTS
    Threads = {t1, t2, t3}
    NoThread = NoThread
    RebootHoldoff = TRUE
    ErrorDetail = TRUE
    MaxCalls = 1
    MaxObjects = 1
    MaxReboots = 1
INVARIANT TokenIsMine
INVARIANT DetailIsMine
INVARIANT NoLostWakeup
PROPERTY ImplementsService
