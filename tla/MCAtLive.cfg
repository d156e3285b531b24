SPECIFICATION Spec
CONSTANTS
    Threads = {t1, t2}
    NoThread = NoThread
    Commands = {"query", "bad"}
    ModemCrcInit = {FALSE, TRUE}
    MaxCalls = 2
    MaxUrcs = 1
    MaxFaults = 0
    MayStop = TRUE
    MayUnplug = TRUE
INVARIANT TypeOK
PROPERTY StopEndsEventThread
PROPERTY ImplementsService
