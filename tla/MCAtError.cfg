SPECIFICATION Spec
CONSTANTS
    Threads = {t1, t2}
    NoThread = NoThread
    Commands = {"bad"}
    ModemCrcInit = {FALSE}
    MaxCalls = 1
    MaxUrcs = 0
    MaxFaults = 0
    MayStop = FALSE
    MayUnplug = FALSE
INVARIANT ErrorIsReturned
