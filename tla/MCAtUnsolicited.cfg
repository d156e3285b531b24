SPECIFICATION Spec
CONSTANTS
    Threads = {t1, t2}
    NoThread = NoThread
    Commands = {"plain"}
    ModemCrcInit = {FALSE}
    MaxCalls = 2
    MaxUrcs = 1
    MaxFaults = 0
    MayStop = FALSE
    MayUnplug = FALSE
PROPERTY UnsolicitedGoesToEvents
