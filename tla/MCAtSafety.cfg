SPECIFICATION Spec
CONSTANTS
    Threads = {t1, t2}
    NoThread = NoThread
    Commands = {"query", "crcOn", "crcOff"}
    ModemCrcInit = {FALSE, TRUE}
    MaxCalls = 3
    MaxUrcs = 1
    MaxFaults = 1
    MayStop = FALSE
    MayUnplug = FALSE
INVARIANT OwnAnswer
INVARIANT VerifiedIsWhole
INVARIANT CrcLearned
INVARIANT ReturnsResultCode
INVARIANT EventsAreUnsolicited
SYMMETRY Symmetry
