SPECIFICATION Spec
CONSTANTS
    Main = {m1, m2}
    External = {x}
    Retries = {1, 2}
    MaxCalls = 3
    MaxOverlapping = 2
    MaxDepth = 2
    MaxFaults = 1
INVARIANT TypeOK
INVARIANT IdleIsClean
INVARIANT AloneSucceeds
INVARIANT AloneOwnAnswer
INVARIANT AloneSendsOnce
CHECK_DEADLOCK FALSE
INVARIANT MainNeverStuck
SYMMETRY Symmetry
