SPECIFICATION Spec
CONSTANTS
    Threads = {t1, t2}
    Items = {"versions", "power_mode"}
    Settable = {"power_mode"}
    Keyed = {"versions"}
    Values = {v1, v2}
    None = None
    SatStatusHoldoff = 2
    MaxOps = 3
    MaxTime = 3
    MaxFaults = 1
INVARIANT TypeOK
INVARIANT CacheCurrent
INVARIANT FreshAnswer
INVARIANT StatusWhole
INVARIANT PollsSpaced
SYMMETRY Symmetry
