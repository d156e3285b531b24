SPECIFICATION Spec
CONSTANTS
    app_ = app_
    reader = reader
    user = user
    a = a
    b = b
    App = app_
    Clients <- MCClients
    Events <- MCEvents
    Maps <- MCMaps
    Given <- MCGiven
    Schemas <- MCSchemas
    Payloads <- MCPayloads
    Fixes <- MCFixes
    Signals <- MCSignals
    MaxReturn = 17
    MaxForward = 10
    Budgets <- MCBudgets
    MaxFaults = 1
    MaxClock = 1
SYMMETRY MCSymmetry
INVARIANT TypeOK
INVARIANT ClearIsExact
INVARIANT ControlSetExact
INVARIANT RoundTrip
INVARIANT OneReportPending
INVARIANT ReportArrives
INVARIANT FixOrderFree
CHECK_DEADLOCK FALSE
