SPECIFICATION Spec
CONSTANTS
    Tab = {t1,t2}
    Slot = {c1,c2}
    MaxExchanges = 4
    MaxFaults = 1
SYMMETRY Interchangeable
INVARIANTS
    NobodyForgotten
    NeverDenied
    SessionSurvives
    ShowsWithToken
CHECK_DEADLOCK FALSE
