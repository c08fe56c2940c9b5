SPECIFICATION Spec
CONSTANTS
    Doc = {d1}
    Worker = {w1, w2}
    Requester = {r1, r2}
    None = None
    MaxAttempts = 2
    HeartbeatsFail = TRUE
    MaxJobs = 3
    MaxFaults = 3
SYMMETRY Interchangeable
INVARIANTS
    AttemptsBounded
    RetiredAtTheLimit
CHECK_DEADLOCK FALSE
