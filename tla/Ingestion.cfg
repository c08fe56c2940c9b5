SPECIFICATION FairSpec
CONSTANTS
    Doc = {d1, d2}
    Worker = {w1, w2}
    Requester = {r1}
    None = None
    MaxAttempts = 2
    HeartbeatsFail = FALSE
    MaxJobs = 3
    MaxFaults = 1
INVARIANTS
    OneWorkerPerJob
    UnsettledIsQueued
    ReadyIsSearchable
    PaidAgainForFaultsOnly
PROPERTIES
    KeepsLifecycle
    Settles
CHECK_DEADLOCK FALSE
