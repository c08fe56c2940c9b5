SPECIFICATION Spec
CONSTANTS
    Content = {c1, c2, c3}
    BadContent = {c3}
    Request = {r1, r2}
    MaxDocuments = 1
    MaxKeys = 3
    MaxFaults = 1
SYMMETRY Interchangeable
INVARIANTS
    RowHasObject
    HalvesAreExcused
    LimitOvershoot
CHECK_DEADLOCK FALSE
