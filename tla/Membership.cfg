SPECIFICATION Spec
CONSTANTS
    User = {u1, u2, u3}
    Founder = u1
    Request = {q1, q2}
    MaxInvites = 2
    MaxRequests = 4
SYMMETRY Interchangeable
INVARIANTS
    AdminRemains
    OnlyTheInvited
PROPERTY
    KeepsRoster
CHECK_DEADLOCK FALSE
