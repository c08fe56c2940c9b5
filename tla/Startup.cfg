SPECIFICATION BootSpec
CONSTANTS
    Process = {s1, s2}
    NoProcess = NoProcess
    Migrating = {s1, s2}
    Working = {s1}
    Latest = 2
INVARIANT ServesAtHead
