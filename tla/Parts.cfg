SPECIFICATION Spec
CONSTANTS
    Size = 5
    Overlap = 2
    Paragraph <- Paragraphs
    BatchSize = 2
    MaxAttempts = 2
    MaxParagraphs = 3
    MaxPages = 2
    Event = {e1, e2}
    Eols <- LineEndings
    MaxFrames = 3
    Letter = {"n", "wide"}
    WidthOf <- Widths
    Octets = 5
    Invitation <- Invitations
    Passage = {c1, c2, c3, c4}
    K = 2
    Candidates = 3
    TopK = 3
    Person = {p1, p2}
    Nobody = Nobody
    Keep = Keep
    Task = {t1, t2}
    NoTask = NoTask
    Desk = {d1, d2}
    MaxSpecs = 2
    Guest = {p1, p2}
    Meeting = {t1, t2}
    NoMeeting = NoMeeting
    Host = {d1, d2}
    MaxGuests = 2
    Deployment <- Deployments
    Process = {s1, s2, s3}
    NoProcess = NoProcess
    Migrating = {s1, s2}
    Working = {s1, s3}
    Latest = 2
SYMMETRY Interchangeable
INVARIANTS
    WithinSize
    Findable
    ReadInStep
    ClientReadsBack
    FusedInOrder
    SameInvitation
    GuestsAreTold
    OneUpgradeAtATime
PROPERTY
    GivenToMembers
CHECK_DEADLOCK FALSE
