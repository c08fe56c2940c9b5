SPECIFICATION Spec
CONSTANTS
    event = event
    note = note
    tasks = tasks
    email = email
    chat = chat
    p1 = p1
    p2 = p2
    p3 = p3
    Action = {event, note, tasks, email}
    NoAction = NoAction
    Thread = {chat}
    NoThread = NoThread
    ThreadOf <- MCThread
    Kind <- MCKindOf
    Private = {note}
    Payload = {p1, p2, p3}
    NoPayload = NoPayload
    Who <- MCWho
    Members <- MCMembers
    Reviewer = {r1, r2}
    MaxCalls = 2
    MaxClicks = 2
    MaxFaults = 1
SYMMETRY Interchangeable
INVARIANTS
    MembersOnly
    StatusIsTruth
    ApprovedIsInHand
    NoFalseSuccess
PROPERTY
    KeepsConsent
CHECK_DEADLOCK FALSE
