SPECIFICATION Spec
CONSTANTS
    MaxTurns = 3
    MaxOpens = 1
INVARIANTS
    OneAnswerAtATime
    AnswerStays
    SendsWhereItShows
CHECK_DEADLOCK FALSE
