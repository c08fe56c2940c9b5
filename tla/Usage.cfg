SPECIFICATION Spec
CONSTANTS
    Caller = {c1}
    Address = {a1}
    AddressOf <- OneAddress
    Limit = 1
    SignupLimit = 1
    Window = 2
    SignupWindow = 2
    Retention = 2
    MaxNow = 2
    MaxHits = 2
    MaxErrors = 1
    Request = {r1, r2}
    Budget = 2
    BudgetWindow = 1
    EmbedCost = 1
    Costs = {1}
    MaxTurns = 3
INVARIANTS
    LimitsHold
    AnswersArePaid
    AnswerFollowsQuestion
    BudgetHolds
CHECK_DEADLOCK FALSE
SYMMETRY Interchangeable
