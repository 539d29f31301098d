\* Two workers and the desk, over one source.
SPECIFICATION Spec
SYMMETRY Symmetry
CONSTANTS
    w1 = w1
    w2 = w2
    s1 = s1
    u1 = u1
    u2 = u2
    Worker = {w1, w2}
    Source = {s1}
    NoSource = NoSource
    Url = {u1, u2}
    NoUrl = NoUrl
    Allowance = 2
    Pages = 1
    PrecheckCost = 2
    DiscoveryCost = 1
    MaxUse = 1
    MaxTries = 2
    MaxAttempts = 2
    Threshold = 2
    Pause = 2
    MaxAge = 2
    MaxTime = 4
    MaxFaults = 1
INVARIANTS
    TypeOK
    PausedIsLeftAlone
    BudgetAccounted
    HoldsAreTold
PROPERTIES
    RequestsAnswered
    ApprovalBacked
CHECK_DEADLOCK FALSE
