SPECIFICATION Spec
CONSTANTS
    c1 = c1
    c2 = c2
    e1 = e1
    e2 = e2
    Call = {c1, c2}
    Event = {e1, e2}
    Paid = {"pro"}
    Notices <- SmallNotices
    Periods = {1}
    Grace = 0
    MaxTime = 1
    MaxRequests = 1
    MaxCrashes = 1
    NoRow = NoRow
    NotSent = NotSent
SYMMETRY SubscriptionSymmetry
INVARIANTS
    TypeOK
    TiersAgree
    AppliedOnce
PROPERTIES
    OnlyProviderRevives
CHECK_DEADLOCK FALSE
