SPECIFICATION Spec
CONSTANTS
    p1 = p1
    p2 = p2
    d1 = d1
    d2 = d2
    NoProducer = NoProducer
    Key = {1}
    Digest = {1}
    Producer = {p1, p2}
    Deliverer = {d1, d2}
    MaxAttempts = 2
    PageLimit = 2
    MaxCrashes = 1
SYMMETRY OutboxSymmetry
INVARIANTS
    TypeOK
    SentWasAccepted
    OneCreatorSends
    AttemptsBounded
CHECK_DEADLOCK FALSE
