SPECIFICATION FairSpec
CONSTANTS
    p1 = p1
    p2 = p2
    d1 = d1
    d2 = d2
    NoProducer = NoProducer
    Key = {1}
    Digest = {1}
    Producer = {p1}
    Deliverer = {d1}
    MaxAttempts = 2
    PageLimit = 1
    MaxCrashes = 0
PROPERTIES
    BounceIsNotRetried
CHECK_DEADLOCK FALSE
