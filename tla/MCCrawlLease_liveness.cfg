CONSTANTS
    Attempt = {a1, a2}
    NoAttempt = NoAttempt
    Ttl = 1
    PoolSize = 1
    MaxTime = 1
SPECIFICATION FairSpec
CHECK_DEADLOCK FALSE
PROPERTIES AttemptsEnd
