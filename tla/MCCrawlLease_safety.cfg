CONSTANTS
    Attempt = {a1, a2}
    NoAttempt = NoAttempt
    Ttl = 2
    PoolSize = 2
    MaxTime = 3
SPECIFICATION Spec
SYMMETRY AttemptSymmetry
CHECK_DEADLOCK FALSE
INVARIANTS TypeOK LatestHolder AnnouncedIsStored LockedOutHoldsNothing
PROPERTIES NoStaleCommit LiveLeaseIsRespected ExpiredStaysExpired ImplementsFencedStore EndedIsSilent
