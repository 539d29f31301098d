SPECIFICATION Spec
CONSTANTS
    u1 = u1
    u2 = u2
    u3 = u3
    c1 = c1
    c2 = c2
    Nobody = Nobody
    User = {u1, u2, u3}
    Call = {c1, c2}
    SeatLimit = 2
    MaxRequests = 2
SYMMETRY WorkspaceSymmetry
INVARIANTS
    TypeOK
    SeatsBounded
    KeepsAnOwner
    LeftForGood
    ErasedAreOut
CHECK_DEADLOCK FALSE
