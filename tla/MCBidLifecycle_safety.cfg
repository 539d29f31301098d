SPECIFICATION Spec
CONSTANTS
    s1 = s1
    s2 = s2
    i1 = i1
    i2 = i2
    i3 = i3
    w1 = w1
    NoOne = NoOne
    Bid = {1}
    Source = {s1, s2}
    Importer = {i1, i2, i3}
    Sweeper = {w1}
    SourceOf <- TwoSources
    Deadline = {1}
    PageSize = 1
    MaxTime = 1
    MaxImports = 3
    MaxFailures = 1
SYMMETRY ImporterSymmetry
INVARIANTS
    TypeOK
    OnlyClosedHaveReasons
PROPERTIES
    AwardedNeverCloses
    DeadlineClosesWereDue
    DelistedWasUnlisted
    CrawlsStoredInOrder
    BackfillsBringNoNews
    ImplementsRegister
