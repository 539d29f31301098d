SPECIFICATION Spec
CONSTANTS
    s1 = s1
    s2 = s2
    i1 = i1
    i2 = i2
    i3 = i3
    w1 = w1
    NoOne = NoOne
    Bid = {1}
    Source = {s1}
    Importer = {i1}
    Sweeper = {w1}
    SourceOf <- OneSource
    Deadline = {1, 2}
    PageSize = 1
    MaxTime = 2
    MaxImports = 2
    MaxFailures = 1
INVARIANTS
    DeadlineReasonsHold
