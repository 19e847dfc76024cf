SPECIFICATION Spec
CONSTANTS
    Users = {u1}
    Pollers = {p1}
    Ingests = {i1}
    MaxLogs = 3
    PollLimit = 2
    OrderedCommits = FALSE
    OneMaterialiser = TRUE
    PollKeepsUp = TRUE
    MaxFaults = 0
INVARIANTS
    NoLogSkipped
