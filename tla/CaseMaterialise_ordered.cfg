SPECIFICATION Spec
CONSTANTS
    Users = {u1}
    Pollers = {p1, p2}
    Ingests = {i1}
    MaxLogs = 3
    PollLimit = 2
    OrderedCommits = TRUE
    OneMaterialiser = FALSE
    PollKeepsUp = FALSE
    MaxFaults = 0
SYMMETRY Symmetry
INVARIANTS
    TypeOK
    NoLogSkipped
