SPECIFICATION FairSpec
CONSTANTS
    Users = {u1, u2}
    Pollers = {p1}
    Ingests = {i1}
    MaxLogs = 3
    PollLimit = 2
    OrderedCommits = FALSE
    OneMaterialiser = TRUE
    PollKeepsUp = TRUE
    MaxFaults = 1
INVARIANTS
    LinksAreSound
    
    

    
