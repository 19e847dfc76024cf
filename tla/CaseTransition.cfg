SPECIFICATION FairSpec
CONSTANTS
    Cases = {c1}
    Callers = {a1, a2}
    MaxTransitions = 3
    MaxFaults = 1
INVARIANTS
    TypeOK
    HistoryChains
    TrailAgrees
PROPERTIES
    RequestsEnd
    
CHECK_DEADLOCK FALSE
