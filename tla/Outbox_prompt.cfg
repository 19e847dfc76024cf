SPECIFICATION FairSpec
CONSTANTS
    Workers = {w1, w2}
    Tasks = {1, 2}
    Routable = {1}
    ErrorTexts = {"text"}
    BatchSize = 2
    MaxRetries = 2
    ReclaimSeconds = 2
    LockTTL = 2
    RedisConfigured = TRUE
    PromptBatches = TRUE
    PromptHandlers = FALSE
    MaxFaults = 2

INVARIANTS
    TypeOK
    ClaimExclusive
    RetriesBounded
PROPERTIES
    CompletedIsFinal
    ImplementsContract
    
