SPECIFICATION Spec
CONSTANTS
    Workers = {w1, w2}
    Tasks = {1, 2}
    Routable = {1, 2}
    ErrorTexts = {"text", "blank"}
    BatchSize = 2
    MaxRetries = 2
    ReclaimSeconds = 2
    LockTTL = 2
    RedisConfigured = TRUE
    PromptBatches = FALSE
    PromptHandlers = TRUE
    MaxFaults = 1
SYMMETRY WorkerSymmetry
INVARIANTS
    HandlerMutex
