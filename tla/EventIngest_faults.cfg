SPECIFICATION Spec
CONSTANTS
    Requests = {"r1", "r2"}
    Keys = {"k"}
    NoKey = NoKey
    Key <- MCKey
    Messages = {"m1", "m2", "m3"}
    Body <- RepeatBody
    KindChoices <- RepeatKinds
    Consumers = {c1, c2}
    BatchSize = 2
    MaxDeliver = 2
    RedisConfigured = TRUE
    OrchestratorSet = TRUE
    DlqOn4xx = TRUE
    DlqOnFailure = TRUE
    MaxFaults = 2
SYMMETRY ConsumerSymmetry
INVARIANTS
    TypeOK
    AnswersAreBacked
    
    
    CommitsCaused
PROPERTIES
    ImplementsContract
CHECK_DEADLOCK FALSE
