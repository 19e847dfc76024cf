SPECIFICATION FairSpec
CONSTANTS
    Requests = {"r1"}
    Keys = {"k"}
    NoKey = NoKey
    Key <- MCKey
    Messages = {"m1", "m2", "m3"}
    Body <- BatchBody
    KindChoices <- BatchKinds
    Consumers = {c1, c2}
    BatchSize = 3
    MaxDeliver = 2
    RedisConfigured = TRUE
    OrchestratorSet = TRUE
    DlqOn4xx = TRUE
    DlqOnFailure = TRUE
    MaxFaults = 1
PROPERTY
    EventsSettle
CHECK_DEADLOCK FALSE
