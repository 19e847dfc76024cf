SPECIFICATION FairSpec
CONSTANTS
    m1 = m1
    m2 = m2
    m3 = m3
    j1 = j1
    j2 = j2
    j3 = j3
    j3again = j3again
    w1 = w1
    Manifests = {m1, m2, m3}
    Jobs = {j1, j2, j3, j3again}
    ManifestOf <- MCManifestOf
    Replayers = {w1}
    KindChoices <- MCKinds
    BatchSize = 2
    MaxTries = 2
    ReplayLimit = 2
    AbandonAfter = 2
    PgConfigured = TRUE
    ToThreadCallable = TRUE
    MaxFaults = 2
INVARIANTS
    TypeOK
    LeavesAreStored
    NumbersAreUnique
    DoneIsKept
    OrphansCaused
    RepetitionsCaused
PROPERTIES
    SettledRowsStay
    
CHECK_DEADLOCK FALSE
