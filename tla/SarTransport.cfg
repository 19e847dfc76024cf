SPECIFICATION FairSpec
CONSTANTS
    i1 = i1
    i2 = i2
    c1 = c1
    c2 = c2
    w1 = w1
    w2 = w2
    Intents = {i1, i2}
    Clients = {c1, c2}
    Workers = {w1, w2}
    SeparateAck = FALSE
    MaxEdits = 1
    MaxFaults = 2
INVARIANTS
    TypeOK
    
    
    TransmissionBacked
    UploadsCaused
PROPERTIES
    
    QueueDrains
CHECK_DEADLOCK FALSE
