CONSTANTS
    NumClients = 2
    NumTopics = 1
    Postgres = FALSE
    Workers = {w1, w2}
    Ops <- KeyCalls
    MaxCalls = 3
    BatchSize = 1
    Outcomes = {"ok", "fail", "late"}
    DBFaults = TRUE
    Restarts = TRUE
    PubKeyMode = TRUE
    SendPubkeys = TRUE
    Populated = TRUE
SPECIFICATION ApartSpec
SYMMETRY WorkerSymmetry
INVARIANTS
    TypeOK
    NoSilentStaleTopicKey
    MonitoringMatchesTopics
    NoSilentKeyDivergence
    DistributedTopicKeysWereCommitted
PROPERTIES
    RekeyReachesLinkedClients
