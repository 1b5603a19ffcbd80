CONSTANTS
    NumClients = 1
    NumTopics = 1
    Postgres = TRUE
    Workers = {w1, w2}
    Ops <- TopicCalls
    MaxCalls = 3
    BatchSize = 1
    Outcomes = {"ok", "fail", "late"}
    DBFaults = TRUE
    Restarts = TRUE
    PubKeyMode = FALSE
    SendPubkeys = FALSE
    Populated = TRUE
SPECIFICATION Spec
SYMMETRY WorkerSymmetry
INVARIANTS
    LinkedClientsWereNotified
    EventsFollowLinks
    OverlapInv
    ExistingTopicsAreMonitored
    PostgresKeepsNoClientOrphans
PROPERTIES
    ImplementsRegistry
