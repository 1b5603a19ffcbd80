CONSTANTS
    NumClients = 2
    NumTopics = 0
    Postgres = FALSE
    Workers = {w1, w2}
    Ops <- PairCalls
    MaxCalls = 3
    BatchSize = 1
    Outcomes = {"ok", "fail"}
    DBFaults = FALSE
    Restarts = FALSE
    PubKeyMode = TRUE
    SendPubkeys = TRUE
    Populated = TRUE
SPECIFICATION Spec
SYMMETRY WorkerSymmetry
INVARIANTS
    StoredKeyWasHandedOver
PROPERTIES
    ImplementsRegistry
