CONSTANTS
    NumClients = 1
    NumTopics = 1
    Postgres = TRUE
    Workers = {w1, w2}
    Ops <- JoinAndRemove
    MaxCalls = 2
    BatchSize = 1
    Outcomes = {"ok"}
    DBFaults = FALSE
    Restarts = FALSE
    PubKeyMode = FALSE
    SendPubkeys = FALSE
    Populated = TRUE
SPECIFICATION Spec
INVARIANTS
    TopicLinksHaveTopics
