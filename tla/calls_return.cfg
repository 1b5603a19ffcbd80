CONSTANTS
    NumClients = 1
    NumTopics = 1
    Postgres = TRUE
    Workers = {w1, w2}
    Ops <- TopicCalls
    MaxCalls = 2
    BatchSize = 1
    Outcomes = {"ok", "fail"}
    DBFaults = TRUE
    Restarts = FALSE
    PubKeyMode = FALSE
    SendPubkeys = FALSE
    Populated = TRUE
SPECIFICATION FairSpec
PROPERTIES
    CallsReturn
