CONSTANTS
    Workers = {w1}
    NumClients = 2
    QueryLimit = 2
    BatchSize = 2
    MaxCalls = 3
    Outcomes = {"ok", "fail", "late"}
    DBFaults = TRUE
    FileFaults = TRUE
    Restarts = TRUE
SPECIFICATION FairSpec
INVARIANTS
    TypeOK
    KeyIsNeverLost
    NoSilentC2KeyDivergence
PROPERTIES
    KeyIsOfferedBeforeUse
    NewC2KeyReturnsOrRetries
