CONSTANTS
    Workers = {w1}
    NumClients = 2
    QueryLimit = 1
    BatchSize = 2
    MaxCalls = 1
    Outcomes = {"ok"}
    DBFaults = FALSE
    FileFaults = FALSE
    Restarts = FALSE
SPECIFICATION Spec
INVARIANTS
    NewC2KeyReachesAllClients
