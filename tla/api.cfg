CONSTANTS
    Names = {1, 2, 3, 4}
    Topics = {1, 2, 3, 4}
    CryptoMode = "pubkey"
    QueryLimit = 4
    PageSize = 2
    Commands <- AllCommands
    Client = 1
    Target = 2
    Topic = 1
    Offsets <- Zero
    Maxima <- Few
    Others <- Requests
    MaxChanges = 2
    Faults = TRUE
    Users = {"cli", "grpc", "http"}
    Registries <- Found
SPECIFICATION Spec
INVARIANTS
    TypeOK
    UndisturbedListingIsExact
    TwiceOnlyBehindAnAddition
    MissedOnlyBehindAChange
    SuccessTookEffect
    SuitesPass
PROPERTIES
    EveryUserIsDone
