CONSTANTS
    NumTopics = 2
    Unsuitable <- Refused
    Answers = {"ok", "fail", "late"}
    Configurations <- Everything
    Payloads <- Received
    MaxCalls = 2
    BatchSize = 1
    Startup = Startup
    Endpoints = {"grpc"}
    Stored <- Left
    Faults = TRUE
SPECIFICATION FairSpec
INVARIANTS
    TypeOK
    StartupMissesNoTopic
    EveryWatcherCanBeStopped
    NoTopicIsWatchedTwice
    StartupSubscriptionsAreWatched
PROPERTIES
    PanicsAreExplained
    ReportsEndTheServer
