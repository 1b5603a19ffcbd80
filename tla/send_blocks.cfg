CONSTANTS
    Dispatchers = {d1, d2}
    Streams = {s1}
    Closing = {s1}
    Capacity = 1
    MaxEvents = 2
    None = None
SPECIFICATION FairSpec
CHECK_DEADLOCK FALSE
PROPERTIES
    DispatchReturns
