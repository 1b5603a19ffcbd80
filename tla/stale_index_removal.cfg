CONSTANTS
    Dispatchers = {d1}
    Streams = {s1, s2, s3}
    Closing = {s1, s2}
    Capacity = 1
    MaxEvents = 0
    None = None
SPECIFICATION Spec
CHECK_DEADLOCK FALSE
INVARIANTS
    OpenStreamsAreRegistered
