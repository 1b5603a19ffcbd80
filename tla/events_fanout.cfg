CONSTANTS
    Dispatchers = {d1, d2}
    Streams = {s1, s2, s3}
    Closing = {s1}
    Capacity = 2
    MaxEvents = 2
    None = None
SPECIFICATION Spec
CHECK_DEADLOCK FALSE
SYMMETRY Symmetry
INVARIANTS
    TypeOK
    FanOutListIsStable
    NewestAreKeptInOrder
    OpenStreamsAreRegistered
    ClosedStreamsAreGone
    OnlyOverflowHalts
