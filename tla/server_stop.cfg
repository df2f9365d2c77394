SPECIFICATION FairSpec
CONSTANTS
    Stream = {s1, s2}
    Registry = {"refuses", "accepts"}
CHECK_DEADLOCK FALSE
INVARIANTS
    LifecycleTypeOK
    StoreOutlivesStreams
PROPERTIES
    NoStreamDroppedEarly
    SignalEndsProcess
