SPECIFICATION Spec
CONSTANTS
    Stream = {s1}
    Registry = {"refuses"}
CHECK_DEADLOCK FALSE
INVARIANT
    NeverPanics
