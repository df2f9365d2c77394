SPECIFICATION Spec
CONSTANTS
    Call = {c1, c2, c3}
    NoCall = NoCall
    NoLobby = NoLobby
    Borders <- MCWideBorders
    TopLobbiesLimit = 2
    Faults = {}
SYMMETRY Symmetry
CONSTRAINTS
    OneLobby
    FewCancels
CHECK_DEADLOCK FALSE
PROPERTY
    CleanUpCleans
