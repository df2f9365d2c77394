SPECIFICATION ServiceSpec
CONSTANTS
    Call = {c1, c2}
    NoCall = NoCall
    NoLobby = NoLobby
    Borders <- MCPairBorders
    TopLobbiesLimit = 2
    MaxLobbyAttempts = 2
    LossyBus = FALSE
    Faults = {}
SYMMETRY Symmetry
CONSTRAINTS
    NoCancels
CHECK_DEADLOCK FALSE
INVARIANT
    StartReachesRoster
