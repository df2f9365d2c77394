SPECIFICATION ServiceSpec
CONSTANTS
    Call = {c1, c2, c3}
    NoCall = NoCall
    NoLobby = NoLobby
    Borders <- MCBothBorders
    TopLobbiesLimit = 2
    MaxLobbyAttempts = 2
    LossyBus = TRUE
    Faults = {"exec"}
SYMMETRY Symmetry
CONSTRAINTS
    FewLobbies
    PairOrTrio
    FaultsInWrites
    FewDeadlines
CHECK_DEADLOCK FALSE
INVARIANTS
    ServiceTypeOK
    StartedRostersDisjoint
    StartWithinBorders
    OneVerdict
PROPERTIES
    ServiceKeepsVerdicts
