SPECIFICATION Spec
CONSTANTS
    Call = {c1, c2, c3}
    NoCall = NoCall
    NoLobby = NoLobby
    Borders <- MCWideBorders
    TopLobbiesLimit = 2
    Faults = {"crash"}
SYMMETRY Symmetry
CONSTRAINTS
    FewLobbies
    FewCancels
CHECK_DEADLOCK FALSE
INVARIANTS
    MutualExclusion
    NoLostJoin
PROPERTIES
    StoreKeepsRosters
