SPECIFICATION Spec
CONSTANTS
    Call = {c1, c2, c3}
    NoCall = NoCall
    NoLobby = NoLobby
    Borders <- MCBothBorders
    TopLobbiesLimit = 2
    Faults = {"exec", "get", "slow", "crash"}
SYMMETRY Symmetry
CONSTRAINTS
    FewLobbies
    PairOrTrio
    FewDeadlines
    FewCancels
CHECK_DEADLOCK FALSE
INVARIANTS
    TypeOK
    RecordsWellFormed
    NoDoubleSeat
    OneLobbyPerCall
