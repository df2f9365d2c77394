SPECIFICATION Spec
CONSTANTS
    Call = {c1, c2, c3}
    NoCall = NoCall
    NoLobby = NoLobby
    Borders <- MCWideBorders
    TopLobbiesLimit = 2
    Faults = {}
CONSTRAINTS
    FewLobbies
    InOrder
    FewCancels
CHECK_DEADLOCK FALSE
PROPERTY
    ListingOutlivesLobbies
