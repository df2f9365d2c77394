SPECIFICATION FairServiceSpec
CONSTANTS
    Call = {c1, c2}
    NoCall = NoCall
    NoLobby = NoLobby
    Borders <- MCPairBorders
    TopLobbiesLimit = 2
    MaxLobbyAttempts = 2
    LossyBus = FALSE
    Faults = {}
CONSTRAINTS
    FewMakers
    OneLeaver
CHECK_DEADLOCK FALSE
PROPERTIES
    CallsComeToRest
    WaitersEnd
    SubscribersHearVerdict
    LocksFreed
