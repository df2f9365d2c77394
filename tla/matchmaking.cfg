SPECIFICATION Spec
CONSTANTS
    Call = {c1, c2}
    Mode = {"duel", "team", "mega", "blitz"}
    Offer <- MCOffer
    Config <- MCConfig
    Limit = {1, 3}
    MaxReloads = 1
    None = None
    FallbackScoring <- MCFallback
SYMMETRY Symmetry
CHECK_DEADLOCK FALSE
INVARIANTS
    MatchTypeOK
    ReloadSticks
    NoLobbyAskedTwice
    TriesTwiceAtLeast
PROPERTIES
    OneScorerPerAttempt
    PicksFirstBest
