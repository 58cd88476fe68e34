SPECIFICATION FairSpec
CONSTANTS
    Playlists <- MCPlaylists
    NComps = 2
    Commands = {"next", "prev", "pause", "stop", "quit", "start"}
    MaxErrors <- MCMaxErrors
    MaxBacklog = 0
INVARIANTS
    NoPlayerAssertFails
    SomebodyAnswers
PROPERTIES
    FreedWhenLoaded
    SkipFindsTheNext
    MovesOn
CHECK_DEADLOCK FALSE
