SPECIFICATION RebuildSpec
CONSTANTS
    MinLevel = 1
    MaxLevel = 4
    CodeBlocks = TRUE
    PreambleNode = TRUE
    Thin = 4
    MaxTokens = 5
    Small = 3
    MaxTopics = 2
    Unit = 24
    MaxDepth = 2
    MinSum = 2
    MinContent = 2
    SearchDepth = 4
    MaxMatches = 2
    SearchLimit = 3
    MaxMoves = 4
    Sources <- SmallSources
    Edits <- SmallEdits
    Options <- AllOptions
    Navigated <- NavigatedSources
    Doc = {1, 2, 3}
    Topics <- SmallTopics
    MaxKeywords = 3
    MinShared = 2
    MinJaccard = 6
    MaxEdges = 1
    Scale = 60
    Compiled = 2
    Rebuilt <- RebuiltSources
CHECK_DEADLOCK FALSE
INVARIANTS
    IndicesMatch
    TextReachable
    ReuseIsSound
    EvidenceIsCollected
    GraphSaysWhatIsShared
