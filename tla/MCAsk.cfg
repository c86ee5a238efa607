SPECIFICATION Spec
CONSTANTS
    a1 = a1
    a2 = a2
    d1 = d1
    d2 = d2
    Asks = {a1, a2}
    QueryOf <- McQueryOf
    Specified = {a2}
    Keywords <- McKeywords
    Intents = {"factual", "navigational"}
    Cards <- McCards
    NameOf <- McNameOf
    Node <- McNode
    Proposals <- McProposals
    Toc <- McToc
    Kids <- McKids
    Words <- McWords
    PathOf <- McPathOf
    MinWords = 2
    MaxLlmCalls = 0
    Workers = 1
    MaxEntries = 1
    PlanAnswers <- McPlanAnswers
    PickAnswers <- McPickAnswers
    BeamAnswers <- McBeamAnswers
INVARIANTS
    HitsWereAccepted
    OutputHolds
PROPERTIES
    GapKeepsEvidence
    AskEnds
CHECK_DEADLOCK FALSE
