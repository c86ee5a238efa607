SPECIFICATION Spec
CONSTANTS
    Path = {p}
    Spelling = {p, rel}
    Canon <- CanonOne
    Inline = Inline
    Nodes = Nodes
    Text = {t1, t2}
    Id = {stable, first, d1, d2, d3}
    StableId = stable
    Logic = {l1, l2}
    Model = {m1, m2}
    Calls = 2
    Plans <- CheckedPlans
    MaxConcurrent = 2
    MaxAttempts = 2
    MaxEvents = 1
    None = None
INVARIANTS
    IndexedStaysIndexed
    OneDocumentPerPath
    EnrichmentOfOwnKey
    GraphCovers
PROPERTIES
    SkipMeansCurrent
    CompileReturns
CHECK_DEADLOCK FALSE
