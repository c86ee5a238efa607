SPECIFICATION Spec
CONSTANTS
    None = None
    Doc = {d1, d2}
    Version = {v1, v2}
    Carded = {v1}
    Graph = {g1}
    Task = {t1}
    CacheCap = 1
INVARIANTS
    ServedIsCommitted
    RestartKeepsCommitted
    IndexMatchesCommitted
    CachedIsIndexed
    CacheBounded
    GraphMirrorsFile
PROPERTY IsDocStore
