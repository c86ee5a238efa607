SPECIFICATION Spec
CONSTANTS
    None = None
    DocA = {d1}
    DocB = {d2}
    Version = {v1}
    Carded = {}
    Graph = {}
    Task = {t1}
    CacheCap = 1
INVARIANT MultiProcessSafety
