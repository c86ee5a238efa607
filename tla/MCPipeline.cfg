SPECIFICATION Spec
CONSTANTS
    None = None
    Pass <- CorePasses
    Prio <- PassPrio
    Deps <- PassDeps
    Optional <- PassOptional
    Attempts <- PassAttempts
    TreePass <- PassTree
    Field <- Fields
    Declares <- PassDeclares
    Writes <- PassWrites
    Merged <- MergedFields
    Persisted <- CheckpointFields
    Input = {i1, i2}
    MaxRuns = 2
    DocId <- SameId
INVARIANTS
    TypeOK
    DependenciesSettled
    ExecutedOnce
    MainTreeEditsKept
    DeclaredOutputsMerged
    CheckpointIsConsistent
    OkMeansAllRan
PROPERTY CompileEnds
CHECK_DEADLOCK FALSE
