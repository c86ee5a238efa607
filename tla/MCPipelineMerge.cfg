SPECIFICATION Spec
CONSTANTS
    None = None
    Pass <- CorePasses
    Prio <- PassPrio
    Deps <- PassDeps
    Optional <- PassOptional
    Attempts <- PassAttempts
    TreePass <- PassTree
    Field <- Fields
    Declares <- PassDeclares
    Writes <- PassWrites
    Merged <- MergedFields
    Persisted <- CheckpointFields
    Input = {i1}
    MaxRuns = 1
    DocId <- FreshId
INVARIANT OutputsMergedBack
CHECK_DEADLOCK FALSE
