SPECIFICATION Spec
CONSTANTS
    r = r
    a = a
    b = b
    top = top
    t = t
    u = u
    m1 = m1
    m2 = m2
    Caller = {r, a, b}
    Root = r
    Tree <- TwoVersions
    NoContent = top
    Short = {u}
    BranchOnly = FALSE
    KeepMemo = TRUE
    Concurrency = 2
    FirstModel <- AllFirst
    Chains <- TwoChains
    OnRateLimit = "retry_then_fallback"
    OnTimeout = "retry"
    FallbackOn = TRUE
    Permits = 1
    SemaphoreOn = TRUE
    Burst = 1
    MaxAttempts = 2
    RetryOnRateLimit = TRUE
    MaxTotal = 4
    StoreModel = "m"
    Capacity = 1
INVARIANTS
    CallsFollowPolicy
    SummaryOfOwnContent
    EnhanceCovers
PROPERTIES
    PassEnds
CHECK_DEADLOCK FALSE
