SPECIFICATION Spec
CONSTANTS
    A = A
    B = B
    Documents <- SmallDocuments
    Titles = {A, B}
    MaxEntries = 2
    CheckPages = 15
    AnchorCount = 1
    AnchorRange = 1
    GroupTokens = 3
    Overlap = 1
    MaxSpan = 0
    MaxEntryTokens = 3
    MaxRetries = 1
    MaxRepairs = 3
    SampleSize = 2
    SearchRange = 1
    Threshold = 60
INVARIANT AcceptedAreRight
PROPERTIES
    RepairSparesCorrect
    ProcessEnds
CHECK_DEADLOCK FALSE
