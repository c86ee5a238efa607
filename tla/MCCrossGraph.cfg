SPECIFICATION Spec
CONSTANTS
    Doc = {1, 2, 3}
    Topics <- SmallTopics
    MaxKeywords = 3
    MinShared = 2
    MinJaccard = 6
    MaxEdges = 1
    Scale = 60
INVARIANT WeightsAreOfTheirDocuments
