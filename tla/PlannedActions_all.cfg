SPECIFICATION Spec
CONSTANTS
    Names <- MCNames
    Path <- MCPath
    Tree <- MCTree
    Intents <- MCIntents
    Platforms = {"Windows", "Unix"}
    MaxSources = 2
    Touched <- MCTouched
    Edits = 2
    Mishaps = 1
INVARIANTS
    JobInvariant
    UndisturbedJobsComplete
PROPERTIES
    RemovesOnlyTheReviewed
    NothingIsLost
    NothingIsReplaced
CHECK_DEADLOCK FALSE
