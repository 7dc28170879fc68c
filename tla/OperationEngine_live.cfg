SPECIFICATION FairSpec
CONSTANTS
    Kinds = {"Move"}
    ConflictKinds = {"file"}
    Choices = {"KeepNewer"}
    CommandCapacity = 1
    EventCapacity = 1
    QueueCapacity = 1
    MaxJobs = 1
    MaxEntries = 2
INVARIANTS
    CompletedMeansEverything
PROPERTIES
    PlanningViewEnds
    CancelledJobEnds
    ReportReachesTheScreen
    ExecutionEndsOrAsks
