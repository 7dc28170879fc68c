SPECIFICATION Spec
CONSTANTS
    Kinds = {"Move", "Recycle", "Rename"}
    ConflictKinds = {"file", "type"}
    Choices = {"KeepNewer", "Skip"}
    CommandCapacity = 2
    EventCapacity = 2
    QueueCapacity = 1
    MaxJobs = 2
    MaxEntries = 1
INVARIANTS
    OutcomeInvariant
    ScreenAgreesAtRest
    NoAnswerCrossesJobs
PROPERTIES
    CancelIsRemembered
    ImplementsReviewedJobs
