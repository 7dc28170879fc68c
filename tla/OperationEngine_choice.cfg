SPECIFICATION Spec
CONSTANTS
    Kinds = {"Copy"}
    ConflictKinds = {"file"}
    Choices = {"KeepSource", "Skip"}
    CommandCapacity = 2
    EventCapacity = 3
    QueueCapacity = 1
    MaxJobs = 1
    MaxEntries = 2
INVARIANT
    ChoiceWasMadeForThisConflict
