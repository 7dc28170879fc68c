SPECIFICATION FairSpec
CONSTANTS
    l = l
    r = r
    c = c
    d = d
    file = file
    Pane = {l, r}
    Location = {c, d}
    Drives = Drives
    Parent <- MCParent
    Entries <- MCEntries
    StartAt <- MCStart
    Nothing = Nothing
    FairPane = {r}
    MaxGeneration = 3
    Capacity = 1
INVARIANTS
    PanesInvariant
PROPERTIES
    ImplementsLatestWins
    FocusComesBack
    ScanningEnds
