SPECIFICATION FairSpec
CONSTANTS
    l = l
    r = r
    x = x
    y = y
    Pane = {l, r}
    Path = {x, y}
    NoPath = NoPath
    Start = l
    Keys = 3
    Capacity = 1
    CacheSize = 1
    Nothing = Nothing
INVARIANTS
    SizeInvariant
PROPERTIES
    ImplementsLatestWins
    SizingEnds
