SPECIFICATION FairSpec
CONSTANTS
    x = x
    y = y
    Path = {x, y}
    Windows = 2
    Keys = 4
    Writes = 2
    Capacity = 1
    Nothing = Nothing
INVARIANTS
    PreviewInvariant
PROPERTIES
    ShowsWhatWasAskedLast
    WindowsAreOfOneVersion
    PreviewSettles
