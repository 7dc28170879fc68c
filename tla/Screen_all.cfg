SPECIFICATION Spec
CONSTANTS
    l = l
    r = r
    c = c
    d = d
    e = e
    h = h
    m = m
    u = u
    word = word
    bad = bad
    byName = byName
    Pane = {l, r}
    Path = {c, d, e, h, m, u}
    Directory = {c, d, e}
    Drives = Drives
    Dotted = {h}
    NoFilter = NoFilter
    Filter = {NoFilter, byName}
    Hit <- MCHit
    SortFields <- MCSortFields
    Key <- MCKey
    Rank <- MCRank
    Nothing = Nothing
    NoQuery = NoQuery
    Query = {NoQuery, word, bad}
    Options = {"Regex"}
    Found <- MCFound
    Invalid = Invalid
    PageRows = 2
    Margin = 1
    Parent <- MCParent
    Listings <- MCListings
    Home = d
    File <- MCFile
    Lines <- MCLines
    RichLimit = 3
    WindowBytes = 4
    MaxLines = 3
    Files <- MCFiles
    MaxFavorites = 1
    StartAt <- MCStart
    Keys = 7
INVARIANTS
    ScreenInvariant
    SearchIsSound
PROPERTIES
    FavoritesAgree
    FocusIsKept
    IntentIsOnScreen
    WindowsMeet
