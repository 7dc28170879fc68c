SPECIFICATION FairSpec
CONSTANTS
    r = r
    x = x
    y = y
    z = z
    f = f
    g = g
    h = h
    o = o
    Dir = {r, x, y, z}
    Root = r
    File = {f, g, h}
    Size <- MCSize
    Odd = {o}
    Contents <- MCContents
    Unreadable <- AnyOne
    Walker = {1, 2}
    Backlog = 1
    Batch = 2
    MaxSize = 2
PROPERTIES
    OverflowIsReported
