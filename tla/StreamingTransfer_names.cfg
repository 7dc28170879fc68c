SPECIFICATION Spec
CONSTANTS
    a = a
    b = b
    c = c
    d = d
    top = top
    na = na
    na2 = na2
    nb = nb
    nc = nc
    nd = nd
    nd2 = nd2
    File = {a, b}
    Directory = {}
    Top = top
    Children <- TwoFiles
    NameOf <- MCClashingNames
    Copies <- MCCopies
    StartTime <- MCTimes
    Destinations <- OldFile
    Worker = {1}
    Capacity = 1
    Operations = {"Move"}
    OutsideCreates = {}
    Edits = 0
    Faults = 0
INVARIANT
    NoSourceLost
