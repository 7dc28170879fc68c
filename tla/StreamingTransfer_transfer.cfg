SPECIFICATION Spec
CONSTANTS
    a = a
    b = b
    c = c
    d = d
    top = top
    na = na
    na2 = na2
    nb = nb
    nc = nc
    nd = nd
    nd2 = nd2
    File = {a, c}
    Directory = {d}
    Top = top
    Children <- Tree
    NameOf <- MCNames
    Copies <- MCCopies
    StartTime <- MCTimes
    Destinations <- Anything
    Worker = {1, 2}
    Capacity = 1
    Operations = {"Copy", "Move"}
    OutsideCreates = {"Copy"}
    Edits = 1
    Faults = 1
INVARIANTS
    TransferInvariant
    NoSourceLost
    CompletedSettlesEverything
    UnchangedMeansUnchanged
PROPERTIES
    ReplacedOnlyAsAgreed
