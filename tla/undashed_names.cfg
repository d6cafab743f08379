SPECIFICATION Spec
CONSTANTS
    p1 = p1
    p2 = p2
    NsName <- Plain
    Paths <- TwoPaths
    NoName = NoName
    NoPath = NoPath
    Absent = Absent
    Unnamed = Unnamed
    Separator = "-"
    GrepHits <- OwnHits
    NumTries = 1
    MaxFaults = 0
    MaxEdits = 0
INVARIANTS
    NameUnchangedNotStopped
