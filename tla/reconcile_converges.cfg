SPECIFICATION Spec
CONSTANTS
    p1 = p1
    p2 = p2
    NsName <- OneUpgrade
    Paths <- TwoPaths
    NoName = NoName
    NoPath = NoPath
    Absent = Absent
    Unnamed = Unnamed
    Separator = "-"
    GrepHits <- OwnHits
    NumTries = 2
    MaxFaults = 1
    MaxEdits = 1
PROPERTIES
    CycleEnds
    Convergence
