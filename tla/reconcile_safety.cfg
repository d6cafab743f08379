SPECIFICATION Spec
CONSTANTS
    p1 = p1
    p2 = p2
    NsName <- ThreeVersions
    Paths <- TwoPaths
    NoName = NoName
    NoPath = NoPath
    Absent = Absent
    Unnamed = Unnamed
    Separator = "-"
    GrepHits <- OwnHits
    NumTries = 2
    MaxFaults = 1
    MaxEdits = 0
SYMMETRY EitherPath
INVARIANTS
    TypeOK
    OldGoneFirst
    KeepsCurrent
    CycleSettles
PROPERTIES
    SyncSpec
