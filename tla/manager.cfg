SPECIFICATION Spec
CONSTANTS
    i1 = i1
    i2 = i2
    l1 = l1
    rc = rc
    svc = svc
    Users <- ThreeUsers
    Limits <- OneLimit
    Images <- TwoImages
    Pattern = Pattern
    Kinds <- TwoKinds
    Trusty = FALSE
    NumTries = 2
    NoJob = NoJob
    MaxFaults = 2
    MaxCrashes = 1
INVARIANTS
    TypeOK
    ReadyBeforeUpdates
    OneCycle
    OnlySharedUnserved
    OnlyLateMissing
PROPERTIES
    KeepsUpdating
    EventuallyComplete
