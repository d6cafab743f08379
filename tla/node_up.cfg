SPECIFICATION Spec
CONSTANTS
    Nodes <- Manifold
    Subnets <- TwoSubnets
    MaxFaults = 1
    MaxReboots = 1
INVARIANTS
    TypeOK
    Networked
    OneOfEach
    DownIsDown
    OthersStay
PROPERTIES
    CniClears
    ScriptEnds
    ComesUpAgain
