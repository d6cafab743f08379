SPECIFICATION Spec
CONSTANTS
    Executors <- Either
    SetupCommands = 2
    MaxFaults = 1
CHECK_DEADLOCK FALSE
INVARIANTS
    TypeOK
    OvertakenOnly
    SuccessMeansBuilt
    CleansUp
PROPERTIES
    LeftInPeace
    BuildEnds
    SessionSpec
