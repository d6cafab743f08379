SPECIFICATION Spec
CONSTANTS
    Nodes <- Yum
    Subnets <- TwoSubnets
    MaxFaults = 0
    MaxReboots = 0
INVARIANTS
    NewSettings
