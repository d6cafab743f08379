SPECIFICATION Spec
CONSTANTS
    b1 = b1
    b2 = b2
    m1 = m1
    m2 = m2
    m3 = m3
    home = home
    abroad = abroad
    Cloud = "aws"
    Builders <- TwoBuilders
    Machines <- TwoMachines
    NoMachine = NoMachine
    Regions <- TwoRegions
    Home = home
    MaxDay = 1
    Invocations <- Mixture
    Built = FALSE
    ImagesFail = TRUE
    MaxFaults = 1
    MaxKills = 1
SYMMETRY SameNames
INVARIANTS
    TypeOK
    SuccessMeansDelivered
    NoLeak
PROPERTIES
    ReleaseSpec
    ReleaseFailsOnFaults
