SPECIFICATION Spec
CONSTANTS
    b1 = b1
    b2 = b2
    m1 = m1
    m2 = m2
    m3 = m3
    home = home
    abroad = abroad
    Cloud = "gce"
    Builders <- TwoBuilders
    Machines <- TwoMachines
    NoMachine = NoMachine
    Regions <- HomeOnly
    Home = home
    MaxDay = 0
    Invocations <- OnGce
    Built = FALSE
    ImagesFail = TRUE
    MaxFaults = 1
    MaxKills = 1
INVARIANTS
    SuccessMeansDelivered
PROPERTIES
    RunEnds
