SPECIFICATION Spec
CONSTANTS
    b1 = b1
    b2 = b2
    m1 = m1
    m2 = m2
    m3 = m3
    home = home
    abroad = abroad
    Cloud = "aws"
    Builders <- OneBuilder
    Machines <- MoreMachines
    NoMachine = NoMachine
    Regions <- TwoRegions
    Home = home
    MaxDay = 1
    Invocations <- Defaults
    Built = FALSE
    ImagesFail = FALSE
    MaxFaults = 1
    MaxKills = 1
INVARIANTS
    OneMachine
PROPERTIES
    FailsForAReason
    EventuallyReleased
