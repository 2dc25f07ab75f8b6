SPECIFICATION Spec
CONSTANTS
    c1 = c1
    c2 = c2
    c3 = c3
    o1 = o1
    o2 = o2
    k1 = k1
    k2 = k2
    DblMax = 99
    NStates = 2
    Cpus <- Cpus3
    Cores = {o1, o2}
    Clusters = {k1}
    CoreOf <- CoreOf3
    ClusterOf <- ClusterOf3
    LeadCpu <- LeadCpu3
    TargetResidency <- Target3
    Named <- Named3
    FreqRange = {}
    Irqs = {10}
    MaxTime = 4
    MaxRecords = 5
    Backstep = 0
    Native = FALSE
    Lossy = TRUE
INVARIANTS
    IrqOncePerEntry
    GroupCstateIsLeast
PROPERTIES
    ResidencySpec
CHECK_DEADLOCK FALSE
