SPECIFICATION Spec
CONSTANTS
    c1 = c1
    c2 = c2
    c3 = c3
    o1 = o1
    o2 = o2
    k1 = k1
    k2 = k2
    DblMax = 99
    NStates = 1
    Cpus <- Cpus2
    Cores = {o1, o2}
    Clusters = {k1}
    CoreOf <- CoreOf2
    ClusterOf <- ClusterOf2
    LeadCpu <- LeadCpu2
    TargetResidency <- Target2
    Named <- Named2
    FreqRange = {1, 2}
    Irqs = {}
    MaxTime = 2
    MaxRecords = 7
    Backstep = 0
    Native = TRUE
    Lossy = FALSE
INVARIANTS
    ClusterIdleOrBusy
PROPERTIES
    CpuTimeExact
    BusySpec
CHECK_DEADLOCK FALSE
