SPECIFICATION Spec
CONSTANTS
    NrCpus = 3
    Machines <- AllMachines
    FtraceHeaders <- StandardHeaders
    Formats = {"ftrace"}
INVARIANTS
    FtraceFileLoads
CHECK_DEADLOCK FALSE
