SPECIFICATION Spec
CONSTANTS
    NrCpus = 3
    Machines <- AllMachines
    FtraceHeaders <- ShortHeaders
    Formats = {"idlestat", "ftrace", "trace-cmd"}
INVARIANTS
    TreeIsMachine
    LookupsAgree
    HeaderReadBack
    FirstRecordNext
    NativeFileLoads
CHECK_DEADLOCK FALSE
