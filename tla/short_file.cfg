SPECIFICATION TemplateSpec
CONSTANTS
    C1 = C1
    C6 = C6
    Lines <- SmallLines
    MaxLines = 4
    Leftover = {0}
    Usage <- OneCluster
    Names = {C1, C6}
    Machines <- SmallMachines
INVARIANTS
    CountsChecked
CHECK_DEADLOCK FALSE
