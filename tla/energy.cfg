SPECIFICATION TemplateSpec
CONSTANTS
    C1 = C1
    C6 = C6
    Lines <- SmallLines
    MaxLines = 7
    Leftover = {0, 1}
    Usage <- OneCluster
    Names = {C1, C6}
    Machines <- SmallMachines
INVARIANTS
    RowsWithinAllocation
    RefusedIffLineMisfits
    StoredAsWritten
    EnergyByRows
    TemplateFits
CHECK_DEADLOCK FALSE
