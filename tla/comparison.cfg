SPECIFICATION Spec
CONSTANTS
    DblMax = 99
    NStates = 2
    Words <- SmallWords
    MaxWords = 5
    Traces <- SmallTraces
INVARIANTS
    OptionsAsGiven
    MergedRowsAgree
    MergeKeepsMeasurements
    ReportComplete
    ComparedWithItself
    NothingWildRead
CHECK_DEADLOCK FALSE
