SPECIFICATION Spec
CONSTANTS
    DblMax = 99
    NStates = 2
    Words <- SmallWords
    MaxWords = 5
    Traces <- SmallTraces
INVARIANTS
    FrequenciesPaired
CHECK_DEADLOCK FALSE
