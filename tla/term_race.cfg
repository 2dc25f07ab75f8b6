SPECIFICATION Spec
CONSTANTS
    OtherEvents = {"sched_switch"}
    MaxFaults = 0
    EnabledAtStart = {{}, {"cpu_idle", "sched_switch"}}
PROPERTIES
    TermOnTimeout
CHECK_DEADLOCK FALSE
