SPECIFICATION Spec
CONSTANTS
    OtherEvents = {"sched_switch"}
    MaxFaults = 2
    EnabledAtStart = {{}, {"cpu_idle", "sched_switch"}}
INVARIANTS
    TypeOK
    OptionsRestored
    StoredThisRunOnly
    SuccessMeansDone
    ImportOnlyReads
    NoOrphan
    AlarmIsHandled
PROPERTIES
    ReadWhileStopped
    SignalsOwnChild
    TermWhileWaiting
    SessionEnds
CHECK_DEADLOCK FALSE
