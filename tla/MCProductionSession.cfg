SPECIFICATION FairSpec
CONSTANTS
    Arms <- MCTwoArms
    Procs <- MCTwoProcs
    Launchers <- MCLaunchers
    Programs = 2
    Episodes = 2
    MaxSignals = 2
    MaxFaults = 2
INVARIANTS
    HardwareUnderLease
    RecordsInGravity
PROPERTIES
    NoneGoesAstray
    StopEnds
CHECK_DEADLOCK FALSE
