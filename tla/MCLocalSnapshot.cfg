SPECIFICATION Spec
CONSTANTS
    Sides = {"left"}
    Arms = {"arm"}
    History = 2
    ArmHistory = 1
    MaxSpan = 1
    MaxArmAge = 1
    MaxAge = 1
    Timeout = 1
    MaxDelay = 1
    MaxTime = 2
    MaxConnections = 2
    MaxCommits = 2
INVARIANTS
    ObservationIsFresh
    StopIsNotStuck
CHECK_DEADLOCK FALSE
