SPECIFICATION Spec
CONSTANTS
    Delay = 1
    Steps = 3
    MaxInferences = 4
    MaxFailures = 0
    MaxEpoch = 2
    MaxEpisodes = 2
INVARIANT FailureStaysInItsEpisode
CHECK_DEADLOCK FALSE
