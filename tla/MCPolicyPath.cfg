SPECIFICATION FairSpec
CONSTANTS
    Delay = 1
    Steps = 3
    MaxInferences = 5
    MaxFailures = 2
    MaxEpoch = 2
    MaxEpisodes = 2
INVARIANTS
    AnswersItsOwnRequest
    SummaryIsComplete
PROPERTIES
    FixedWindows
    StopIsObeyed
CHECK_DEADLOCK FALSE
