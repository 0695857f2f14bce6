CONSTANTS
    MaxEpisodes = 2
    Compress = TRUE
    MaxSessions = 2
    MaxFailures = 2
    MaxSignals = 2
    MaxCrashes = 1

SPECIFICATION FairSpec

INVARIANTS
    IInv
    ReadyIsClean
    CommittedIsComplete

PROPERTIES
    FailedStopIsNotCommitted
    ImplementsArchive
    FinalizationEnds
