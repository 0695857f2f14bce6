SPECIFICATION FairSpec
CONSTANTS
  Arms = {left, right}
  left = left
  right = right
  MaxEpisodes = 1
  MaxTakeovers = 2
  MaxFailures = 1
  Signals = 1
  LateEnable = TRUE
  PrefetchAfter = 2
  MaxDelay = 3
  InitialDelay = 1
  HistorySize = 2
  Horizon = 6
  MaxIssued = 6
INVARIANTS
  LeaseCoversBothArms
  QueueIsThePlan
  WindowAccounting
  PrefixIsAvailable
PROPERTIES
  HandoverEnds
  ResumeEnds
  FaultEndsEpisode
