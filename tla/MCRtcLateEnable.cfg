\* An enable request handled after its timeout.
SPECIFICATION Spec
CONSTANTS
  Arms = {left, right}
  left = left
  right = right
  MaxEpisodes = 1
  MaxTakeovers = 0
  MaxFailures = 1
  Signals = 0
  LateEnable = TRUE
  PrefetchAfter = 1
  MaxDelay = 1
  InitialDelay = 0
  HistorySize = 1
  Horizon = 2
  MaxIssued = 2
SYMMETRY Symmetry
INVARIANTS
  FaultLocksArms
