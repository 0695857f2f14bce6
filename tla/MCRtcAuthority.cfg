\* Two Episodes, two presses of the ownership pedal, one failure and two
\* signals, the smallest rollout profile.
SPECIFICATION Spec
CONSTANTS
  Arms = {left, right}
  left = left
  right = right
  MaxEpisodes = 2
  MaxTakeovers = 2
  MaxFailures = 1
  Signals = 2
  LateEnable = FALSE
  PrefetchAfter = 1
  MaxDelay = 1
  InitialDelay = 0
  HistorySize = 1
  Horizon = 2
  MaxIssued = 3
SYMMETRY Symmetry
INVARIANTS
  IInv
  NoLeaseWithoutPolicy
  UnlockedOnlyForPolicy
  CommitIsCompensated
PROPERTIES
  EventsFollowProtocol
  SendsThePlan
  ImplementsLease
