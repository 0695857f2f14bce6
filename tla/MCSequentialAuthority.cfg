\* Two Episodes, two presses of the ownership pedal, one failure and one
\* signal.
SPECIFICATION Spec
CONSTANTS
  Arms = {left, right}
  left = left
  right = right
  MaxEpisodes = 2
  MaxTakeovers = 2
  MaxFailures = 1
  Signals = 1
  LateEnable = FALSE
  ExecutionSteps = 1
  MaxIssued = 2
SYMMETRY Symmetry
INVARIANTS
  NoLeaseWithoutPolicy
  LeaseCoversBothArms
  CommitIsCompensated
PROPERTIES
  SendsItsOwnEpoch
