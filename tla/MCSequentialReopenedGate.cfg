\* A lease activated after close_gate returned.
SPECIFICATION Spec
CONSTANTS
  Arms = {left, right}
  left = left
  right = right
  MaxEpisodes = 1
  MaxTakeovers = 2
  MaxFailures = 0
  Signals = 0
  LateEnable = FALSE
  ExecutionSteps = 1
  MaxIssued = 2
SYMMETRY Symmetry
PROPERTIES
  ClosedMeansClosed
