SPECIFICATION StationSpec
CONSTANTS
    MaxPresses = 3
    MaxSamples = 1
    MaxEpisodes = 2
    MaxCommands = 1
    MaxFailures = 2
    MaxSignals = 1
    Side = {left, right}
    Route <- ReplayedRoute
    TeachPoses = {1}
    MinCaptures = 1
    MaxPrograms = 1
    MaxFaults = 2
    MaxBreaks = 1
SYMMETRY Symmetry
INVARIANTS
    LabelIsDeliberate
    SuccessIsUndisturbed
    HandsAreSafe
    ObservationShowsItsPose
    DiskIsWhole
CHECK_DEADLOCK FALSE
