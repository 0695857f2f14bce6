SPECIFICATION ArenaSpec
CONSTANTS
    Slots = 2
    Parts = 4
    MaxSequence = 6
INVARIANTS
    ReadsWhole
CHECK_DEADLOCK FALSE
