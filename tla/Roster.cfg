SPECIFICATION Spec
CONSTANTS
    N = 3
    RosterMax = 2
    RetryTicks = 2
    Deaths = 1
    Moves = 2
INVARIANTS ShownIsPublished
PROPERTY RosterCatchesUp
