SPECIFICATION Spec
CONSTANTS
    N = 2
    Group = 2
    Quantum = 3
    Bufs = 2
    RingCap = 2
    Unity = 3
    MaxWrites = 2
    MaxMoves = 3
PROPERTIES AudioFlows VolumeIsHeard
CHECK_DEADLOCK FALSE
