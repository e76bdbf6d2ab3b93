SPECIFICATION Spec
CONSTANTS
    MinPushes = 2
    Grace = 3
    Settle = 3
    MaxBounces = 2
    Listen = 2
    Cycle = 1
    PeriodMax = 3
    Down = 2
    Chunks = 1
    Doublings = 2
    PushCap = 4
    Frames = 2
    Disturbs = 2
CHECK_DEADLOCK FALSE
INVARIANTS AnswerIsCredited LinkIsOwed
PROPERTIES EdgeIsProven SilenceIsKnocked DroppedBoxWakes
