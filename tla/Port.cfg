SPECIFICATION Spec
CONSTANTS
    Segs = {p, q}
    Pinned = {}
    BoxPinned = {q}
    Rates = {48000, 96000}
    Default = 96000
    Mbit = 100
    Troubles = 2
CHECK_DEADLOCK FALSE
INVARIANT NothingLeaks
PROPERTIES KeepsAccount BoxGetsPort EvictedRests
