SPECIFICATION Spec
CONSTANTS
    Parents = {p}
    Reclass = 1
    SilenceHold = 2
    MaxTaps = 1
    MaxMarks = 1
    MaxRuns = 2
    MaxFails = 1
    MaxHost = 2
INVARIANTS CleanStop ThreadTransmits
PROPERTIES HostIsLeftAlone SilentTrunkEnds TaggedIsServed
CHECK_DEADLOCK FALSE
