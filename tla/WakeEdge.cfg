SPECIFICATION Spec
CONSTANTS
    MinPushes = 1
    Grace = 2
    Settle = 3
    MaxBounces = 2
    Down = 1
    DownHold = 4
    NegMax = 1
    Reopens = 1
    UpMayFail = TRUE
INVARIANTS EdgeInFlight EdgesBounded
PROPERTIES LinkComesBack LadderEnds
