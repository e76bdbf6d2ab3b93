SPECIFICATION Spec
CONSTANTS
    Rates = {48, 96}
    RateWrites = {0, 48, 96}
    Drivable = {48, 96}
    Cells = {"ph"}
    RingCap = 1
    Overlong = {1}
    Unsaid = Unsaid
    MaxWrites = 2
    MaxMoves = 2
    MaxFaults = 2
INVARIANTS ShadowIsShown ReadbackIsSentUndropped
PROPERTIES DoorCatchesUp RoleSettlesUncrossed
CHECK_DEADLOCK FALSE
