SPECIFICATION Spec
CONSTANTS
    Ifaces = {e1}
    Settings <- MCSettings
    Wires <- MCPlainWires
    NSlots = 1
    Window = 2
    Stale = 3
    Listen = 1
    Retry = 2
    DownHold = 2
    EmptyQuiet = 2
    Follow = 3
    Reclass = 1
    QMax = 2
    OpenMayFail = FALSE
    Requests = FALSE
    Tagged = FALSE
INVARIANT FollowerIsQuiet
PROPERTIES DeskIsTapped BoxIsMastered PinIsHonoured StreamNeedsBox
