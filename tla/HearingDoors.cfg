SPECIFICATION Spec
CONSTANTS
    Ifaces = {e1}
    Settings <- MCUnpinnedBounce
    Wires <- MCDoorWires
    NSlots = 1
    Window = 1
    Stale = 2
    Listen = 1
    Retry = 1
    DownHold = 2
    EmptyQuiet = 1
    Follow = 2
    Reclass = 1
    QMax = 2
    OpenMayFail = TRUE
    Requests = TRUE
    Tagged = TRUE
INVARIANT ServedIsTracked
