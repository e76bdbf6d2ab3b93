SPECIFICATION Spec
CONSTANTS
    Ifaces = {e1, e2}
    Settings <- MCUnpinned
    Wires <- MCBoxWires
    NSlots = 1
    Window = 1
    Stale = 2
    Listen = 1
    Retry = 1
    DownHold = 2
    EmptyQuiet = 1
    Follow = 2
    Reclass = 1
    QMax = 2
    OpenMayFail = TRUE
    Requests = FALSE
    Tagged = FALSE
PROPERTIES SlotIsPassedOn SegmentIsServed
