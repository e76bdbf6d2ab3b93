SPECIFICATION Spec
CONSTANTS
    Segs = {"e1", "e2", "e3"}
    Drops = 2
    Texts <- MCTexts
    Starts <- MCStarts
    SegMax = 2
    FileMax = 3
    MaxEdits = 2
PROPERTIES ConfCatchesUp ReloadsEnd
CHECK_DEADLOCK FALSE
