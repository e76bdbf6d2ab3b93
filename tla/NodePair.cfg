SPECIFICATION Spec
CONSTANTS
    a = a
    Boxes = {a, m}
    Mute = {m}
    NoBox = none
    Blank = blank
    Grace = 2
    MaxAttempts = 3
    MaxShift = 1
    Settings <- MCSettings
INVARIANT OneDoor
PROPERTIES BoxIsPublished BadgeIsTheBoxs HealthyIsSpared
