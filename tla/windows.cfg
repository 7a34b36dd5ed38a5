SPECIFICATION Spec
CONSTANTS
    DayLength = 6
    Lists <- MCLists
    UnknownZone = UnknownZone
    windowCheckInterval = 3
    MaxWork = 1
    MaxBackoff = 1
    MaxTime = 45
    MCShifts = {20}
INVARIANTS BoundaryMet ReadsTheWallClock AdmittedWindowsOpen
