SPECIFICATION SegSpec
CONSTANTS
    w1 = w1
    w2 = w2
    None = None
    Torn = Torn
    Garbled = Garbled
    Writer = {w1, w2}
    PagesOf <- Blobs
    SegmentPages = 2
    MaxSegment = 3
    MaxCrashes = 2
    MaxPowerLosses = 1
    MaxErrors = 1
INVARIANTS
    SegmentTypeOK
    ReturnedIsKept
    ReplayFindsPages
    ReturnedIsLogged
    FlaggedStaysFlagged
CHECK_DEADLOCK FALSE
