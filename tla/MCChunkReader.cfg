SPECIFICATION ReaderSpec
CONSTANTS
    N = 3
    Bound <- Bounds
    ReadSizes = {0, 1, 2, 4}
    Offsets <- Around
    Farthest = 8
    None = None
INVARIANTS
    ReaderTypeOK
    PositionsAgree
PROPERTIES
    LoadsUnderGuard
    ImplementsStream
