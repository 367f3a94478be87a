SPECIFICATION StoreSpec
CONSTANTS
    ns = ns
    a = a
    ab = ab
    d = d
    ca = ca
    cb = cb
    cd = cd
    None = None
    Namespace = {ns}
    NS = ns
    Key = {k1, k2}
    Blob = {a, ab, d}
    ChunkId = {ca, cb, cd}
    Content <- Sharing
    Manifests <- Cuts
    Size <- Sizes
    Loc <- Locations
    Meta = {m}
    MaxRefCount = 0
    MaxDead = 0
    Writer = {w1}
    Reader = {r1}
    Pages <- SinglePage
    SegmentPages = 2
    RewritePercent = 30
    Quota <- NoQuota
    Encrypted = TRUE
    Cancels = {"compact"}
    Calls = {"put", "get", "delete"}
    Alongside = {"get", "delete"}
    MaxSegment = 3
    MaxCompacts = 1
    MaxCrashes = 0
    MaxCloses = 0
    MaxDrops = 0
    MaxRebuilds = 0
SYMMETRY Symmetry
INVARIANTS
    ChunkRefCountCoversUses
PROPERTIES
    ImplementsMap
    ReaderKeepsPages
CHECK_DEADLOCK FALSE
