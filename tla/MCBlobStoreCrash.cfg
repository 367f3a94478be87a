SPECIFICATION StoreSpec
CONSTANTS
    ns = ns
    a = a
    ab = ab
    d = d
    ca = ca
    cb = cb
    cd = cd
    None = None
    Namespace = {ns}
    NS = ns
    Key = {k1, k2}
    Blob = {a, ab, d}
    ChunkId = {ca, cb, cd}
    Content <- Sharing
    Manifests <- Cuts
    Size <- Sizes
    Loc <- Locations
    Meta = {m}
    MaxRefCount = 0
    MaxDead = 0
    Writer = {w1}
    Reader = {r1}
    Pages <- SinglePage
    SegmentPages = 2
    RewritePercent = 30
    Quota <- NoQuota
    Encrypted = FALSE
    Cancels = {"put", "drop"}
    Calls = {"put", "delete", "get", "drop"}
    Alongside = {}
    MaxSegment = 2
    MaxCompacts = 0
    MaxCrashes = 1
    MaxCloses = 1
    MaxDrops = 1
    MaxRebuilds = 1
SYMMETRY Symmetry
PROPERTIES
    ImplementsMap
CHECK_DEADLOCK FALSE
