SPECIFICATION StoreSpec
CONSTANTS
    ns = ns
    a = a
    ab = ab
    d = d
    ca = ca
    cb = cb
    cd = cd
    None = None
    Namespace = {ns}
    NS = ns
    Key = {k1, k2, k3}
    Blob = {a, ab, d}
    ChunkId = {ca, cb, cd}
    Content <- Various
    Manifests <- Cuts
    Size <- Sizes
    Loc <- Locations
    Meta = {m}
    MaxRefCount = 0
    MaxDead = 0
    Writer = {w1, w2}
    Reader = {r1}
    Pages <- TwoPages
    SegmentPages = 4
    RewritePercent = 101
    Quota <- AllLimits
    Encrypted = FALSE
    Cancels = {}
    Calls = {"put", "delete"}
    Alongside = {}
    MaxSegment = 2
    MaxCompacts = 1
    MaxCrashes = 0
    MaxCloses = 0
    MaxDrops = 0
    MaxRebuilds = 0
SYMMETRY Symmetry
INVARIANTS
    QuotaHolds
PROPERTIES
    ImplementsMap
CHECK_DEADLOCK FALSE
