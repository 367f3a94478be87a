SPECIFICATION StoreSpec
CONSTANTS
    ns = ns
    a = a
    ab = ab
    d = d
    ca = ca
    cb = cb
    cd = cd
    None = None
    Namespace = {ns}
    NS = ns
    Key = {k1, k2}
    Blob = {a, ab, d}
    ChunkId = {ca, cb, cd}
    Content <- Sharing
    Manifests <- Cuts
    Size <- Sizes
    Loc <- Locations
    Meta = {m}
    MaxRefCount = 0
    MaxDead = 0
    Writer = {w1}
    Reader = {r1}
    Pages <- TwoPages
    SegmentPages = 3
    RewritePercent = 30
    Quota <- NoQuota
    Encrypted = FALSE
    Cancels = {}
    Calls = {"put", "get", "delete", "rename"}
    Alongside = {}
    MaxSegment = 3
    MaxCompacts = 1
    MaxCrashes = 0
    MaxCloses = 0
    MaxDrops = 0
    MaxRebuilds = 0
SYMMETRY Symmetry
INVARIANTS
    LiveKeysReadable
CHECK_DEADLOCK FALSE
