SPECIFICATION IndexSpec
CONSTANTS
    n1 = n1
    n2 = n2
    a = a
    aba = aba
    d = d
    ca = ca
    cb = cb
    cd = cd
    Key = {k1, k2}
    Size <- MCSize
    Meta = {m1}
    None = None
    Namespace = {n1, n2}
    Blob = {a, aba, d}
    ChunkId = {ca, cb, cd}
    Content <- SeparateContent
    Manifests <- OneCut
    Loc = {l1, l2, l3, l4, l5}
    MaxRefCount = 2
    MaxDead = 1
SYMMETRY Symmetry
INVARIANTS
    IndexTypeOK
    BlobRefCountCoversRefs
    ChunkRefCountCoversUses
    StatsCountRefs
PROPERTIES
    ReferencedChunkStays
