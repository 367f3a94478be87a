SPECIFICATION BackendSpec
CONSTANTS
    Thread = {t1, t2}
    Key = {1, 2}
    Value = {a, b}
    Prefixes <- Ranges
    None = None
SYMMETRY Symmetry
INVARIANTS
    MemTypeOK
PROPERTIES
    BothImplementKeyValue
