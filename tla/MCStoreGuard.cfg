SPECIFICATION GuardSpec
CONSTANTS
    Thread = {t1, t2, t3}
    Namespace = {n1}
    Ops = {"index", "engine", "get", "compact", "close", "create", "delete"}
    Nested = {}
    None = None
    t1 = t1
    t2 = t2
    t3 = t3
    n1 = n1
    n2 = n2
INVARIANTS
    GuardTypeOK
    EnginesStayOpen
    RewriteExclusive
PROPERTIES
    EveryCallReturns
