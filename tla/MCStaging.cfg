SPECIFICATION StagingSpec
CONSTANTS
    Caller = {t1, t2}
    None = None
    Size = 2
    Options <- Several
    Sent <- Arriving
    Breaks = TRUE
    ReapsEarly = FALSE
    Calls = {"write", "complete", "abort", "reap"}
    MaxRestarts = 1
    MaxLoads = 1
INVARIANTS StagingTypeOK DeliveredIntact AcknowledgedStaysReceived DataIsReapable
PROPERTIES RemovedStaysRemoved CommitReadsStable CallsReturn
CHECK_DEADLOCK FALSE
