SPECIFICATION IndexerSpec
CONSTANTS
    Blocks = {b1, b2, b3}
    Txs = {t1, t2, t3}
    Content <- RivalContent
    LogsOf <- KnownLogs
    Syncers = {y1, y2}
    BatchMax = 2
    None = None
    DefaultLimit = 2
    MaxLimit = 3
    FirstHead = 1
    MaxHead = 2
    MaxFaults = 1
    MaxAsks = 1
    b1 = b1
    b2 = b2
    b3 = b3
    t1 = t1
    t2 = t2
    t3 = t3
INVARIANTS
    IndexerInv
    NoLagIsCaughtUp
    
PROPERTIES
    CatchesUp
