SPECIFICATION LiveSpec
CONSTANTS
    Workers = {w1}
    Count = 3
    Multi = FALSE
    Requests <- SingleRequests
    MaxOutages = 3
    MayRunOut = TRUE
    NoServer = NoServer
    NoWorker = NoWorker
INVARIANTS TypeOK FailoverRing SessionAt ResultsMatch NoDuplicateKeys RollbackHonoured
PROPERTIES RequestsReturn Recovery
