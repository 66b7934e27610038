SPECIFICATION Spec
CONSTANTS
    Workers = {w1}
    Count = 1
    Multi = FALSE
    Requests <- OneWrite
    MaxOutages = 1
    MayRunOut = FALSE
    NoServer = NoServer
    NoWorker = NoWorker
INVARIANTS AtMostOnce
