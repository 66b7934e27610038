SPECIFICATION Spec
CONSTANTS
    Workers = {w1, w2}
    Count = 2
    Multi = TRUE
    Requests <- MultiRequests
    MaxOutages = 1
    MayRunOut = TRUE
    NoServer = NoServer
    NoWorker = NoWorker
INVARIANTS SessionAt ResultsMatch 
SYMMETRY Symmetry
