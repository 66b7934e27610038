SPECIFICATION Spec
CONSTANTS
    Workers = {w1}
    Count = 2
    Multi = FALSE
    Requests <- NamedRead
    MaxOutages = 2
    MayRunOut = FALSE
    NoServer = NoServer
    NoWorker = NoWorker
INVARIANTS ServerNamed
