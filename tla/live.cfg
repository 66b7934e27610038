SPECIFICATION IOSpec
CONSTANTS
    c1 = c1
    c2 = c2
    c3 = c3
    ip1 = ip1
    ip2 = ip2
    l1 = l1
    l2 = l2
    w1 = w1
    w2 = w2
    Conns = {c1, c2}
    IPs = {ip1}
    Listeners = {l1}
    TlsListeners = {}
    Workers = {w1, w2}
    ListenerSlots = 3
    OutputSlots = 1
    InCap = 1
    OutCap = 1
    MaxPerIP = 2
    AuthConfigured = TRUE
    Requests <- MCRequests
    NoConn = NoConn
    NoIP = NoIP
    NoReq = NoReq
    Listen = Listen
PROPERTIES ReadingEnds SendingEnds EveryConnectionEnds ShutdownCompletes
