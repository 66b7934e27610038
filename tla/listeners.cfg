SPECIFICATION Spec
CONSTANTS
    c1 = c1
    c2 = c2
    c3 = c3
    ip1 = ip1
    ip2 = ip2
    l1 = l1
    l2 = l2
    w1 = w1
    w2 = w2
    Conns = {c1, c2}
    IPs = {ip1, ip2}
    Listeners = {l1, l2}
    TlsListeners = {l2}
    Workers = {w1, w2}
    ListenerSlots = 4
    OutputSlots = 1
    InCap = 1
    OutCap = 1
    MaxPerIP = 1
    AuthConfigured = TRUE
    Requests <- MCRequests
    NoConn = NoConn
    NoIP = NoIP
    NoReq = NoReq
    Listen = Listen
SYMMETRY Symmetry
INVARIANTS SingleOwner CountsExact PerIPLimit
