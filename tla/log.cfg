\* The access log: a file and a ring.
SPECIFICATION Spec
CONSTANTS
    Threads = {t1, t2, t3}
    Entries = {e1, e2, e3}
    N = 3
    HasFile = TRUE
    Limit = 5
    NoThread = NoThread
    Null = Null
    Freed = Freed
SYMMETRY Symmetry
INVARIANTS TypeOK LastEntries 
