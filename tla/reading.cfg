SPECIFICATION FairSpec
CONSTANTS
    UriSize = 4
    MaxHeaderBytes = 14
    Requests <- Small
    Pieces = {1, 3, 7}
    Tls = FALSE
INVARIANTS TypeOK Understood StopsAtBody
PROPERTIES ReadToTheEnd
