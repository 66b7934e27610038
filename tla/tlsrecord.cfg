SPECIFICATION FairSpec
CONSTANTS
    UriSize = 4
    MaxHeaderBytes = 14
    Requests <- OneRequest
    Pieces = {2, 3}
    Tls = TRUE
CHECK_DEADLOCK FALSE
PROPERTIES RecordFinished
