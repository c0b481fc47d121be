SPECIFICATION Spec
CONSTANTS
    IMG = 1
    Keys = {1, 2}
    Builds <- MCBuilds
    HostFiles <- MCHostFiles
    Sectors <- MCSectors
    RecSize = 2
    RecPerExt = 2
    Limit = 2
    MaxRec = 2
    Requests <- MCRequests
    SID = 15
    Turns = {TRUE, FALSE}
    Strays = {13}
    BadBytes = {15, 240}
    MaxReq = 3
    MaxSpoil = 2
INVARIANTS WholeImage ExchangeRight
PROPERTIES FilesKept ExchangesEnd
\* A session ends.
CHECK_DEADLOCK FALSE
