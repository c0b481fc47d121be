SPECIFICATION MCSpec
CONSTANTS
    DriveDir <- MCDriveDir
    FcbDrives = {0, 3}
    FcbNames <- MCFcbNames
    Patterns <- MCPatterns
    HostFiles <- MCHostFiles
    Sectors <- MCSectors
    NameLen = 2
    ExtLen = 1
    RecSize = 2
    RecPerExt = 2
    ExtMod = 2
    ByteMax = 3
    MaxRec = 3
    Request = {1, 2, 3}
    NoReply = {3}
    MAXRETRY = 3
    MaxFaults = 4
INVARIANTS PositionKept ScanComplete AtMostOnce AnswerMatches RetriesEnough
PROPERTIES WritesConfined CallsReturn
CHECK_DEADLOCK FALSE
