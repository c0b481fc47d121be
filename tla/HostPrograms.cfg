SPECIFICATION Spec
CONSTANTS
    RecLen = 2
    Images <- MCImages
    RawImages <- MCRawImages
    Cims <- MCCims
    Delta <- MCDelta
    MaxId = 4
    MaxiCyls = 3
    MaxiSecs = 1
    QdSecs = 2
    QdMin = 2
    MiniT0 = 1
    MiniSecs = 1
    CkT0 = 2
    CkSecs = 3
    XLT <- MCXLT
    Skew <- MCSkew
    CcpRecords = 14
    Builts <- MCBuilts
    MaxDiffs = 2
    SIDE0 = 2
    GAP = 2
    SIDE1 = 4
    TPA = 1
    T0 = 17
    MemTop = 26
    MaxMishaps = 2
    Bios <- MCBios
    Com <- MCCom
    HexBases <- MCHexBases
    CcpLen = 10
    CcpStampAt = 2
    CcpBase = 100
    Version = 22
    DefaultMfg = 2261
    SecLen = 16
    ChunkA = 2
    Ccps <- MCCcps
    Bdoses <- MCBdoses
    Serials <- MCSerials
    Programs <- MCPrograms
    Pages <- MCPages
    Payloads <- MCPayloads
    Sendings <- MCSendings
    Sps = 8
    Jitters <- MCJitters
    Nominal = 16
    Coarse <- MCCoarse
    Fine <- MCFine
    MaxRunBits = 8
    Program <- MCProgram
    RowLen = 2
    OldBytes <- MCOldBytes
    MaxFaults = 2
    Lengths <- MCLengths
    RingSize = 4
    Chunk = 2
    Lag = 1
    Typed <- MCTyped
    Lines <- MCLines
    Trigger <- MCTrigger
    Window = 4
    Piece = 2
    Commands <- MCCommands
    NSteps = 3
    RecvSize = 3
    MaxBuf = 4
    MaxBytes = 3
    MaxAdds = 4
INVARIANTS DiskKept LoadedAsBuilt FramesDecoded DeployedAsReported SavedIsData FilesFed StreamsKept TestersFaithful
PROPERTIES FilesFinished ProgramsEnd
\* A program ends when it has done its work.
CHECK_DEADLOCK FALSE
