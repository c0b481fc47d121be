SPECIFICATION Spec
CONSTANTS
    v0 = v0
    v1 = v1
    Value <- MCValue
    Garbage <- MCGarbage
    Drive <- MCDrive1
    Track <- MCTrack2
    HostSector <- MCHostSector
    SlotIndex <- MCSlotIndex
    Format <- MCFormat
    fd0 <- MCFd01
    cpm_sectors_per_track <- LongTracks
    records_per_alloc_block <- MCRpb
    deblock_mask <- MCMask
    TrkOff = 2
    DirBlocks = 1
    NSECTS = 2
    SequentialAlloc = TRUE
PROPERTIES FlushPreserves
SYMMETRY ValueSymmetry
VIEW MCView
