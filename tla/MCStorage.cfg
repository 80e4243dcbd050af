CONSTANTS
    Procs = {p1, p2}
    SectorSize = 2
    BlockSize = 4
    InodeSize = 1
    InodesPerGroup = 4
    InodesCount = 7
    BlocksPerGroup = 8
    BlocksCount = 16
    MBR_RESERVED_SIZE = 4
    DescSize = 3
    InodeTable <- MCInodeTable
    Sectors = 32
    Inode <- MCInode
    Pointers <- MCPointers
    IntMax = 24
    MaxErrors = 4
    MaxCalls = 1
SPECIFICATION Spec
CHECK_DEADLOCK FALSE
INVARIANTS
    FileIsRead
    FailureHasCause
    MemoryIsReturned
PROPERTIES
    ReadsEnd
