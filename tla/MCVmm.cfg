CONSTANTS
    NProcs = 2
    NFrames = 17
    NKernel = 2
    NSlots = 9
    PageSize = 2
    UserBase = 4
    NCode = 5
    Programs <- MCPrograms
    MaxHeap = 2
SPECIFICATION Spec
CHECK_DEADLOCK FALSE
INVARIANTS
    FramesHaveOneUse
    MemoryIsAccountedFor
    ProcessesSeeTheirPages
