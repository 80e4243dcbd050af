CONSTANTS
    NThreads = 3
    Values <- MCValues
    EoiValue = 0
    MaxAstray = 1
SPECIFICATION SwitchSpec
INVARIANTS
    ProcessorFollowsThread
    InterruptedContextKept
    UserStackIsOwn
