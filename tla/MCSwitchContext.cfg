CONSTANTS
    NThreads = 2
    Values <- MCValues
    EoiValue = 0
    MaxAstray = 1
SPECIFICATION SwitchSpec
INVARIANT SystemCallResumed
