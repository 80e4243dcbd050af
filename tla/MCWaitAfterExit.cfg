CONSTANTS
    NPrograms = 2
    Pids <- MCPids
    UIntModulus = 3
SPECIFICATION Spec
PROPERTY WaitAfterExitReturns
