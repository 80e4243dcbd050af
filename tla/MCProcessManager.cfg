CONSTANTS
    NPrograms = 3
    Pids <- MCPids
    UIntModulus = 4
SPECIFICATION Spec
INVARIANTS
    ObjectsAgree
    StateTellsHistory
PROPERTIES
    NoEarlyReturn
    WaiterSeesExit
    ImplementsRoundRobin
