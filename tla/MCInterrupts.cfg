CONSTANTS
    Irqs <- MCIrqs
    NThreads = 2
SPECIFICATION FairSpec
CHECK_DEADLOCK FALSE
INVARIANTS
    HandlersDoNotNest
    HandlersFindTheirTables
    LoadingIsAtomic
PROPERTIES
    ThreadsKeepRunning
