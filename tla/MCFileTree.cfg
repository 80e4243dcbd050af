CONSTANTS
    p1 = p1
    p2 = p2
    Procs <- MCProcs
    Entries <- MCEntries
    RootInode = 2
    Paths <- MCPaths
    DiskOutcomes = {TRUE, FALSE}
    MaxCalls <- MCMaxCalls
    MaxTotal <- MCMaxTotal
SPECIFICATION Spec
CHECK_DEADLOCK FALSE
INVARIANTS
    TreeMatchesDisk
    BrowsedIsComplete
    OpenedIsResolved
    ListingIsExact
    HandlesAreDistinct
    InodeIsThere
    PathIsPutBack
