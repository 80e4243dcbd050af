CONSTANTS
    HeaderSize = 1
    MinimalSize = 1
    PageSize = 5
    Base = 8
    Limit = 23
    Sizes <- MCSizes
SPECIFICATION Spec
CHECK_DEADLOCK FALSE
INVARIANTS
    HeadersAreSound
    FreeIsZero
PROPERTIES
    GrowsOnlyWhenFull
    CallsEnd
    ImplementsAllocator
