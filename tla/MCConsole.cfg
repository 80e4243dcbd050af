CONSTANTS
    NThreads = 2
    BufferSize = 3
    Letters = {a}
    NEWLINE = NEWLINE
    ZERO = ZERO
SPECIFICATION Spec
INVARIANTS
    KeysFindTheirLine
    LineIsDelivered
PROPERTIES
    ConsoleIsReleased
