CONSTANTS
    p1 = p1
    p2 = p2
    Printers <- MCPrinters
    Handlers <- MCHandlers
    LINES = 2
    COLUMNS = 3
    NCells = 18
    Symbols <- MCSymbols
    Calls <- MCCalls
    MaxCalls <- MCMaxCalls
SPECIFICATION ScreenSpec
CHECK_DEADLOCK FALSE
INVARIANTS
    CursorIsBounded
    TextIsShown
    NumbersAreSpelled
