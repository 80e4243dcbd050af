CONSTANTS
    MaxStops = 3
    MaxRequests = 5
SPECIFICATION Spec
INVARIANTS
    AnswersTheRequest
    FreesOwn
    LeakIsBounded
CHECK_DEADLOCK FALSE
