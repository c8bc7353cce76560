CONSTANTS
    MAXIMUM_PROCESS = 2
    Number = {0, 1, 2, 3, 11}
    Value = {7}
    Device = {0, 1, 8}
    MaxRaised = 3
SPECIFICATION Spec
CHECK_DEADLOCK FALSE
INVARIANTS
    TypeOK
    HandlersAtomic
    ServiceMatched
    Interruptible
    ResultsKept
PROPERTIES
    InterruptsTaken
