SPECIFICATION Spec
CONSTANTS
    Request = {2, 32, 1000}
    MaxTick = 4
INVARIANTS
    TypeOK
    NeverSilenced
    ReadsHaveTicks
PROPERTIES
    ReadReturns
