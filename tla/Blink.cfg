CONSTANTS
    POOL_SIZE = 3
    CELLS = 3
    Location = {1, 2}
    OnChar = {on}
    OffChar = {off}
    Blank = blank
    OnLength = {0, 2}
    OffLength = {2}
    SIGN_BIT = 2
SPECIFICATION Spec
INVARIANTS
    ShownIsState
PROPERTIES
    ImplementsBlinkList
