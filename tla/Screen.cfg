CONSTANTS
    NUM_ROWS = 2
    NUM_COLS = 2
    BUFFER_SIZE = 2
    VIDEO_CELLS = 5
    Char = {a}
    Newline = newline
    Blank = blank
    Interrupted = FALSE
SPECIFICATION Spec
CHECK_DEADLOCK FALSE
INVARIANTS
    TypeOK
    PutcReturns
    StoresInside
    ScrollBackFaithful
    CursorShown
