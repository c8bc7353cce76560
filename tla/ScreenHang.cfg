CONSTANTS
    NUM_ROWS = 2
    NUM_COLS = 2
    BUFFER_SIZE = 2
    VIDEO_CELLS = 12
    Char = {a}
    Newline = newline
    Blank = blank
    Interrupted = TRUE
SPECIFICATION Spec
CHECK_DEADLOCK FALSE
INVARIANT HandlerReturns
