SPECIFICATION Spec
CONSTANTS
    MAX_INPUT_LENGTH = 3
    Char = {a}
    Newline = Newline
    Zero = Zero
    NBytes = {6}
INVARIANT
    NextLineInBuffer
CHECK_DEADLOCK FALSE
