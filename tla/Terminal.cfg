SPECIFICATION FairSpec
CONSTANTS
    MAX_INPUT_LENGTH = 3
    Char = {a, b}
    Newline = Newline
    Zero = Zero
    NBytes = {2}
INVARIANTS
    TypeOK
    FlagMeansLine
PROPERTIES
    ImplementsLineDiscipline
    LineReturned
CHECK_DEADLOCK FALSE
