CONSTANTS
    SIZE = 6
    Byte = {0, 1}
    WORD = 2
    HEX = 2
SPECIFICATION Spec
INVARIANTS
    MemoryAsSpecified
    StringsAsSpecified
    NumbersPrinted
