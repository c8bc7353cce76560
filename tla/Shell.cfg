CONSTANTS
    g = g
    x = x
    Space = space
    NewLine = newline
    Nul = nul
    LineLength = 5
    TextLength = 4
    BUFSIZE = 2
    MAX_FILES = 1
    Garbage = {x, newline}
    COMMAND_LENGTH = 6
    TypedLine <- MCTypedLine
    Text <- MCText
    Exit <- MCExit
    GrepName <- MCGrepName
    Programs <- MCPrograms
    Status = {0, 3}
SPECIFICATION ShellSpec
INVARIANTS
    ParsedAsWords
    GrepFindsLines
PROPERTIES
    GrepEnds
