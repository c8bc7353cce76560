SPECIFICATION Spec
CONSTANTS
    MAXIMUM_PROCESS = 4
    MAX_FILES_NUMBER = 3
    sh = sh
    prog = prog
    text = text
    Program <- MCProgram
    NonProgram <- MCNonProgram
    Shell <- MCShell
    Arg = {none, word}
    NoArg = none
    Status <- MCStatus
    STACK_SIZE = 9
    PCB_SIZE = 2
    FRAME = 2
    Started = Started
    Free = Free
INVARIANT
    ParentStackRestored
