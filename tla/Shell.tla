-------------------------------- MODULE Shell ---------------------------------
(***************************************************************************)
(* From a typed line to the output of a program: the shell's loop          *)
(* (ece391shell.c), the command parser of execute (sys_execute_parse), and *)
(* the argument's way through the kernel's buffers to getargs of the       *)
(* program.  One program, grep, is modelled (module Grep); of the others   *)
(* only their status is, and that they need not end: pingpong never does,  *)
(* and hello, counter and a shell in the shell wait for a line.  How a     *)
(* process is created and ended is the subject of Processes, how a line is *)
(* typed that of Terminal.                                                 *)
(***************************************************************************)
EXTENDS Grep

CONSTANTS COMMAND_LENGTH,     \* the parser's buffers
          TypedLine,          \* lines, without the end of line
          Space,
          Exit, GrepName,     \* commands, as character sequences
          Programs,           \* the other names in the directory
          Status              \* what programs halt with

ASSUME ShellAssumption ==
    /\ COMMAND_LENGTH \in Nat
    /\ \A line \in TypedLine : /\ line \in Seq(ToSet(line)) /\ NewLine \notin ToSet(line)
                               /\ Len(line) < COMMAND_LENGTH
    /\ Space # NewLine

VARIABLES pc,         \* where the shell or the kernel is
          typed,      \* history: the line as it was typed, until a program begins
          buf,        \* the shell's buffer: the line, then the command
          argument,   \* the kernel's argument buffer
          argbuf,     \* its copy in the running program's PCB
          arg_len,    \* where the parser found the end of the command, until then
          rval        \* what execute returned

shell_vars == <<grep_vars, pc, typed, buf, argument, argbuf, arg_len, rval>>

ShellInit == /\ GrepInit
        /\ pc = "prompt"
        /\ typed = <<>> /\ buf = <<>>
        /\ argument = <<>> /\ argbuf = <<>> /\ arg_len = 0
        /\ rval = 0

-----------------------------------------------------------------------------
(* sys_execute_parse, on the string arg *)

\* The least index of arg from i on where P holds, or the one behind its end.
FirstFrom(arg, i, P(_)) == Min({j \in i..Len(arg) : P(j)} \cup {Len(arg) + 1})

CommandStart(arg) == FirstFrom(arg, 1, LAMBDA j : arg[j] # Space)
CommandEnd(arg)   == FirstFrom(arg, CommandStart(arg), LAMBDA j : arg[j] \in {Space, NewLine})

\* The end of a line belongs to the word it ends.
Command(arg) ==
    LET e == CommandEnd(arg) IN
    SubSeq(arg, CommandStart(arg), IF e <= Len(arg) /\ arg[e] = NewLine THEN e ELSE e - 1)

\* Mutant: the argument ends where its first word ends.
ArgumentOneWord(arg) ==
    LET s == FirstFrom(arg, CommandEnd(arg), LAMBDA j : arg[j] # Space)
    IN SubSeq(arg, s, FirstFrom(arg, s, LAMBDA j : arg[j] = Space) - 1)

\* What is left of a sequence when every x is taken out.
Without(s, x) == FoldLeft(LAMBDA acc, c : IF c = x THEN acc ELSE Append(acc, c), <<>>, s)

\* The rest without its spaces, up to an end of line that follows a character.
Argument(arg) ==
    LET e == CommandEnd(arg)
        n == FirstFrom(arg, e + 1, LAMBDA j : arg[j] = NewLine /\ arg[j - 1] # Space)
    IN Without(SubSeq(arg, e, n - 1), Space)

-----------------------------------------------------------------------------
(* The shell *)

\* terminal_read returns the line and its end, which the shell cuts off, or
\* nothing.
ReadLine ==
    /\ pc = "prompt" /\ at = "idle"
    /\ \E line \in TypedLine :
           LET got == line \o <<NewLine>>
           IN buf' = SubSeq(got, 1, Len(got) - 1) /\ typed' = line
    /\ pc' = "command"
    /\ UNCHANGED <<grep_vars, argument, argbuf, arg_len, rval>>

ReadNothing ==
    /\ pc = "prompt" /\ at = "idle"
    /\ buf' = <<>> /\ typed' = <<>>
    /\ pc' = "command"
    /\ UNCHANGED <<grep_vars, argument, argbuf, arg_len, rval>>

EmptyLine ==
    /\ pc = "command" /\ buf = <<>>
    /\ pc' = "prompt"
    /\ UNCHANGED <<grep_vars, typed, buf, argument, argbuf, arg_len, rval>>

\* The shell ends, and the kernel begins a new one.
ExitShell ==
    /\ pc = "command" /\ buf = Exit
    /\ pc' = "prompt"
    /\ buf' = <<>>
    /\ UNCHANGED <<grep_vars, typed, argument, argbuf, arg_len, rval>>

\* execute parses the line and leaves the command in the shell's buffer.
Parse ==
    /\ pc = "command" /\ buf \notin {<<>>, Exit}
    /\ arg_len' = CommandEnd(buf) - 1
    /\ argument' = Argument(buf)
    /\ buf' = Command(buf)
    /\ pc' = "execute"
    /\ UNCHANGED <<grep_vars, typed, argbuf, rval>>

NoSuchCommand ==
    /\ pc = "execute" /\ buf \notin Programs \cup {GrepName}
    /\ rval' = -1
    /\ pc' = "report"
    /\ typed' = <<>> /\ arg_len' = 0
    /\ UNCHANGED <<grep_vars, buf, argument, argbuf>>

StartProgram ==
    /\ pc = "execute" /\ buf \in Programs
    /\ argbuf' = argument
    /\ pc' = "program"
    /\ typed' = <<>> /\ arg_len' = 0
    /\ UNCHANGED <<grep_vars, buf, argument, rval>>

ProgramEnds ==
    /\ pc = "program"
    /\ rval' \in Status
    /\ pc' = "report"
    /\ UNCHANGED <<grep_vars, typed, buf, argument, argbuf, arg_len>>

StartGrep ==
    /\ pc = "execute" /\ buf = GrepName
    /\ argbuf' = argument
    /\ \E n \in 1..MAX_FILES : Start(argument, n)
    /\ pc' = "grep"
    /\ typed' = <<>> /\ arg_len' = 0
    /\ UNCHANGED <<buf, argument, rval>>

GrepRuns ==
    /\ pc = "grep"
    /\ GrepStep
    /\ UNCHANGED <<pc, typed, buf, argument, argbuf, arg_len, rval>>

\* grep's variables are gone with it.
GrepExits ==
    /\ pc = "grep" /\ at = "exit"
    /\ rval' = 0
    /\ pc' = "report"
    /\ at' = "idle" /\ word' = <<>> /\ text' = <<>> /\ out' = <<>>
    /\ pos' = 0 /\ last' = 0 /\ cnt' = 0 /\ line_start' = 0 /\ files' = 0
    /\ data' = [i \in 0..BUFSIZE |-> Nul] /\ beyond' = Nul
    /\ UNCHANGED <<typed, buf, argument, argbuf, arg_len>>

Report ==
    /\ pc = "report"
    /\ pc' = "prompt"
    /\ UNCHANGED <<grep_vars, typed, buf, argument, argbuf, arg_len, rval>>

Reads    == ReadLine \/ ReadNothing
Proceeds == \/ EmptyLine \/ ExitShell \/ Parse \/ NoSuchCommand \/ StartProgram
            \/ StartGrep \/ GrepRuns \/ GrepExits \/ Report

ShellNext == Reads \/ Proceeds \/ ProgramEnds

\* The shell, the kernel and grep go on; nobody has to type, and no other
\* program has to end.
ShellSpec == ShellInit /\ [][ShellNext]_shell_vars /\ WF_shell_vars(Proceeds)

-----------------------------------------------------------------------------
(* Properties *)

\* The words of a line.
WordsOf(line) == Without(Split(line, Space), <<>>)

\* The command is the first word of what was typed, however it is spaced, and
\* the argument that reaches the program is the other words without the spaces
\* between them; both fit in the parser's arrays, but for a line without
\* arguments that fills the line buffer: then the array has no room for the end.
ParsedAsWords ==
    pc = "execute" =>
        LET words == WordsOf(typed) IN
        /\ buf = (IF words = <<>> THEN <<>> ELSE words[1])
        /\ argument = (IF words = <<>> THEN <<>> ELSE FlattenSeq(Tail(words)))
        /\ \/ Len(argument) < COMMAND_LENGTH - arg_len - 1
           \/ Len(words) <= 1 /\ arg_len = COMMAND_LENGTH - 1

\* grep gets through every file, whatever is in it and in its buffer, and the
\* shell prompts again: a line as long as the buffer, which leaves no room for the
\* next chunk, does not hold it.
GrepEnds == pc = "grep" ~> pc = "prompt"
=============================================================================
