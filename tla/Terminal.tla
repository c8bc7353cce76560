------------------------------- MODULE Terminal -------------------------------
(***************************************************************************)
(* The input half of the terminal: the keyboard interrupt handler          *)
(* (keyboard.c), which runs with interrupts off and so in one step, and    *)
(* terminal_read (terminal.c), which runs with interrupts on, so that a    *)
(* key can arrive between any two of its accesses to the shared buffer.    *)
(* The kernel is built without optimisation: x -= e is a load, then a      *)
(* store, and the arguments of memmove are evaluated before the copy.      *)
(* What the keys draw on the screen is not part of this module; that a     *)
(* Backspace faults when its cursor has left video memory is.              *)
(***************************************************************************)
EXTENDS Integers, Sequences

CONSTANTS MAX_INPUT_LENGTH,  \* entries of input_buffer and of new_lines
          Char, Newline, Zero,
          NBytes             \* buffer sizes that programs pass to read

ASSUME TerminalAssumption ==
    /\ MAX_INPUT_LENGTH \in Nat /\ MAX_INPUT_LENGTH > 1 /\ MAX_INPUT_LENGTH < 256
    /\ NBytes \subseteq Nat \ {0}
    /\ Newline \notin Char /\ Zero \notin Char /\ Newline # Zero

READ_ENABLE  == 1
READ_DISABLE == 0

VARIABLES input_buffer,        \* what was typed
          input_location,      \* where the next character goes
          new_lines,           \* where the lines that were finished end
          new_lines_location,  \* how many there are
          read_flag,           \* a line was finished and nothing typed since
          pc,                  \* where terminal_read is
          nbytes,              \* its argument
          end_position,        \* its local
          reg,                 \* the value it has loaded and not yet used, else 0
          buf,                 \* what it has put in the caller's buffer
          careless,            \* chosen once: the typist types while a line waits to be
                               \* read, and programs pass buffers that are not mapped
          cut_short            \* history: a read was halted with its line taken and
                               \* the flag not lowered, and none has ended since

keyboard == <<input_buffer, input_location, new_lines, new_lines_location, read_flag>>
reader   == <<pc, nbytes, end_position, reg, buf>>
others   == <<careless, cut_short>>
vars     == <<keyboard, reader, others>>

Index == 0..(MAX_INPUT_LENGTH - 1)

Init == /\ input_buffer = [i \in Index |-> Zero]
        /\ input_location = 0
        /\ new_lines = [i \in Index |-> 0]
        /\ new_lines_location = 0
        /\ read_flag = READ_DISABLE
        /\ pc = "idle"
        /\ nbytes = 1 /\ end_position = 0 /\ reg = 0 /\ buf = <<>>
        /\ careless \in BOOLEAN
        /\ cut_short = FALSE

\* The byte at an offset from input_buffer; those after it are not told apart.
ByteAt(i) == IF i \in Index THEN input_buffer[i] ELSE Zero

\* The characters of input_buffer from index i up to j, j excluded.
Segment(i, j) == [k \in 1..(j - i) |-> ByteAt(i + k - 1)]

-----------------------------------------------------------------------------
(* Keys.  A careful typist edits a line when none waits to be read, and     *)
(* ends it when a program asks for it.                                     *)

Running == pc # "fault"

MayEdit == Running /\ (careless \/ (pc \in {"idle", "spin"} /\ new_lines_location = 0))

MayEnd == MayEdit /\ (careless \/ pc = "spin")

\* Mutant: no entry is left over.
RoomToTheBrim == input_location < MAX_INPUT_LENGTH

Room == input_location < MAX_INPUT_LENGTH - 1

TypeChar(c) ==
    /\ MayEdit
    /\ input_location >= 0
    /\ read_flag' = READ_DISABLE
    /\ IF Room
       THEN /\ input_buffer' = [input_buffer EXCEPT ![input_location] = c]
            /\ input_location' = input_location + 1
       ELSE UNCHANGED <<input_buffer, input_location>>
    /\ UNCHANGED <<new_lines, new_lines_location, reader, others>>

\* A key while input_location is negative is stored before the buffer: what is
\* overwritten there depends on the link, and the model stops.
TypeStray ==
    /\ MayEdit
    /\ input_location < 0
    /\ pc' = "fault"
    /\ UNCHANGED <<keyboard, nbytes, end_position, reg, buf, others>>

\* Mutant: the flag is not raised.
EnterSilently ==
    /\ MayEnd
    /\ new_lines_location < MAX_INPUT_LENGTH
    /\ new_lines' = [new_lines EXCEPT ![new_lines_location] = input_location]
    /\ new_lines_location' = new_lines_location + 1
    /\ UNCHANGED <<input_buffer, input_location, read_flag, reader, others>>

\* Bound: the code does not check that new_lines has room for one more.
Enter ==
    /\ MayEnd
    /\ new_lines_location < MAX_INPUT_LENGTH
    /\ new_lines' = [new_lines EXCEPT ![new_lines_location] = input_location]
    /\ new_lines_location' = new_lines_location + 1
    /\ read_flag' = READ_ENABLE
    /\ UNCHANGED <<input_buffer, input_location, reader, others>>

LineStart == IF new_lines_location = 0 THEN 0 ELSE new_lines[new_lines_location - 1]

Erased == IF input_location > LineStart THEN input_location - 1 ELSE input_location

Backspace ==
    /\ MayEdit
    /\ input_location' = Erased
    /\ UNCHANGED <<input_buffer, new_lines, new_lines_location, read_flag, reader, others>>

\* The cursor can lie outside video memory, as when the screen is scrolled back.
\* The character is already taken off when set_video_mem faults, and the page
\* fault halts the program that runs, wherever its read is.
\* Bound: reads that are cut short again and again would take input_location ever
\* lower, so none is while it is negative.
BackspaceFaults ==
    /\ MayEdit
    /\ input_location >= 0
    /\ input_location' = Erased
    /\ pc' = "idle"
    /\ cut_short' = (cut_short \/ pc \in {"countLines", "moveLines", "clear"})
    /\ end_position' = 0 /\ reg' = 0 /\ buf' = <<>>
    /\ UNCHANGED <<input_buffer, new_lines, new_lines_location, read_flag, nbytes, careless>>

\* Ctrl-L.  The assignment to new_lines_location stands inside the comment
\* that starts on the line before it.
CtrlL ==
    /\ MayEdit
    /\ input_location' = 0
    /\ UNCHANGED <<input_buffer, new_lines, new_lines_location, read_flag, reader, others>>

\* terminal_open, called by open and by every execute.
TerminalOpen ==
    /\ pc = "idle"
    /\ read_flag' = READ_DISABLE
    /\ cut_short' = FALSE
    /\ UNCHANGED <<input_buffer, input_location, new_lines, new_lines_location, reader, careless>>

-----------------------------------------------------------------------------
(* terminal_read, access by access *)

Goto(from, to) == pc = from /\ pc' = to

Read(n) == /\ Goto("idle", "spin")
           /\ nbytes' = n
           /\ UNCHANGED <<keyboard, end_position, reg, buf, others>>

LeaveSpin == /\ Goto("spin", "check")
             /\ read_flag # READ_DISABLE
             /\ UNCHANGED <<keyboard, nbytes, end_position, reg, buf, others>>

\* With no line there the call would return 0 after clearing the flag.
CheckLine == /\ pc = "check"
             /\ IF new_lines_location > 0 THEN pc' = "end" /\ UNCHANGED buf
                                          ELSE pc' = "clear" /\ buf' = <<>>
             /\ UNCHANGED <<keyboard, nbytes, end_position, reg, others>>

LoadEnd == /\ Goto("end", "copy")
           /\ end_position' = new_lines[0]
           /\ UNCHANGED <<keyboard, nbytes, reg, buf, others>>

\* Mutant: the size of the caller's buffer is ignored.
CopiedUncut(end) == Append(Segment(0, end), Newline)

\* What a line of end characters leaves in the caller's buffer.
Copied(end) == IF nbytes > end THEN Append(Segment(0, end), Newline)
                               ELSE Append(Segment(0, nbytes - 1), Zero)

\* A negative count is a huge unsigned one: the copy runs off the kernel's
\* page, and what is left of the system is undefined.
CopyLine == /\ pc = "copy"
            /\ pc' = IF end_position < 0 THEN "fault" ELSE "loadInput"
            /\ buf' = Copied(end_position)
            /\ UNCHANGED <<keyboard, nbytes, end_position, reg, others>>

\* The caller's buffer is not mapped: the page fault halts the program.
CopyFaults == /\ careless
              /\ Goto("copy", "idle")
              /\ end_position' = 0 /\ reg' = 0 /\ buf' = <<>>
              /\ UNCHANGED <<keyboard, nbytes, others>>

\* input_location -= end_position
LoadInput == /\ Goto("loadInput", "storeInput")
             /\ reg' = input_location
             /\ UNCHANGED <<keyboard, nbytes, end_position, buf, others>>

StoreInput == /\ Goto("storeInput", "countInput")
              /\ input_location' = reg - end_position
              /\ reg' = 0
              /\ UNCHANGED <<input_buffer, new_lines, new_lines_location, read_flag,
                             nbytes, end_position, buf, others>>

\* memmove(input_buffer, input_buffer + end_position, input_location)
CountInput == /\ Goto("countInput", "moveInput")
              /\ reg' = input_location
              /\ UNCHANGED <<keyboard, nbytes, end_position, buf, others>>

\* The copy with a negative count runs off the page, as in CopyLine.
MoveInput ==
    /\ pc = "moveInput"
    /\ IF reg < 0
       THEN pc' = "fault" /\ UNCHANGED input_buffer
       ELSE /\ pc' = "loadLines"
            /\ input_buffer' = [i \in Index |->
                   IF i < reg THEN ByteAt(i + end_position) ELSE input_buffer[i]]
    /\ reg' = 0
    /\ UNCHANGED <<input_location, new_lines, new_lines_location, read_flag,
                   nbytes, end_position, buf, others>>

\* new_lines_location--
LoadLines == /\ Goto("loadLines", "storeLines")
             /\ reg' = new_lines_location
             /\ UNCHANGED <<keyboard, nbytes, end_position, buf, others>>

StoreLines == /\ Goto("storeLines", "countLines")
              /\ new_lines_location' = reg - 1
              /\ reg' = 0
              /\ UNCHANGED <<input_buffer, input_location, new_lines, read_flag,
                             nbytes, end_position, buf, others>>

\* memmove(new_lines, new_lines + 1, new_lines_location): the count is in bytes
\* and an entry is four, of which the low one holds the whole value.
CountLines == /\ Goto("countLines", "moveLines")
              /\ reg' = new_lines_location
              /\ UNCHANGED <<keyboard, nbytes, end_position, buf, others>>

MoveLines == /\ Goto("moveLines", "clear")
             /\ new_lines' = [i \in Index |->
                    IF 4 * i < reg THEN new_lines[i + 1] ELSE new_lines[i]]
             /\ reg' = 0
             /\ UNCHANGED <<input_buffer, input_location, new_lines_location, read_flag,
                            nbytes, end_position, buf, others>>

\* Mutant: the flag stays up.
KeepFlag == /\ Goto("clear", "idle")
            /\ cut_short' = FALSE /\ end_position' = 0 /\ buf' = <<>>
            /\ UNCHANGED <<keyboard, nbytes, reg, careless>>

ClearFlag == /\ Goto("clear", "idle")
             /\ read_flag' = READ_DISABLE
             /\ cut_short' = FALSE /\ end_position' = 0 /\ buf' = <<>>
             /\ UNCHANGED <<input_buffer, input_location, new_lines, new_lines_location,
                            nbytes, reg, careless>>

ReadStep == \/ LeaveSpin \/ CheckLine \/ LoadEnd \/ CopyLine
            \/ LoadInput \/ StoreInput \/ CountInput \/ MoveInput
            \/ LoadLines \/ StoreLines \/ CountLines \/ MoveLines \/ ClearFlag

Next == \/ \E c \in Char : TypeChar(c)
        \/ TypeStray
        \/ Enter
        \/ Backspace
        \/ BackspaceFaults
        \/ CtrlL
        \/ TerminalOpen
        \/ \E n \in NBytes : Read(n)
        \/ ReadStep
        \/ CopyFaults

Spec == Init /\ [][Next]_vars

\* Interrupts return, so a read that can move does.
FairSpec == Spec /\ WF_vars(ReadStep)

-----------------------------------------------------------------------------
(* Properties *)

Pc == {"idle", "spin", "check", "end", "copy", "loadInput", "storeInput", "countInput",
       "moveInput", "loadLines", "storeLines", "countLines", "moveLines", "clear", "fault"}

TypeOK == /\ input_buffer \in [Index -> Char \cup {Zero}]
          /\ input_location \in Int /\ input_location < MAX_INPUT_LENGTH
          /\ new_lines \in [Index -> Int]
          /\ new_lines_location \in 0..MAX_INPUT_LENGTH
          /\ read_flag \in {READ_ENABLE, READ_DISABLE}
          /\ pc \in Pc
          /\ nbytes \in Nat \ {0}
          /\ end_position \in Int
          /\ reg \in Int
          /\ buf \in Seq(Char \cup {Newline, Zero})
          /\ careless \in BOOLEAN /\ cut_short \in BOOLEAN

\* However keys and accesses interleave, a reader that leaves the spin loop finds
\* a line, so that the branch for "not a existing line yet" is taken by no read
\* but one that follows a read a fault cut short: that one had taken its line
\* and left the flag up.
FlagMeansLine ==
    ~cut_short =>
        /\ pc = "check" => new_lines_location > 0
        /\ read_flag = READ_ENABLE /\ pc \in {"idle", "spin"} => new_lines_location > 0

\* The line of a careful typist is delivered as it was edited: the code
\* implements LineDiscipline, a line being delivered at the memcpy.
Taken == pc \in {"loadInput", "storeInput", "countInput", "moveInput", "loadLines",
                 "storeLines", "countLines", "moveLines", "clear"}

EndOf(k) == IF k = 0 THEN 0 ELSE new_lines[k - 1]

Discipline == INSTANCE LineDiscipline WITH
    Capacity <- MAX_INPUT_LENGTH - 1,
    edit  <- IF careless \/ Taken THEN <<>> ELSE Segment(LineStart, input_location),
    lines <- IF careless \/ Taken THEN <<>>
             ELSE [k \in 1..new_lines_location |-> Segment(EndOf(k - 1), EndOf(k))],
    want  <- IF careless THEN 1 ELSE nbytes,
    got   <- IF careless THEN <<>> ELSE buf

ImplementsLineDiscipline == Discipline!Spec

\* A read that waits returns when a careful typist finishes a line.
LineReturned == (~careless /\ pc = "spin" /\ new_lines_location > 0) ~> (pc = "idle")

\* Comment of terminal_read (terminal.c:48): "we copy the entire line".  When a
\* read has removed its line, the next one ends within what is left in the buffer.
NextLineInBuffer ==
    pc = "clear" /\ new_lines_location > 0 => new_lines[0] <= input_location
=============================================================================
