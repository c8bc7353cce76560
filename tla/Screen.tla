-------------------------------- MODULE Screen --------------------------------
(***************************************************************************)
(* The screen and its scroll-back buffer (lib.c): putc writes each         *)
(* character twice, to video memory and to a buffer of BUFFER_SIZE         *)
(* screens, each half with a cursor of its own; start_line is the line of  *)
(* the buffer that Ctrl-W and Ctrl-S bring to the top of the screen.       *)
(*                                                                         *)
(* Programs call putc through terminal_write with interrupts on.  The      *)
(* keyboard handler (keyboard.c) runs in one step and calls putc too, or   *)
(* scrolls, clears or erases.  putc is cut where the cursor has moved and  *)
(* the screen has not scrolled yet, before and after it loads what it      *)
(* tells the chip, and between its two halves; with Interrupted a key can  *)
(* arrive there.  Whether a key is echoed or erases is up to the line      *)
(* buffer, which Terminal models: here it may or may not.  NUL and space   *)
(* both show as Blank, and '\r' is treated by the code as Newline.         *)
(***************************************************************************)
EXTENDS Integers

CONSTANTS NUM_ROWS, NUM_COLS,
          BUFFER_SIZE,         \* screens in the scroll-back buffer
          VIDEO_CELLS,         \* cells in the mapped page of video memory
          Char, Newline, Blank,
          Interrupted          \* whether keys arrive inside a program's putc

ASSUME ScreenAssumption ==
    /\ NUM_ROWS \in Nat /\ NUM_ROWS > 0
    /\ NUM_COLS \in Nat /\ NUM_COLS >= NUM_ROWS
    /\ BUFFER_SIZE \in Nat /\ BUFFER_SIZE > 1
    /\ VIDEO_CELLS \in Nat /\ VIDEO_CELLS >= NUM_ROWS * NUM_COLS
    /\ Newline \notin Char /\ Blank # Newline
    /\ Interrupted \in BOOLEAN

VARIABLES screen,     \* screen_x, screen_y, start_line, video_mem, the cursor
          large,      \* buffer_x, buffer_y, video_mem_large
          pc,         \* where the program's putc is
          char,       \* its argument
          pos,        \* the place it is about to tell the chip, else 0
          boot_line,  \* the buffer's cursor line when scroll_init ran, -1 before
          erased,     \* history: something was erased since
          state       \* "running", "hung" in a loop, or "fault" for good

vars == <<screen, large, pc, char, pos, boot_line, erased, state>>

\* The cells of mem when c is stored at i; a store past mem changes none.
Store(mem, i, c) == [j \in DOMAIN mem |-> IF j = i THEN c ELSE mem[j]]

BufferRows  == NUM_ROWS * BUFFER_SIZE
MaxStart    == (BUFFER_SIZE - 1) * NUM_ROWS
ScreenCells == 0..(NUM_ROWS * NUM_COLS - 1)
BufferCells == 0..(NUM_ROWS * (BUFFER_SIZE + 1) * NUM_COLS - 1)

At(y, x) == NUM_COLS * y + x

\* entry() has cleared the screen and prints with interrupts off.
Init == /\ screen = [x |-> 0, y |-> 0, start |-> 0, cursor |-> 0,
                     mem |-> [i \in ScreenCells |-> Blank]]
        /\ large = [x |-> 0, y |-> 0, mem |-> [i \in BufferCells |-> Blank]]
        /\ pc = "idle" /\ char = Newline /\ pos = 0
        /\ boot_line = -1
        /\ erased = FALSE
        /\ state = "running"

-----------------------------------------------------------------------------
(* putc, from its parts *)

\* The character is stored and the cursor moves; both halves of putc do this.
Advance(s, c) ==
    IF c = Newline THEN [s EXCEPT !.y = @ + 1, !.x = 0]
    ELSE [s EXCEPT !.mem = Store(@, At(s.y, s.x), c),
                   !.y = @ + ((s.x + 1) \div NUM_COLS),
                   !.x = (@ + 1) % NUM_COLS]

\* The first rows of mem move up by k, and blank rows follow.
ShiftUp(mem, k, rows) ==
    [i \in DOMAIN mem |-> IF i < (rows - k) * NUM_COLS THEN mem[i + k * NUM_COLS]
                          ELSE IF i < rows * NUM_COLS THEN Blank ELSE mem[i]]

UpdateCursor(s) == [s EXCEPT !.cursor = At(s.y, s.x)]

\* Mutant: the window moves with every line.
TerminalScrollOn(s) ==
    LET offset == s.y - NUM_ROWS IN
    IF s.y < NUM_ROWS THEN s
    ELSE [s EXCEPT !.mem = ShiftUp(@, offset + 1, NUM_ROWS),
                   !.y = NUM_ROWS - (offset + 1), !.start = @ + offset + 1]

\* terminal_scroll, called when the cursor has left the screen.
TerminalScroll(s) ==
    LET offset == s.y - NUM_ROWS IN
    IF s.y < NUM_ROWS THEN s
    ELSE [s EXCEPT !.mem = ShiftUp(@, offset + 1, NUM_ROWS),
                   !.y = NUM_ROWS - (offset + 1),
                   !.start = IF @ < MaxStart - 1 THEN @ + offset + 1 ELSE @]

\* Mutant: the buffer scrolls one line too late.
BufferScrollLate(l) ==
    LET offset == l.y - BufferRows IN
    IF l.y <= BufferRows THEN l
    ELSE [l EXCEPT !.mem = ShiftUp(@, offset + 1, BufferRows),
                   !.y = BufferRows - (offset + 1)]

BufferScroll(l) ==
    LET offset == l.y - BufferRows IN
    IF l.y < BufferRows THEN l
    ELSE [l EXCEPT !.mem = ShiftUp(@, offset + 1, BufferRows),
                   !.y = BufferRows - (offset + 1)]

\* What the screen shows when the window starts at line s of the buffer.
Window(s) == [i \in ScreenCells |-> large.mem[s * NUM_COLS + i]]

\* Putc first scrolls down until the cursor is on the screen; scroll_down
\* does nothing when the window is at the end of the buffer.
CanRewind == \/ screen.y < NUM_ROWS
             \/ screen.start + (screen.y - NUM_ROWS + 1) <= MaxStart
             \/ screen.start > MaxStart

\* Mutant: the window is copied before start_line has moved.
RewindEarly ==
    LET n == screen.y - NUM_ROWS + 1 IN
    IF screen.y < NUM_ROWS THEN screen
    ELSE [screen EXCEPT !.start = @ + n, !.y = NUM_ROWS - 1,
                        !.mem = Window(screen.start + n - 1)]

Rewind ==
    LET n == screen.y - NUM_ROWS + 1 IN
    IF screen.y < NUM_ROWS THEN screen
    ELSE [screen EXCEPT !.start = @ + n, !.y = NUM_ROWS - 1,
                        !.mem = Window(screen.start + n)]

\* Mutant: the chip is told before the screen scrolls.
EchoedEarly(c) == TerminalScroll(UpdateCursor(Advance(Rewind, c)))

Echoed(c) == UpdateCursor(TerminalScroll(Advance(Rewind, c)))
Saved(c)  == BufferScroll(Advance(large, c))

-----------------------------------------------------------------------------
(* A program, or the kernel, prints *)

Printable == Char \cup {Newline}

\* Without CanRewind the program spins, and keys can still arrive.
PrintStores(c) ==
    /\ state = "running" /\ pc = "idle"
    /\ CanRewind
    /\ screen' = Advance(Rewind, c)
    /\ pc' = "advanced" /\ char' = c
    /\ UNCHANGED <<large, pos, boot_line, erased, state>>

\* terminal_scroll tells the chip.  The count of a memmove by more than a
\* screen is negative: it never ends.
PrintScrolls ==
    /\ state = "running" /\ pc = "advanced"
    /\ screen' = IF screen.y < NUM_ROWS THEN screen ELSE UpdateCursor(TerminalScroll(screen))
    /\ pc' = "scrolled"
    /\ state' = IF screen.y >= 2 * NUM_ROWS THEN "fault" ELSE state
    /\ UNCHANGED <<large, char, pos, boot_line, erased>>

\* update_cursor, called with the cursor's place ...
PrintLoads ==
    /\ state = "running" /\ pc = "scrolled"
    /\ pos' = At(screen.y, screen.x)
    /\ pc' = "loaded"
    /\ UNCHANGED <<screen, large, char, boot_line, erased, state>>

\* ... writes it to the chip's two registers.
PrintShows ==
    /\ state = "running" /\ pc = "loaded"
    /\ screen' = [screen EXCEPT !.cursor = pos]
    /\ pos' = 0
    /\ pc' = "shown"
    /\ UNCHANGED <<large, char, boot_line, erased, state>>

PrintSaves ==
    /\ state = "running" /\ pc = "shown"
    /\ large' = Saved(char)
    /\ pc' = "idle"
    /\ UNCHANGED <<screen, char, pos, boot_line, erased, state>>

\* scroll_init blanks a buffer that boot messages were printed to.
scroll_init ==
    /\ state = "running" /\ pc = "idle" /\ boot_line = -1
    /\ large' = [large EXCEPT !.mem = [i \in BufferCells |-> Blank]]
    /\ boot_line' = large.y
    /\ UNCHANGED <<screen, pc, char, pos, erased, state>>

-----------------------------------------------------------------------------
(* Keys *)

Key ==
    /\ state = "running" /\ boot_line >= 0
    /\ pc = "idle" \/ (Interrupted /\ pc # "faulted")

\* A handler's putc.  Here the loop without end stops the machine: interrupts are
\* off.
HandlerPrints(c) ==
    /\ IF CanRewind
       THEN /\ screen' = Echoed(c)
            /\ large' = Saved(c)
            /\ UNCHANGED state
       ELSE state' = "hung" /\ UNCHANGED <<screen, large>>
    /\ UNCHANGED <<char, pos, boot_line, erased>>

\* A character or Enter is echoed.
TypeKey(c) == Key /\ HandlerPrints(c) /\ UNCHANGED pc

\* The page fault's message, a line, before the running program is halted.
FaultPrints(c) ==
    /\ state = "running" /\ pc = "faulted"
    /\ HandlerPrints(c)
    /\ pc' = IF c = Newline THEN "idle" ELSE "faulted"

\* The cursor goes back over a character of the input line, wherever it is by
\* now: nothing keeps the line on the screen, or what has been read out of it.
Erased(s) ==
    IF s.x # 0 THEN [s EXCEPT !.x = @ - 1]
    ELSE [s EXCEPT !.y = @ - 1, !.x = NUM_COLS - 1]

\* handle_backspcae: video memory is written at the cursor even when that has
\* been scrolled off the screen, and the buffer is not touched.  Outside the
\* page the store faults, and a putc of the running program never resumes.
\* Above the screen the message faults again, and so on.
Backspace ==
    /\ Key
    /\ \E back \in BOOLEAN :
        LET s == IF back THEN Erased(screen) ELSE screen IN
        /\ erased' = (erased \/ back)
        /\ IF At(s.y, s.x) \in 0..(VIDEO_CELLS - 1)
           THEN /\ screen' = UpdateCursor([s EXCEPT !.mem = Store(@, At(s.y, s.x), Blank)])
                /\ UNCHANGED <<pc, pos, state>>
           ELSE /\ screen' = s
                /\ pc' = "faulted" /\ pos' = 0
                /\ state' = IF s.y < 0 THEN "fault" ELSE state
    /\ UNCHANGED <<large, char, boot_line>>

\* Ctrl-L: clear blanks one screen of the buffer, and gives the buffer's cursor
\* the window's first line as its column.  All is blank then if nothing has been
\* printed below the first screen.  launch_tests clears too, at the end of boot;
\* there the chip hears of it only with the shell's first character.
clear ==
    /\ Key
    /\ screen' = UpdateCursor([screen EXCEPT !.x = 0, !.y = 0,
                                             !.mem = [i \in ScreenCells |-> Blank]])
    /\ large' = [x |-> screen.start, y |-> 0,
                 mem |-> [i \in BufferCells |->
                             IF i - screen.start * NUM_COLS \in ScreenCells THEN Blank
                             ELSE large.mem[i]]]
    /\ erased' = (erased \/ screen.start # 0 \/ large.y >= NUM_ROWS)
    /\ UNCHANGED <<pc, char, pos, boot_line, state>>

\* Ctrl-W.  The cursor keeps its line and so moves down on the screen.
scroll_up ==
    LET s == [screen EXCEPT !.start = @ - 1, !.y = @ + 1,
                            !.mem = Window(screen.start - 1)]
    IN /\ Key
       /\ screen.start # 0
       /\ screen' = IF s.y < NUM_COLS THEN UpdateCursor(s) ELSE s
       /\ UNCHANGED <<large, pc, char, pos, boot_line, erased, state>>

\* Ctrl-S.
scroll_down ==
    /\ Key
    /\ screen.y >= NUM_ROWS
    /\ screen.start # MaxStart
    /\ screen' = UpdateCursor([screen EXCEPT !.start = @ + 1, !.y = @ - 1,
                                             !.mem = Window(screen.start + 1)])
    /\ UNCHANGED <<large, pc, char, pos, boot_line, erased, state>>

Next == \/ \E c \in Printable : PrintStores(c) \/ TypeKey(c) \/ FaultPrints(c)
        \/ PrintScrolls \/ PrintLoads \/ PrintShows \/ PrintSaves \/ scroll_init
        \/ Backspace \/ clear \/ scroll_up \/ scroll_down

Spec == Init /\ [][Next]_vars

-----------------------------------------------------------------------------
(* Properties *)

TypeOK ==
    /\ screen \in [x : 0..(NUM_COLS - 1), y : Int, start : 0..MaxStart, cursor : Int,
                   mem : [ScreenCells -> Char \cup {Blank}]]
    /\ large \in [x : Nat, y : 0..(BufferRows - 1), mem : [BufferCells -> Char \cup {Blank}]]
    /\ pc \in {"idle", "advanced", "scrolled", "loaded", "shown", "faulted"}
    /\ char \in Printable /\ pos \in Int
    /\ boot_line \in -1..(BufferRows - 1)
    /\ erased \in BOOLEAN
    /\ state \in {"running", "hung", "fault"}

\* Comment of putc (lib.c:207): "can scroll down when the screen is full".
\* The loop at the start of putc ends: however far back the user has scrolled,
\* the window reaches the cursor's line before it reaches the buffer's end,
\* where scroll_down does nothing.
PutcReturns == CanRewind

\* Comment of putc (lib.c:207) again, for keys that arrive inside a program's
\* putc: the keyboard handler, which echoes with putc, always returns.
HandlerReturns == state # "hung"

\* Both halves of putc store inside their memory: the buffer's cursor stays in
\* the rows that buffer_scroll moves, although clear gives it a column beyond
\* the end of its row, and the character half stores on the screen.
StoresInside ==
    /\ At(large.y, large.x) < BufferRows * NUM_COLS
    /\ pc = "idle" /\ state = "running" /\ screen.y < NUM_ROWS =>
          At(screen.y, screen.x) \in ScreenCells

\* Scrolling shows the text again: until something is erased, and until the
\* buffer is full, the screen equals the window of the buffer at start_line,
\* whatever is printed, typed and scrolled in between.  Lines printed before
\* scroll_init are not in the buffer.
ScrollBackFaithful ==
    pc = "idle" /\ boot_line >= 0 /\ ~erased /\ large.y < BufferRows - 1 =>
        \A i \in ScreenCells :
            screen.start * NUM_COLS + i >= (boot_line + 1) * NUM_COLS =>
                screen.mem[i] = large.mem[screen.start * NUM_COLS + i]

\* Comment of update_cursor (lib.c:271): x and y are "the location of the new
\* input".  The blinking cursor is where the next character appears whenever
\* that is on the screen and no putc is under way.
CursorShown ==
    pc = "idle" /\ state = "running" /\ screen.y < NUM_ROWS =>
        screen.cursor = At(screen.y, screen.x)
===============================================================================
