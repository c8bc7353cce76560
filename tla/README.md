# Verification of the MP3 kernel

TLA+ models of the teaching operating system in `src/mp3_group_28`, the TLC runs
that check them and the TLAPS proofs about them. File names without a directory are
in `src/mp3_group_28/student-distrib`.

## 1. The system

One processor, no scheduler. Programs run one at a time; a program that executes
another waits until that one halts. System calls enter through `int 0x80` and run
with interrupts on, so the keyboard and clock handlers can run between any two
instructions of a call. All hard behaviour comes from four places: state that must
be kept consistent over a stack of programs, variables that a handler and a call
share, globals that several descriptors share, and arithmetic on positions (in a
line, a file, the screen, a chunk of text).

### Inventory

| Component | State | Operations | Interacts with | What is hard, and what makes it correct |
|---|---|---|---|---|
| Process control (`sys_execute.c`, `system_open`/`system_close`) | `process_total`, `current_pcb`, PCBs, the page at 128 MB, `tss.esp0`, the global argument | execute, halt, open, close, page fault | paging, file system (loads the image), devices that `open` resets | Four records of "who runs" change in different places; the parent is resumed from fields of the child's PCB; descriptor arrays are reused and never cleared by execute; limit on processes. They must agree, a waiting program must be untouched, and execute/halt must behave as a stack |
| Terminal input (`keyboard.c`, `terminal.c`) | `input_buffer`, `input_location`, `new_lines`, `new_lines_location`, `read_flag` | each key, Ctrl-L, `terminal_open`, `terminal_read` | keyboard interrupt, screen | The handler changes what `terminal_read` is moving; a line must be delivered whole, once, and a reader must wake |
| Screen (`lib.c`, echo in `keyboard.c`) | `screen_x`, `screen_y`, `start_line`, `buffer_x`, `buffer_y`, video memory and the scroll-back buffer | putc, clear, Backspace, scroll up and down | keyboard handler and `terminal_write` both call `putc` | Two cursors over two memories and a window between them; two actors in `putc`. `putc` must end and stay inside its memories, and scrolling back must show what was printed |
| Interrupt controllers and kernel entry (`i8259.c`, `isr.S`, `idt.c`, `idt_handler.c`, `SystemCall.S`) | masks, lines in service, interrupt flag, the stack of entered contexts, `return_val` | initialise, enable, end of interrupt, interrupt, exception, system call, return | all devices, process control | Nesting of handlers, calls, faults and halts; cascade; acknowledgement before the handler's work. Handlers must be atomic, no line may stay in service, programs must run with interrupts on, results must not be mixed up |
| Real-time clock (`rtc.c`) | `rtc_interrupt_occur`, `rtc_num_tick`, chip index, rate, enable and acknowledge registers | `rtc_init`, handler, open, read, write | controllers | Index and data port are two accesses; the chip stops if one interrupt is not acknowledged |
| File system (`filesyshelper.c`) | image (constant), descriptor positions, `last_dentry_read`, `dir_dentry` | file and directory open, read, close, lookup by name and index, `read_data` | descriptors, execute | Block and file boundaries; one directory cursor and one entry read ahead shared by all descriptors |
| Command parser (`sys_execute_parse`), `getargs` | the global argument, its copy in a PCB | parse, copy | shell, execute | Spaces before, between and after words; what fits in the arrays |
| C library (`lib.c`) | memory, the CPU's direction flag | fill, copy, strings, printf's numbers | everyone | Overlap, alignment, a flag that one call leaves behind for the next |
| Shell and grep (`syscalls/`) | local buffers | read a line, execute; search the lines of all files | system calls | grep's lines across reads |
| Fish (`fish/`) | blink list and slot pool, video memory | add, remove, sync, tasklet | clock, vidmap | Pointers through a pool; free slots are told by location 0; 16-bit countdowns |
| Other programs, Linux emulation, tests, boot, build files | | | | No protocol of their own (section 5) |

`PROJECT.json` lists the same components with their sources and, under `hazards`,
every place that is hard to test, with its line and the properties that would catch
it going wrong.

## 2. The models

| Module | What it is | Proved in |
|---|---|---|
| `ProcessStack` | abstract: programs form a stack | |
| `Processes` | process control; implements `ProcessStack` | `Processes_proofs` |
| `MCProcesses` | constants for TLC | |
| `LineDiscipline` | abstract: an edited line queue | |
| `Terminal` | keyboard handler and `terminal_read`, access by access; implements `LineDiscipline` | `Terminal_proofs` |
| `Screen` | `putc`, the scroll-back buffer and the keys that draw | `Screen_proofs` |
| `Interrupts` | controllers, descriptor table, entry and exit of the kernel, nesting | `Interrupts_proofs` |
| `Rtc` | driver, handler and chip | `Rtc_proofs` |
| `FileStream` | abstract: independent streams of bytes and names | |
| `Files` | file system and its descriptors; implements `FileStream` | `Files_proofs` |
| `MCFiles` | an image for TLC | |
| `Library` | the C library over a small memory | `Text_proofs` |
| `Grep` | the program grep | `Text_proofs` |
| `Shell` | shell, parser, argument buffers; composed with `Grep` | `Text_proofs` |
| `MCShell` | lines and texts for TLC | |
| `BlinkList` | abstract: a list of blinking locations | |
| `Blink` | `blink.S` and the slot pool; implements `BlinkList` | `Blink_proofs` |

Operators named "Mutant" in the component modules are wrong variants of the operator
that follows them. No specification uses them; they serve to show that each property
fails when the code is changed that way.

How the modules fit together: `Interrupts` is the frame of the kernel. It shows that
a device handler's work is not interrupted (`HandlersAtomic`), and `Terminal`,
`Screen` and `Rtc` take a handler as one step for that reason; that programs and
system functions run with interrupts on (`Interruptible`), on which the fairness of
`Terminal` and `Rtc` rests; and it takes from `Processes` only how many programs
wait. `Shell` is the path from a typed line (`Terminal`) over the parser to a
program that reads files (`Files`) until the shell prompts again.

### Processes

A system call is one action: nothing else can enter process control while it runs. A
process is its `process_num`, which also names its page frame, PCB and kernel stack
region. `Execute` follows `system_execute`: the page and image come from
`process_total`, but the PCB is found by masking the stack pointer (`PcbAt`) and the
child's number is the parent's plus one, as in the code; that these give the same
process is a theorem, not an assumption. A kernel stack pointer is a region and a
depth. `HaltChild` undoes the switch from what the child's PCB recorded; `HaltFirst`
executes the shell again, and the loop that clears descriptors is then never
reached. `PageFault` is `halt(256)`. A refused `execute` still replaces the global
`argument`.

Loading an image is one assignment to `frame`. Devices that `open` resets belong to
the modules of those devices. `StackRoom` bounds how deep a kernel stack may grow:
each command that ends leaves `tss.esp0` one frame lower (see `parent_stack` below),
and when the stack reaches the PCB the behaviour is undefined; `Execute` stops
there.

### Terminal

The handler is one step per key. `terminal_read` is cut at each access to what the
handler shares; the kernel is built without optimisation, so `x -= e` is a load and
a store, and memmove's count is evaluated before the copy. Where the code would
index before the buffer or copy a negative count, `pc` becomes `"fault"` and the
model stops. Modifier keys decide only which character arrives and are left to the
choice of keys.

Two page faults can halt a program in the middle of a read, and leave the variables
as they are: that of the keyboard handler when a Backspace writes outside video
memory (`BackspaceFaults`, at any access), and that of the copy into a buffer that
the program has not mapped (`CopyFaults`). `cut_short` records that a read was
halted with its line taken and the flag still up: the next reader leaves its loop
and finds no line, and `FlagMeansLine` says that no other reader does.

`careless`, chosen once, says whether the typist types while a line waits and
programs pass buffers that are not mapped. A typist who is not careless types a
line, ends it when a program is reading, and waits; `ImplementsLineDiscipline` and
`LineReturned` are about that one (whose Backspace may fault), `TypeOK` and
`FlagMeansLine` about both.

### Screen

Each half of `putc` has a cursor and a memory; `start_line` is the line of the
buffer shown at the top. A program's `putc` is cut after the cursor has moved
(`PrintStores`), after the screen has scrolled and told the chip (`PrintScrolls`),
where `update_cursor`'s argument is loaded (`PrintLoads`), after its port writes
(`PrintShows`) and at the buffer's half (`PrintSaves`); the four port writes of
`update_cursor` are one step. The keys are one step each. With `Interrupted` keys
arrive at all these cuts, without it between characters only; with `Interrupted`
nothing is claimed but that `screen_hang`'s property fails. `CanRewind` is the
condition under which `putc`'s first loop ends. A key whose `putc` would not end
sets `state` to `"hung"`.

How many characters Backspace may take off is decided by the line buffer, and that
bounds nothing on the screen: lines that are read leave stale line ends behind, and
a Ctrl-L between a read's load and store leaves characters to erase on a cleared
screen. So `Backspace` goes back or not, at any time, without limit. Outside the
page its store faults (`pc` is `"faulted"`); the fault's message is printed with
`putc` (`FaultPrints`) and the program's own `putc` never resumes. Above the screen
the message faults in its turn, and so on: `state` is `"fault"` for good.
`boot_line` and `erased` are history: scroll-back cannot show what was printed
before `scroll_init` blanked the buffer, and Backspace and Ctrl-L do not treat the
two memories alike.

### Interrupts

`frames` is the stack of contexts entered and not left: boot, programs, handlers,
system calls. The top one runs. Each controller keeps requests, lines in service, its
mask and the special mask mode; a request is deliverable by the 8259's priorities.
`Interrupt` goes through `Gate`, `Stub` and `interrupt_jump_table`, so a vector
without a handler would show in `TypeOK`. The two handlers are cut at their
acknowledgements; a keyboard interrupt without a key in the controller skips the first
one and the key, and ends its line only at its end (`KeyboardNoKey`). A system call is
cut at its `sti`, its function, `return_val` and its return. `Halt` gives up every
context since the program began, as `system_halt` does by loading the parent's stack
pointer. `PageFault` can happen in a program, in a system function that uses a pointer
its caller passed (`Dereferencing`), and in the keyboard handler (Backspace, see
`Screen`); each time it halts the program on top.

Taken from the chips' manuals and not from the code: the first initialisation word
clears a chip's mask, so the slave's lines are open until `rtc_init` writes its
mask, and devices behind it other than the clock are assumed silent; the command
`EOI | 8` that `send_eoi` also writes to the master sets the special mask mode.

### Rtc

Each port access and each access to `rtc_interrupt_occur` is a step. The chip is
modelled from how the driver uses it: the index register, the rate, the enable bit
and the flag of register C that holds back the next interrupt until it is read.

### Files

The image is a constant with the shape that the image builder gives it: inodes,
blocks, entries with different names, the directory first. `file_read` is a loop of
`read_data` requests, each limited by the end of the block and of the file; each
request is a step (`ReadData`). The directory's cursor and the entry read ahead are
globals, as in the code. Halting a process frees its descriptors and calls no
`close`, so the cursor stays where it was; the first shell's descriptors stay open
when it halts (`Process` is the set of the others).

`OneDirectory` says whether programs open the directory only when no other
descriptor is on it. It is a condition on the programs, not on the kernel. `ls` and
`grep`, the programs that list it, open it once; they never close it, and halting
frees the descriptor. (`syserr` opens several and reads none.)

### Library

An assembly loop is the sequence of moves it makes, each seeing what earlier moves
wrote. `df` is the direction flag: a backward `memmove` sets it and nothing clears
it but the next `cld`. A word is `WORD` bytes and an integer `HEX` hexadecimal
digits. `printf` shares no state with the rest and is called from one memory only
(`PrintsFrom`).

### Grep, Shell

`Grep` follows `do_one_file`: read a chunk behind what is kept, find the end of a
line, keep an unfinished line or search it. The buffer is a local array that nothing
initialises, in a page frame that no `execute` clears, so each file finds in it
anything (`Garbage`, chosen anew at `OpenNext`), ends of lines included. The code
compares the byte behind the data with a newline. Where the chunk fills the buffer
no read has written that byte; `beyond` remembers what it was, and
`GrepFindsLines` excludes a newline there: it would make grep search an unfinished
line early. Texts may hold NUL, as the programs in the directory do: `strcpy` then
keeps the unfinished line only up to it (`KeepUnfinished`), and a line is printed
only up to it (`StringOf`). `GrepFindsLines` is about texts without NUL.

`Shell` has the line as typed as history; `Command` and `Argument` are
`sys_execute_parse`, whose argument reaches the program through the kernel's buffer
and the PCB's. Programs other than grep are their status, and need not end:
pingpong runs for ever, and hello, counter and a shell in the shell wait for a line
(`StartProgram`, `ProgramEnds`).

### Blink

`blink_array` is the pool, the list is followed through `next`. `Sync` draws what
the code draws: its conditional move (`cmovl` after a `testb`) is never taken.
Locations whose screen cell is not drawn by one entry alone are in `mixed`. Location
0 is never added, because the allocator takes a slot with location 0 as free; fish's
lowest location is 40.

## 3. The runs

| Run | Result | What it shows |
|---|---|---|
| `processes` | pass | Records of who runs agree; parents can be resumed; consoles are at descriptors 0 and 1; dead descriptor arrays are clear; waiting programs are untouched; `Processes` implements `ProcessStack` |
| `parent_stack` | violated | After a command the parent's `tss.esp0` is one frame lower than before it |
| `terminal` | pass | With keys between any two accesses and reads halted anywhere, a reader that leaves its loop finds a line, but for the one named above; for a typist who waits, `Terminal` implements `LineDiscipline` and a finished line is returned |
| `offset_not_rebased` | violated | Reading one of two pending lines leaves the other's end beyond the buffer's contents |
| `screen` | pass | `putc` ends and stores inside its memories; scrolling back shows what was printed; the cursor is where the next character appears |
| `screen_hang` | violated | With keys inside a program's `putc`, the keyboard handler's `putc` can loop for ever |
| `interrupts` | pass | Handlers are atomic; lines in service are acknowledged; programs run with interrupts on; calls return their own results; an interrupt on an enabled line is taken |
| `rtc` | pass | The chip is never silenced, each read uses an interrupt of its own, reads return |
| `files` | pass | Reads deliver exact slices; with one directory reader `Files` implements `FileStream`; reads return |
| `library` | pass | Copies and fills for every overlap and alignment after any calls; strings; printed numbers denote their values |
| `shell` | pass | Command and argument are the words of the line; of texts without NUL grep prints exactly the lines with its argument, wherever chunks end and whatever its buffer held, but for a newline behind it; grep ends for every text, and the shell prompts again |
| `blink` | pass | `Blink` implements `BlinkList`; the screen shows the state of each location with one entry |

Each violated property is a statement of a comment of the code, quoted at its
definition and in the `findings` of `PROJECT.json`.

`screen_hang` in steps: the user has printed until `start_line` is one short of its
greatest value. A program prints a newline on the last line, so `screen_y` is
`NUM_ROWS`, and a key arrives before `terminal_scroll`. The handler's `putc` sees a
cursor below the screen and scrolls the window down, to its end. When the same
happens once more `scroll_down` returns at once, and `while(screen_y
>=NUM_ROWS){scroll_down();}` runs for ever with interrupts off.

### Further disagreements between code and comments

Met while modelling; the models do what the code does, and no run is about them.

* Halting the base shell executes a new one before the loop that clears descriptors
  is reached, and that call never returns (`sys_execute.c:221`); the comment says
  "halt the process, clear fds and pcbs" (`sys_execute.c:209`). The new shell keeps
  the old one's descriptors and opens the console twice more.
* `new_lines_location = 0` of Ctrl-L stands inside a comment that opens on one line
  and closes on the next (`keyboard.c:208-209`): the characters are dropped, the
  pending line ends stay (`CtrlL`). `NextLineInBuffer` fails for this as well.
* A character typed after Enter, and every `terminal_open`, lowers `read_flag`
  (`keyboard.c:250`, `terminal.c:16`), so that a read waits although a line is
  pending; the comment says "if there has been a line in the input buffer currently"
  (`terminal.c:45`). `LineReturned` is therefore about a typist who waits.
* A key that is echoed after a program's `putc` has loaded the cursor's place
  (`lib.c:247`) and before its port writes is told to the chip and then overwritten:
  the cursor stays on that character until the next one is printed. The comment says
  "the location of the new input" (`lib.c:271`). `CursorShown` is claimed without
  such keys.
* grep keeps the rest of a chunk with `strcpy` and counts all of it
  (`ece391grep.c:36-37`): of a file with NUL the bytes behind the first NUL are lost
  and older bytes stand in their place. The comment says "copy from line_start to
  last down to 0 and fix last" (`ece391grep.c:34`).
* The clock's handler selects register C between the driver's select and write of
  the rate (`rtc.c:170`): the rate is lost and the call returns 0.
* Closing one directory descriptor resets the cursor all of them share and not the
  entry read ahead (`filesyshelper.c:200`); another open descriptor then delivers
  names twice.
* `disable_irq` writes the master's mask to the slave (`i8259.c:108`); it has no
  caller.
* fish ends with `halt(-1)` when it cannot map the screen, which the shell reads as
  "no such command".
* A page fault in the keyboard handler halts the interrupted program even when that
  program is inside `halt`; `process_total` would then be decremented twice for one
  program. `Processes` takes a call to be one step and does not contain this.

### Bounds, and why they are enough

* `Processes.cfg`: three live processes (a running one, a waiting one that is itself
  a child, and the first), three descriptors (the console and one more), a kernel
  stack that has room for three finished commands, so that the drift of `esp0` meets
  deeper executes; two programs, one file that is no program, two argument strings.
* `Terminal.cfg`: up to two characters of two kinds in a line of the buffer of
  three, up to three pending lines, and a caller's buffer of two bytes: lines are
  shorter than, as long as and longer than what fits. `OffsetNotRebased.cfg`: one
  kind of character and a buffer in which every line fits. `Enter` stops when
  `new_lines` is full, which the code does not check, and no fault halts a read while
  `input_location` is negative, as it would fall without end. Deadlock is not checked,
  because after `"fault"` the model stops.
* `Screen.cfg`, `ScreenHang.cfg`: a screen of two by two cells, a buffer of two
  screens, one character besides newline. Lines wrap, the screen and the buffer
  scroll, the window reaches both its ends. `VIDEO_CELLS` is 5 in `Screen.cfg`: a
  cursor scrolled one row below the screen stores there in its first column and
  faults in its second. In `ScreenHang.cfg` it is 12, so that no fault is needed.
  Deadlock is not checked, because `"hung"` and `"fault"` end a behaviour.
* `Interrupts.cfg`: two programs on top of each other; system-call numbers below, at
  and above the bounds, with halt, execute and one ordinary function; the timer,
  keyboard and clock lines; three interrupts, so that handlers nest behind their
  `sti` and at their return. Deadlock is not checked, because an exception other
  than a page fault stops the machine, as in the code.
* `Rtc.cfg`: a supported rate twice and an unsupported one; counters stop at
  `MaxTick` = 4, the code's wrap at 2^32.
* `Files.cfg`: blocks of two bytes; a file that ends inside its second block, one
  that fills its block exactly, an empty one; requests of 0, 1, 2 and 8 bytes:
  below, at and above a block and the file's length, from every position; two
  descriptors of two processes.
* `Library.cfg`: six bytes of two values and words of two bytes: every alignment,
  every overlap either way, and every memory as a start. Integers of two
  hexadecimal digits: every value, the most negative one included.
* `Shell.cfg`: every line of up to five letters and spaces, every text of up to four
  letters, newlines and NULs, chunks of two, and every first contents of the buffer
  of a letter or a newline in each place: a line ends before, at and after a chunk's
  end, and may be longer than the buffer. The parser's arrays hold six characters.
  One file in the directory: a file finds nothing of the one before that `Garbage`
  does not have.
* `Blink.cfg`: three slots and two locations, so that a location is added twice and
  the pool runs out; a countdown is a word whose sign bit is 2 (`SIGN_BIT`), so that
  counting reaches the sign; in the code it is 2^15.

### Fairness

* `Terminal`, `ReadStep`: a read that can move does. Interrupt handlers return and
  nothing else runs. Keys need no fairness.
* `Rtc`: the chip keeps ticking; a pending request is taken, since no code leaves
  interrupts off; the call moves on.
* `Files`, `ReadStep`: a system call that has started runs until it returns.
* `Interrupts`, `Cpu`: a processor that has not stopped executes its next
  instruction or takes an interrupt. Devices need not raise anything.
* `Shell`, `Proceeds`: the shell, the kernel and grep go on. Nobody has to type, and
  no program but grep has to end (`ProgramEnds` is not in `Proceeds`).

## 4. The proofs

All hold for every value of the constants that satisfies the named assumptions of
the component module.

* `Processes_proofs`. `ProcessAssumption` asks only that there is room for a process
  with a console and for one execute on a kernel stack. The inductive invariant
  `IInv` is `TypeOK`, `CurrentAgrees`, `ParentChain`, `ConsoleFds` and `DeadFdsFree`
  together with a bound on `esp0` and on the saved stack pointers: without the
  bound, masking a stack pointer could give the PCB of the next process, and then
  nothing else would hold. From it follow `TypeCorrect`, `CurrentAlwaysAgrees`,
  `ParentsAlwaysResumable`, `DescriptorsSafe`, `NothingInherited`,
  `WaitingAlwaysUntouched` and, with one lemma per action,
  `ProcessesImplementStack`.
* `Files_proofs`. Lemmas about division give `ReadDataCopies`: one request copies
  between one and the requested number of bytes and each is the file's byte at its
  offset. `IInv` adds to `TypeOK` and `DataIsSlice` that a position never passes the
  end of its file, which ties one read to the next, and that an entry has been read
  ahead while a directory is open. `FilesImplementStreams` also needs `OneReader`
  (one directory descriptor, the entry read ahead is the one at the cursor), which
  is inductive when `OneDirectory` holds and is not otherwise: closing one of two
  directory descriptors breaks it. `InodeAssumption` and `DentryAssumption` are
  about the image: at most 256 inodes, because only the low byte of an inode number
  is loaded, and enough blocks for each length.
* `Terminal_proofs`. `IInv` adds to `TypeOK` what a read knows between its accesses:
  until it has removed its line the count of lines is positive, as keys only add
  lines; what it has loaded is a value the variable had; a negative length has been
  caught; and outside a read a raised flag means a line, unless `cut_short`, which a
  page fault sets exactly where it halts a read between the removal of the line and
  the flag. `FlagMeansLine` follows, for every buffer size, with type-ahead and with
  faults at every access. For `TerminalImplementsDiscipline` a careful typist adds
  `Calm`: at most one line waits, it is all the buffer holds, and while a read holds
  it no key arrives, so that removing it leaves the buffer empty. With that the lines
  the refinement mapping reads from the buffer are the lines typed, and a read takes
  one whole or cuts it to the caller's buffer. For a careless one the property claims
  nothing and the theorem is immediate.
* `Rtc_proofs`. `IInv` adds to `TypeOK`, `NeverSilenced` and `ReadsHaveTicks` that
  nothing happens before `rtc_init`, that register B is not selected when the rate
  is written, and that the flag stays up until the read lowers it.
* `Interrupts_proofs`. `IInv` adds five parts to `TypeOK`. `StackOK` says what a
  context may look like and what may lie on it: programs lie on an execute, a handler
  at work has nothing on it but the halt its fault made, and what is resumed as a
  program or a system function is resumed with interrupts on. `FlagOK` says that
  interrupts are off while a handler works and on while a program or a system function
  runs: `HandlersAtomic` and `Interruptible`. `ServiceOK` says that a line is in
  service only while its handler is the running context, and at its entry or, after a
  keyboard interrupt without a key, at its last acknowledgement: there it can neither
  be interrupted nor fault. This gives `ServiceMatched`. `ResultOK` says that
  `return_val` holds the result of a call that has stored and not reloaded it; above
  such a call there are only handlers, which make no calls, or the halt of one that
  faulted, which gives the call up: `ResultsKept`. `LinesOK` says that the timer's
  line, whose vector has no handler, is masked before interrupts are on. The lemmas
  `Placed` and `Pushed` reduce a step to the one context it changes or adds.
  Everything holds for every number of processes, every set of call numbers and
  results and every number of interrupts.

* `Screen_proofs`. All theorems assume `~Interrupted`, and need it: with keys inside a
  program's `putc` the loop can spin and the cursor be stale. The inductive part is
  `Position`: while the machine runs the cursor is not above the screen, the line of
  the text that it is on, `start_line + screen_y`, is above the last one the window
  can reach however the user scrolls, and the chip has been told the cursor's place
  (`Told`) except where a `putc` is about to. Backspace needs no bound for this: above
  the screen it faults. From it follow `PutcReturns`, `StoresInside` (with
  `LargePlace`: the buffer's cursor is inside it, but for the column that `clear`
  leaves it), `CursorShown` and `HandlerReturns`, the property that `screen_hang`
  violates. `ScrollBackFaithful` needs `Synced`, which is stated of a screen and a
  buffer rather than of the state, because within a `putc` the screen is one character
  ahead (`Ahead`): both cursors are at the same place of the text, everything behind
  it is blank, and the screen is the window of the buffer.
* `Blink_proofs`. `List` follows the pointers by recursion. `Chain` says that a
  sequence is that list: no slot twice, each entry's `next` is the one after it, the
  last one's is `NULL`; that the recursion then finds this sequence is `TraversalIs`.
  The inductive invariant says that the pointers form a chain, that every slot off
  it is clear (so that a free slot is told by its location 0) and, for
  `ShownIsState`, that entries which share a location are in `mixed` (`Shared`).
  `PoolIsAList`, `StateAlwaysShown` and `BlinkImplementsList` hold for every pool
  and every width of a countdown; that a countdown of the longest length passes
  through the sign bit and still ends is part of the last.
* `Text_proofs`, on `Library`. A loop of the model is a fold over its steps. `MovesThrough`
  and its like say that a sequence of memories `R[0]`, ..., `R[n]` is what the loop
  passes through, and `Tiles` that its blocks lie side by side and cover what the
  call was given; together they give that all the moves have the effect of one
  `Move`, provided that no move reads what an earlier one wrote. The three loops of
  `memset` and `memcpy` tile for every alignment and word size; that `memmove`
  chooses the direction in which nothing is read late is `MemmoveMoves`. Strings
  follow from the same lemmas and, for `strrev`, from the memory after `k` swaps.
  For the numbers, the digits that `itoa` takes off the low end and the value that
  `NumberOf` adds up from the high end are each other's inverse (`DigitsDenote`),
  and a number below 16^k has at most k digits (`DigitsFit`), so that `%#x` never
  pads a negative count. The invariant itself is small: memory holds bytes, and the
  direction flag does not matter, since `cld` or `std` precedes every instruction
  that reads it.
* `Text_proofs`, on `Shell` and `Grep`. `Split`, `Without`, `FoundIn` and
  `FlattenSeq`, which the properties are stated with, are folds like those loops
  (`SplitSteps`, `WithoutSteps`, `FoundSteps`, `FlattenSteps` say what one more
  character or line does to them), and the proofs follow the program and the fold side
  by side. For `EveryLineFound` the invariant `GrepInv` says where grep is in the
  text: the buffer holds what was read last, an end of line is in it only where it has
  not been searched yet, and what was printed is `FoundIn` of the text up to there, at
  a place where a line begins or ends (`Printed`). That grep may search a full buffer
  as one line without cutting a line in two is where the property's condition is used:
  a line longer than the buffer at any place of the text is still longer in the whole
  text (`FitsOnTheWay`). The two ways a line ends, at a newline or with the buffer,
  are `SearchOne` and `PassEnd`. All this is claimed of a text without NUL when no
  newline lies behind a full buffer (`Clean`, conditions of the property); of the
  buffer's first contents nothing is assumed. The buffer behind the data is stale, and
  that only the byte behind a full buffer can be mistaken for an end of line, and is
  what it was or NUL (`Behind`), is part of the invariant. For `EveryLineParsed`,
  `CommandIs` says which places of the line the parser finds, `PartGrows` that the
  first part of `Split` that is not empty is the text between them, and `After` that
  behind it the words found so far, put together, are the text without its spaces,
  which is what the parser copies; it also bounds the argument's length.

Induction. The library's induction theorems take an operator as parameter, which the
provers cannot instantiate. Where a proof about a loop or a recursive function needs
induction (`Blink_proofs`, `Text_proofs`), it takes the set of the indices where
the claim fails, which is a set and needs no operator, and derives a contradiction
from its least element (lemmas `Least` and `First`, from the well-foundedness of
`<`). That a recursive function satisfies its equation is proved by constructing it
on `0..n` for every `n`.

Model-checked only:

* The liveness properties `LineReturned`, `InterruptsTaken`, `GrepEnds` and both
  `ReadReturns`: liveness under fairness is beyond the prover.
* The three violations.

## 5. Not modelled

* Address spaces: `vidmap`'s mapping, which outlives its program, page tables and
  the descriptor tables (`paging.c`, `x86_desc.S`, `boot.S`, `kernel.c`).
  Straight-line set-up that runs once; of boot only the order that decides which
  interrupts can arrive is in `Interrupts`.
* `key_flags` and the key maps: which character a scan code and the modifiers give.
* `disable_irq`, `rtc_reset` and `test_interrupts`, which have no caller. The tests
  of `tests.c`: `RUN_TESTS` is defined, but `launch_tests` only clears the screen.
* The other programs (`cat`, `ls`, `counter`, `pingpong`, `hello`, `sigtest`,
  `syserr`, `testprint`): loops around calls whose effect the kernel's modules have.
* `add_frames` of fish, which decides what is added, and `mp1_ioctl_find`, which
  changes nothing and which fish does not call; `strncmp` and printf's text.
* The Linux emulation, which calls glibc, and build files.
* What happens past a bound the code does not check: more than 128 pending lines, a
  kernel stack that has grown into its PCB, a name longer than the caller's buffer,
  and a command without arguments that fills the line (the parser's array is then
  one too short for the end of the string).
