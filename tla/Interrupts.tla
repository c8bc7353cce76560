------------------------------ MODULE Interrupts ------------------------------
(***************************************************************************)
(* How the kernel is entered and left: the two 8259 interrupt controllers  *)
(* (i8259.c), the interrupt descriptor table (idt.c), the entry code of    *)
(* interrupts and exceptions (isr.S), the control flow of the two device   *)
(* handlers (keyboard.c, rtc.c), and the system-call entry                 *)
(* (SystemCall.S).                                                         *)
(*                                                                         *)
(* The contexts that have been entered and not left are a stack, frames;   *)
(* the top one runs.  The CPU takes a deliverable interrupt before its     *)
(* next instruction when the interrupt flag is set.  The boot code is the  *)
(* bottom context.  What the handlers do to the line buffer, the screen    *)
(* and the clock's flag is the subject of Terminal, Screen and Rtc, which  *)
(* take a handler to be one step: HandlersAtomic is why they may.          *)
(***************************************************************************)
EXTENDS Integers, Sequences, FiniteSets

CONSTANTS MAXIMUM_PROCESS,
          Number,             \* system-call numbers that programs use
          Value,              \* what programs halt with and functions return
          Device,             \* lines whose devices raise interrupts
          MaxRaised           \* bound: interrupts of keyboard and clock

KEYBOARD_IRQ == 1
RTC_IRQ      == 8
SLAVE_IRQ    == 2
IRQ_TOTAL    == 8
Line         == 0..15

ASSUME InterruptsAssumption ==
    /\ MAXIMUM_PROCESS \in Nat \ {0}
    /\ Number \subseteq Int
    /\ Value \subseteq Int
    /\ Device \subseteq 0..1 \cup {RTC_IRQ}
    /\ MaxRaised \in Nat

\* -1 for a call that is refused, 256 for a program that faulted.
Result == Value \cup {-1, 0, 256}

VARIABLES frames,       \* contexts, the running one last
          IF_,          \* the CPU's interrupt flag
          mask,         \* master_mask and slave_mask, as masked lines
          pic,          \* both chips: mask, requests, in service, special mode
          clock,        \* the clock chip: enabled, and register C not read
          return_val,   \* where a system call keeps its result while it returns
          raised,       \* interrupts raised so far
          dead          \* an exception handler loops with interrupts off

vars == <<frames, IF_, mask, pic, clock, return_val, raised, dead>>

Context(code, at, saved) ==
    [code |-> code, at |-> at, saved |-> saved, number |-> 0, eax |-> 0, result |-> 0]

Call(n, arg, saved) ==
    [code |-> "syscall", at |-> "entry", saved |-> saved,
     number |-> n, eax |-> arg, result |-> 0]

Init == /\ frames = <<Context("boot", "pic", FALSE)>>
        /\ IF_ = FALSE
        /\ mask = Line
        /\ pic = [imr |-> {}, irr |-> {}, isr |-> {}, smm |-> FALSE]
        /\ clock = [enabled |-> FALSE, unread |-> FALSE]
        /\ return_val = 0
        /\ raised = 0
        /\ dead = FALSE

Top       == frames[Len(frames)]
At(c, l)  == Top.code = c /\ Top.at = l
Goto(l)   == [frames EXCEPT ![Len(frames)].at = l]
User      == {i \in 1..Len(frames) : frames[i].code = "user"}

-----------------------------------------------------------------------------
(* The controllers *)

\* Mutant: the bit of the neighbouring line is cleared too.
EnabledTwo(m, irq) == m \ {irq, irq - 1}

\* enable_irq clears a bit of its copy of the mask and writes the copy.
Enabled(m, irq) == m \ {irq}

\* The lines of the chip that irq is on.
Chip(irq) == IF irq < IRQ_TOTAL THEN 0..7 ELSE 8..15

enable_irq(irq) ==
    /\ mask' = Enabled(mask, irq)
    /\ pic' = [pic EXCEPT !.imr = (@ \ Chip(irq)) \cup (mask' \cap Chip(irq))]

\* A command EOI | n to the master.  With n = 8 it is no end of interrupt: it
\* sets the special mask mode, in which a masked line in service blocks none.
MasterEOI(p, n) ==
    IF n < IRQ_TOTAL THEN [p EXCEPT !.isr = @ \ {n}] ELSE [p EXCEPT !.smm = TRUE]

\* Mutant: the master is not told about an interrupt of the slave.
EndOfSlaveOnly(p, irq) ==
    MasterEOI([p EXCEPT !.isr = @ \ (IF irq < IRQ_TOTAL THEN {} ELSE {irq})], irq)

\* send_eoi; for a line of the slave it writes the master twice.
EndOfInterrupt(p, irq) ==
    MasterEOI(IF irq < IRQ_TOTAL THEN p
              ELSE MasterEOI([p EXCEPT !.isr = @ \ {irq}], SLAVE_IRQ), irq)

Blocking == pic.isr \ (IF pic.smm THEN pic.imr \cap Chip(0) ELSE {})

\* The line of the master a request goes through, and the order of requests.
Through(l) == IF l < IRQ_TOTAL THEN l ELSE SLAVE_IRQ
Rank(l)    == 16 * Through(l) + l

\* A line in service holds back the later lines of its chip, and a line of the
\* master also those of the slave behind it.
Blocks(s, l) == Chip(s) \in {Chip(l), Chip(0)} /\ Rank(s) <= Rank(l)

Deliverable ==
    {l \in pic.irr \ pic.imr :
        /\ Through(l) \notin pic.imr
        /\ \A s \in Blocking : ~Blocks(s, l)}

-----------------------------------------------------------------------------
(* The interrupt descriptor table and the entry code *)

\* Mutant: every gate is a trap gate, which leaves the interrupt flag alone.
GateTrap(v) == "trap"

Gate(v) == IF v < 32 THEN "trap" ELSE "interrupt"

\* interrupt_jump_table, by its .rept groups.
interrupt_jump_table ==
    [v \in 0..128 |->
        CASE v < 32         -> "exception"
          [] v = 33         -> "keyboard"
          [] v = 40         -> "rtc"
          [] v \in 41..127  -> "exception"
          [] v = 128        -> "syscall"
          [] OTHER          -> "none"]

\* What the stub of a vector pushes: the unused exceptions share the stub of
\* vector 1, and interrupts push the complement of their vector.
Stub == [v \in 0..31 \cup {33, 40} |->
            IF v < 20 THEN v ELSE IF v < 32 THEN 1 ELSE -v - 1]

\* common_handler undoes the complement and calls through the table.  The
\* entries of the other vectors are present and hold no address.
Handler(v) ==
    IF v \notin DOMAIN Stub THEN "none"
    ELSE interrupt_jump_table[IF Stub[v] < 0 THEN -Stub[v] - 1 ELSE Stub[v]]

Vector(l) == 32 + l

Interrupt(l) ==
    /\ pic' = [pic EXCEPT !.irr = @ \ {l}, !.isr = @ \cup {l, Through(l)}]
    /\ frames' = Append(frames, Context(Handler(Vector(l)), "entry", IF_))
    /\ IF_' = (IF_ /\ Gate(Vector(l)) = "trap")
    /\ UNCHANGED <<mask, clock, return_val, raised, dead>>

\* The end of common_handler, and of the system-call entry.
Iret ==
    /\ Top.at = "exit"
    /\ frames' = SubSeq(frames, 1, Len(frames) - 1)
    /\ IF_' = Top.saved
    /\ UNCHANGED <<mask, pic, clock, return_val, raised, dead>>

-----------------------------------------------------------------------------
(* Boot *)

\* i8259_init.  The first initialisation word clears a chip's mask, and only
\* the master's is written again before rtc_init.
i8259_init ==
    /\ At("boot", "pic")
    /\ mask' = Enabled(mask, SLAVE_IRQ)
    /\ pic' = [imr |-> mask' \cap 0..7, irr |-> {}, isr |-> {}, smm |-> FALSE]
    /\ IF_' = TRUE
    /\ frames' = Goto("restore")
    /\ UNCHANGED <<clock, return_val, raised, dead>>

restore_flags ==
    /\ At("boot", "restore")
    /\ IF_' = FALSE
    /\ frames' = Goto("keyboard")
    /\ UNCHANGED <<mask, pic, clock, return_val, raised, dead>>

keyboard_init ==
    /\ At("boot", "keyboard")
    /\ enable_irq(KEYBOARD_IRQ)
    /\ frames' = Goto("clock")
    /\ UNCHANGED <<IF_, clock, return_val, raised, dead>>

\* rtc_init turns interrupts on, before entry() would.
rtc_init ==
    /\ At("boot", "clock")
    /\ clock' = [clock EXCEPT !.enabled = TRUE]
    /\ enable_irq(RTC_IRQ)
    /\ IF_' = TRUE
    /\ frames' = Goto("execute")
    /\ UNCHANGED <<return_val, raised, dead>>

-----------------------------------------------------------------------------
(* Devices and their handlers *)

Raise(l) ==
    /\ l \notin pic.irr
    /\ l = RTC_IRQ => clock.enabled /\ ~clock.unread
    /\ l # 0 => raised < MaxRaised
    /\ pic' = [pic EXCEPT !.irr = @ \cup {l}]
    /\ clock' = IF l = RTC_IRQ THEN [clock EXCEPT !.unread = TRUE] ELSE clock
    /\ raised' = IF l = 0 THEN raised ELSE raised + 1
    /\ UNCHANGED <<frames, IF_, mask, return_val, dead>>

\* Mutant: the keyboard handler acknowledges only at its end.
KeyboardUnacknowledged ==
    /\ At("keyboard", "entry")
    /\ IF_' = FALSE
    /\ frames' = Goto("key")
    /\ UNCHANGED <<mask, pic, clock, return_val, raised, dead>>

\* keyboard_interrupt_handler: a key is read and acknowledged ...
KeyboardEntry ==
    /\ At("keyboard", "entry")
    /\ IF_' = FALSE
    /\ frames' = Goto("key")
    /\ pic' = EndOfInterrupt(pic, KEYBOARD_IRQ)
    /\ UNCHANGED <<mask, clock, return_val, raised, dead>>

\* ... or there is none to read, and the handler goes on to its end ...
KeyboardNoKey ==
    /\ At("keyboard", "entry")
    /\ IF_' = FALSE
    /\ frames' = Goto("last")
    /\ UNCHANGED <<mask, pic, clock, return_val, raised, dead>>

\* ... the key is handled ...
KeyboardKey ==
    /\ At("keyboard", "key")
    /\ frames' = Goto("last")
    /\ UNCHANGED <<IF_, mask, pic, clock, return_val, raised, dead>>

\* ... and the line is acknowledged, of a key for the second time.
KeyboardEnd ==
    /\ At("keyboard", "last")
    /\ pic' = EndOfInterrupt(pic, KEYBOARD_IRQ)
    /\ IF_' = TRUE
    /\ frames' = Goto("exit")
    /\ UNCHANGED <<mask, clock, return_val, raised, dead>>

\* rtc_interrupt_handler
RtcEntry ==
    /\ At("rtc", "entry")
    /\ IF_' = FALSE
    /\ frames' = Goto("last")
    /\ pic' = EndOfInterrupt(pic, RTC_IRQ)
    /\ UNCHANGED <<mask, clock, return_val, raised, dead>>

RtcEnd ==
    /\ At("rtc", "last")
    /\ clock' = [clock EXCEPT !.unread = FALSE]
    /\ IF_' = TRUE
    /\ frames' = Goto("exit")
    /\ UNCHANGED <<mask, pic, return_val, raised, dead>>

-----------------------------------------------------------------------------
(* System calls *)

syscall_jump_table ==
    <<"halt", "execute", "read", "write", "open", "close", "getargs", "vidmap",
      "set_handler", "sigreturn">>

\* INT 0x80 of a program ...
UserCalls ==
    /\ Top.code = "user"
    /\ \E n \in Number, a \in Value : frames' = Append(frames, Call(n, a, IF_))
    /\ IF_' = FALSE
    /\ UNCHANGED <<mask, pic, clock, return_val, raised, dead>>

\* ... and of entry(), which waits in a loop of hlt if it ever comes back.
BootExecutes ==
    /\ At("boot", "execute")
    /\ frames' = Append(Goto("halted"), Call(2, 0, IF_))
    /\ IF_' = FALSE
    /\ UNCHANGED <<mask, pic, clock, return_val, raised, dead>>

BadNumber ==
    /\ At("syscall", "entry")
    /\ Top.number <= 0 \/ Top.number > 10
    /\ frames' = [frames EXCEPT ![Len(frames)] =
                     [@ EXCEPT !.at = "exit", !.eax = -1, !.result = -1]]
    /\ UNCHANGED <<IF_, mask, pic, clock, return_val, raised, dead>>

\* Mutant: the system function runs with interrupts off.
DispatchOff ==
    /\ At("syscall", "entry")
    /\ Top.number \in 1..10
    /\ frames' = Goto(syscall_jump_table[Top.number])
    /\ UNCHANGED <<IF_, mask, pic, clock, return_val, raised, dead>>

Dispatch ==
    /\ At("syscall", "entry")
    /\ Top.number \in 1..10
    /\ IF_' = TRUE
    /\ frames' = Goto(syscall_jump_table[Top.number])
    /\ UNCHANGED <<mask, pic, clock, return_val, raised, dead>>

\* The stack when the call in context i has got its result.
Answered(i, r) ==
    [SubSeq(frames, 1, i) EXCEPT ![i] = [@ EXCEPT !.at = "store", !.result = r]]

Running == Top.code = "syscall" /\ \E n \in 1..10 : Top.at = syscall_jump_table[n]

FunctionReturns ==
    /\ Running /\ Top.at # "halt"
    /\ \E r \in IF Top.at = "execute" THEN {-1} ELSE Result :
           frames' = Answered(Len(frames), r)
    /\ UNCHANGED <<IF_, mask, pic, clock, return_val, raised, dead>>

\* system_execute leaves for the program with the interrupt flag set.
Execute ==
    /\ At("syscall", "execute")
    /\ Cardinality(User) < MAXIMUM_PROCESS
    /\ frames' = Append(frames, Context("user", "user", FALSE))
    /\ IF_' = TRUE
    /\ UNCHANGED <<mask, pic, clock, return_val, raised, dead>>

\* Mutant: the parent resumes behind the store of the result.
HaltSkipsStore ==
    /\ At("syscall", "halt")
    /\ \E child \in User :
           /\ \A u \in User : u <= child
           /\ frames' = IF Cardinality(User) = 1 THEN SubSeq(frames, 1, child)
                        ELSE [Answered(child - 1, Top.eax) EXCEPT ![child - 1].at = "reload"]
    /\ IF_' = TRUE
    /\ UNCHANGED <<mask, pic, clock, return_val, raised, dead>>

\* system_halt: whatever was entered since the program began is given up, and
\* the status is the result of its parent's execute.  The first program is
\* replaced by a new shell.
Halt ==
    /\ At("syscall", "halt")
    /\ \E child \in User :
           /\ \A u \in User : u <= child
           /\ frames' = IF Cardinality(User) = 1 THEN SubSeq(frames, 1, child)
                        ELSE Answered(child - 1, Top.eax)
    /\ IF_' = TRUE
    /\ UNCHANGED <<mask, pic, clock, return_val, raised, dead>>

\* The result goes to return_val with interrupts on ...
StoreResult ==
    /\ At("syscall", "store")
    /\ return_val' = Top.result
    /\ frames' = Goto("reload")
    /\ UNCHANGED <<IF_, mask, pic, clock, raised, dead>>

\* ... and comes back behind popfl, with the flags of the entry.
ReloadResult ==
    /\ At("syscall", "reload")
    /\ IF_' = FALSE
    /\ frames' = [frames EXCEPT ![Len(frames)] = [@ EXCEPT !.at = "exit", !.eax = return_val]]
    /\ UNCHANGED <<mask, pic, clock, return_val, raised, dead>>

-----------------------------------------------------------------------------
(* Exceptions *)

\* A program's exception other than a page fault, and a software interrupt
\* through a gate that is not its own: the handler never returns.
Exception ==
    /\ Top.code = "user"
    /\ dead' = TRUE /\ IF_' = FALSE
    /\ UNCHANGED <<frames, mask, pic, clock, return_val, raised>>

\* The functions that access memory through a pointer of their caller.
Dereferencing == {"execute", "read", "write", "open", "getargs", "vidmap"}

\* PAGE_FAULT_handler calls halt(256): in a program, in a system function that
\* a program gave a bad pointer, or in the keyboard handler when Backspace
\* writes below a screen that is scrolled back.
PageFault ==
    /\ User # {}
    /\ \/ Top.code = "user"
       \/ Top.code = "syscall" /\ Top.at \in Dereferencing
       \/ At("keyboard", "key")
    /\ frames' = Append(frames, Call(1, 256, FALSE))
    /\ IF_' = FALSE
    /\ UNCHANGED <<mask, pic, clock, return_val, raised, dead>>

-----------------------------------------------------------------------------

Step == \/ i8259_init \/ restore_flags \/ keyboard_init \/ rtc_init
        \/ KeyboardEntry \/ KeyboardNoKey \/ KeyboardKey \/ KeyboardEnd
        \/ RtcEntry \/ RtcEnd
        \/ UserCalls \/ BootExecutes \/ BadNumber \/ Dispatch \/ FunctionReturns
        \/ Execute \/ Halt \/ StoreResult \/ ReloadResult \/ Iret
        \/ Exception \/ PageFault

Takes == IF_ /\ Deliverable # {}

Cpu == /\ ~dead
       /\ \/ Takes /\ \E l \in Deliverable :
                 /\ \A k \in Deliverable : Rank(l) <= Rank(k)
                 /\ Interrupt(l)
          \/ ~Takes /\ Step

Next == Cpu \/ \E l \in Device : Raise(l)

\* A CPU that is not halted in a handler goes on.
Spec == Init /\ [][Next]_vars /\ WF_vars(Cpu)

-----------------------------------------------------------------------------
(* Properties *)

Work == {"entry", "key", "last"}

Function == {"halt", "execute", "read", "write", "open", "close", "getargs", "vidmap",
             "set_handler", "sigreturn"}

Place == {"pic", "restore", "keyboard", "clock", "halted", "user", "exit", "store", "reload"}
            \cup Work \cup Function

\* No interrupt reaches a vector without a handler: the code of every context
\* is one the kernel has, although idt.c leaves most vectors without an address.
TypeOK ==
    /\ frames \in Seq([code : {"boot", "user", "keyboard", "rtc", "syscall"},
                       at : Place, saved : BOOLEAN, number : Int,
                       eax : Result, result : Result])
    /\ frames # <<>>
    /\ IF_ \in BOOLEAN /\ dead \in BOOLEAN
    /\ mask \subseteq Line
    /\ pic \in [imr : SUBSET Line, irr : SUBSET Line, isr : SUBSET Line, smm : BOOLEAN]
    /\ clock \in [enabled : BOOLEAN, unread : BOOLEAN]
    /\ return_val \in Result
    /\ raised \in 0..MaxRaised

\* The work of a device handler is never interrupted: a handler that is not on
\* top has finished, and waits only for its return.  The gates close before
\* the handler's own cli, and its sti comes after the last thing it changes.
\* (A handler that faults in its work stays below halt, which gives it up.)
HandlersAtomic ==
    \A i \in 1..(Len(frames) - 1) :
        frames[i].code \in {"keyboard", "rtc"} /\ frames[i].at \in Work =>
            frames[i + 1].code = "syscall" /\ frames[i + 1].number = 1

\* A line in service belongs to a handler that is still to acknowledge it, the
\* keyboard's at its end if there was no key: neither nesting nor a program halted from inside a handler leaves a line in
\* service that nobody will end, which would silence the line for good.
ServiceMatched ==
    /\ KEYBOARD_IRQ \in pic.isr =>
           \E i \in DOMAIN frames : frames[i].code = "keyboard" /\ frames[i].at \in {"entry", "last"}
    /\ pic.isr \cap {SLAVE_IRQ, RTC_IRQ} # {} =>
           \E i \in DOMAIN frames : frames[i].code = "rtc" /\ frames[i].at = "entry"

\* Programs and system functions always run with interrupts on, however they
\* were entered or came to run again: those that spin for a key or a tick
\* would wait forever otherwise.
Interruptible == Top.code = "user" \/ Running => IF_ \/ dead

\* Every system call returns the result of its own function although all of
\* them, nested as programs are, pass it through the one return_val.
ResultsKept ==
    \A i \in DOMAIN frames :
        frames[i].code = "syscall" /\ frames[i].at = "exit" => frames[i].eax = frames[i].result

\* An interrupt raised on an enabled line is taken, unless the machine has
\* stopped in an exception handler.
InterruptsTaken ==
    \A l \in {KEYBOARD_IRQ, RTC_IRQ} :
        l \in pic.irr /\ l \notin mask ~> l \notin pic.irr \/ dead
=============================================================================
