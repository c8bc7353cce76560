------------------------------ MODULE Processes ------------------------------
(***************************************************************************)
(* Process control of the kernel: system_execute and system_halt           *)
(* (sys_execute.c), the open and close system calls on the descriptor      *)
(* array of a PCB (systemcall_function.c), the page that maps the running  *)
(* program (paging.c) and the stack pointer the processor loads when a     *)
(* program enters the kernel (tss.esp0).                                   *)
(*                                                                         *)
(* A process is known by its process_num, which also names its page frame, *)
(* its PCB and its 8 KiB kernel stack region.  System calls run to         *)
(* completion before the next one starts (one processor, no scheduler), so *)
(* each is one action.  The devices that open resets (the terminal's       *)
(* read_flag, the RTC's rate, the directory cursor) are the state of other *)
(* modules.  Memory that holds PCBs is zero at boot, as the emulator       *)
(* leaves it: execute never clears a descriptor array.                     *)
(***************************************************************************)
EXTENDS Integers

CONSTANTS MAXIMUM_PROCESS,   \* one more than the processes that can be live
          MAX_FILES_NUMBER,  \* descriptors of a process
          Program,           \* names of the executables on the boot image
          NonProgram,        \* names that are absent or fail the magic check
          Shell,
          Arg, NoArg,        \* what follows the first word of a command
          Status,            \* what programs pass to halt
          STACK_SIZE,        \* PROCESS_CONTROL_BLOCK: one kernel stack region
          PCB_SIZE,          \* the PCB at the low end of that region
          FRAME,             \* what a system call up to execute's switch pushes
          Started,           \* the program has not yet returned from a call
          Free               \* a descriptor whose flags are 0

ASSUME ProcessAssumption ==
    /\ MAXIMUM_PROCESS \in Nat /\ MAXIMUM_PROCESS > 1
    /\ MAX_FILES_NUMBER \in Nat /\ MAX_FILES_NUMBER > 1
    /\ Shell \in Program /\ Program \cap NonProgram = {}
    /\ NoArg \in Arg
    /\ Status \subseteq Int
    /\ STACK_SIZE \in Nat /\ PCB_SIZE \in Nat /\ FRAME \in Nat
    /\ FRAME > 0 /\ PCB_SIZE > 0
    /\ PCB_SIZE + FRAME + 1 <= STACK_SIZE
    /\ Started \notin Int

\* The operation tables a descriptor can point to.
Kind == {"stdin", "stdout", "rtc", "dir", "file"}

ASSUME FreeAssumption == Free \notin Kind

Num == 1..(MAXIMUM_PROCESS - 1)
Fd  == 0..(MAX_FILES_NUMBER - 1)

VARIABLES process_total,  \* live processes
          current_pcb,    \* the process whose PCB current_pcb points to, 0: NULL
          pcb,            \* the PCBs, by process_num
          page,           \* the frame mapped at 128 MB, by process_num
          frame,          \* the program image in each frame
          esp0,           \* tss.esp0
          argument,       \* the global that sys_execute_parse fills
          eax             \* what the last system call returned to the program

vars == <<process_total, current_pcb, pcb, page, frame, esp0, argument, eax>>

\* A kernel stack pointer: the process whose region it was set to the top of,
\* and how far below that top it points.
StackPointer == [stack : 0..(MAXIMUM_PROCESS - 1), used : Nat]

PCB == [process_num        : 0..(MAXIMUM_PROCESS - 1),
        parent_process_num : 0..(MAXIMUM_PROCESS - 1),
        parent_pcb         : 0..(MAXIMUM_PROCESS - 1),
        parent_kesp        : StackPointer,
        fd_array           : [Fd -> Kind \cup {Free}],
        argbuf             : Arg]

NullStack == [stack |-> 0, used |-> 0]

ZeroPCB == [process_num |-> 0, parent_process_num |-> 0, parent_pcb |-> 0,
            parent_kesp |-> NullStack, fd_array |-> [fd \in Fd |-> Free],
            argbuf |-> NoArg]

Init == /\ process_total = 0
        /\ current_pcb = 0
        /\ pcb = [n \in Num |-> ZeroPCB]
        /\ page = 0
        /\ frame = [n \in Num |-> Shell]
        /\ esp0 = [stack |-> 1, used |-> 0]
        /\ argument = NoArg
        /\ eax = Started

-----------------------------------------------------------------------------
(* Kernel stack pointers *)

\* KERNEL_STACK - PROCESS_CONTROL_BLOCK * (n - 1) - 4
StackTop(n) == [stack |-> n, used |-> 1]

Push(sp, k) == [sp EXCEPT !.used = @ + k]

\* Mutant: the mask keeps only the first region's address.
PcbAtBase(sp) == 1

\* sp & PCB_ADDR_MASK: the PCB at the low end of the region sp points into;
\* the region below belongs to the next process.
PcbAt(sp) == IF sp.used <= STACK_SIZE THEN sp.stack ELSE sp.stack + 1

\* Executing once more does not write over the PCB of the running process.
\* Beyond this bound what the kernel does is undefined, and Execute stops.
StackRoom == esp0.used + FRAME <= STACK_SIZE - PCB_SIZE

-----------------------------------------------------------------------------
(* The descriptor array *)

FreeFds(fds) == {fd \in Fd : fds[fd] = Free}

FirstFree(fds) == CHOOSE fd \in FreeFds(fds) : \A g \in FreeFds(fds) : fd <= g

\* system_open on a descriptor array: no change when none is free.
Opened(fds, kind) ==
    IF FreeFds(fds) = {} THEN fds ELSE [fds EXCEPT ![FirstFree(fds)] = kind]

\* Mutant: stdout is opened first.
ConsoleSwapped(fds) == Opened(Opened(fds, "stdout"), "stdin")

WithConsole(fds) == Opened(Opened(fds, "stdin"), "stdout")

\* The standard streams are known by the table; a name with no dentry fails.
Open(kind) ==
    LET fds == pcb[current_pcb].fd_array IN
    /\ process_total > 0
    /\ FreeFds(fds) # {}
    /\ pcb' = [pcb EXCEPT ![current_pcb].fd_array = Opened(fds, kind)]
    /\ eax' = FirstFree(fds)
    /\ UNCHANGED <<process_total, current_pcb, page, frame, esp0, argument>>

Close(fd) ==
    /\ process_total > 0
    /\ fd >= 2
    /\ pcb[current_pcb].fd_array[fd] # Free
    /\ pcb' = [pcb EXCEPT ![current_pcb].fd_array[fd] = Free]
    /\ eax' = 0
    /\ UNCHANGED <<process_total, current_pcb, page, frame, esp0, argument>>

\* open of a missing name or with no free descriptor, close of the console or
\* of a free descriptor: -1, and nothing of the process changes.
FdCallFails ==
    /\ process_total > 0
    /\ eax' = -1
    /\ UNCHANGED <<process_total, current_pcb, pcb, page, frame, esp0, argument>>

-----------------------------------------------------------------------------
(* execute and halt *)

\* The first process has no parent: its PCB keeps the parent stack pointer and
\* the descriptors that were there.
FirstPCB(args) ==
    [process_num |-> 1, parent_process_num |-> 1, parent_pcb |-> 1,
     parent_kesp |-> pcb[1].parent_kesp,
     fd_array |-> WithConsole(pcb[1].fd_array), argbuf |-> args]

\* Mutant: the parent's stack pointer is not saved.
ChildPCBUnsaved(child, parent, sp, args) ==
    [FirstPCB(args) EXCEPT !.process_num = pcb[parent].process_num + 1,
                           !.parent_process_num = pcb[parent].process_num,
                           !.parent_pcb = parent,
                           !.parent_kesp = pcb[child].parent_kesp]

ChildPCB(child, parent, sp, args) ==
    [process_num |-> pcb[parent].process_num + 1,
     parent_process_num |-> pcb[parent].process_num, parent_pcb |-> parent,
     parent_kesp |-> sp,
     fd_array |-> WithConsole(pcb[child].fd_array), argbuf |-> args]

\* system_execute when process_total is 0: at boot and from the base shell's
\* halt.  The page and the frame are those of process_total + 1.
ExecuteFirst(program, args) ==
    /\ process_total' = 1
    /\ page' = 1
    /\ frame' = [frame EXCEPT ![1] = program]
    /\ argument' = args
    /\ pcb' = [pcb EXCEPT ![1] = FirstPCB(args)]
    /\ current_pcb' = 1
    /\ esp0' = StackTop(1)
    /\ eax' = Started

Boot == process_total = 0 /\ ExecuteFirst(Shell, NoArg)

\* Mutant: one process too many is let in.
ExecuteOneMore(program, args) ==
    LET sp     == Push(esp0, FRAME)
        parent == PcbAt(sp)
        child  == pcb[parent].process_num + 1
    IN
    /\ process_total \in 1..(MAXIMUM_PROCESS - 1)
    /\ StackRoom
    /\ page' = process_total + 1
    /\ frame' = [frame EXCEPT ![process_total + 1] = program]
    /\ argument' = args
    /\ pcb' = [pcb EXCEPT ![child] = ChildPCB(child, parent, sp, args)]
    /\ process_total' = process_total + 1
    /\ current_pcb' = child
    /\ esp0' = StackTop(child)
    /\ eax' = Started

Execute(program, args) ==
    LET sp     == Push(esp0, FRAME)
        parent == PcbAt(sp)
        child  == pcb[parent].process_num + 1
    IN
    /\ process_total \in 1..(MAXIMUM_PROCESS - 2)
    /\ StackRoom
    /\ page' = process_total + 1
    /\ frame' = [frame EXCEPT ![process_total + 1] = program]
    /\ argument' = args
    /\ pcb' = [pcb EXCEPT ![child] = ChildPCB(child, parent, sp, args)]
    /\ process_total' = process_total + 1
    /\ current_pcb' = child
    /\ esp0' = StackTop(child)
    /\ eax' = Started

\* Mutant: the page is switched before the file is checked.
ExecuteFailsLate(name, args) ==
    /\ process_total > 0
    /\ \/ /\ process_total < MAXIMUM_PROCESS - 1 /\ name \in NonProgram
          /\ page' = process_total + 1
       \/ process_total >= MAXIMUM_PROCESS - 1 /\ UNCHANGED page
    /\ argument' = args
    /\ eax' = -1
    /\ UNCHANGED <<process_total, current_pcb, pcb, frame, esp0>>

\* No such file, not an executable, or too many processes: -1, but the parse
\* has replaced the global argument.
ExecuteFails(name, args) ==
    /\ process_total > 0
    /\ name \in NonProgram \/ process_total >= MAXIMUM_PROCESS - 1
    /\ argument' = args
    /\ eax' = -1
    /\ UNCHANGED <<process_total, current_pcb, pcb, page, frame, esp0>>

\* Mutant: the parent's page is not mapped again.
HaltChildKeepsPage(status) ==
    LET me == pcb[current_pcb] IN
    /\ process_total > 1
    /\ process_total' = process_total - 1
    /\ esp0' = me.parent_kesp
    /\ pcb' = [pcb EXCEPT ![current_pcb].fd_array = [fd \in Fd |-> Free]]
    /\ current_pcb' = me.parent_pcb
    /\ eax' = status
    /\ UNCHANGED <<page, frame, argument>>

\* Mutant: the descriptors are those of the parent, already current.
HaltChildClearsParent(status) ==
    LET me == pcb[current_pcb] IN
    /\ process_total > 1
    /\ process_total' = process_total - 1
    /\ esp0' = me.parent_kesp
    /\ page' = me.parent_process_num
    /\ pcb' = [pcb EXCEPT ![me.parent_pcb].fd_array = [fd \in Fd |-> Free]]
    /\ current_pcb' = me.parent_pcb
    /\ eax' = status
    /\ UNCHANGED <<frame, argument>>

\* Jumps into the parent's system_execute: the switch is undone from what the
\* child's PCB recorded.
HaltChild(status) ==
    LET me == pcb[current_pcb] IN
    /\ process_total > 1
    /\ process_total' = process_total - 1
    /\ esp0' = me.parent_kesp
    /\ page' = me.parent_process_num
    /\ pcb' = [pcb EXCEPT ![current_pcb].fd_array = [fd \in Fd |-> Free]]
    /\ current_pcb' = me.parent_pcb
    /\ eax' = status
    /\ UNCHANGED <<frame, argument>>

\* The first shell is not let go: a new one is executed in its place, and the
\* code after that call is never reached.
HaltFirst(status) == process_total = 1 /\ ExecuteFirst(Shell, NoArg)

Halt(status) == HaltChild(status) \/ HaltFirst(status)

\* PAGE_FAULT_handler: the process is halted with 256.
PageFault == Halt(256)

Next == \/ Boot
        \/ \E p \in Program, a \in Arg : Execute(p, a)
        \/ \E p \in Program \cup NonProgram, a \in Arg : ExecuteFails(p, a)
        \/ \E s \in Status : Halt(s)
        \/ PageFault
        \/ \E k \in Kind : Open(k)
        \/ \E fd \in Fd : Close(fd)
        \/ FdCallFails

Spec == Init /\ [][Next]_vars

-----------------------------------------------------------------------------
(* Properties *)

TypeOK == /\ process_total \in 0..(MAXIMUM_PROCESS - 1)
          /\ current_pcb \in 0..(MAXIMUM_PROCESS - 1)
          /\ pcb \in [Num -> PCB]
          /\ page \in 0..(MAXIMUM_PROCESS - 1)
          /\ frame \in [Num -> Program]
          /\ esp0 \in StackPointer
          /\ argument \in Arg
          /\ eax \in Int \cup {Started}

Live == 1..process_total

\* The four places that say which process runs agree: the counter that limits
\* processes, current_pcb, the frame mapped at 128 MB and the stack the next
\* entry to the kernel uses.  execute picks the page from process_total but
\* the PCB from the stack pointer, halt takes them from two PCB fields.
CurrentAgrees ==
    process_total > 0 =>
        /\ current_pcb = process_total
        /\ pcb[current_pcb].process_num = current_pcb
        /\ page = current_pcb
        /\ esp0.stack = current_pcb

\* Each waiting process can be resumed: the chain of PCBs leads from the
\* running process down to the first, and the stack pointer each child keeps
\* for its parent lies on the parent's own stack, above the parent's PCB.
ParentChain ==
    \A n \in Live \ {1} :
        /\ pcb[n].process_num = n
        /\ pcb[n].parent_pcb = n - 1
        /\ pcb[n].parent_process_num = n - 1
        /\ pcb[n].parent_kesp.stack = n - 1
        /\ pcb[n].parent_kesp.used <= STACK_SIZE - PCB_SIZE

\* Descriptors 0 and 1 of every live process are the terminal, although
\* execute does not put them there but takes the first two that are free.
ConsoleFds ==
    \A n \in Live : /\ pcb[n].fd_array[0] = "stdin"
                    /\ pcb[n].fd_array[1] = "stdout"

\* A PCB that no live process owns holds no open descriptor: nothing else
\* clears the array the next process in that slot will use.
DeadFdsFree ==
    \A n \in Num \ Live : \A fd \in Fd : pcb[n].fd_array[fd] = Free

\* What the running process does never reaches the image, the descriptors or
\* the saved stack pointer of one that waits for it.
WaitingUntouched ==
    [][\A n \in 1..(process_total - 1) :
           n < process_total' => pcb'[n] = pcb[n] /\ frame'[n] = frame[n]]_vars

\* The kernel implements the stack of programs that ProcessStack promises.
Activations ==
    [n \in Live |-> [program |-> frame[n], args |-> pcb[n].argbuf]]

CurrentView ==
    IF process_total = 0 THEN [program |-> Shell, args |-> NoArg]
    ELSE [program |-> frame[page], args |-> pcb[current_pcb].argbuf]

Abstract == INSTANCE ProcessStack WITH
    MaxDepth <- MAXIMUM_PROCESS - 1,
    Status   <- Status \cup {256},
    stack    <- Activations,
    view     <- CurrentView,
    result   <- eax

ImplementsProcessStack == Abstract!Spec

\* Comment of system_halt (sys_execute.c:227): "Restore parent data".  The
\* parent runs on with the tss.esp0 it had, so every program it executes
\* starts from the same kernel stack.
ParentStackRestored == process_total > 0 => esp0 = StackTop(current_pcb)
=============================================================================
