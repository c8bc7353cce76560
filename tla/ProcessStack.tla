---------------------------- MODULE ProcessStack ----------------------------
(***************************************************************************)
(* What the process manager promises a program, with no memory layout: the *)
(* programs form a stack, only the one on top runs, execute pushes, halt   *)
(* pops and hands its status to the program below, and halting the program *)
(* at the bottom starts the shell again in its place.  Whatever the kernel *)
(* does with page frames, kernel stacks and PCBs, the program that runs    *)
(* sees the image and the arguments it was started with.  Processes        *)
(* implements this specification.                                          *)
(***************************************************************************)
EXTENDS Integers, Sequences, SequencesExt

CONSTANTS MaxDepth,    \* how many programs may be live at once
          Program,     \* the executables on the boot image
          Shell,       \* the one that is started first
          Arg,         \* argument strings
          NoArg,       \* the empty argument string
          Status,      \* what a program can pass to halt
          Started      \* no system call has returned to this program yet

VARIABLES stack,       \* the live programs, the first one started first
          view,        \* the image and arguments the running program sees
          result       \* what its last system call returned to it

vars == <<stack, view, result>>

Activation == [program : Program, args : Arg]

TypeOK == /\ stack \in Seq(Activation)
          /\ Len(stack) <= MaxDepth
          /\ view \in Activation
          /\ result \in Int \cup {Started}

Base == [program |-> Shell, args |-> NoArg]

Init == stack = <<>> /\ view = Base /\ result = Started

Boot == /\ stack = <<>>
        /\ stack' = <<Base>>
        /\ view' = Base
        /\ result' = Started

Run(p, a) == /\ Len(stack) \in 1..(MaxDepth - 1)
             /\ stack' = Append(stack, [program |-> p, args |-> a])
             /\ view' = [program |-> p, args |-> a]
             /\ result' = Started

Exit(s) == /\ Len(stack) > 1
           /\ stack' = Front(stack)
           /\ view' = Last(stack')
           /\ result' = s

Respawn == /\ Len(stack) = 1
           /\ stack' = <<Base>>
           /\ view' = Base
           /\ result' = Started

\* Any other system call, a refused execute among them.
Call == /\ stack # <<>>
        /\ result' \in Int
        /\ UNCHANGED <<stack, view>>

Next == \/ Boot
        \/ \E p \in Program, a \in Arg : Run(p, a)
        \/ \E s \in Status : Exit(s)
        \/ Respawn
        \/ Call

Spec == Init /\ [][Next]_vars
=============================================================================
