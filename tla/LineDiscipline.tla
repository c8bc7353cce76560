---------------------------- MODULE LineDiscipline ----------------------------
(***************************************************************************)
(* What the terminal promises a program that reads lines: the characters   *)
(* of the line being typed can be edited until Enter, a finished line is   *)
(* delivered once, whole and in order, and a reader whose buffer is too    *)
(* short gets the beginning of the line.  Terminal implements it for a     *)
(* typist who waits for a line to be read before typing on.                *)
(***************************************************************************)
EXTENDS Integers, Sequences, SequencesExt

CONSTANTS Char,      \* printable characters
          Capacity,  \* characters a line holds; the rest are dropped
          NBytes,    \* buffer sizes that readers pass
          Newline, Zero

VARIABLES edit,      \* the line being typed
          lines,     \* finished lines not read yet
          want,      \* the size the last reader asked for
          got        \* what the last read returned

vars == <<edit, lines, want, got>>

\* A line in a buffer of n bytes: terminated by a newline if it fits, cut and
\* terminated by a zero if not.
Rendered(line, n) ==
    IF n > Len(line) THEN Append(line, Newline)
    ELSE Append(SubSeq(line, 1, n - 1), Zero)

Init == edit = <<>> /\ lines = <<>> /\ want = 1 /\ got = <<>>

Type(c) == /\ Len(edit) < Capacity
           /\ edit' = Append(edit, c)
           /\ UNCHANGED <<lines, want, got>>

Erase == /\ edit # <<>>
         /\ edit' = Front(edit)
         /\ UNCHANGED <<lines, want, got>>

Clear == edit' = <<>> /\ UNCHANGED <<lines, want, got>>

Enter == /\ lines' = Append(lines, edit)
         /\ edit' = <<>>
         /\ UNCHANGED <<want, got>>

Ask(n) == want' = n /\ UNCHANGED <<edit, lines, got>>

Deliver == /\ lines # <<>>
           /\ got' = Rendered(Head(lines), want)
           /\ lines' = Tail(lines)
           /\ UNCHANGED <<edit, want>>

Return == got' = <<>> /\ UNCHANGED <<edit, lines, want>>

Next == \/ \E c \in Char : Type(c)
        \/ Erase
        \/ Clear
        \/ Enter
        \/ \E n \in NBytes : Ask(n)
        \/ Deliver
        \/ Return

Spec == Init /\ [][Next]_vars
=============================================================================
