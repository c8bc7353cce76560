----------------------------- MODULE FileStream -----------------------------
(***************************************************************************)
(* What the file system promises the owner of a descriptor, with no blocks *)
(* and no shared cursor: a file is a sequence of bytes that successive     *)
(* reads deliver in order, whatever sizes they ask for, and the directory  *)
(* is a sequence of names that successive reads deliver one by one.        *)
(* Descriptors do not influence each other.  Files implements it.          *)
(***************************************************************************)
EXTENDS Integers, Sequences

CONSTANTS Desc,       \* descriptors
          Lookup,     \* the file behind each name
          Content,    \* the bytes of each file
          Listing,    \* the names in the directory, in order
          NBytes,     \* sizes that programs pass to read
          Directory,  \* what a descriptor on the directory refers to
          Closed

VARIABLES open,       \* what each descriptor refers to, and how far it was read
          asked,      \* the descriptor and size of the file read under way
          got         \* what the last read delivered

vars == <<open, asked, got>>

\* The next n items of s after the first pos, or as many as there are.
Next_n(s, pos, n) ==
    SubSeq(s, pos + 1, IF pos + n <= Len(s) THEN pos + n ELSE Len(s))

Init == open = [d \in Desc |-> Closed] /\ asked = Closed /\ got = <<>>

Open(d, what) == /\ open[d] = Closed
                 /\ open' = [open EXCEPT ![d] = [what |-> what, pos |-> 0]]
                 /\ UNCHANGED <<asked, got>>

\* A read delivers all it was asked for, or all that is left.
ReadFrom(d, s, n) == /\ got' = Next_n(s, open[d].pos, n)
                     /\ open' = [open EXCEPT ![d].pos = @ + Len(got')]

Ask(d, n) == /\ asked = Closed
             /\ open[d] # Closed
             /\ open[d].what # Directory
             /\ asked' = [desc |-> d, size |-> n]
             /\ UNCHANGED <<open, got>>

Answer == /\ asked # Closed
          /\ ReadFrom(asked.desc, Content[open[asked.desc].what], asked.size)
          /\ asked' = Closed

ReadName(d) == /\ open[d] # Closed
               /\ open[d].what = Directory
               /\ ReadFrom(d, Listing, 1)
               /\ UNCHANGED asked

\* One descriptor is closed, or all those of a program that ends.
Close(D) == /\ open' = [d \in Desc |-> IF d \in D THEN Closed ELSE open[d]]
            /\ UNCHANGED <<asked, got>>

Next == \/ \E d \in Desc : \/ \E name \in DOMAIN Lookup : Open(d, Lookup[name])
                           \/ Open(d, Directory)
                           \/ \E n \in NBytes : Ask(d, n)
                           \/ ReadName(d)
        \/ Answer
        \/ \E D \in SUBSET Desc : Close(D)

Spec == Init /\ [][Next]_vars
=============================================================================
