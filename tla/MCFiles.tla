------------------------------ MODULE MCFiles ------------------------------
(***************************************************************************)
(* An image for TLC: blocks of two bytes; a file that ends inside its      *)
(* second block, one that fills its block, an empty one and the directory. *)
(* The blocks of a file are not in order, and inode numbers differ from    *)
(* the order of the entries.  The process p1 is the first shell.           *)
(***************************************************************************)
EXTENDS Files, TLC

CONSTANTS d1, d2, p1, p2, dot, two, three, rtc, none

MCBlock == 0 :> (0 :> "c" @@ 1 :> "x") @@ 1 :> (0 :> "d" @@ 1 :> "e")
           @@ 2 :> (0 :> "a" @@ 1 :> "b")

MCByte == {"a", "b", "c", "d", "e", "x"}

\* Directory, the file of three bytes, the empty file, the file of two bytes.
MCInode == << [length |-> 0, blocks |-> <<>>],
              [length |-> 3, blocks |-> <<2, 0>>],
              [length |-> 0, blocks |-> <<>>],
              [length |-> 2, blocks |-> <<1>>] >>

MCDentry == << [file_name |-> dot, inode_num |-> 0],
               [file_name |-> two, inode_num |-> 3],
               [file_name |-> three, inode_num |-> 1],
               [file_name |-> rtc, inode_num |-> 0],
               [file_name |-> none, inode_num |-> 2] >>

MCFd == {d1, d2}

MCOwner == d1 :> p1 @@ d2 :> p2
=============================================================================
