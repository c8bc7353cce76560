----------------------------- MODULE MCProcesses -----------------------------
(***************************************************************************)
(* Instances of Processes for TLC.  Sizes of the kernel stack are scaled   *)
(* down: the region holds three nested system_execute frames above the PCB *)
(* where the real one holds about twenty-one.                              *)
(***************************************************************************)
EXTENDS Processes

CONSTANTS sh, prog, text

MCProgram    == {sh, prog}
MCNonProgram == {text}
MCShell      == sh

\* The statuses the programs under syscalls/ and fish/ pass: success, an error
\* exit, and ece391_halt(-1).
MCStatus == {-1, 0}
=============================================================================
