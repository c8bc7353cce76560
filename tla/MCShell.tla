------------------------------- MODULE MCShell --------------------------------
(* All short lines over two letters and spaces, and all short texts, with    *)
(* NUL and ends of lines in them.                                            *)
EXTENDS Shell

CONSTANTS g, x, LineLength, TextLength

MCTypedLine == SeqOf({g, x, Space}, LineLength)
MCText      == SeqOf({g, x, NewLine, Nul}, TextLength)
MCExit      == <<x>>
MCGrepName  == <<g>>
MCPrograms  == {<<x, g>>}
===============================================================================
