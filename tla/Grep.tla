--------------------------------- MODULE Grep ---------------------------------
(***************************************************************************)
(* The program grep (ece391grep.c): it reads each file of the directory in *)
(* chunks into data, prints the lines that contain word, and keeps the     *)
(* unfinished line at the end of a chunk for the next one.  read is        *)
(* file_read: it returns as many bytes as the file has and the caller      *)
(* wants (module Files).  data is a local array that nothing initialises,  *)
(* in a page frame that execute does not clear: a file finds in it what    *)
(* the frame's earlier users left.  A file may hold NUL, where a string    *)
(* ends: most files of the directory are programs.                         *)
(***************************************************************************)
EXTENDS Integers, SequencesExt

CONSTANTS BUFSIZE,      \* characters read at once
          Text,         \* the possible contents of a file
          NewLine, Nul,
          Garbage,      \* what data may hold before the first read of a file
          MAX_FILES     \* bound: files in the directory

ASSUME GrepAssumption ==
    /\ BUFSIZE \in Nat \ {0}
    /\ \A t \in Text : t \in Seq(ToSet(t))
    /\ NewLine # Nul
    /\ MAX_FILES \in Nat

VARIABLES at,           \* "idle", "next" file, "read", "scan" or "exit"
          word,         \* what is searched
          text,         \* the file that is open
          pos,          \* its position
          data,         \* the buffer; Nul while do_one_file does not run
          beyond,       \* history: data[BUFSIZE], which no read reaches, at first
          last,         \* characters in the buffer
          cnt,          \* what the last read returned
          line_start,
          out,          \* lines printed of this file
          files         \* files left in the directory

grep_vars == <<at, word, text, pos, data, beyond, last, cnt, line_start, out, files>>

GrepInit == /\ at = "idle" /\ word = <<>> /\ text = <<>>
            /\ pos = 0 /\ last = 0 /\ cnt = 0 /\ line_start = 0
            /\ data = [i \in 0..BUFSIZE |-> Nul] /\ beyond = Nul
            /\ out = <<>> /\ files = 0

\* The string that begins at index i of the buffer and ends before j.
Slice(i, j) == [k \in 1..(j - i) |-> data[i + k - 1]]

\* What is printed of a line: up to the first NUL in it.
StringOf(line) == SubSeq(line, 1, Min({k \in 1..Len(line) : line[k] = Nul} \cup {Len(line) + 1}) - 1)

\* The first character matches, the end of s when s is empty, and strncmp finds
\* the rest equal.
Matches(line, s, check) ==
    IF s = <<>> THEN line[check] = Nul
    ELSE /\ line[check] = s[1]
         /\ check + Len(s) - 1 <= Len(line)
         /\ SubSeq(line, check, check + Len(s) - 1) = s

Found(line, s) == \E check \in 1..Len(line) : Matches(line, s, check)

-----------------------------------------------------------------------------

\* main begins: getargs has given it the word.
Start(argument, n) ==
    /\ at' = "next" /\ word' = argument /\ files' = n
    /\ UNCHANGED <<text, pos, data, beyond, last, cnt, line_start, out>>

\* do_one_file opens the next file; its buffer holds anything.
OpenNext ==
    /\ at = "next" /\ files > 0
    /\ text' \in Text
    /\ data' \in [0..BUFSIZE -> Garbage]
    /\ beyond' = data'[BUFSIZE]
    /\ pos' = 0 /\ last' = 0 /\ out' = <<>>
    /\ files' = files - 1
    /\ at' = "read"
    /\ UNCHANGED <<word, cnt, line_start>>

NoMoreFiles ==
    /\ at = "next" /\ files = 0
    /\ at' = "exit"
    /\ UNCHANGED <<word, text, pos, data, beyond, last, cnt, line_start, out, files>>

\* A chunk is read behind what the buffer holds.
ReadChunk ==
    LET rest == Len(text) - pos
        n    == IF rest < BUFSIZE - last THEN rest ELSE BUFSIZE - last
    IN /\ at = "read"
       /\ data' = [i \in 0..BUFSIZE |->
                      IF i \in last..(last + n - 1) THEN text[pos + i - last + 1] ELSE data[i]]
       /\ pos' = pos + n /\ cnt' = n /\ last' = last + n
       /\ line_start' = 0
       /\ at' = "scan"
       /\ UNCHANGED <<word, text, beyond, out, files>>

line_end == CHOOSE i \in line_start..last :
                /\ i = last \/ data[i] = NewLine
                /\ \A j \in line_start..(i - 1) : data[j] # NewLine

\* Mutant: a line that fills the buffer is kept as well.
UnfinishedLong == data[line_end] # NewLine /\ cnt # 0

\* Mutant: what has no end of line is always kept.
UnfinishedAlways == data[line_end] # NewLine

\* The rest of the chunk is not a whole line, and more may follow.
Unfinished == data[line_end] # NewLine /\ cnt # 0 /\ line_start # 0

\* strcpy moves it to the front of the buffer, as far as its first NUL; all of
\* it is counted as kept.
KeepUnfinished ==
    LET rest == last - line_start
        kept == Min({i \in 0..(rest - 1) : data[line_start + i] = Nul} \cup {rest})
    IN /\ at = "scan" /\ Unfinished
       /\ data' = [i \in 0..BUFSIZE |-> IF i < kept THEN data[line_start + i]
                                        ELSE IF i \in {kept, last} THEN Nul
                                        ELSE data[i]]
       /\ last' = rest
       /\ at' = "read"
       /\ UNCHANGED <<word, text, pos, beyond, cnt, line_start, out, files>>

\* A line is searched; behind the last one the next chunk is read, or the
\* file is closed.
SearchLine ==
    LET line == Slice(line_start, line_end) IN
    /\ at = "scan" /\ ~Unfinished
    /\ data' = [data EXCEPT ![line_end] = Nul]
    /\ out' = IF Found(line, word) THEN Append(out, StringOf(line)) ELSE out
    /\ line_start' = line_end + 1
    /\ IF line_end + 1 < last THEN UNCHANGED <<last, at>>
       ELSE last' = 0 /\ at' = IF cnt = 0 THEN "close" ELSE "read"
    /\ UNCHANGED <<word, text, pos, beyond, cnt, files>>

Close ==
    /\ at = "close"
    /\ at' = "next"
    /\ UNCHANGED <<word, text, pos, data, beyond, last, cnt, line_start, out, files>>

GrepStep == \/ OpenNext \/ NoMoreFiles \/ ReadChunk
            \/ KeepUnfinished \/ SearchLine \/ Close

-----------------------------------------------------------------------------
(* Property *)

\* The parts of a text between the places where sep stands, and its lines.
Split(t, sep) ==
    FoldLeft(LAMBDA parts, c :
                 IF c = sep THEN Append(parts, <<>>)
                 ELSE [parts EXCEPT ![Len(parts)] = Append(@, c)],
             <<<<>>>>, t)
LinesOf(t) == Split(t, NewLine)

\* Those of the lines that contain s, in their order.
FoundIn(lines, s) ==
    FoldLeft(LAMBDA acc, line : IF Found(line, s) THEN Append(acc, line) ELSE acc,
             <<>>, lines)

\* Of a text without NUL whose lines fit in the buffer grep prints exactly the
\* lines that contain the word, in their order, wherever the ends of the chunks
\* fall and whatever lay in the buffer.  One byte of what lay there counts: the
\* test of ece391grep.c:33 reads the one behind a full buffer, and an end of line
\* that happens to be there cuts the line that the buffer ends in.
GrepFindsLines ==
    LET lines == LinesOf(text) IN
    /\ at = "close"
    /\ Nul \notin ToSet(text)
    /\ beyond # NewLine \/ Len(text) <= BUFSIZE
    /\ \A i \in DOMAIN lines : Len(lines[i]) <= BUFSIZE
    => out = FoundIn(lines, word)
=============================================================================
