--------------------------- MODULE Terminal_proofs ---------------------------
(***************************************************************************)
(* Proofs about Terminal, for every buffer size and every way in which     *)
(* keys interrupt a read, type-ahead included.  Fairness plays no part.    *)
(***************************************************************************)
EXTENDS Terminal, SequenceTheorems, TLAPS

Byte == Char \cup {Newline, Zero}

USE DEF others

\* While a read has a line to remove, the line stays: keys only add lines.
Removing == {"end", "copy", "loadInput", "storeInput", "countInput",
             "moveInput", "loadLines", "storeLines"}

\* A read that was let out of its loop has a line until it removes it, unless the
\* read before it was cut short; what it has loaded is a value the variable had,
\* and a negative length has been caught.
ReadInv ==
    /\ pc = "check" => new_lines_location > 0 \/ cut_short
    /\ pc \in Removing => new_lines_location > 0
    /\ pc \in {"loadInput", "storeInput"} => end_position >= 0
    /\ pc = "storeInput" => reg < MAX_INPUT_LENGTH
    /\ pc = "storeLines" => reg \in 1..MAX_INPUT_LENGTH
    /\ pc = "moveLines" => reg \in 0..MAX_INPUT_LENGTH
    /\ read_flag = READ_ENABLE /\ pc \in {"idle", "spin"} => new_lines_location > 0 \/ cut_short

IInv == TypeOK /\ ReadInv

-----------------------------------------------------------------------------
(* What is copied *)

LEMMA IndexFacts ==
  /\ MAX_INPUT_LENGTH \in Nat /\ MAX_INPUT_LENGTH > 1
  /\ \A i \in Int : i \in Index <=> 0 <= i /\ i < MAX_INPUT_LENGTH
BY TerminalAssumption DEF Index

LEMMA ByteAtType ==
  ASSUME TypeOK, NEW i
  PROVE  ByteAt(i) \in Char \cup {Zero}
BY DEF TypeOK, ByteAt

\* A segment is a sequence even when it ends before it starts.
LEMMA SegmentType ==
  ASSUME TypeOK, NEW i \in Int, NEW j \in Int
  PROVE  Segment(i, j) \in Seq(Byte)
<1> DEFINE n == IF j - i >= 0 THEN j - i ELSE 0
           s == [k \in 1..n |-> ByteAt(i + k - 1)]
<1>1. n \in Nat /\ 1..(j - i) = 1..n
  OBVIOUS
<1>2. \A k \in 1..n : ByteAt(i + k - 1) \in Byte
  BY ByteAtType DEF Byte
<1>3. s \in [1..n -> Byte]
  BY <1>2
<1>4. s \in Seq(Byte)
  <2> HIDE DEF s, n
  <2> QED
    BY <1>1, <1>3
<1>5. Segment(i, j) = s
  BY <1>1 DEF Segment
<1> QED
  BY <1>4, <1>5

LEMMA CopiedType ==
  ASSUME TypeOK, NEW e \in Int
  PROVE  Copied(e) \in Seq(Byte)
<1>1. Segment(0, e) \in Seq(Byte)
  BY SegmentType
<1>2. Segment(0, nbytes - 1) \in Seq(Byte)
  <2>1. nbytes - 1 \in Int
    BY DEF TypeOK
  <2> QED
    BY <2>1, SegmentType
<1>3. Newline \in Byte /\ Zero \in Byte
  BY DEF Byte
<1>4. /\ Append(Segment(0, e), Newline) \in Seq(Byte)
      /\ Append(Segment(0, nbytes - 1), Zero) \in Seq(Byte)
  BY <1>1, <1>2, <1>3, AppendProperties
<1> QED
  BY <1>4 DEF Copied

-----------------------------------------------------------------------------
(* Keys *)

LEMMA KeyKeepsReadInv ==
  ASSUME IInv, UNCHANGED <<pc, end_position, reg, cut_short>>,
         new_lines_location' >= new_lines_location,
         new_lines_location' \in Int,
         read_flag' = READ_DISABLE \/ read_flag' = read_flag \/ new_lines_location' > 0
  PROVE  ReadInv'
<1>1. new_lines_location \in Int
  BY IndexFacts DEF IInv, TypeOK
<1> QED
  BY <1>1 DEF IInv, ReadInv, READ_ENABLE, READ_DISABLE

LEMMA KeyInv ==
  ASSUME IInv, \/ \E c \in Char : TypeChar(c)
         \/ TypeStray \/ Enter \/ Backspace \/ BackspaceFaults \/ CtrlL \/ TerminalOpen
  PROVE  IInv'
<1>0. new_lines_location \in Int /\ new_lines_location >= 0 /\ input_location \in Int
  BY IndexFacts DEF IInv, TypeOK
<1>1. ASSUME NEW c \in Char, TypeChar(c) PROVE IInv'
  <2>1. ReadInv'
    BY <1>0, <1>1, KeyKeepsReadInv DEF TypeChar, reader
  <2>2. UNCHANGED <<new_lines, new_lines_location, pc, nbytes, end_position, reg, buf,
                  careless, cut_short>>
    BY <1>1 DEF TypeChar, reader
  <2>3. CASE Room
    <3>1. /\ input_buffer' = [input_buffer EXCEPT ![input_location] = c]
          /\ input_location' = input_location + 1 /\ read_flag' = READ_DISABLE
      BY <1>1, <2>3 DEF TypeChar
    <3>2. input_location + 1 \in Int /\ input_location + 1 < MAX_INPUT_LENGTH
      BY <1>0, <2>3, IndexFacts DEF Room
    <3>3. input_buffer' \in [Index -> Char \cup {Zero}]
      BY <3>1 DEF IInv, TypeOK
    <3> QED
      BY <2>1, <2>2, <3>1, <3>2, <3>3 DEF IInv, TypeOK
  <2>4. CASE ~Room
    BY <1>1, <2>1, <2>2, <2>4 DEF TypeChar, IInv, TypeOK
  <2> QED
    BY <2>3, <2>4
<1>2. CASE TypeStray
  BY <1>2 DEF TypeStray, keyboard, IInv, TypeOK, ReadInv, Pc, Removing
<1>3. CASE Enter
  <2>1. new_lines_location' = new_lines_location + 1 /\ new_lines_location + 1 > 0
    BY <1>0, <1>3 DEF Enter
  <2>2. ReadInv'
    BY <1>0, <1>3, <2>1, KeyKeepsReadInv DEF Enter, reader
  <2>3. new_lines_location + 1 \in 0..MAX_INPUT_LENGTH
    BY <1>0, <1>3, IndexFacts DEF Enter
  <2>4. new_lines' \in [Index -> Int]
    BY <1>0, <1>3 DEF Enter, IInv, TypeOK
  <2> QED
    BY <1>3, <2>1, <2>2, <2>3, <2>4 DEF Enter, reader, IInv, TypeOK
<1>4. Erased \in Int /\ Erased < MAX_INPUT_LENGTH
  BY <1>0, IndexFacts DEF Erased, IInv, TypeOK
<1>7. CASE Backspace
  <2>1. ReadInv'
    BY <1>0, <1>7, KeyKeepsReadInv DEF Backspace, reader
  <2> QED
    BY <1>4, <1>7, <2>1 DEF Backspace, reader, IInv, TypeOK
<1>8. CASE BackspaceFaults
  <2>1. /\ pc # "fault" /\ pc' = "idle" /\ reg' = 0 /\ end_position' = 0
        /\ cut_short' = (cut_short \/ pc \in {"countLines", "moveLines", "clear"})
        /\ UNCHANGED <<new_lines_location, read_flag>>
    BY <1>8 DEF BackspaceFaults, MayEdit, Running
  <2>2. read_flag = READ_ENABLE => new_lines_location > 0 \/ cut_short'
    BY <2>1 DEF IInv, TypeOK, ReadInv, Pc, Removing
  <2>3. ReadInv'
    BY <2>1, <2>2 DEF ReadInv, Removing
  <2>4. cut_short' \in BOOLEAN
    BY <2>1 DEF IInv, TypeOK
  <2> QED
    BY <1>4, <1>8, <2>1, <2>3, <2>4 DEF BackspaceFaults, IInv, TypeOK, Pc
<1>5. CASE CtrlL
  <2>1. ReadInv'
    BY <1>0, <1>5, KeyKeepsReadInv DEF CtrlL, reader
  <2> QED
    BY <1>5, <2>1, IndexFacts DEF CtrlL, reader, IInv, TypeOK
<1>6. CASE TerminalOpen
  <2>1. ReadInv'
    BY <1>6 DEF TerminalOpen, reader, IInv, ReadInv, Removing, READ_ENABLE, READ_DISABLE
  <2> QED
    BY <1>6, <2>1 DEF TerminalOpen, reader, IInv, TypeOK
<1> QED
  BY <1>1, <1>2, <1>3, <1>5, <1>6, <1>7, <1>8

-----------------------------------------------------------------------------
(* terminal_read *)

LEMMA ReadInvariant == ASSUME IInv, NEW n \in NBytes, Read(n) PROVE IInv'
<1>1. n \in Nat \ {0}
  BY TerminalAssumption
<1> QED
  BY <1>1 DEF Read, Goto, keyboard, IInv, TypeOK, ReadInv, Pc, Removing

LEMMA ReadStepInv == ASSUME IInv, ReadStep \/ CopyFaults PROVE IInv'
<1>0. /\ new_lines_location \in Int /\ input_location \in Int
      /\ end_position \in Int /\ reg \in Int
  BY IndexFacts DEF IInv, TypeOK
<1> USE DEF IInv, ReadInv, Goto, keyboard, Pc, Removing
<1>1. CASE LeaveSpin
  BY <1>1 DEF LeaveSpin, TypeOK, READ_ENABLE, READ_DISABLE
<1>2. CASE CheckLine
  <2>1. <<>> \in Seq(Char \cup {Newline, Zero})
    OBVIOUS
  <2> QED
    BY <1>2, <2>1 DEF CheckLine, TypeOK
<1>3. CASE LoadEnd
  <2>1. new_lines[0] \in Int
    BY IndexFacts DEF TypeOK
  <2> QED
    BY <1>3, <2>1 DEF LoadEnd, TypeOK
<1>4. CASE CopyLine
  <2>1. buf' \in Seq(Char \cup {Newline, Zero})
    BY <1>0, <1>4, CopiedType DEF CopyLine, Byte
  <2> QED
    BY <1>0, <1>4, <2>1 DEF CopyLine, TypeOK
<1>5. CASE LoadInput
  BY <1>5 DEF LoadInput, TypeOK
<1>6. CASE StoreInput
  <2>1. reg - end_position \in Int /\ reg - end_position < MAX_INPUT_LENGTH
    BY <1>0, <1>6, IndexFacts DEF StoreInput
  <2> QED
    BY <1>6, <2>1 DEF StoreInput, TypeOK
<1>7. CASE CountInput
  BY <1>7 DEF CountInput, TypeOK
<1>8. CASE MoveInput
  <2>1. input_buffer' \in [Index -> Char \cup {Zero}]
    BY <1>8, ByteAtType DEF MoveInput, TypeOK
  <2> QED
    BY <1>8, <2>1 DEF MoveInput, TypeOK
<1>9. CASE LoadLines
  <2>1. new_lines_location \in 1..MAX_INPUT_LENGTH
    BY <1>9, IndexFacts DEF LoadLines, TypeOK
  <2> QED
    BY <1>0, <1>9, <2>1 DEF LoadLines, TypeOK
<1>10. CASE StoreLines
  <2>1. reg - 1 \in 0..MAX_INPUT_LENGTH
    BY <1>10, IndexFacts DEF StoreLines
  <2> QED
    BY <1>10, <2>1 DEF StoreLines, TypeOK
<1>11. CASE CountLines
  BY <1>0, <1>11 DEF CountLines, TypeOK
<1>12. CASE MoveLines
  <2>1. reg \in 0..MAX_INPUT_LENGTH
    BY <1>12 DEF MoveLines
  <2>2. ASSUME NEW i \in Index, 4 * i < reg PROVE i + 1 \in Index
    <3>1. i \in Nat /\ MAX_INPUT_LENGTH \in Nat /\ MAX_INPUT_LENGTH > 1
      BY TerminalAssumption DEF Index
    <3>2. 4 * i < MAX_INPUT_LENGTH
      BY <2>1, <2>2, <3>1
    <3>3. i + 1 \in Nat /\ i + 1 <= MAX_INPUT_LENGTH - 1
      BY <3>1, <3>2
    <3> QED
      BY <3>1, <3>3 DEF Index
  <2>3. new_lines' \in [Index -> Int]
    BY <1>12, <2>2 DEF MoveLines, TypeOK
  <2> QED
    BY <1>12, <2>3 DEF MoveLines, TypeOK
<1>13. CASE ClearFlag
  <2>1. cut_short' \in BOOLEAN
    BY <1>13, Zenon DEF ClearFlag
  <2> QED
    BY <1>13, <2>1 DEF ClearFlag, TypeOK, READ_ENABLE, READ_DISABLE
<1>14. CASE CopyFaults
  <2>1. /\ pc = "copy" /\ pc' = "idle" /\ end_position' = 0 /\ reg' = 0
        /\ UNCHANGED <<input_buffer, input_location, new_lines, new_lines_location,
                       read_flag, nbytes, careless, cut_short>>
        /\ buf' = <<>>
    BY <1>14 DEF CopyFaults
  <2>2. ReadInv'
    BY <2>1
  <2>3. TypeOK'
    BY <2>1 DEF TypeOK
  <2> QED
    BY <2>2, <2>3
<1> HIDE DEF IInv, ReadInv, Goto, keyboard, Pc, Removing
<1> QED
  BY <1>1, <1>2, <1>3, <1>4, <1>5, <1>6, <1>7, <1>8, <1>9, <1>10, <1>11, <1>12, <1>13, <1>14
     DEF ReadStep

-----------------------------------------------------------------------------
(* The results *)

LEMMA InitIInv == Init => IInv
<1> SUFFICES ASSUME Init PROVE IInv
  OBVIOUS
<1>1. <<>> \in Seq(Char \cup {Newline, Zero})
  OBVIOUS
<1>2. 0 \in 0..MAX_INPUT_LENGTH /\ 0 < MAX_INPUT_LENGTH
  BY IndexFacts
<1>3. cut_short \in BOOLEAN
  BY Zenon DEF Init
<1>4. TypeOK
  BY <1>1, <1>2, <1>3 DEF Init, TypeOK, Pc
<1> QED
  BY <1>4 DEF Init, IInv, ReadInv, Removing, READ_ENABLE, READ_DISABLE

LEMMA InductiveInvariant == Spec => []IInv
<1>1. IInv /\ [Next]_vars => IInv'
  <2> SUFFICES ASSUME IInv, [Next]_vars PROVE IInv'
    OBVIOUS
  <2>1. CASE UNCHANGED vars
    BY <2>1 DEF vars, keyboard, reader, IInv, TypeOK, ReadInv
  <2>2. CASE Next
    BY <2>2, KeyInv, ReadInvariant, ReadStepInv DEF Next
  <2> QED
    BY <2>1, <2>2
<1> QED
  BY <1>1, InitIInv, PTL DEF Spec

\* Whatever keys arrive between whatever accesses, the variables hold values of
\* their kind: no character is stored behind input_buffer, and the count of lines
\* that a read loads and stores back never drops below zero.
THEOREM TypeCorrect == Spec => []TypeOK
BY InductiveInvariant, PTL DEF IInv

\* A reader that leaves its spin loop finds a line, for every interleaving of keys
\* and faults, unless the read before it was halted with its line taken and the
\* flag still up.
THEOREM ReaderFindsLine == Spec => []FlagMeansLine
<1>1. IInv => FlagMeansLine
  BY DEF IInv, ReadInv, FlagMeansLine, Removing
<1> QED
  BY <1>1, InductiveInvariant, PTL

-----------------------------------------------------------------------------
(* A careful typist *)

\* Where a read holds the line, and where it has taken it.
Holding == {"check", "end", "copy", "loadInput", "storeInput", "countInput", "moveInput",
            "loadLines", "storeLines"}

Shifted == {"countInput", "moveInput", "loadLines", "storeLines", "countLines",
            "moveLines", "clear"}

\* At most one line waits, it is all there is in the buffer, no key arrives while it
\* is read, and reading it leaves the buffer empty.
Calm ==
    /\ pc # "fault" /\ ~cut_short
    /\ input_location >= 0
    /\ pc = "idle" => new_lines_location = 0
    /\ pc = "spin" => new_lines_location \in {0, 1}
    /\ pc \in Holding => new_lines_location = 1
    /\ pc \in {"countLines", "moveLines", "clear"} => new_lines_location = 0
    /\ pc \in {"spin", "check", "end", "copy"} /\ new_lines_location = 1
          => new_lines[0] = input_location
    /\ pc \in {"copy", "loadInput", "storeInput"} => end_position = input_location
    /\ pc = "storeInput" => reg = input_location
    /\ pc \in Shifted => input_location = 0
    /\ pc = "moveInput" => reg = 0
    /\ pc = "storeLines" => reg = 1
    /\ pc \in {"idle", "spin", "check", "end", "copy"} => buf = <<>>

CalmInv == IInv /\ (~careless => Calm)

LEMMA KeyKeepsCalm ==
  ASSUME CalmInv, ~careless,
         \/ \E c \in Char : TypeChar(c)
         \/ TypeStray \/ Enter \/ Backspace \/ BackspaceFaults \/ CtrlL \/ TerminalOpen
  PROVE  Calm'
<1>0. /\ IInv /\ Calm
      /\ input_location \in Int /\ new_lines_location \in Int
      /\ new_lines \in [Index -> Int]
  BY IndexFacts DEF CalmInv, IInv, TypeOK
<1>a. MayEdit => pc \in {"idle", "spin"} /\ new_lines_location = 0
  BY DEF MayEdit
<1>b. MayEnd => pc = "spin" /\ new_lines_location = 0
  BY <1>a DEF MayEnd
<1> USE DEF Calm, Holding, Shifted
<1>1. ASSUME NEW c \in Char, TypeChar(c) PROVE Calm'
  BY <1>0, <1>a, <1>1 DEF TypeChar, reader
<1>2. CASE TypeStray
  BY <1>0, <1>2 DEF TypeStray
<1>3. CASE Enter
  <2>1. /\ pc = "spin" /\ new_lines_location = 0 /\ pc' = pc /\ cut_short' = cut_short
        /\ buf' = buf /\ new_lines_location' = 1 /\ input_location' = input_location
        /\ new_lines' = [new_lines EXCEPT ![0] = input_location]
    BY <1>b, <1>3 DEF Enter, reader
  <2>2. new_lines'[0] = input_location
    BY <1>0, <2>1, IndexFacts
  <2> QED
    BY <1>0, <2>1, <2>2
<1>4. CASE Backspace \/ BackspaceFaults
  <2>1. Erased \in Int /\ Erased >= 0
    BY <1>0, <1>a, <1>4 DEF Backspace, BackspaceFaults, Erased, LineStart
  <2>2. CASE Backspace
    BY <1>0, <1>a, <2>1, <2>2 DEF Backspace, reader
  <2>3. CASE BackspaceFaults
    BY <1>0, <1>a, <2>1, <2>3 DEF BackspaceFaults
  <2> QED
    BY <1>4, <2>2, <2>3
<1>5. CASE CtrlL
  BY <1>0, <1>a, <1>5 DEF CtrlL, reader
<1>6. CASE TerminalOpen
  BY <1>0, <1>6 DEF TerminalOpen, reader
<1> QED
  BY <1>1, <1>2, <1>3, <1>4, <1>5, <1>6

LEMMA ReadKeepsCalm ==
  ASSUME CalmInv, ~careless, (\E n \in NBytes : Read(n)) \/ ReadStep \/ CopyFaults
  PROVE  Calm'
<1>0. /\ IInv /\ Calm
      /\ input_location \in Int /\ new_lines_location \in Int
      /\ end_position \in Int /\ reg \in Int
  BY IndexFacts DEF CalmInv, IInv, TypeOK
<1> USE DEF Calm, Holding, Shifted, Goto, keyboard
<1>1. ASSUME NEW n \in NBytes, Read(n) PROVE Calm'
  BY <1>0, <1>1 DEF Read
<1>2. CASE LeaveSpin
  <2>1. new_lines_location > 0
    BY <1>0, <1>2 DEF LeaveSpin, IInv, TypeOK, ReadInv, READ_ENABLE, READ_DISABLE
  <2> QED
    BY <1>0, <1>2, <2>1 DEF LeaveSpin
<1>3. CASE CheckLine
  BY <1>0, <1>3 DEF CheckLine
<1>4. CASE LoadEnd
  BY <1>0, <1>4 DEF LoadEnd
<1>5. CASE CopyLine
  BY <1>0, <1>5 DEF CopyLine
<1>6. CASE LoadInput
  BY <1>0, <1>6 DEF LoadInput
<1>7. CASE StoreInput
  BY <1>0, <1>7 DEF StoreInput
<1>8. CASE CountInput
  BY <1>0, <1>8 DEF CountInput
<1>9. CASE MoveInput
  BY <1>0, <1>9 DEF MoveInput
<1>10. CASE LoadLines
  BY <1>0, <1>10 DEF LoadLines
<1>11. CASE StoreLines
  BY <1>0, <1>11 DEF StoreLines
<1>12. CASE CountLines
  BY <1>0, <1>12 DEF CountLines
<1>13. CASE MoveLines
  BY <1>0, <1>13 DEF MoveLines
<1>14. CASE ClearFlag
  BY <1>0, <1>14 DEF ClearFlag
<1>15. ~CopyFaults
  BY DEF CopyFaults
<1> HIDE DEF Calm, Holding, Shifted, Goto, keyboard
<1> QED
  BY <1>1, <1>2, <1>3, <1>4, <1>5, <1>6, <1>7, <1>8, <1>9, <1>10, <1>11, <1>12, <1>13, <1>14,
     <1>15 DEF ReadStep

LEMMA ChosenOnce == ASSUME Next PROVE careless' = careless
BY Zenon DEF Next, ReadStep, TypeChar, TypeStray, Enter, Backspace, BackspaceFaults, CtrlL,
   TerminalOpen, Read, LeaveSpin, CheckLine, LoadEnd, CopyLine, CopyFaults, LoadInput,
   StoreInput, CountInput, MoveInput, LoadLines, StoreLines, CountLines, MoveLines, ClearFlag

LEMMA CalmInvariant == Spec => []CalmInv
<1>1. Init => CalmInv
  BY InitIInv DEF Init, CalmInv, Calm, Holding, Shifted
<1>2. IInv' /\ CalmInv /\ [Next]_vars => CalmInv'
  <2> SUFFICES ASSUME IInv', CalmInv, [Next]_vars PROVE CalmInv'
    OBVIOUS
  <2>1. CASE UNCHANGED vars
    BY <2>1 DEF vars, keyboard, reader, CalmInv, Calm, Holding, Shifted
  <2>2. CASE Next
    BY <2>2, ChosenOnce, KeyKeepsCalm, ReadKeepsCalm DEF Next, CalmInv
  <2> QED
    BY <2>1, <2>2
<1> QED
  BY <1>1, <1>2, InductiveInvariant, PTL DEF Spec

-----------------------------------------------------------------------------
(* The mapping to LineDiscipline *)

Editing   == IF careless \/ Taken THEN <<>> ELSE Segment(LineStart, input_location)
Finished  == IF careless \/ Taken THEN <<>>
             ELSE [k \in 1..new_lines_location |-> Segment(EndOf(k - 1), EndOf(k))]
Wanted    == IF careless THEN 1 ELSE nbytes
Delivered == IF careless THEN <<>> ELSE buf

Mapped == <<Editing, Finished, Wanted, Delivered>>

LEMMA SegmentIs ==
  ASSUME TypeOK, NEW i \in Int, NEW j \in Int, i <= j
  PROVE  /\ Segment(i, j) \in Seq(Byte)
         /\ Len(Segment(i, j)) = j - i
         /\ \A k \in 1..(j - i) : Segment(i, j)[k] = ByteAt(i + k - 1)
<1>1. Segment(i, j) \in Seq(Byte)
  BY SegmentType
<1>2. DOMAIN Segment(i, j) = 1..(j - i) /\ j - i \in Nat
  BY DEF Segment
<1>3. Len(Segment(i, j)) = j - i
  BY <1>1, <1>2, LenProperties
<1> QED
  BY <1>1, <1>3 DEF Segment

LEMMA SegmentEmpty == ASSUME NEW i \in Int PROVE Segment(i, i) = <<>>
<1>1. 1..(i - i) = {}
  OBVIOUS
<1> QED
  BY <1>1 DEF Segment

\* One more character at the end.
LEMMA SegmentGrows ==
  ASSUME TypeOK, TypeOK', NEW c \in Byte, NEW i \in Index,
         input_buffer' = [input_buffer EXCEPT ![i] = c]
  PROVE  Segment(0, i + 1)' = Append(Segment(0, i), c)
<1>0. i \in Nat /\ i \in Int /\ i + 1 \in Int /\ 0 <= i /\ 0 <= i + 1
  BY IndexFacts DEF Index
<1>1. Segment(0, i) \in Seq(Byte) /\ Len(Segment(0, i)) = i
  BY <1>0, SegmentIs
<1>2. Segment(0, i + 1)' = [k \in 1..(i + 1) |-> ByteAt(k - 1)']
  BY <1>0 DEF Segment
<1>3. Append(Segment(0, i), c) = [k \in 1..(i + 1) |-> IF k = i + 1 THEN c ELSE Segment(0, i)[k]]
  <2> DEFINE s == Segment(0, i)
             t == Append(s, c)
  <2>1. s \in Seq(Byte) /\ Len(s) = i
    BY <1>1
  <2> HIDE DEF s
  <2>2. t \in Seq(Byte) /\ Len(t) = i + 1 /\ t[i + 1] = c /\ \A k \in 1..i : t[k] = s[k]
    BY <2>1, AppendProperties
  <2>3. t = [k \in 1..(i + 1) |-> t[k]]
    BY <1>0, <2>2, LenProperties
  <2>4. \A k \in 1..(i + 1) : t[k] = IF k = i + 1 THEN c ELSE s[k]
    BY <1>0, <2>2
  <2>5. t = [k \in 1..(i + 1) |-> IF k = i + 1 THEN c ELSE s[k]]
    <3> HIDE DEF t
    <3> QED
      BY <2>3, <2>4
  <2> QED
    BY <2>5 DEF s
<1>4. ASSUME NEW k \in 1..(i + 1)
      PROVE  ByteAt(k - 1)' = IF k = i + 1 THEN c ELSE Segment(0, i)[k]
  <2>1. k - 1 \in Index /\ k - 1 \in Int
    BY <1>0, IndexFacts
  <2>2. ByteAt(k - 1)' = input_buffer'[k - 1] /\ ByteAt(k - 1) = input_buffer[k - 1]
    BY <2>1 DEF ByteAt
  <2>3. CASE k = i + 1
    BY <1>0, <2>2, <2>3 DEF TypeOK
  <2>4. CASE k # i + 1
    <3>1. k \in 1..i /\ k - 1 # i
      BY <1>0, <2>4
    <3>2. Segment(0, i)[k] = ByteAt(k - 1)
      BY <1>0, <3>1, SegmentIs
    <3> QED
      BY <2>1, <2>2, <2>4, <3>1, <3>2 DEF TypeOK
  <2> QED
    BY <2>3, <2>4
<1> QED
  BY <1>2, <1>3, <1>4

\* The beginning of a segment is a segment.
LEMMA SegmentStart ==
  ASSUME TypeOK, NEW j \in Nat, NEW m \in Nat, m <= j
  PROVE  SubSeq(Segment(0, j), 1, m) = Segment(0, m)
<1>1. Segment(0, j) \in Seq(Byte) /\ Len(Segment(0, j)) = j
  BY SegmentIs
<1>2. SubSeq(Segment(0, j), 1, m) = [k \in 1..m |-> Segment(0, j)[k]]
  BY <1>1, SubSeqProperties
<1>3. Segment(0, m) = [k \in 1..m |-> Segment(0, j)[k]]
  BY DEF Segment
<1> QED
  BY <1>2, <1>3

\* No line waits, or one.
LEMMA FinishedIs ==
  ASSUME ~careless, ~Taken
  PROVE  /\ new_lines_location = 0 => Finished = <<>>
         /\ new_lines_location = 1 => Finished = <<Segment(0, new_lines[0])>>
<1>1. ASSUME new_lines_location = 0 PROVE Finished = <<>>
  BY <1>1 DEF Finished
<1>2. ASSUME new_lines_location = 1 PROVE Finished = <<Segment(0, new_lines[0])>>
  <2>1. EndOf(0) = 0 /\ EndOf(1) = new_lines[0]
    BY DEF EndOf
  <2>2. Finished = [k \in 1..1 |-> Segment(EndOf(k - 1), EndOf(k))]
    BY <1>2 DEF Finished
  <2>3. \A k \in 1..1 : Segment(EndOf(k - 1), EndOf(k)) = Segment(0, new_lines[0])
    BY <2>1
  <2> QED
    BY <2>2, <2>3
<1> QED
  BY <1>1, <1>2

LEMMA EditingIs ==
  ASSUME ~careless, ~Taken
  PROVE  /\ new_lines_location = 0 => Editing = Segment(0, input_location)
         /\ new_lines_location = 1 => Editing = Segment(new_lines[0], input_location)
BY DEF Editing, LineStart

LEMMA TakenIs == ASSUME Taken PROVE Editing = <<>> /\ Finished = <<>>
BY DEF Editing, Finished

\* What the typist and the buffer leave alone.
LEMMA Untouched ==
  ASSUME UNCHANGED <<input_buffer, input_location, new_lines, new_lines_location, careless>>,
         Taken' <=> Taken
  PROVE  Editing' = Editing /\ Finished' = Finished
<1>1. ASSUME NEW k PROVE ByteAt(k)' = ByteAt(k)
  BY DEF ByteAt
<1>2. ASSUME NEW i, NEW j PROVE Segment(i, j)' = Segment(i, j)
  BY <1>1 DEF Segment
<1>3. LineStart' = LineStart /\ \A k : EndOf(k)' = EndOf(k)
  BY DEF LineStart, EndOf
<1> QED
  BY <1>2, <1>3 DEF Editing, Finished

LEMMA CalmFacts ==
  ASSUME CalmInv, ~careless
  PROVE  /\ TypeOK /\ Calm
         /\ input_location \in Index /\ input_location \in Nat
         /\ nbytes \in Nat /\ nbytes > 0
         /\ pc \in {"idle", "spin"} => ~Taken /\ buf = <<>>
         /\ pc \in {"check", "end", "copy"} => ~Taken /\ new_lines_location = 1
         /\ MayEdit => pc \in {"idle", "spin"} /\ new_lines_location = 0
BY IndexFacts DEF CalmInv, IInv, TypeOK, Calm, Holding, Taken, MayEdit

LEMMA TypeCharMaps ==
  ASSUME CalmInv, CalmInv', ~careless, ~careless', NEW c \in Char, TypeChar(c)
  PROVE  [Discipline!Next]_Mapped
<1>0. /\ pc \in {"idle", "spin"} /\ pc' = pc /\ ~Taken /\ ~Taken' /\ new_lines_location = 0
      /\ UNCHANGED <<new_lines, new_lines_location, nbytes, buf>>
  BY CalmFacts DEF TypeChar, reader, Taken
<1>1. Wanted' = Wanted /\ Delivered' = Delivered
  BY <1>0 DEF Wanted, Delivered
<1>2. CASE Room
  <2>1. Editing = Segment(0, input_location) /\ Finished = <<>>
    BY <1>0, EditingIs, FinishedIs
  <2>2. /\ input_buffer' = [input_buffer EXCEPT ![input_location] = c]
        /\ input_location' = input_location + 1
    BY <1>2 DEF TypeChar
  <2>3. PICK i \in Index : i = input_location
    BY CalmFacts
  <2>4. Editing' = Append(Editing, c) /\ Finished' = <<>>
    <3>1. Segment(0, i + 1)' = Append(Segment(0, i), c)
      <4>1. TypeOK /\ TypeOK' /\ c \in Byte
        BY CalmFacts DEF CalmInv, IInv, Byte
      <4> QED
        BY <2>2, <2>3, <4>1, SegmentGrows
    <3>2. Editing' = Segment(0, i + 1)' /\ Finished' = <<>>
      BY <1>0, <2>2, <2>3 DEF Editing, Finished, LineStart, Segment
    <3> QED
      BY <2>1, <2>3, <3>1, <3>2
  <2>5. Len(Editing) < MAX_INPUT_LENGTH - 1
    <3>0. TypeOK /\ input_location \in Int /\ 0 <= input_location
      BY CalmFacts
    <3>1. Len(Segment(0, input_location)) = input_location
      BY <3>0, SegmentIs
    <3> QED
      BY <1>2, <2>1, <3>1 DEF Room
  <2>6. Discipline!Type(c)
    BY <1>1, <2>1, <2>4, <2>5
       DEF Discipline!Type, Editing, Finished, Wanted, Delivered
  <2> QED
    BY <2>6 DEF Discipline!Next
<1>3. CASE ~Room
  BY <1>0, <1>1, <1>3, Untouched DEF TypeChar, Mapped
<1> QED
  BY <1>2, <1>3

LEMMA EnterMaps ==
  ASSUME CalmInv, CalmInv', ~careless, ~careless', Enter
  PROVE  Discipline!Next
<1>0. /\ pc = "spin" /\ pc' = pc /\ ~Taken /\ ~Taken' /\ new_lines_location = 0
      /\ new_lines' = [new_lines EXCEPT ![0] = input_location] /\ new_lines_location' = 1
      /\ UNCHANGED <<input_buffer, input_location, nbytes, buf>>
      /\ input_location \in Nat /\ new_lines \in [Index -> Int]
  BY CalmFacts DEF Enter, MayEnd, reader, Taken, TypeOK
<1>1. Editing = Segment(0, input_location) /\ Finished = <<>>
  BY <1>0, EditingIs, FinishedIs
<1>2. new_lines'[0] = input_location
  BY <1>0, IndexFacts
<1>3. Editing' = <<>>
  <2>1. Editing' = Segment(input_location, input_location)'
    BY <1>0, <1>2 DEF Editing, LineStart
  <2> QED
    BY <1>0, <2>1, SegmentEmpty DEF Segment
<1>4. Finished' = Append(Finished, Editing)
  <2>1. \A k : ByteAt(k)' = ByteAt(k)
    BY <1>0 DEF ByteAt
  <2>2. Segment(0, input_location)' = Segment(0, input_location)
    BY <1>0, <2>1 DEF Segment
  <2>3. EndOf(0)' = 0 /\ EndOf(1)' = input_location
    BY <1>2 DEF EndOf
  <2>4. Finished' = [k \in 1..1 |-> Segment(EndOf(k - 1), EndOf(k))']
    BY <1>0 DEF Finished
  <2>5. \A k \in 1..1 : Segment(EndOf(k - 1), EndOf(k))' = Segment(0, input_location)
    <3>1. Segment(EndOf(0), EndOf(1))' = Segment(0, input_location)
      BY <1>0, <2>1, <2>3 DEF Segment
    <3> QED
      BY <3>1
  <2>6. Finished' = <<Editing>>
    BY <1>1, <2>4, <2>5
  <2> QED
    BY <1>1, <2>6
<1>5. Discipline!Enter
  BY <1>0, <1>3, <1>4 DEF Discipline!Enter, Editing, Finished, Wanted, Delivered
<1> QED
  BY <1>5 DEF Discipline!Next

LEMMA ErasingMaps ==
  ASSUME CalmInv, CalmInv', ~careless, ~careless', Backspace \/ BackspaceFaults \/ CtrlL
  PROVE  [Discipline!Next]_Mapped
<1>0. /\ pc \in {"idle", "spin"} /\ ~Taken /\ ~Taken'
      /\ new_lines_location = 0 /\ new_lines_location' = 0
      /\ UNCHANGED <<input_buffer, nbytes, buf>> /\ input_location \in Nat
  BY CalmFacts DEF Backspace, BackspaceFaults, CtrlL, reader, Taken
<1>1. Editing = Segment(0, input_location) /\ Finished = <<>>
  BY <1>0, EditingIs, FinishedIs
<1>2. \A j : Segment(0, j)' = Segment(0, j)
  <2>1. \A k : ByteAt(k)' = ByteAt(k)
    BY <1>0 DEF ByteAt
  <2> QED
    BY <2>1 DEF Segment
<1>3. Editing' = Segment(0, input_location') /\ Finished' = <<>>
  BY <1>0, <1>2 DEF Editing, Finished, LineStart
<1>4. CASE (Backspace \/ BackspaceFaults) /\ input_location > 0
  <2>1. input_location > 0 /\ input_location' = input_location - 1
    BY <1>0, <1>4 DEF Backspace, BackspaceFaults, Erased, LineStart
  <2>2. Len(Editing) = input_location
    BY <1>0, <1>1, CalmFacts, SegmentIs
  <2>3. Editing' = SubSeq(Editing, 1, Len(Editing) - 1)
    <3>1. input_location - 1 \in Nat /\ input_location - 1 <= input_location
      BY <1>0, <2>1
    <3>2. SubSeq(Segment(0, input_location), 1, input_location - 1)
             = Segment(0, input_location - 1)
      BY <1>0, <3>1, CalmFacts, SegmentStart
    <3> QED
      BY <1>1, <1>3, <2>1, <2>2, <3>2
  <2>4. Editing # <<>>
    BY <2>1, <2>2
  <2>5. Discipline!Erase
    BY <1>0, <1>1, <1>3, <2>3, <2>4
       DEF Discipline!Erase, Discipline!Front, Editing, Finished, Wanted, Delivered
  <2> QED
    BY <2>5 DEF Discipline!Next
<1>6. CASE (Backspace \/ BackspaceFaults) /\ ~(input_location > 0)
  <2>1. input_location' = input_location
    BY <1>0, <1>6 DEF Backspace, BackspaceFaults, Erased, LineStart
  <2> QED
    BY <1>0, <1>1, <1>3, <2>1 DEF Mapped, Wanted, Delivered
<1>5. CASE CtrlL
  <2>1. Editing' = <<>>
    BY <1>3, <1>5, SegmentEmpty DEF CtrlL
  <2>2. Discipline!Clear
    BY <1>0, <1>1, <1>3, <2>1 DEF Discipline!Clear, Editing, Finished, Wanted, Delivered
  <2> QED
    BY <2>2 DEF Discipline!Next
<1> QED
  BY <1>4, <1>5, <1>6

\* The memcpy delivers the line, rendered for the size of the caller's buffer.
LEMMA CopyMaps ==
  ASSUME CalmInv, CalmInv', ~careless, ~careless', CopyLine
  PROVE  Discipline!Next
<1>0. /\ pc = "copy" /\ ~Taken /\ new_lines_location = 1
      /\ end_position = input_location /\ new_lines[0] = input_location
      /\ input_location \in Nat /\ nbytes \in Nat /\ nbytes > 0
      /\ nbytes' = nbytes /\ buf' = Copied(end_position)
  BY CalmFacts DEF CopyLine, Calm
<1>1. Taken'
  BY <1>0 DEF CopyLine, Taken
<1>2. Editing = <<>> /\ Finished = <<Segment(0, input_location)>>
  BY <1>0, EditingIs, FinishedIs, SegmentEmpty
<1>3. Editing' = <<>> /\ Finished' = <<>>
  BY <1>1 DEF Editing, Finished
<1>4. buf' = Discipline!Rendered(Head(Finished), nbytes)
  <2> DEFINE s == Segment(0, input_location)
  <2>1. Head(Finished) = s
    BY <1>2
  <2>2. Len(s) = input_location
    BY <1>0, CalmFacts, SegmentIs
  <2>3. CASE nbytes > input_location
    BY <1>0, <2>1, <2>2, <2>3 DEF Discipline!Rendered, Copied
  <2>4. CASE ~(nbytes > input_location)
    <3>1. nbytes - 1 \in Nat /\ nbytes - 1 <= input_location
      BY <1>0, <2>4
    <3>2. SubSeq(s, 1, nbytes - 1) = Segment(0, nbytes - 1)
      BY <1>0, <3>1, CalmFacts, SegmentStart
    <3> HIDE DEF s
    <3> QED
      BY <1>0, <2>1, <2>2, <2>4, <3>2 DEF Discipline!Rendered, Copied
  <2> QED
    BY <2>3, <2>4
<1>5. Finished # <<>> /\ Tail(Finished) = <<>>
  BY <1>2
<1>6. Discipline!Deliver
  BY <1>0, <1>2, <1>3, <1>4, <1>5
     DEF Discipline!Deliver, Editing, Finished, Wanted, Delivered
<1> QED
  BY <1>6 DEF Discipline!Next

LEMMA KeyMaps ==
  ASSUME CalmInv, CalmInv', ~careless, ~careless',
         \/ \E c \in Char : TypeChar(c)
         \/ TypeStray \/ Enter \/ Backspace \/ BackspaceFaults \/ CtrlL \/ TerminalOpen
  PROVE  [Discipline!Next]_Mapped
<1>1. ASSUME TypeStray PROVE FALSE
  BY <1>1, CalmFacts DEF TypeStray, Calm
<1>2. CASE TerminalOpen
  <2>1. pc' = pc /\ UNCHANGED <<nbytes, buf>>
    BY <1>2 DEF TerminalOpen, reader
  <2>2. Taken' <=> Taken
    BY <2>1 DEF Taken
  <2> QED
    BY <1>2, <2>1, <2>2, Untouched DEF TerminalOpen, Mapped, Wanted, Delivered
<1> QED
  BY <1>1, <1>2, TypeCharMaps, EnterMaps, ErasingMaps

\* Of the steps of a read only its start, its memcpy and its last one count.
LEMMA ReadMaps ==
  ASSUME CalmInv, CalmInv', ~careless, ~careless', (\E n \in NBytes : Read(n)) \/ ReadStep \/ CopyFaults
  PROVE  [Discipline!Next]_Mapped
<1>1. ASSUME NEW n \in NBytes, Read(n) PROVE Discipline!Next
  <2>1. Taken' <=> Taken
    BY <1>1 DEF Read, Goto, Taken
  <2>2. Editing' = Editing /\ Finished' = Finished
    BY <1>1, <2>1, Untouched DEF Read, keyboard
  <2>3. Discipline!Ask(n)
    BY <1>1, <2>2 DEF Read, Discipline!Ask, Editing, Finished
  <2> QED
    BY <1>1, <2>3 DEF Discipline!Next
<1>2. CASE LeaveSpin \/ CheckLine \/ LoadEnd
  <2>1. Taken' <=> Taken
    <3>1. CASE LeaveSpin
      BY <3>1 DEF LeaveSpin, Goto, Taken
    <3>2. CASE CheckLine
      BY <3>2, CalmFacts DEF CheckLine, Taken
    <3>3. CASE LoadEnd
      BY <3>3 DEF LoadEnd, Goto, Taken
    <3> QED
      BY <1>2, <3>1, <3>2, <3>3
  <2>2. Editing' = Editing /\ Finished' = Finished
    BY <1>2, <2>1, Untouched DEF LeaveSpin, CheckLine, LoadEnd, keyboard
  <2>3. nbytes' = nbytes /\ buf' = buf
    BY <1>2, CalmFacts DEF LeaveSpin, CheckLine, LoadEnd
  <2> QED
    BY <2>2, <2>3 DEF Mapped, Wanted, Delivered
<1>3. CASE \/ LoadInput \/ StoreInput \/ CountInput \/ MoveInput
           \/ LoadLines \/ StoreLines \/ CountLines \/ MoveLines
  <2>1. Taken /\ nbytes' = nbytes /\ buf' = buf
    BY <1>3 DEF LoadInput, StoreInput, CountInput, MoveInput, LoadLines, StoreLines,
                CountLines, MoveLines, Goto, Taken
  <2>2. pc' # "fault"
    BY DEF CalmInv, Calm
  <2>3. Taken'
    BY <1>3, <2>2 DEF LoadInput, StoreInput, CountInput, MoveInput, LoadLines, StoreLines,
                      CountLines, MoveLines, Goto, Taken
  <2> QED
    BY <2>1, <2>3 DEF Mapped, Wanted, Delivered, Editing, Finished
<1>4. CASE ClearFlag
  <2>1. /\ Taken /\ ~Taken' /\ nbytes' = nbytes /\ buf' = <<>>
        /\ new_lines_location' = 0 /\ input_location' = 0
    BY <1>4, CalmFacts DEF ClearFlag, Goto, Taken, Calm, Shifted
  <2>2. Editing' = <<>> /\ Finished' = <<>>
    BY <2>1 DEF Editing, Finished, LineStart, Segment
  <2>3. Discipline!Return
    BY <2>1, <2>2, TakenIs DEF Discipline!Return, Editing, Finished
  <2> QED
    BY <2>3 DEF Discipline!Next
<1>5. ~CopyFaults
  BY DEF CopyFaults
<1> QED
  BY <1>1, <1>2, <1>3, <1>4, <1>5, CopyMaps DEF ReadStep

LEMMA StepMaps ==
  ASSUME CalmInv, CalmInv', [Next]_vars
  PROVE  [Discipline!Next]_Mapped
<1>1. CASE UNCHANGED vars
  <2>1. Taken' <=> Taken
    BY <1>1 DEF vars, reader, Taken
  <2> QED
    BY <1>1, <2>1, Untouched DEF vars, keyboard, reader, Mapped, Wanted, Delivered
<1>0. ASSUME Next PROVE careless' = careless
  BY <1>0, ChosenOnce
<1>2. CASE Next /\ careless
  BY <1>0, <1>2 DEF Mapped, Editing, Finished, Wanted, Delivered
<1>3. CASE Next /\ ~careless
  BY <1>0, <1>3, KeyMaps, ReadMaps DEF Next
<1> QED
  BY <1>1, <1>2, <1>3

LEMMA InitMaps == Init => Discipline!Init
<1> SUFFICES ASSUME Init PROVE Discipline!Init
  OBVIOUS
<1>1. Editing = <<>>
  BY DEF Init, Editing, LineStart, Segment
<1>2. Finished = <<>>
  BY DEF Init, Finished
<1> QED
  BY <1>1, <1>2 DEF Init, Discipline!Init, Editing, Finished

\* For a typist who waits for a line to be read before typing on, the terminal is a
\* line discipline: Enter finishes the line as it was edited, and the accesses of
\* a read, between which the handler can run, deliver it once, whole or cut to the
\* caller's buffer, and leave nothing of it behind.
THEOREM TerminalImplementsDiscipline == Spec => ImplementsLineDiscipline
<1>1. CalmInv /\ CalmInv' /\ [Next]_vars => [Discipline!Next]_(Discipline!vars)
  BY StepMaps DEF Mapped, Discipline!vars, Editing, Finished, Wanted, Delivered
<1> QED
  BY <1>1, InitMaps, CalmInvariant, PTL DEF Spec, ImplementsLineDiscipline, Discipline!Spec
================================================================================
