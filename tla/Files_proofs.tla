----------------------------- MODULE Files_proofs -----------------------------
(***************************************************************************)
(* Proofs about Files, for every image that createfs can build, every      *)
(* block size and every set of descriptors.                                *)
(***************************************************************************)
EXTENDS Files, SequenceTheorems, TLAPS

-----------------------------------------------------------------------------
(* Offsets and blocks *)

LEMMA DivMod ==
  ASSUME NEW B \in Nat, B > 0, NEW a \in Nat
  PROVE  /\ a \div B \in Nat
         /\ a % B \in 0..(B - 1)
         /\ a = B * (a \div B) + (a % B)
BY SMT

\* Offsets up to the end of a block lie in the same block.
LEMMA SameBlock ==
  ASSUME NEW B \in Nat, B > 0, NEW a \in Nat, NEW k \in Nat, (a % B) + k < B
  PROVE  (a + k) \div B = a \div B /\ (a + k) % B = (a % B) + k
BY SMT

\* A file with enough blocks has one for each of its offsets.
LEMMA BlockExists ==
  ASSUME NEW B \in Nat, B > 0, NEW a \in Nat, NEW n \in Nat, a < B * n
  PROVE  a \div B < n
BY SMT

LEMMA ImageFacts ==
  /\ \A i \in InodeNum :
        /\ i + 1 \in 1..Len(Inode)
        /\ i % 256 = i
        /\ Inode[i + 1].length \in Nat
        /\ Inode[i + 1].blocks \in Seq(DOMAIN Block)
        /\ Inode[i + 1].length <= BLOCK_SIZE * Len(Inode[i + 1].blocks)
  /\ dentry_num \in Nat \ {0}
  /\ \A k \in 1..dentry_num : Dentry[k] \in [file_name : Name, inode_num : InodeNum]
<1>1. Len(Inode) \in Nat /\ Len(Inode) <= 256
  BY InodeAssumption
<1>2. \A i \in InodeNum : i + 1 \in 1..Len(Inode) /\ i % 256 = i
  BY <1>1 DEF InodeNum
<1>3. \A k \in 1..Len(Inode) : Inode[k] \in [length : Nat, blocks : Seq(DOMAIN Block)]
  BY InodeAssumption, ElementOfSeq
<1>4. dentry_num \in Nat \ {0}
  BY DentryAssumption DEF dentry_num
<1>5. \A k \in 1..dentry_num : Dentry[k] \in [file_name : Name, inode_num : InodeNum]
  BY DentryAssumption, ElementOfSeq DEF dentry_num
<1> QED
  BY <1>2, <1>3, <1>4, <1>5, InodeAssumption

\* The byte of the file at an offset is a byte of the block that holds it.
LEMMA ContentType ==
  ASSUME NEW i \in InodeNum
  PROVE  /\ Content[i] = [k \in 1..Inode[i + 1].length |->
                             Block[Inode[i + 1].blocks[((k - 1) \div BLOCK_SIZE) + 1]]
                                  [(k - 1) % BLOCK_SIZE]]
         /\ \A k \in 1..Inode[i + 1].length : Content[i][k] \in Byte
         /\ Content[i] \in Seq(Byte)
         /\ Len(Content[i]) = Inode[i + 1].length
<1>1. Content[i] = [k \in 1..Inode[i + 1].length |->
                       Block[Inode[i + 1].blocks[((k - 1) \div BLOCK_SIZE) + 1]]
                            [(k - 1) % BLOCK_SIZE]]
  BY DEF Content
<1>2. ASSUME NEW k \in 1..Inode[i + 1].length
      PROVE  Content[i][k] \in Byte
  <2>1. k - 1 \in Nat /\ k - 1 < BLOCK_SIZE * Len(Inode[i + 1].blocks)
    <3> DEFINE need == BLOCK_SIZE * Len(Inode[i + 1].blocks)
    <3>1. need \in Nat /\ Inode[i + 1].length \in Nat /\ Inode[i + 1].length <= need
      BY ImageFacts, BlockAssumption
    <3> HIDE DEF need
    <3>2. k - 1 \in Nat /\ k - 1 < need
      BY <3>1
    <3> QED
      BY <3>2 DEF need
  <2>2. /\ (k - 1) \div BLOCK_SIZE \in Nat
        /\ (k - 1) \div BLOCK_SIZE < Len(Inode[i + 1].blocks)
        /\ (k - 1) % BLOCK_SIZE \in 0..(BLOCK_SIZE - 1)
    <3>1. Len(Inode[i + 1].blocks) \in Nat
      BY ImageFacts
    <3> QED
      BY <2>1, <3>1, DivMod, BlockExists, BlockAssumption
  <2>3. Inode[i + 1].blocks[((k - 1) \div BLOCK_SIZE) + 1] \in DOMAIN Block
    BY <2>2, ImageFacts
  <2> QED
    BY <1>1, <2>2, <2>3, BlockAssumption
<1>3. Inode[i + 1].length \in Nat
  BY ImageFacts
<1> DEFINE c == Content[i]
           len == Inode[i + 1].length
<1>4. c \in [1..len -> Byte] /\ len \in Nat
  BY <1>1, <1>2, <1>3
<1>5. c \in Seq(Byte) /\ Len(c) = len
  <2> HIDE DEF c, len
  <2> QED
    BY <1>4
<1> QED
  BY <1>1, <1>2, <1>5

-----------------------------------------------------------------------------
(* read_data *)

\* One request copies at least one byte, no more than asked for, none past the
\* end of the file, and each is the file's byte at its offset.
LEMMA ReadDataCopies ==
  ASSUME NEW i \in InodeNum, NEW at \in Nat, NEW n \in Nat,
         n > 0, at < Inode[i + 1].length
  PROVE  LET chunk == read_data(i, at, n) IN
         /\ chunk \in Seq(Byte)
         /\ Len(chunk) \in 1..n
         /\ at + Len(chunk) <= Inode[i + 1].length
         /\ \A k \in 1..Len(chunk) : chunk[k] = Content[i][at + k]
<1> DEFINE L == DataLength(i, at, n)
           B == BLOCK_SIZE
           len == Inode[i + 1].length
           chunk == read_data(i, at, n)
           block == Inode[i + 1].blocks[(at \div B) + 1]
<1>0. B \in Nat /\ B > 0 /\ len \in Nat
  BY ImageFacts, BlockAssumption
<1>1. at % B \in 0..(B - 1)
  BY <1>0, DivMod
<1>2. L \in 1..n /\ at + L <= len /\ (at % B) + L <= B
  BY <1>0, <1>1 DEF DataLength
<1>3. chunk = [k \in 1..L |-> Block[block][(at % B) + k - 1]]
  BY DEF read_data
<1> HIDE DEF L, chunk
<1>4. ASSUME NEW k \in 1..L
      PROVE  chunk[k] = Content[i][at + k] /\ chunk[k] \in Byte
  <2>1. k - 1 \in Nat /\ (at % B) + (k - 1) < B /\ at + (k - 1) = (at + k) - 1
    BY <1>0, <1>1, <1>2
  <2>2. (at + (k - 1)) \div B = at \div B /\ (at + (k - 1)) % B = (at % B) + (k - 1)
    BY <1>0, <2>1, SameBlock
  <2>3. at + k \in 1..len /\ (at % B) + (k - 1) = (at % B) + k - 1
    BY <1>0, <1>1, <1>2
  <2>4. ((at + k) - 1) \div B = at \div B /\ ((at + k) - 1) % B = (at % B) + k - 1
    BY <2>1, <2>2, <2>3
  <2>5. Content[i][at + k] = Block[Inode[i + 1].blocks[(((at + k) - 1) \div B) + 1]]
                                  [((at + k) - 1) % B]
    BY <2>3, ContentType
  <2>6. chunk[k] = Block[block][(at % B) + k - 1]
    BY <1>3
  <2>7. chunk[k] = Content[i][at + k]
    BY <2>4, <2>5, <2>6
  <2>8. Content[i][at + k] \in Byte
    BY <2>3, ContentType
  <2> QED
    BY <2>7, <2>8
<1>5. chunk \in Seq(Byte) /\ Len(chunk) = L
  BY <1>2, <1>3, <1>4
<1> QED
  BY <1>2, <1>4, <1>5 DEF chunk

-----------------------------------------------------------------------------
(* Directory entries *)

Entry == [file_name : Name, inode_num : InodeNum]

\* Inode numbers fit the byte that is loaded, so lookups return the entry itself.
LEMMA LookupByIndex ==
  ASSUME NEW index \in 0..(dentry_num - 1)
  PROVE  /\ read_dentry_by_index(index) = Dentry[index + 1]
         /\ read_dentry_by_index(index) \in Entry
<1> DEFINE d == Dentry[index + 1]
<1>1. d \in Entry
  BY ImageFacts DEF Entry
<1>2. d.inode_num % 256 = d.inode_num
  BY <1>1, ImageFacts DEF Entry
<1>3. [d EXCEPT !.inode_num = @ % 256] = d
  BY <1>1, <1>2 DEF Entry
<1> QED
  BY <1>1, <1>3 DEF read_dentry_by_index

LEMMA EntryNotFree == Free \notin Entry
BY FreeAssumption DEF Entry

LEMMA LookupByName ==
  ASSUME NEW fname \in Name
  PROVE  /\ read_dentry_by_name(fname) =
                Dentry[CHOOSE k \in 1..dentry_num : Dentry[k].file_name = fname]
         /\ read_dentry_by_name(fname) \in Entry
         /\ fname = Dot => read_dentry_by_name(fname) = Dentry[1]
<1> DEFINE k0 == CHOOSE k \in 1..dentry_num : Dentry[k].file_name = fname
<1>1. k0 \in 1..dentry_num /\ Dentry[k0].file_name = fname
  BY DEF Name
<1>2. k0 - 1 \in 0..(dentry_num - 1) /\ (k0 - 1) + 1 = k0
  BY <1>1, ImageFacts
<1>3. read_dentry_by_name(fname) = Dentry[k0] /\ read_dentry_by_name(fname) \in Entry
  BY <1>2, LookupByIndex DEF read_dentry_by_name
<1>4. ASSUME fname = Dot PROVE k0 = 1
  <2>1. 1 \in 1..dentry_num
    BY ImageFacts
  <2> QED
    BY <1>1, <1>4, <2>1, DentryAssumption DEF dentry_num
<1> QED
  BY <1>3, <1>4

LEMMA DotIsName == Dot \in Name /\ 0 \in InodeNum
<1>1. 1 \in 1..dentry_num /\ Dentry[1].file_name = Dot
  BY ImageFacts, DentryAssumption
<1>2. Dentry[1].inode_num \in InodeNum
  BY <1>1, ImageFacts
<1> QED
  BY <1>1, <1>2, InodeAssumption DEF Name, InodeNum

-----------------------------------------------------------------------------
(* The state while file_read is under way *)

\* What the loop of file_read works with, when its guards hold.
LEMMA ReadDataFacts ==
  ASSUME TypeOK, DataIsSlice, ReadData
  PROVE  /\ call \in Call /\ call' \in Call
         /\ LET chunk == read_data(fd_array[call.fd].inode, offset, call.nbytes - count) IN
            /\ call' = [call EXCEPT !.data = call.data \o chunk]
            /\ chunk \in Seq(Byte)
            /\ Len(chunk) \in 1..(call.nbytes - count)
            /\ offset + Len(chunk) <= inode_length
            /\ \A k \in 1..Len(chunk) :
                   chunk[k] = Content[fd_array[call.fd].inode][offset + k]
<1> DEFINE d == fd_array[call.fd]
           chunk == read_data(d.inode, offset, call.nbytes - count)
<1>1. call \in Call /\ d \in Descriptor
  BY DEF TypeOK, DataIsSlice, ReadData, Idle, Call
<1>2. count \in Nat /\ offset \in Nat /\ call.nbytes \in Nat /\ d.inode \in InodeNum
  <2>1. call.nbytes \in NBytes /\ NBytes \subseteq Nat
    BY <1>1, CallerAssumption DEF Call
  <2>2. count \in Nat
    BY <1>1, LenProperties DEF Call, count
  <2>3. d.inode \in InodeNum /\ d.file_position \in Nat
    BY <1>1 DEF Descriptor
  <2>4. offset \in Nat
    BY <2>2, <2>3 DEF offset
  <2> QED
    BY <2>1, <2>2, <2>3, <2>4
<1>3. call.nbytes - count \in Nat /\ call.nbytes - count > 0 /\ offset < inode_length
  BY <1>2 DEF ReadData
<1>4. /\ chunk \in Seq(Byte)
      /\ Len(chunk) \in 1..(call.nbytes - count)
      /\ offset + Len(chunk) <= inode_length
      /\ \A k \in 1..Len(chunk) : chunk[k] = Content[d.inode][offset + k]
  BY <1>2, <1>3, ReadDataCopies DEF inode_length
<1>5. call' = [call EXCEPT !.data = call.data \o chunk]
  BY DEF ReadData
<1>6. call.data \o chunk \in Seq(Byte)
  BY <1>1, <1>4, ConcatProperties DEF Call
<1>7. call' \in Call
  <2> HIDE DEF chunk
  <2> QED
    BY <1>1, <1>5, <1>6 DEF Call
<1> QED
  BY <1>1, <1>4, <1>5, <1>7

-----------------------------------------------------------------------------
(* Types *)

LEMMA InitType == Init => TypeOK
<1> SUFFICES ASSUME Init PROVE TypeOK
  OBVIOUS
<1>1. Dentry[1] \in Entry /\ dentry_num \in Nat
  <2>1. 1 \in 1..dentry_num /\ dentry_num \in Nat
    BY ImageFacts
  <2> QED
    BY <2>1, ImageFacts DEF Entry
<1>2. <<>> \in Seq(Byte)
  OBVIOUS
<1> QED
  BY <1>1, <1>2 DEF Init, TypeOK, Entry

\* While a directory is open an entry has been read ahead.
EntryLoaded == DirectoryOpen => dir_dentry # Free

LEMMA NextType == TypeOK /\ DataIsSlice /\ EntryLoaded /\ [Next]_vars => TypeOK'
<1> SUFFICES ASSUME TypeOK, DataIsSlice, EntryLoaded, [Next]_vars PROVE TypeOK'
  OBVIOUS
<1> USE DEF TypeOK
<1>1. ASSUME NEW fd \in Fd, NEW fname \in Name \ (Device \cup {Dot}), OpenFile(fd, fname)
      PROVE  TypeOK'
  <2>1. read_dentry_by_name(fname).inode_num \in InodeNum
    BY <1>1, LookupByName DEF Entry
  <2> QED
    BY <1>1, <2>1 DEF OpenFile, Opened, Descriptor
<1>2. ASSUME NEW fd \in Fd, OpenDir(fd) PROVE TypeOK'
  <2>1. 0 \in InodeNum /\ read_dentry_by_name(Dot) \in [file_name : Name, inode_num : InodeNum]
    BY DotIsName, LookupByName DEF Entry
  <2>2. 0 \in 0..dentry_num
    BY ImageFacts
  <2> QED
    BY <1>2, <2>1, <2>2 DEF OpenDir, Opened, Descriptor
<1>3. ASSUME NEW fd \in Fd, NEW n \in NBytes, ReadFile(fd, n) PROVE TypeOK'
  <2>1. n \in Nat /\ <<>> \in Seq(Byte)
    BY <1>3, CallerAssumption
  <2> QED
    BY <1>3, <2>1 DEF ReadFile, Call
<1>4. CASE ReadData
  BY <1>4, ReadDataFacts DEF ReadData
<1>5. CASE ReadEnd
  <2>1. call \in Call /\ fd_array[call.fd] \in Descriptor
    BY <1>5 DEF DataIsSlice, ReadEnd, Idle, Call
  <2>2. offset \in Nat
    BY <2>1 DEF Call, Descriptor, offset, count
  <2>3. [fd_array[call.fd] EXCEPT !.file_position = offset] \in Descriptor
    BY <2>1, <2>2 DEF Descriptor
  <2>4. fd_array' \in [Fd -> Descriptor \cup {Free}]
    BY <1>5, <2>3 DEF ReadEnd
  <2>5. buf' \in Seq(Byte) /\ call' = Free
    BY <1>5, <2>1 DEF ReadEnd, Call
  <2> QED
    BY <1>5, <2>4, <2>5 DEF ReadEnd
<1>6. ASSUME NEW fd \in Fd, ReadDir(fd) PROVE TypeOK'
  <2>1. CASE last_dentry_read >= dentry_num
    <3>1. <<>> \in Seq(Name)
      OBVIOUS
    <3> QED
      BY <1>6, <2>1, <3>1 DEF ReadDir
  <2>2. CASE last_dentry_read < dentry_num
    <3>1. last_dentry_read + 1 \in 0..dentry_num
      BY <2>2, ImageFacts
    <3>2. <<dir_dentry.file_name>> \in Seq(Name)
      <4>1. dir_dentry # Free
        BY <1>6 DEF ReadDir, EntryLoaded, DirectoryOpen
      <4> QED
        BY <4>1
    <3>3. last_dentry_read + 1 < dentry_num =>
             read_dentry_by_index(last_dentry_read + 1) \in Entry
      BY <3>1, ImageFacts, LookupByIndex
    <3>4. ~(last_dentry_read >= dentry_num)
      BY <2>2, ImageFacts
    <3>5. dir_dentry' \in Entry \cup {Free} /\ last_dentry_read' = last_dentry_read + 1
      BY <1>6, <3>3, <3>4 DEF ReadDir, Entry
    <3> QED
      BY <1>6, <3>1, <3>2, <3>4, <3>5 DEF ReadDir, Entry
  <2> QED
    BY <2>1, <2>2, ImageFacts
<1>7. ASSUME NEW fd \in Fd, Close(fd) PROVE TypeOK'
  BY <1>7, ImageFacts DEF Close
<1>8. ASSUME NEW process \in Process, Halt(process) PROVE TypeOK'
  BY <1>8 DEF Halt
<1>9. CASE UNCHANGED vars
  BY <1>9 DEF vars
<1> QED
  BY <1>1, <1>2, <1>3, <1>4, <1>5, <1>6, <1>7, <1>8, <1>9 DEF Next, ReadStep

-----------------------------------------------------------------------------
(* What reads deliver *)

\* No descriptor's position is past the end of its file.  file_position is added
\* to after each read, so this is what ties one read to the next.
PositionsInFile ==
    \A fd \in Fd : fd_array[fd] # Free /\ fd_array[fd].table = "file" =>
        fd_array[fd].file_position <= Inode[fd_array[fd].inode + 1].length

IInv == TypeOK /\ EntryLoaded /\ PositionsInFile /\ DataIsSlice

\* A slice followed by the items behind it is the longer slice.
LEMMA SliceGrows ==
  ASSUME NEW S, NEW s \in Seq(S), NEW p \in Nat, NEW chunk \in Seq(S), NEW data \in Seq(S),
         data = Slice(s, p, Len(data)),
         \A k \in 1..Len(chunk) : chunk[k] = s[p + Len(data) + k]
  PROVE  data \o chunk = Slice(s, p, Len(data) + Len(chunk))
<1> DEFINE n == Len(data)
           m == Len(chunk)
           longer == Slice(s, p, n + m)
<1>1. n \in Nat /\ m \in Nat
  BY LenProperties
<1>2. /\ data \o chunk \in Seq(S) /\ Len(data \o chunk) = n + m
      /\ \A k \in 1..(n + m) :
            (data \o chunk)[k] = IF k <= n THEN data[k] ELSE chunk[k - n]
  BY ConcatProperties
<1>3. longer = [k \in 1..(n + m) |-> s[p + k]] /\ data = [k \in 1..n |-> s[p + k]]
  BY DEF Slice
<1> HIDE DEF longer
<1>4. ASSUME NEW k \in 1..(n + m) PROVE (data \o chunk)[k] = longer[k]
  <2>1. CASE k <= n
    <3>1. k \in 1..n
      BY <1>1, <2>1
    <3>2. data[k] = s[p + k]
      BY <1>3, <3>1
    <3> QED
      BY <1>2, <1>3, <2>1, <3>2
  <2>2. CASE k > n
    <3>1. k - n \in 1..m /\ p + n + (k - n) = p + k /\ ~(k <= n)
      BY <1>1, <2>2
    <3>2. chunk[k - n] = s[p + k]
      BY <3>1
    <3> QED
      BY <1>2, <1>3, <3>1, <3>2
  <2> QED
    BY <1>1, <2>1, <2>2
<1>5. data \o chunk = [k \in 1..(n + m) |-> (data \o chunk)[k]]
  <2> DEFINE e == data \o chunk
  <2>1. e \in Seq(S) /\ Len(e) = n + m
    BY <1>2
  <2> HIDE DEF e, n, m
  <2>2. e = [k \in 1..Len(e) |-> e[k]]
    BY <2>1, LenProperties
  <2> QED
    BY <2>1, <2>2 DEF e
<1>6. data \o chunk = [k \in 1..(n + m) |-> s[p + k]]
  BY <1>3, <1>4, <1>5
<1> QED
  BY <1>3, <1>6 DEF longer

LEMMA InitIInv == Init => IInv
<1> SUFFICES ASSUME Init PROVE IInv
  OBVIOUS
<1>1. TypeOK
  BY InitType
<1> QED
  BY <1>1 DEF Init, IInv, EntryLoaded, DirectoryOpen, PositionsInFile, DataIsSlice, Idle

\* One more turn of the loop keeps what was collected a part of the file.
LEMMA ReadDataSlice ==
  ASSUME IInv, ReadData
  PROVE  PositionsInFile' /\ DataIsSlice'
<1> DEFINE d == fd_array[call.fd]
           chunk == read_data(d.inode, offset, call.nbytes - count)
<1>1. /\ call \in Call /\ call' \in Call
      /\ call' = [call EXCEPT !.data = call.data \o chunk]
      /\ chunk \in Seq(Byte)
      /\ Len(chunk) \in 1..(call.nbytes - count)
      /\ offset + Len(chunk) <= inode_length
      /\ \A k \in 1..Len(chunk) : chunk[k] = Content[d.inode][offset + k]
  BY ReadDataFacts DEF IInv
<1> HIDE DEF chunk
<1>2. fd_array' = fd_array
  BY DEF ReadData
<1>3. call'.fd = call.fd /\ call'.nbytes = call.nbytes /\ call'.data = call.data \o chunk
  BY <1>1 DEF Call
<1>4. d \in Descriptor /\ d.table = "file" /\ d # Free
  BY <1>1 DEF IInv, TypeOK, DataIsSlice, ReadData, Idle, Call
<1>5. /\ count \in Nat /\ call.nbytes \in Nat /\ call.data \in Seq(Byte)
      /\ d.inode \in InodeNum /\ d.file_position \in Nat
      /\ offset = d.file_position + count
  BY <1>1, <1>4, CallerAssumption, LenProperties DEF Call, Descriptor, count, offset
<1>6. Len(chunk) \in Nat /\ count' = count + Len(chunk)
  BY <1>1, <1>3, <1>5, ConcatProperties, LenProperties DEF count
<1>7. offset' = offset + Len(chunk) /\ inode_length' = inode_length
  BY <1>2, <1>3, <1>5, <1>6 DEF offset, inode_length
<1>8. call'.data = Slice(Content[d.inode], d.file_position, count')
  <2> DEFINE data == call.data
             s == Content[d.inode]
             p == d.file_position
  <2>1. data = Slice(s, p, Len(data))
    BY DEF IInv, DataIsSlice, ReadData, count
  <2>2. s \in Seq(Byte) /\ data \in Seq(Byte) /\ p \in Nat /\ chunk \in Seq(Byte)
    BY <1>1, <1>5, ContentType
  <2>3. \A k \in 1..Len(chunk) : chunk[k] = s[p + Len(data) + k]
    BY <1>1, <1>5 DEF count
  <2> HIDE DEF data, s, p
  <2>4. data \o chunk = Slice(s, p, Len(data) + Len(chunk))
    BY <2>1, <2>2, <2>3, SliceGrows
  <2>5. call.data \o chunk =
           Slice(Content[d.inode], d.file_position, Len(call.data) + Len(chunk))
    BY <2>4 DEF data, s, p
  <2> QED
    BY <1>3, <1>6, <2>5 DEF count
<1>9. count' <= call'.nbytes /\ offset' <= inode_length'
  BY <1>1, <1>3, <1>5, <1>6, <1>7
<1>10. Content' = Content
  OBVIOUS
<1> QED
  BY <1>2, <1>3, <1>4, <1>8, <1>9, <1>10 DEF IInv, PositionsInFile, DataIsSlice

LEMMA NextSlice == IInv /\ [Next]_vars => PositionsInFile' /\ DataIsSlice'
<1> SUFFICES ASSUME IInv, [Next]_vars PROVE PositionsInFile' /\ DataIsSlice'
  OBVIOUS
<1> USE DEF IInv
<1>1. ASSUME NEW fd \in Fd, NEW fname \in Name \ (Device \cup {Dot}), OpenFile(fd, fname)
      PROVE  PositionsInFile' /\ DataIsSlice'
  <2>1. read_dentry_by_name(fname).inode_num \in InodeNum
    BY <1>1, LookupByName DEF Entry
  <2> DEFINE new == [table |-> "file", inode |-> read_dentry_by_name(fname).inode_num,
                     file_position |-> 0]
  <2>2. new.file_position <= Inode[new.inode + 1].length
    BY <2>1, ImageFacts
  <2>3. fd_array' = [fd_array EXCEPT ![fd] = new]
    BY <1>1 DEF OpenFile, Opened
  <2> HIDE DEF new
  <2>4. PositionsInFile'
    BY <2>2, <2>3 DEF TypeOK, PositionsInFile
  <2> QED
    BY <1>1, <2>4 DEF OpenFile, DataIsSlice, Idle
<1>2. ASSUME NEW fd \in Fd, OpenDir(fd) PROVE PositionsInFile' /\ DataIsSlice'
  BY <1>2 DEF OpenDir, Opened, TypeOK, PositionsInFile, DataIsSlice, Idle
<1>3. ASSUME NEW fd \in Fd, NEW n \in NBytes, ReadFile(fd, n)
      PROVE  PositionsInFile' /\ DataIsSlice'
  <2>1. /\ call' = [fd |-> fd, nbytes |-> n, data |-> <<>>] /\ fd_array' = fd_array
        /\ fd_array[fd] # Free /\ fd_array[fd].table = "file"
    BY <1>3 DEF ReadFile
  <2>2. n \in Nat /\ fd_array[fd].file_position \in Nat
    BY <1>3, <2>1, CallerAssumption DEF TypeOK, Descriptor
  <2>3. /\ count' = 0 /\ offset' = fd_array[fd].file_position
        /\ inode_length' = Inode[fd_array[fd].inode + 1].length
    BY <2>1, <2>2 DEF count, offset, inode_length
  <2>4. <<>> = Slice(Content[fd_array[fd].inode], fd_array[fd].file_position, 0)
    BY DEF Slice
  <2>5. Content' = Content
    OBVIOUS
  <2>6. DataIsSlice'
    BY <2>1, <2>2, <2>3, <2>4, <2>5 DEF PositionsInFile, DataIsSlice
  <2> QED
    BY <2>1, <2>6 DEF PositionsInFile
<1>4. CASE ReadData
  BY <1>4, ReadDataSlice
<1>5. CASE ReadEnd
  <2>1. call \in Call /\ fd_array[call.fd] \in Descriptor /\ offset <= inode_length
    BY <1>5 DEF TypeOK, DataIsSlice, ReadEnd, Idle, Call
  <2>2. /\ call' = Free
        /\ fd_array' = [fd_array EXCEPT ![call.fd].file_position = offset]
    BY <1>5 DEF ReadEnd
  <2> DEFINE new == [fd_array[call.fd] EXCEPT !.file_position = offset]
  <2>3. new.file_position = offset /\ new.inode = fd_array[call.fd].inode
    BY <2>1 DEF Descriptor
  <2>4. fd_array' = [fd_array EXCEPT ![call.fd] = new]
    BY <2>2
  <2> HIDE DEF new
  <2>5. PositionsInFile'
    BY <2>1, <2>3, <2>4 DEF TypeOK, PositionsInFile, inode_length
  <2> QED
    BY <2>2, <2>5 DEF DataIsSlice, Idle
<1>6. ASSUME NEW fd \in Fd, ReadDir(fd) PROVE PositionsInFile' /\ DataIsSlice'
  BY <1>6 DEF ReadDir, PositionsInFile, DataIsSlice, Idle
<1>7. ASSUME NEW fd \in Fd, Close(fd) PROVE PositionsInFile' /\ DataIsSlice'
  BY <1>7 DEF Close, TypeOK, PositionsInFile, DataIsSlice, Idle
<1>8. ASSUME NEW process \in Process, Halt(process) PROVE PositionsInFile' /\ DataIsSlice'
  BY <1>8 DEF Halt, PositionsInFile, DataIsSlice, Idle
<1>9. CASE UNCHANGED vars
  BY <1>9 DEF vars, PositionsInFile, DataIsSlice, Idle, count, offset, inode_length
<1> QED
  BY <1>1, <1>2, <1>3, <1>4, <1>5, <1>6, <1>7, <1>8, <1>9 DEF Next, ReadStep

LEMMA NextLoaded == IInv /\ [Next]_vars => EntryLoaded'
<1> SUFFICES ASSUME IInv, [Next]_vars PROVE EntryLoaded'
  OBVIOUS
<1> USE DEF IInv, TypeOK, EntryLoaded, DirectoryOpen
<1>1. ASSUME NEW fd \in Fd, NEW fname \in Name \ (Device \cup {Dot}), OpenFile(fd, fname)
      PROVE  EntryLoaded'
  <2> DEFINE new == [table |-> "file", inode |-> read_dentry_by_name(fname).inode_num,
                     file_position |-> 0]
  <2>1. /\ fd_array' = [fd_array EXCEPT ![fd] = new] /\ new.table = "file"
        /\ dir_dentry' = dir_dentry
    BY <1>1 DEF OpenFile, Opened
  <2> HIDE DEF new
  <2> QED
    BY <2>1
<1>2. ASSUME NEW fd \in Fd, OpenDir(fd) PROVE EntryLoaded'
  BY <1>2, EntryNotFree, DotIsName, LookupByName DEF OpenDir
<1>3. ASSUME NEW fd \in Fd, NEW n \in NBytes, ReadFile(fd, n) PROVE EntryLoaded'
  BY <1>3 DEF ReadFile
<1>4. CASE ReadData
  BY <1>4 DEF ReadData
<1>5. CASE ReadEnd
  <2>1. call \in Call /\ fd_array[call.fd] \in Descriptor /\ fd_array[call.fd].table = "file"
    BY <1>5 DEF DataIsSlice, ReadEnd, Idle, Call
  <2> DEFINE new == [fd_array[call.fd] EXCEPT !.file_position = offset]
  <2>2. new.table = "file"
    BY <2>1 DEF Descriptor
  <2>3. fd_array' = [fd_array EXCEPT ![call.fd] = new] /\ dir_dentry' = dir_dentry
    BY <1>5 DEF ReadEnd
  <2> HIDE DEF new
  <2> QED
    BY <2>2, <2>3
<1>6. ASSUME NEW fd \in Fd, ReadDir(fd) PROVE EntryLoaded'
  <2>1. dir_dentry' = dir_dentry \/ dir_dentry' \in Entry
    <3>1. CASE last_dentry_read >= dentry_num
      BY <1>6, <3>1 DEF ReadDir
    <3>2. CASE last_dentry_read < dentry_num
      <4>1. last_dentry_read' = last_dentry_read + 1 /\ last_dentry_read \in Nat
        BY <1>6, <3>2, ImageFacts DEF ReadDir
      <4>2. last_dentry_read' < dentry_num => last_dentry_read' \in 0..(dentry_num - 1)
        BY <4>1, ImageFacts
      <4>3. last_dentry_read' < dentry_num => read_dentry_by_index(last_dentry_read') \in Entry
        BY <4>2, LookupByIndex
      <4> QED
        BY <1>6, <4>3 DEF ReadDir
    <3> QED
      BY <3>1, <3>2, ImageFacts
  <2>2. dir_dentry # Free /\ dir_dentry' # Free
    BY <1>6, <2>1, EntryNotFree DEF ReadDir
  <2> QED
    BY <2>2
<1>7. ASSUME NEW fd \in Fd, Close(fd) PROVE EntryLoaded'
  BY <1>7 DEF Close
<1>8. ASSUME NEW process \in Process, Halt(process) PROVE EntryLoaded'
  BY <1>8 DEF Halt
<1>9. CASE UNCHANGED vars
  BY <1>9 DEF vars
<1> QED
  BY <1>1, <1>2, <1>3, <1>4, <1>5, <1>6, <1>7, <1>8, <1>9 DEF Next, ReadStep

LEMMA InductiveInvariant == Spec => []IInv
<1>1. Init => IInv
  BY InitIInv
<1>2. IInv /\ [Next]_vars => IInv'
  BY NextType, NextLoaded, NextSlice DEF IInv
<1> QED
  BY <1>1, <1>2, PTL DEF Spec

\* On every image, the descriptors, the directory's globals and the read under
\* way hold values of their kind; in particular the directory cursor never
\* passes the number of entries.
THEOREM TypeCorrect == Spec => []TypeOK
BY InductiveInvariant, PTL DEF IInv

\* Whatever the image, the block size, the sizes asked for and the order of the
\* calls, what file_read has collected is the part of the file that starts at
\* the descriptor's position.
THEOREM ReadsAreSlices == Spec => []DataIsSlice
BY InductiveInvariant, PTL DEF IInv

-----------------------------------------------------------------------------
(* Refinement, for programs that wait for the directory to be closed *)

\* The entry that is ready for the next read of the directory is the one at the
\* cursor.  dir_close rewinds the cursor and leaves the entry, so that this needs
\* the directory to be open once at a time.
ReadyAtCursor ==
    DirectoryOpen /\ last_dentry_read < dentry_num =>
        dir_dentry = read_dentry_by_index(last_dentry_read)

\* At most one descriptor is on the directory, and the entry that is ready is
\* the one at the cursor.
OneReader ==
    /\ \A f, g \in Fd : /\ fd_array[f] # Free /\ fd_array[f].table = "dir"
                        /\ fd_array[g] # Free /\ fd_array[g].table = "dir"
                        => f = g
    /\ ReadyAtCursor

LEMMA InitOneReader == Init => OneReader
BY DEF Init, OneReader, ReadyAtCursor, DirectoryOpen

LEMMA NextOneReader ==
  ASSUME OneDirectory, IInv, OneReader, [Next]_vars
  PROVE  OneReader'
<1> USE DEF IInv, TypeOK
<1>1. ASSUME NEW fd \in Fd, NEW fname \in Name \ (Device \cup {Dot}), OpenFile(fd, fname)
      PROVE  OneReader'
  <2> DEFINE new == [table |-> "file", inode |-> read_dentry_by_name(fname).inode_num,
                     file_position |-> 0]
  <2>1. fd_array' = [fd_array EXCEPT ![fd] = new] /\ new.table = "file"
    BY <1>1 DEF OpenFile, Opened
  <2> HIDE DEF new
  <2>2. UNCHANGED <<last_dentry_read, dir_dentry>>
    BY <1>1 DEF OpenFile
  <2> QED
    BY <2>1, <2>2 DEF OneReader, ReadyAtCursor, DirectoryOpen, read_dentry_by_index
<1>2. ASSUME NEW fd \in Fd, OpenDir(fd) PROVE OneReader'
  <2>1. ~DirectoryOpen /\ last_dentry_read' = 0 /\ dir_dentry' = read_dentry_by_name(Dot)
    BY <1>2 DEF OpenDir
  <2>2. fd_array' = [fd_array EXCEPT ![fd] = [table |-> "dir", inode |-> 0, file_position |-> 0]]
    BY <1>2 DEF OpenDir, Opened
  <2>3. read_dentry_by_name(Dot) = read_dentry_by_index(0)
    <3>1. 0 \in 0..(dentry_num - 1)
      BY ImageFacts
    <3>2. read_dentry_by_index(0) = Dentry[1]
      BY <3>1, LookupByIndex
    <3>3. read_dentry_by_name(Dot) = Dentry[1]
      BY DotIsName, LookupByName
    <3> QED
      BY <3>2, <3>3
  <2>4. \A f \in Fd : fd_array'[f] # Free /\ fd_array'[f].table = "dir" => f = fd
    BY <2>1, <2>2 DEF DirectoryOpen
  <2> QED
    BY <2>1, <2>3, <2>4 DEF OneReader, ReadyAtCursor
<1>3. ASSUME NEW fd \in Fd, NEW n \in NBytes, ReadFile(fd, n) PROVE OneReader'
  BY <1>3 DEF ReadFile, OneReader, ReadyAtCursor, DirectoryOpen, read_dentry_by_index
<1>4. CASE ReadData
  BY <1>4 DEF ReadData, OneReader, ReadyAtCursor, DirectoryOpen, read_dentry_by_index
<1>5. CASE ReadEnd
  <2>1. /\ fd_array' = [fd_array EXCEPT ![call.fd].file_position = offset]
        /\ UNCHANGED <<last_dentry_read, dir_dentry>>
    BY <1>5 DEF ReadEnd
  <2>2. call \in Call /\ fd_array[call.fd] \in Descriptor
    BY <1>5 DEF DataIsSlice, ReadEnd, Idle, Call
  <2> DEFINE new == [fd_array[call.fd] EXCEPT !.file_position = offset]
  <2>3. new.table = fd_array[call.fd].table /\ fd_array[call.fd].table = "file"
    BY <1>5, <2>2 DEF Descriptor, DataIsSlice, ReadEnd
  <2>4. fd_array' = [fd_array EXCEPT ![call.fd] = new]
    BY <2>1
  <2> HIDE DEF new
  <2> QED
    BY <2>1, <2>3, <2>4 DEF OneReader, ReadyAtCursor, DirectoryOpen, read_dentry_by_index
<1>6. ASSUME NEW fd \in Fd, ReadDir(fd) PROVE OneReader'
  <2>1. fd_array' = fd_array
    BY <1>6 DEF ReadDir
  <2>2. last_dentry_read' < dentry_num => dir_dentry' = read_dentry_by_index(last_dentry_read')
    BY <1>6, ImageFacts DEF ReadDir
  <2>3. read_dentry_by_index(last_dentry_read)' = read_dentry_by_index(last_dentry_read')
    BY DEF read_dentry_by_index
  <2> QED
    BY <2>1, <2>2, <2>3 DEF OneReader, ReadyAtCursor
<1>7. ASSUME NEW fd \in Fd, Close(fd) PROVE OneReader'
  <2>1. fd_array' = [fd_array EXCEPT ![fd] = Free] /\ dir_dentry' = dir_dentry
    BY <1>7 DEF Close
  <2>2. CASE fd_array[fd].table = "dir"
    <3>1. ~DirectoryOpen'
      BY <1>7, <2>1, <2>2 DEF Close, OneReader, DirectoryOpen
    <3> QED
      BY <2>1, <3>1 DEF OneReader, ReadyAtCursor, DirectoryOpen
  <2>3. CASE fd_array[fd].table # "dir"
    <3>1. last_dentry_read' = last_dentry_read
      BY <1>7, <2>3 DEF Close
    <3> QED
      BY <2>1, <3>1 DEF OneReader, ReadyAtCursor, DirectoryOpen, read_dentry_by_index
  <2> QED
    BY <2>2, <2>3
<1>8. ASSUME NEW process \in Process, Halt(process) PROVE OneReader'
  BY <1>8 DEF Halt, OneReader, ReadyAtCursor, DirectoryOpen, read_dentry_by_index
<1>9. CASE UNCHANGED vars
  BY <1>9 DEF vars, OneReader, ReadyAtCursor, DirectoryOpen, read_dentry_by_index
<1> QED
  BY <1>1, <1>2, <1>3, <1>4, <1>5, <1>6, <1>7, <1>8, <1>9 DEF Next, ReadStep

LEMMA NamesSeq == /\ Names \in Seq(Name) /\ Len(Names) = dentry_num
                  /\ \A k \in 1..dentry_num : Names[k] = Dentry[k].file_name
<1>1. \A k \in 1..dentry_num : Dentry[k].file_name \in Name
  BY DEF Name
<1>2. dentry_num \in Nat
  BY ImageFacts
<1> QED
  BY <1>1, <1>2 DEF Names

\* The next n items of a sequence are a slice of it.
LEMMA NextIsSlice ==
  ASSUME NEW S, NEW s \in Seq(S), NEW pos \in Nat, NEW n \in Nat, NEW c \in Nat,
         pos + c <= Len(s), c <= n, c = n \/ pos + c = Len(s)
  PROVE  Abstract!Next_n(s, pos, n) = Slice(s, pos, c)
<1> DEFINE got == SubSeq(s, pos + 1, pos + c)
<1>1. Len(s) \in Nat
  BY LenProperties
<1>2. (IF pos + n <= Len(s) THEN pos + n ELSE Len(s)) = pos + c
  BY <1>1
<1>3. Abstract!Next_n(s, pos, n) = got
  BY <1>2 DEF Abstract!Next_n
<1>4. got = [k \in 1..((pos + c) - (pos + 1) + 1) |-> s[k + (pos + 1) - 1]]
  BY DEF SubSeq
<1>5. (pos + c) - (pos + 1) + 1 = c /\ \A k \in 1..c : k + (pos + 1) - 1 = pos + k
  OBVIOUS
<1>6. got = [k \in 1..c |-> s[pos + k]]
  BY <1>4, <1>5
<1> QED
  BY <1>3, <1>6 DEF Slice

LEMMA InitRefines == Init => Abstract!Init
BY DEF Init, Abstract!Init, Streams, Stream, Asked, Idle

\* A step that leaves call alone leaves the question alone.
LEMMA SameQuestion == call' = call => Asked' = Asked
BY DEF Asked, Idle

\* Closing a set of descriptors, none of them or all of those on the directory.
LEMMA CloseRefines ==
  ASSUME NEW D \in SUBSET Fd,
         fd_array' = [fd \in Fd |-> IF fd \in D THEN Free ELSE fd_array[fd]],
         last_dentry_read' = last_dentry_read
           \/ \A fd \in Fd \ D : fd_array[fd] = Free \/ fd_array[fd].table # "dir",
         buf' = buf, call' = call
  PROVE  Abstract!Close(D)
<1>1. ASSUME NEW fd \in Fd
      PROVE  Stream(fd)' = IF fd \in D THEN Free ELSE Stream(fd)
  BY <1>1 DEF Stream
<1>2. Streams' = [fd \in Fd |-> IF fd \in D THEN Free ELSE Streams[fd]]
  BY <1>1 DEF Streams
<1> QED
  BY <1>2, SameQuestion DEF Abstract!Close

LEMMA OpenFileRefines ==
  ASSUME IInv, NEW fd \in Fd, NEW fname \in Name \ (Device \cup {Dot}), OpenFile(fd, fname)
  PROVE  Abstract!Open(fd, FileNamed[fname])
<1> DEFINE num == read_dentry_by_name(fname).inode_num
<1>1. num = FileNamed[fname]
  BY LookupByName DEF FileNamed
<1>2. /\ fd_array[fd] = Free /\ UNCHANGED <<last_dentry_read, buf, call>>
      /\ fd_array' = [fd_array EXCEPT ![fd] =
                         [table |-> "file", inode |-> num, file_position |-> 0]]
  BY DEF OpenFile, Opened
<1>3. fd_array' \in [Fd -> Descriptor \cup {Free}] /\ fd_array \in [Fd -> Descriptor \cup {Free}]
  BY NextType DEF IInv, TypeOK, Next
<1> HIDE DEF num
<1>4. [table |-> "file", inode |-> num, file_position |-> 0] # Free
  <2>1. num \in InodeNum
    BY LookupByName DEF Entry, num
  <2> QED
    BY <2>1, FreeAssumption DEF Descriptor
<1>5. ASSUME NEW f \in Fd
      PROVE  Stream(f)' = IF f = fd THEN [what |-> num, pos |-> 0] ELSE Stream(f)
  BY <1>2, <1>3, <1>4 DEF Stream
<1>6. Streams' = [Streams EXCEPT ![fd] = [what |-> num, pos |-> 0]]
  BY <1>5 DEF Streams
<1>7. Streams[fd] = Free
  BY <1>2 DEF Streams, Stream
<1> QED
  BY <1>1, <1>2, <1>6, <1>7, SameQuestion DEF Abstract!Open

LEMMA OpenDirRefines ==
  ASSUME OneDirectory, IInv, NEW fd \in Fd, OpenDir(fd)
  PROVE  Abstract!Open(fd, Dot)
<1> DEFINE new == [table |-> "dir", inode |-> 0, file_position |-> 0]
<1>1. /\ fd_array[fd] = Free /\ ~DirectoryOpen
      /\ last_dentry_read' = 0 /\ buf' = buf /\ call' = call
      /\ fd_array' = [fd_array EXCEPT ![fd] = new]
  BY DEF OpenDir, Opened
<1>2. new # Free /\ new.table = "dir"
  BY DotIsName, FreeAssumption DEF Descriptor
<1> HIDE DEF new
<1>3. ASSUME NEW f \in Fd
      PROVE  Stream(f)' = IF f = fd THEN [what |-> Dot, pos |-> 0] ELSE Stream(f)
  BY <1>1, <1>2 DEF Stream, IInv, TypeOK, DirectoryOpen
<1>4. Streams' = [Streams EXCEPT ![fd] = [what |-> Dot, pos |-> 0]]
  BY <1>3 DEF Streams
<1>5. Streams[fd] = Free
  BY <1>1 DEF Streams, Stream
<1> QED
  BY <1>1, <1>4, <1>5, SameQuestion DEF Abstract!Open

\* When file_read returns, it delivers the next nbytes bytes, or the rest.
LEMMA ReadEndRefines ==
  ASSUME IInv, ReadEnd
  PROVE  Abstract!Answer
<1> DEFINE fd == call.fd
           d == fd_array[fd]
           c == Content[d.inode]
           new == [d EXCEPT !.file_position = offset]
<1>1. /\ call \in Call /\ d \in Descriptor /\ d # Free /\ d.table = "file"
      /\ count <= call.nbytes /\ offset <= inode_length
      /\ call.data = Slice(c, d.file_position, count)
  BY DEF IInv, TypeOK, DataIsSlice, ReadEnd, Idle, Call
<1>2. fd \in Fd /\ call.nbytes \in NBytes /\ call.nbytes \in Nat /\ count \in Nat
  <2>1. fd \in Fd /\ call.nbytes \in NBytes /\ NBytes \subseteq Nat
    BY <1>1, CallerAssumption DEF Call
  <2>2. count \in Nat
    BY <1>1, LenProperties DEF Call, count
  <2> QED
    BY <2>1, <2>2
<1>3. d.inode \in InodeNum /\ d.file_position \in Nat
  BY <1>1 DEF Descriptor
<1>4. offset = d.file_position + count /\ offset \in Nat
  BY <1>2, <1>3 DEF offset
<1>5. c \in Seq(Byte) /\ Len(c) = inode_length
  BY <1>3, ContentType DEF inode_length
<1>6. count = call.nbytes \/ offset = inode_length
  <2>1. count >= call.nbytes \/ offset >= inode_length
    BY DEF ReadEnd
  <2>2. inode_length \in Nat
    BY <1>5, LenProperties
  <2> QED
    BY <1>1, <1>2, <1>4, <2>1, <2>2
<1>7. /\ buf' = call.data /\ fd_array' = [fd_array EXCEPT ![fd] = new]
      /\ last_dentry_read' = last_dentry_read
  BY DEF ReadEnd
<1>8. buf' = Abstract!Next_n(c, d.file_position, call.nbytes)
  <2> HIDE DEF c, d
  <2>1. Abstract!Next_n(c, d.file_position, call.nbytes) = Slice(c, d.file_position, count)
    BY <1>1, <1>2, <1>3, <1>4, <1>5, <1>6, NextIsSlice
  <2> QED
    BY <1>1, <1>7, <2>1
<1>9. Len(buf') = count
  BY <1>7 DEF count
<1>10. /\ new \in Descriptor /\ new.table = "file" /\ new.inode = d.inode
       /\ new.file_position = d.file_position + count
  BY <1>1, <1>4 DEF Descriptor
<1>11. Streams[fd] = [what |-> d.inode, pos |-> d.file_position]
  BY <1>1, <1>2 DEF Streams, Stream
<1>12. Streams' = [Streams EXCEPT ![fd].pos = @ + Len(buf')]
  <2> HIDE DEF new
  <2>1. ASSUME NEW f \in Fd
        PROVE  Stream(f)' = IF f = fd THEN [what |-> d.inode, pos |-> d.file_position + count]
                            ELSE Stream(f)
    <3>1. new # Free
      BY <1>10, FreeAssumption
    <3>2. fd_array \in [Fd -> Descriptor \cup {Free}]
      BY DEF IInv, TypeOK
    <3>3. fd_array'[f] = IF f = fd THEN new ELSE fd_array[f]
      BY <1>7, <3>2
    <3> QED
      BY <1>7, <1>10, <3>1, <3>3 DEF Stream
  <2>2. [Streams EXCEPT ![fd].pos = @ + count] =
           [Streams EXCEPT ![fd] = [what |-> d.inode, pos |-> d.file_position + count]]
    <3> DEFINE F == Streams
               w == d.inode
               p == d.file_position
               n == count
    <3>1. F[fd] = [what |-> w, pos |-> p]
      BY <1>11
    <3> HIDE DEF F, w, p, n, fd
    <3>2. [F[fd] EXCEPT !.pos = @ + n] = [what |-> w, pos |-> p + n]
      BY <3>1
    <3>3. [F EXCEPT ![fd].pos = @ + n] = [F EXCEPT ![fd] = [what |-> w, pos |-> p + n]]
      BY <3>2
    <3> QED
      BY <3>3 DEF F, w, p, n
  <2> QED
    BY <1>9, <2>1, <2>2 DEF Streams
<1>13. Asked = [desc |-> fd, size |-> call.nbytes] /\ Asked # Free /\ Asked' = Free
  <2>1. Asked = [desc |-> fd, size |-> call.nbytes]
    BY DEF Asked, Idle, ReadEnd
  <2>2. Asked # Free
    BY <1>2, <2>1, FreeAssumption
  <2> QED
    BY <2>1, <2>2 DEF Asked, Idle, ReadEnd
<1>14. Asked.desc = fd /\ Asked.size = call.nbytes
  BY <1>13
<1>15. Streams[fd].what = d.inode /\ Streams[fd].pos = d.file_position
  BY <1>11
<1>16. Abstract!ReadFrom(fd, c, call.nbytes)
  BY <1>8, <1>12, <1>15 DEF Abstract!ReadFrom
<1>17. c = Content[Streams[Asked.desc].what]
  BY <1>14, <1>15
<1> HIDE DEF c, fd
<1> QED
  BY <1>13, <1>14, <1>16, <1>17 DEF Abstract!Answer

LEMMA ReadFileRefines ==
  ASSUME IInv, NEW fd \in Fd, NEW n \in NBytes, ReadFile(fd, n)
  PROVE  Abstract!Ask(fd, n)
<1> DEFINE d == fd_array[fd]
           question == [fd |-> fd, nbytes |-> n, data |-> <<>>]
<1>1. /\ call = Free /\ call' = question /\ d # Free /\ d.table = "file"
      /\ UNCHANGED <<fd_array, last_dentry_read, buf>>
  BY DEF ReadFile, Idle
<1>2. question # Free
  <2>1. <<>> \in Seq(Byte)
    OBVIOUS
  <2>2. question \in [fd : Fd, nbytes : NBytes, data : Seq(Byte)]
    BY <2>1
  <2> HIDE DEF question
  <2> QED
    BY <2>2, FreeAssumption
<1>3. Asked = Free /\ Asked' = [desc |-> fd, size |-> n]
  BY <1>1, <1>2 DEF Asked, Idle
<1>4. d \in Descriptor
  BY <1>1 DEF IInv, TypeOK
<1>5. Streams[fd] = [what |-> d.inode, pos |-> d.file_position] /\ Streams' = Streams
  BY <1>1 DEF Streams, Stream
<1>6. d.inode \in InodeNum /\ d.file_position \in Nat
  BY <1>4 DEF Descriptor
<1>7. Streams[fd] # Free /\ Streams[fd].what # Dot
  BY <1>5, <1>6, FreeAssumption
<1> QED
  BY <1>1, <1>3, <1>5, <1>7 DEF Abstract!Ask

LEMMA ReadDirRefines ==
  ASSUME IInv, OneReader, NEW fd \in Fd, ReadDir(fd)
  PROVE  Abstract!ReadName(fd)
<1> DEFINE pos == last_dentry_read
           more == pos < dentry_num
<1>1. pos \in Nat /\ dentry_num \in Nat /\ pos <= dentry_num
  BY ImageFacts DEF IInv, TypeOK
<1>2. /\ fd_array[fd] # Free /\ fd_array[fd].table = "dir" /\ fd_array' = fd_array
      /\ buf' = IF more THEN <<dir_dentry.file_name>> ELSE <<>>
      /\ last_dentry_read' = IF more THEN pos + 1 ELSE pos
      /\ call' = call
  BY <1>1 DEF ReadDir
<1>3. Names \in Seq(Name) /\ Len(Names) = dentry_num
  BY NamesSeq
<1>4. buf' = Abstract!Next_n(Names, pos, 1) /\ last_dentry_read' = pos + Len(buf')
  <2>1. CASE more
    <3>1. dir_dentry = Dentry[pos + 1]
      <4>1. pos \in 0..(dentry_num - 1)
        BY <1>1, <2>1
      <4>2. DirectoryOpen
        BY <1>2 DEF DirectoryOpen
      <4> QED
        BY <2>1, <4>1, <4>2, LookupByIndex DEF OneReader, ReadyAtCursor
    <3>2. pos + 1 \in 1..dentry_num
      BY <1>1, <2>1
    <3>3. dir_dentry.file_name = Names[pos + 1]
      BY <3>1, <3>2, NamesSeq
    <3>4. Abstract!Next_n(Names, pos, 1) = Slice(Names, pos, 1)
      BY <1>1, <1>3, <3>2, NextIsSlice
    <3>5. Slice(Names, pos, 1) = <<Names[pos + 1]>>
      BY DEF Slice
    <3> QED
      BY <1>1, <1>2, <2>1, <3>3, <3>4, <3>5
  <2>2. CASE ~more
    <3>1. Abstract!Next_n(Names, pos, 1) = Slice(Names, pos, 0)
      BY <1>1, <1>3, <2>2, NextIsSlice
    <3>2. Slice(Names, pos, 0) = <<>>
      BY DEF Slice
    <3> QED
      BY <1>1, <1>2, <2>2, <3>1, <3>2
  <2> QED
    BY <2>1, <2>2
<1>5. Streams[fd] = [what |-> Dot, pos |-> pos]
  BY <1>2 DEF Streams, Stream
<1>6. Streams' = [Streams EXCEPT ![fd].pos = @ + Len(buf')]
  <2>1. ASSUME NEW f \in Fd
        PROVE  Stream(f)' = IF f = fd THEN [what |-> Dot, pos |-> pos + Len(buf')]
                            ELSE Stream(f)
    BY <1>2, <1>4 DEF Stream, OneReader
  <2>2. [Streams EXCEPT ![fd].pos = @ + Len(buf')] =
           [Streams EXCEPT ![fd] = [what |-> Dot, pos |-> pos + Len(buf')]]
    <3> DEFINE F == Streams
               n == Len(buf')
    <3>1. F[fd] = [what |-> Dot, pos |-> pos]
      BY <1>5
    <3> HIDE DEF F, n, pos
    <3>2. [F[fd] EXCEPT !.pos = @ + n] = [what |-> Dot, pos |-> pos + n]
      BY <3>1
    <3>3. [F EXCEPT ![fd].pos = @ + n] = [F EXCEPT ![fd] = [what |-> Dot, pos |-> pos + n]]
      BY <3>2
    <3> QED
      BY <3>3 DEF F, n
  <2> QED
    BY <2>1, <2>2 DEF Streams
<1>7. Streams[fd] # Free /\ Streams[fd].what = Dot /\ Streams[fd].pos = pos
  <2>1. [what |-> Dot, pos |-> pos] \in [what : InodeNum \cup {Dot}, pos : Nat]
    BY <1>1
  <2> QED
    BY <1>5, <2>1, FreeAssumption
<1> QED
  BY <1>2, <1>4, <1>6, <1>7, SameQuestion DEF Abstract!ReadName, Abstract!ReadFrom

LEMMA NextRefines ==
  ASSUME OneDirectory, IInv, OneReader, [Next]_vars
  PROVE  [Abstract!Next]_(Abstract!vars)
<1> SUFFICES Abstract!Next \/ UNCHANGED Abstract!vars
  OBVIOUS
<1>1. ASSUME NEW fd \in Fd, NEW fname \in Name \ (Device \cup {Dot}), OpenFile(fd, fname)
      PROVE  Abstract!Next
  BY <1>1, OpenFileRefines DEF Abstract!Next, FileNamed
<1>2. ASSUME NEW fd \in Fd, OpenDir(fd) PROVE Abstract!Next
  BY <1>2, OpenDirRefines DEF Abstract!Next
<1>3. ASSUME NEW fd \in Fd, NEW n \in NBytes, ReadFile(fd, n) PROVE Abstract!Next
  BY <1>3, ReadFileRefines DEF Abstract!Next
<1>4. CASE ReadData
  <2>1. Streams' = Streams /\ buf' = buf
    BY <1>4 DEF ReadData, Streams, Stream
  <2>2. call \in Call /\ call' \in Call /\ call'.fd = call.fd /\ call'.nbytes = call.nbytes
    BY <1>4, ReadDataFacts DEF IInv, Call
  <2>3. Asked' = Asked
    BY <2>2, FreeAssumption DEF Asked, Idle, Call
  <2> QED
    BY <2>1, <2>3 DEF Abstract!vars
<1>5. CASE ReadEnd
  BY <1>5, ReadEndRefines DEF Abstract!Next
<1>6. ASSUME NEW fd \in Fd, ReadDir(fd) PROVE Abstract!Next
  BY <1>6, ReadDirRefines DEF Abstract!Next
<1>7. ASSUME NEW fd \in Fd, Close(fd) PROVE Abstract!Next
  <2>1. fd_array' = [f \in Fd |-> IF f \in {fd} THEN Free ELSE fd_array[f]]
    BY <1>7 DEF Close, IInv, TypeOK
  <2>2. last_dentry_read' = last_dentry_read
          \/ \A f \in Fd \ {fd} : fd_array[f] = Free \/ fd_array[f].table # "dir"
    BY <1>7 DEF Close, OneReader
  <2>3. buf' = buf /\ call' = call
    BY <1>7 DEF Close
  <2> QED
    BY <2>1, <2>2, <2>3, CloseRefines DEF Abstract!Next
<1>8. ASSUME NEW process \in Process, Halt(process) PROVE Abstract!Next
  <2> DEFINE D == {fd \in Fd : Owner[fd] = process}
  <2>1. fd_array' = [f \in Fd |-> IF f \in D THEN Free ELSE fd_array[f]]
    BY <1>8 DEF Halt
  <2>2. D \in SUBSET Fd /\ UNCHANGED <<last_dentry_read, buf, call>>
    BY <1>8 DEF Halt
  <2> HIDE DEF D
  <2> QED
    BY <2>1, <2>2, CloseRefines DEF Abstract!Next
<1>9. CASE UNCHANGED vars
  BY <1>9 DEF vars, Abstract!vars, Streams, Stream, Asked, Idle
<1> QED
  BY <1>1, <1>2, <1>3, <1>4, <1>5, <1>6, <1>7, <1>8, <1>9 DEF Next, ReadStep

\* For programs that wait for the directory to be closed, the shared cursor, the
\* entry read ahead, the blocks and the loop over them cannot be told from
\* independent streams.
THEOREM FilesImplementStreams ==
  ASSUME OneDirectory
  PROVE  Spec => ImplementsFileStream
<1>1. Init => Abstract!Init
  BY InitRefines
<1>2. Init => OneReader
  BY InitOneReader
<1>3. IInv /\ OneReader /\ [Next]_vars => OneReader'
  BY NextOneReader
<1>4. IInv /\ OneReader /\ [Next]_vars => [Abstract!Next]_(Abstract!vars)
  BY NextRefines
<1> QED
  BY <1>1, <1>2, <1>3, <1>4, InductiveInvariant, PTL
     DEF Spec, ImplementsFileStream, Abstract!Spec
=============================================================================
