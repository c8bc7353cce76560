-------------------------------- MODULE Files --------------------------------
(***************************************************************************)
(* The read-only file system (filesyshelper.c) and the descriptors that    *)
(* system_open, system_read, system_close and system_halt keep for it      *)
(* (systemcall_function.c, sys_execute.c).                                 *)
(*                                                                         *)
(* The image is a constant: a list of directory entries, inodes with their *)
(* lengths and block lists, and data blocks.  file_read asks read_data for *)
(* one block after another; each request is a step.  No other system call  *)
(* can start before it ends.  A file's position lives in its descriptor,   *)
(* the directory's in two globals that all descriptors share.              *)
(*                                                                         *)
(* A call that is refused (a name that is not there, a free descriptor, a  *)
(* write) changes nothing and is a stuttering step.  Left out:             *)
(* last_position_read and the file_position of a directory, which are      *)
(* written and never read, file_dentry, which is read only by the call     *)
(* that writes it, and how a process picks a free descriptor (Processes).  *)
(***************************************************************************)
EXTENDS Integers, Sequences

CONSTANTS BLOCK_SIZE,
          Byte,
          Block,         \* the data blocks, by number
          Inode,         \* the inodes, number 0 first: length and blocks
          Dentry,        \* the directory entries: file_name and inode_num
          Dot,           \* the directory's own name
          Device,        \* names that system_open keeps for devices
          Fd,            \* descriptors of all processes
          Owner,         \* the process of each descriptor
          Process,       \* the processes that have a parent to return to
          NBytes,        \* sizes that programs pass to read
          OneDirectory,  \* whether programs wait for the directory to be closed
          Free

InodeNum == 0..(Len(Inode) - 1)

dentry_num == Len(Dentry)

Name == {Dentry[k].file_name : k \in 1..dentry_num}

\* What createfs builds: at most 64 inodes, as many blocks as the length of a
\* file needs, names that differ, and the directory itself as the first entry.
ASSUME BlockAssumption ==
    /\ BLOCK_SIZE \in Nat /\ BLOCK_SIZE > 0
    /\ Block \in [DOMAIN Block -> [0..(BLOCK_SIZE - 1) -> Byte]]

ASSUME InodeAssumption ==
    /\ Inode \in Seq([length : Nat, blocks : Seq(DOMAIN Block)])
    /\ Len(Inode) <= 256
    /\ \A i \in 1..Len(Inode) : Inode[i].length <= BLOCK_SIZE * Len(Inode[i].blocks)

ASSUME DentryAssumption ==
    /\ Dentry \in Seq([file_name : Name, inode_num : InodeNum])
    /\ Len(Dentry) > 0 /\ Dentry[1].file_name = Dot
    /\ \A j, k \in 1..Len(Dentry) : Dentry[j].file_name = Dentry[k].file_name => j = k

ASSUME CallerAssumption ==
    /\ DOMAIN Owner = Fd
    /\ NBytes \subseteq Nat
    /\ OneDirectory \in BOOLEAN
    /\ Dot \notin Device

Descriptor == [table : {"file", "dir"}, inode : InodeNum, file_position : Nat]

\* Free is no descriptor, entry or call, and nothing the abstract specification
\* knows of.
ASSUME FreeAssumption ==
    /\ Free \notin Descriptor
    /\ Free \notin [file_name : Name, inode_num : InodeNum]
    /\ Dot \notin InodeNum
    /\ Free \notin [fd : Fd, nbytes : NBytes, data : Seq(Byte)]
    /\ Free \notin [what : InodeNum \cup {Dot}, pos : Nat]
    /\ Free \notin [desc : Fd, size : NBytes]

VARIABLES fd_array,          \* the descriptors
          last_dentry_read,  \* the directory cursor
          dir_dentry,        \* the entry the next dir_read returns, Free before dir_open
          call,              \* the file_read under way, Free if none
          buf                \* what the last read delivered

vars == <<fd_array, last_dentry_read, dir_dentry, call, buf>>

Init == /\ fd_array = [fd \in Fd |-> Free]
        /\ dir_dentry = Free
        /\ last_dentry_read = 0
        /\ call = Free
        /\ buf = <<>>

-----------------------------------------------------------------------------
(* The image *)

\* Only the low byte of an entry's inode_num is loaded.
read_dentry_by_index(index) == [Dentry[index + 1] EXCEPT !.inode_num = @ % 256]

read_dentry_by_name(fname) ==
    read_dentry_by_index((CHOOSE k \in 1..dentry_num : Dentry[k].file_name = fname) - 1)

\* Mutant: the end of the file is not looked at.
DataLengthUncut(inode, at, length) ==
    IF BLOCK_SIZE - (at % BLOCK_SIZE) < length
    THEN BLOCK_SIZE - (at % BLOCK_SIZE) ELSE length

\* Mutant: the last byte of a block is left for the next request.
DataLengthShort(inode, at, length) ==
    LET room == BLOCK_SIZE - (at % BLOCK_SIZE) - 1
        fits == IF room < length THEN room ELSE length
    IN  IF at + fits > Inode[inode + 1].length
        THEN Inode[inode + 1].length - at ELSE fits

\* read_data's length, cut at the end of the block and at the end of the file.
DataLength(inode, at, length) ==
    LET room == BLOCK_SIZE - (at % BLOCK_SIZE)
        fits == IF room < length THEN room ELSE length
    IN  IF at + fits > Inode[inode + 1].length
        THEN Inode[inode + 1].length - at ELSE fits

\* The bytes read_data copies from the block that holds at.
read_data(inode, at, length) ==
    LET data_block == Block[Inode[inode + 1].blocks[(at \div BLOCK_SIZE) + 1]]
    IN  [k \in 1..DataLength(inode, at, length) |->
            data_block[(at % BLOCK_SIZE) + k - 1]]

-----------------------------------------------------------------------------
(* System calls *)

Idle == call = Free

Opened(fd, kind, num) ==
    fd_array' = [fd_array EXCEPT ![fd] =
                    [table |-> kind, inode |-> num, file_position |-> 0]]

OpenFile(fd, fname) ==
    /\ Idle /\ fd_array[fd] = Free
    /\ Opened(fd, "file", read_dentry_by_name(fname).inode_num)
    /\ UNCHANGED <<last_dentry_read, dir_dentry, call, buf>>

DirectoryOpen == \E fd \in Fd : fd_array[fd] # Free /\ fd_array[fd].table = "dir"

\* Mutant: the cursor stays where the last reader left it.
OpenDirWhereLeft(fd) ==
    /\ Idle /\ fd_array[fd] = Free
    /\ OneDirectory => ~DirectoryOpen
    /\ dir_dentry' = read_dentry_by_name(Dot)
    /\ Opened(fd, "dir", 0)
    /\ UNCHANGED <<last_dentry_read, call, buf>>

OpenDir(fd) ==
    /\ Idle /\ fd_array[fd] = Free
    /\ OneDirectory => ~DirectoryOpen
    /\ last_dentry_read' = 0
    /\ dir_dentry' = read_dentry_by_name(Dot)
    /\ Opened(fd, "dir", 0)
    /\ UNCHANGED <<call, buf>>

\* system_read enters file_read.
ReadFile(fd, nbytes) ==
    /\ Idle
    /\ fd_array[fd] # Free /\ fd_array[fd].table = "file"
    /\ call' = [fd |-> fd, nbytes |-> nbytes, data |-> <<>>]
    /\ UNCHANGED <<fd_array, last_dentry_read, dir_dentry, buf>>

count == Len(call.data)

offset == fd_array[call.fd].file_position + count

inode_length == Inode[fd_array[call.fd].inode + 1].length

\* One turn of the loop in file_read.
ReadData ==
    /\ ~Idle
    /\ count < call.nbytes
    /\ offset < inode_length
    /\ call' = [call EXCEPT !.data =
                   @ \o read_data(fd_array[call.fd].inode, offset, call.nbytes - count)]
    /\ UNCHANGED <<fd_array, last_dentry_read, dir_dentry, buf>>

\* All was read, or read_data returned -1.
ReadEnd ==
    /\ ~Idle
    /\ count >= call.nbytes \/ offset >= inode_length
    /\ fd_array' = [fd_array EXCEPT ![call.fd].file_position = offset]
    /\ buf' = call.data
    /\ call' = Free
    /\ UNCHANGED <<last_dentry_read, dir_dentry>>

\* Mutant: the test lets one more read through.
ReadDirTooFar(fd) ==
    /\ Idle
    /\ fd_array[fd] # Free /\ fd_array[fd].table = "dir"
    /\ IF last_dentry_read > dentry_num
       THEN buf' = <<>> /\ UNCHANGED <<last_dentry_read, dir_dentry>>
       ELSE /\ buf' = <<dir_dentry.file_name>>
            /\ last_dentry_read' = last_dentry_read + 1
            /\ dir_dentry' = IF last_dentry_read' < dentry_num
                             THEN read_dentry_by_index(last_dentry_read') ELSE dir_dentry
    /\ UNCHANGED <<fd_array, call>>

\* system_read on the directory: the name that is ready, or nothing.
ReadDir(fd) ==
    /\ Idle
    /\ fd_array[fd] # Free /\ fd_array[fd].table = "dir"
    /\ IF last_dentry_read >= dentry_num
       THEN buf' = <<>> /\ UNCHANGED <<last_dentry_read, dir_dentry>>
       ELSE /\ buf' = <<dir_dentry.file_name>>
            /\ last_dentry_read' = last_dentry_read + 1
            /\ dir_dentry' = IF last_dentry_read' < dentry_num
                             THEN read_dentry_by_index(last_dentry_read') ELSE dir_dentry
    /\ UNCHANGED <<fd_array, call>>

\* dir_close resets the cursor, not the entry that is ready.
Close(fd) ==
    /\ Idle /\ fd_array[fd] # Free
    /\ last_dentry_read' = IF fd_array[fd].table = "dir" THEN 0 ELSE last_dentry_read
    /\ fd_array' = [fd_array EXCEPT ![fd] = Free]
    /\ UNCHANGED <<dir_dentry, call, buf>>

\* system_halt frees the descriptors of a process and calls no close.  Halting
\* the first shell leaves its descriptors open.
Halt(process) ==
    /\ Idle
    /\ fd_array' = [fd \in Fd |-> IF Owner[fd] = process THEN Free ELSE fd_array[fd]]
    /\ UNCHANGED <<last_dentry_read, dir_dentry, call, buf>>

ReadStep == ReadData \/ ReadEnd

Next == \/ \E fd \in Fd : \/ \E fname \in Name \ (Device \cup {Dot}) : OpenFile(fd, fname)
                          \/ OpenDir(fd)
                          \/ \E n \in NBytes : ReadFile(fd, n)
                          \/ ReadDir(fd)
                          \/ Close(fd)
        \/ ReadStep
        \/ \E process \in Process : Halt(process)

Spec == Init /\ [][Next]_vars

\* A system call runs until it returns.
FairSpec == Spec /\ WF_vars(ReadStep)

-----------------------------------------------------------------------------
(* Properties *)

Call == [fd : Fd, nbytes : NBytes, data : Seq(Byte)]

TypeOK == /\ fd_array \in [Fd -> Descriptor \cup {Free}]
          /\ last_dentry_read \in 0..dentry_num
          /\ dir_dentry \in [file_name : Name, inode_num : InodeNum] \cup {Free}
          /\ call \in Call \cup {Free}
          /\ buf \in Seq(Byte) \cup Seq(Name)

\* The bytes of a file.
Content == [i \in InodeNum |->
               [k \in 1..Inode[i + 1].length |->
                   Block[Inode[i + 1].blocks[((k - 1) \div BLOCK_SIZE) + 1]]
                        [(k - 1) % BLOCK_SIZE]]]

Slice(s, first, n) == [k \in 1..n |-> s[first + k]]

\* Whatever the alignment, what a read has collected so far is the part of the
\* file that starts at the descriptor's position, no byte lost or repeated at a
\* block's end, none invented at the file's end, never more than was asked for.
DataIsSlice ==
    ~Idle =>
        /\ fd_array[call.fd] # Free /\ fd_array[call.fd].table = "file"
        /\ count <= call.nbytes
        /\ offset <= inode_length
        /\ call.data = Slice(Content[fd_array[call.fd].inode],
                             fd_array[call.fd].file_position, count)

FileNamed == [n \in Name \ (Device \cup {Dot}) |->
                 Dentry[CHOOSE k \in 1..dentry_num : Dentry[k].file_name = n].inode_num]

Names == [k \in 1..dentry_num |-> Dentry[k].file_name]

\* What a descriptor refers to and how far it was read.
Stream(fd) ==
    IF fd_array[fd] = Free THEN Free
    ELSE IF fd_array[fd].table = "dir" THEN [what |-> Dot, pos |-> last_dentry_read]
    ELSE [what |-> fd_array[fd].inode, pos |-> fd_array[fd].file_position]

Streams == [fd \in Fd |-> Stream(fd)]

Asked == IF Idle THEN Free ELSE [desc |-> call.fd, size |-> call.nbytes]

\* A program that waits for the directory to be closed sees descriptors that
\* have nothing to do with each other: the code implements FileStream.
Abstract == INSTANCE FileStream WITH
    Desc      <- Fd,
    Lookup    <- FileNamed,
    Listing   <- Names,
    Directory <- Dot,
    Closed    <- Free,
    open      <- Streams,
    asked     <- Asked,
    got       <- buf

ImplementsFileStream == Abstract!Spec

\* Each turn of the loop in file_read makes progress, so a read returns.
ReadReturns == ~Idle ~> Idle
=============================================================================
