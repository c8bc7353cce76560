--------------------------- MODULE Processes_proofs ---------------------------
(***************************************************************************)
(* Proofs about Processes, for every number of processes and descriptors   *)
(* and every size of the kernel stack that ProcessAssumption allows.       *)
(***************************************************************************)
EXTENDS Processes, Sequences, SequenceTheorems, WellFoundedInduction, TLAPS

USE DEF Num, Fd, Live

-----------------------------------------------------------------------------
(* The descriptor array *)

\* The index system_open picks is a free descriptor, and the lowest one.
LEMMA FirstFreeIsLowest ==
  ASSUME NEW fds, FreeFds(fds) # {}
  PROVE  /\ FirstFree(fds) \in FreeFds(fds)
         /\ \A g \in FreeFds(fds) : FirstFree(fds) <= g
<1>1. FreeFds(fds) \subseteq Nat
  BY ProcessAssumption DEF FreeFds
<1>2. \E m \in FreeFds(fds) : \A g \in FreeFds(fds) : m <= g
  <2> DEFINE R == OpToRel(<, Nat)
  <2>1. \E m \in FreeFds(fds) : \A g \in FreeFds(fds) : ~(<<g, m>> \in R)
    BY <1>1, NatLessThanWellFounded, WFMin
  <2>2. \A g, m \in Nat : g < m => <<g, m>> \in R
    BY DEF OpToRel
  <2> HIDE DEF R
  <2>3. PICK m \in FreeFds(fds) : \A g \in FreeFds(fds) : ~(<<g, m>> \in R)
    BY <2>1
  <2>4. ASSUME NEW g \in FreeFds(fds) PROVE m <= g
    <3>1. m \in Nat /\ g \in Nat /\ ~(<<g, m>> \in R)
      BY <1>1, <2>3
    <3>2. ~(g < m)
      BY <2>2, <3>1
    <3> QED
      BY <3>1, <3>2
  <2> QED
    BY <2>4
<1> QED
  BY <1>2 DEF FirstFree

\* Opening keeps what is open, wherever the new descriptor lands.
LEMMA OpenedKeeps ==
  ASSUME NEW fds \in [Fd -> Kind \cup {Free}], NEW kind \in Kind
  PROVE  /\ Opened(fds, kind) \in [Fd -> Kind \cup {Free}]
         /\ \A fd \in Fd : fds[fd] # Free => Opened(fds, kind)[fd] = fds[fd]
<1>1. CASE FreeFds(fds) = {}
  BY <1>1 DEF Opened
<1>2. CASE FreeFds(fds) # {}
  <2>1. FirstFree(fds) \in Fd /\ fds[FirstFree(fds)] = Free
    BY <1>2, FirstFreeIsLowest DEF FreeFds
  <2> QED
    BY <1>2, <2>1 DEF Opened
<1> QED
  BY <1>1, <1>2

\* execute leaves the console on descriptors 0 and 1 when it starts from an
\* array that is free, and also when they are there already.
LEMMA ConsoleOpens ==
  ASSUME NEW fds \in [Fd -> Kind \cup {Free}],
         \/ \A fd \in Fd : fds[fd] = Free
         \/ fds[0] = "stdin" /\ fds[1] = "stdout"
  PROVE  /\ WithConsole(fds) \in [Fd -> Kind \cup {Free}]
         /\ WithConsole(fds)[0] = "stdin"
         /\ WithConsole(fds)[1] = "stdout"
<1> DEFINE one == Opened(fds, "stdin")
<1>0. 0 \in Fd /\ 1 \in Fd /\ "stdin" \in Kind /\ "stdout" \in Kind /\ Fd \subseteq Nat
  BY ProcessAssumption DEF Kind
<1>1. one \in [Fd -> Kind \cup {Free}] /\ WithConsole(fds) \in [Fd -> Kind \cup {Free}]
  BY <1>0, OpenedKeeps DEF WithConsole
<1>2. CASE fds[0] = "stdin" /\ fds[1] = "stdout"
  <2>1. one[0] = "stdin" /\ one[1] = "stdout"
    BY <1>0, <1>2, OpenedKeeps, FreeAssumption
  <2> QED
    BY <1>0, <1>1, <2>1, OpenedKeeps, FreeAssumption DEF WithConsole
<1>3. CASE \A fd \in Fd : fds[fd] = Free
  <2>1. FirstFree(fds) = 0
    <3>1. 0 \in FreeFds(fds)
      BY <1>0, <1>3 DEF FreeFds
    <3>2. FirstFree(fds) <= 0 /\ FirstFree(fds) \in Fd
      BY <3>1, FirstFreeIsLowest DEF FreeFds
    <3> QED
      BY <3>2, <1>0
  <2>2. one = [fds EXCEPT ![0] = "stdin"]
    BY <1>0, <1>3, <2>1 DEF Opened, FreeFds
  <2>3. one[0] = "stdin" /\ \A fd \in Fd : fd # 0 => one[fd] = Free
    BY <1>0, <1>3, <2>2
  <2>4. FirstFree(one) = 1
    <3>1. 1 \in FreeFds(one)
      BY <1>0, <2>3 DEF FreeFds
    <3>2. FirstFree(one) <= 1 /\ FirstFree(one) \in Fd /\ one[FirstFree(one)] = Free
      BY <3>1, FirstFreeIsLowest DEF FreeFds
    <3>3. FirstFree(one) # 0
      BY <2>3, <3>2, FreeAssumption DEF Kind
    <3> QED
      BY <3>2, <3>3, <1>0
  <2>5. WithConsole(fds) = [one EXCEPT ![1] = "stdout"]
    <3>1. FreeFds(one) # {}
      BY <1>0, <2>3 DEF FreeFds
    <3>2. Opened(one, "stdout") = [one EXCEPT ![1] = "stdout"]
      BY <2>4, <3>1 DEF Opened
    <3> QED
      BY <3>2 DEF WithConsole
  <2> HIDE DEF one
  <2>6. WithConsole(fds)[1] = "stdout" /\ WithConsole(fds)[0] = one[0]
    BY <1>0, <1>1, <2>5
  <2> QED
    BY <1>1, <2>3, <2>6
<1> QED
  BY <1>2, <1>3
-----------------------------------------------------------------------------
(* The inductive invariant *)

\* The first process keeps its number: halt comes back to it through its
\* child's PCB, which ParentChain says nothing about for the first.
FirstPcbNumbered == process_total > 0 => pcb[1].process_num = 1

IInv == /\ TypeOK
        /\ CurrentAgrees
        /\ ParentChain
        /\ ConsoleFds
        /\ DeadFdsFree
        /\ FirstPcbNumbered

LEMMA InitIInv == Init => IInv
BY ProcessAssumption
   DEF Init, IInv, TypeOK, CurrentAgrees, ParentChain, ConsoleFds, DeadFdsFree,
       FirstPcbNumbered, ZeroPCB, NullStack, PCB, StackPointer

\* The child execute creates is numbered one above the running process, in a
\* slot nobody owns.
LEMMA ChildIsNext ==
  ASSUME IInv, process_total \in 1..(MAXIMUM_PROCESS - 2), StackRoom
  PROVE  /\ PcbAt(Push(esp0, FRAME)) = current_pcb
         /\ pcb[PcbAt(Push(esp0, FRAME))].process_num + 1 = process_total + 1
         /\ process_total + 1 \in Num
         /\ Push(esp0, FRAME) \in StackPointer
         /\ Push(esp0, FRAME).stack = current_pcb
         /\ Push(esp0, FRAME).used <= STACK_SIZE - PCB_SIZE
<1>1. /\ esp0 \in StackPointer /\ current_pcb = process_total
      /\ pcb[current_pcb].process_num = current_pcb /\ esp0.stack = current_pcb
  BY DEF IInv, TypeOK, CurrentAgrees
<1>2. Push(esp0, FRAME) = [stack |-> esp0.stack, used |-> esp0.used + FRAME]
  BY <1>1 DEF Push, StackPointer
<1>3. esp0.used + FRAME <= STACK_SIZE - PCB_SIZE /\ esp0.used \in Nat
  BY <1>1 DEF StackRoom, StackPointer
<1>4. PcbAt(Push(esp0, FRAME)) = current_pcb
  BY <1>1, <1>2, <1>3, ProcessAssumption DEF PcbAt
<1> QED
  BY <1>1, <1>2, <1>3, <1>4, ProcessAssumption DEF StackPointer

LEMMA ExecuteFirstIInv ==
  ASSUME IInv, process_total <= 1, ExecuteFirst(Shell, NoArg)
  PROVE  IInv'
<1> DEFINE fds == pcb[1].fd_array
<1>1. 1 \in Num /\ pcb[1] \in PCB /\ fds \in [Fd -> Kind \cup {Free}]
  BY ProcessAssumption DEF IInv, TypeOK, PCB
<1>2. process_total = 0 \/ process_total = 1
  BY DEF IInv, TypeOK
<1>3. \/ \A fd \in Fd : fds[fd] = Free
      \/ fds[0] = "stdin" /\ fds[1] = "stdout"
  BY <1>1, <1>2 DEF IInv, DeadFdsFree, ConsoleFds
<1>4. /\ WithConsole(fds) \in [Fd -> Kind \cup {Free}]
      /\ WithConsole(fds)[0] = "stdin" /\ WithConsole(fds)[1] = "stdout"
  BY <1>1, <1>3, ConsoleOpens
<1>5. /\ FirstPCB(NoArg) \in PCB
      /\ FirstPCB(NoArg).process_num = 1
      /\ FirstPCB(NoArg).fd_array = WithConsole(fds)
  <2>1. FirstPCB(NoArg) =
          [process_num |-> 1, parent_process_num |-> 1, parent_pcb |-> 1,
           parent_kesp |-> pcb[1].parent_kesp, fd_array |-> WithConsole(fds),
           argbuf |-> NoArg]
    BY DEF FirstPCB
  <2> QED
    BY <1>1, <1>4, <2>1, ProcessAssumption DEF PCB
<1>6. /\ process_total' = 1 /\ page' = 1 /\ current_pcb' = 1 /\ argument' = NoArg
      /\ pcb' = [pcb EXCEPT ![1] = FirstPCB(NoArg)]
      /\ frame' = [frame EXCEPT ![1] = Shell]
      /\ esp0' = [stack |-> 1, used |-> 1]
      /\ eax' = Started
  BY DEF ExecuteFirst, StackTop
<1>7. TypeOK'
  BY <1>1, <1>5, <1>6, ProcessAssumption DEF IInv, TypeOK, StackPointer
<1>8. pcb'[1] = FirstPCB(NoArg) /\ \A n \in Num \ {1} : pcb'[n] = pcb[n]
  BY <1>1, <1>6 DEF IInv, TypeOK
<1>9. CurrentAgrees' /\ ParentChain' /\ FirstPcbNumbered'
  BY <1>5, <1>6, <1>8 DEF CurrentAgrees, ParentChain, FirstPcbNumbered
<1>10. ConsoleFds'
  BY <1>4, <1>5, <1>6, <1>8 DEF ConsoleFds
<1>11. DeadFdsFree'
  <2>1. \A n \in Num \ {1} : \A fd \in Fd : pcb[n].fd_array[fd] = Free
    BY <1>2 DEF IInv, DeadFdsFree
  <2> QED
    BY <1>6, <1>8, <2>1 DEF DeadFdsFree
<1> QED
  BY <1>7, <1>9, <1>10, <1>11 DEF IInv

LEMMA ExecuteIInv ==
  ASSUME IInv, NEW p \in Program, NEW a \in Arg, Execute(p, a)
  PROVE  IInv'
<1> DEFINE child == process_total + 1
           sp    == Push(esp0, FRAME)
           fds   == pcb[child].fd_array
           new   == ChildPCB(child, current_pcb, sp, a)
<1>1. /\ child \in Num /\ PcbAt(sp) = current_pcb
      /\ pcb[PcbAt(sp)].process_num + 1 = child
      /\ sp \in StackPointer /\ sp.stack = current_pcb
      /\ sp.used <= STACK_SIZE - PCB_SIZE
  BY ChildIsNext DEF Execute
<1>2. /\ process_total \in Num /\ current_pcb = process_total
      /\ pcb[current_pcb].process_num = current_pcb
      /\ pcb[child] \in PCB /\ fds \in [Fd -> Kind \cup {Free}]
  BY <1>1 DEF IInv, TypeOK, CurrentAgrees, Execute, PCB
<1>3. /\ process_total' = child /\ page' = child /\ current_pcb' = child
      /\ frame' = [frame EXCEPT ![child] = p] /\ argument' = a
      /\ pcb' = [pcb EXCEPT ![child] = new]
      /\ esp0' = [stack |-> child, used |-> 1]
      /\ eax' = Started
  BY <1>1, <1>2 DEF Execute, StackTop
<1>4. /\ WithConsole(fds) \in [Fd -> Kind \cup {Free}]
      /\ WithConsole(fds)[0] = "stdin" /\ WithConsole(fds)[1] = "stdout"
  <2>1. \A fd \in Fd : fds[fd] = Free
    BY <1>1, <1>2 DEF IInv, DeadFdsFree
  <2> QED
    BY <1>2, <2>1, ConsoleOpens
<1>5. new = [process_num |-> child, parent_process_num |-> current_pcb,
             parent_pcb |-> current_pcb, parent_kesp |-> sp,
             fd_array |-> WithConsole(fds), argbuf |-> a]
  BY <1>1, <1>2 DEF ChildPCB
<1> HIDE DEF new
<1>6. new \in PCB
  BY <1>1, <1>2, <1>4, <1>5 DEF PCB
<1>7. pcb'[child] = new /\ \A n \in Num \ {child} : pcb'[n] = pcb[n]
  BY <1>1, <1>3 DEF IInv, TypeOK
<1>8. TypeOK'
  BY <1>1, <1>3, <1>6 DEF IInv, TypeOK, StackPointer
<1>9. CurrentAgrees'
  BY <1>3, <1>5, <1>7 DEF CurrentAgrees
<1>10. ParentChain'
  <2> SUFFICES ASSUME NEW n \in Live' \ {1}
               PROVE  /\ pcb'[n].process_num = n
                      /\ pcb'[n].parent_pcb = n - 1
                      /\ pcb'[n].parent_process_num = n - 1
                      /\ pcb'[n].parent_kesp.stack = n - 1
                      /\ pcb'[n].parent_kesp.used <= STACK_SIZE - PCB_SIZE
    BY DEF ParentChain
  <2>1. CASE n = child
    BY <1>1, <1>2, <1>5, <1>7, <2>1
  <2>2. CASE n # child
    BY <1>1, <1>2, <1>3, <1>7, <2>2 DEF IInv, ParentChain
  <2> QED
    BY <2>1, <2>2
<1>11. ConsoleFds'
  BY <1>1, <1>2, <1>3, <1>4, <1>5, <1>7 DEF IInv, ConsoleFds
<1>12. DeadFdsFree' /\ FirstPcbNumbered'
  BY <1>1, <1>2, <1>3, <1>7 DEF IInv, DeadFdsFree, FirstPcbNumbered
<1> QED
  BY <1>8, <1>9, <1>10, <1>11, <1>12 DEF IInv

LEMMA HaltChildIInv ==
  ASSUME IInv, NEW s \in Int, HaltChild(s)
  PROVE  IInv'
<1> DEFINE me == process_total
           cleared == [pcb[me] EXCEPT !.fd_array = [fd \in Fd |-> Free]]
<1>0. me > 1
  BY DEF HaltChild
<1>1. /\ me \in Num /\ me > 1 /\ current_pcb = me /\ me - 1 \in Num
      /\ pcb[me] \in PCB
  BY <1>0, ProcessAssumption DEF IInv, TypeOK, CurrentAgrees
<1>2. /\ pcb[me].parent_pcb = me - 1 /\ pcb[me].parent_process_num = me - 1
      /\ pcb[me].parent_kesp.stack = me - 1 /\ pcb[me].parent_kesp \in StackPointer
  BY <1>1 DEF IInv, ParentChain, PCB
<1>3. /\ process_total' = me - 1 /\ page' = me - 1 /\ current_pcb' = me - 1
      /\ esp0' = pcb[me].parent_kesp /\ eax' = s
      /\ pcb' = [pcb EXCEPT ![me] = cleared]
      /\ UNCHANGED <<frame, argument>>
  BY <1>1, <1>2 DEF HaltChild
<1>4. cleared \in PCB /\ cleared.fd_array = [fd \in Fd |-> Free]
  BY <1>1 DEF PCB
<1> HIDE DEF cleared
<1>5. pcb'[me] = cleared /\ \A n \in Num \ {me} : pcb'[n] = pcb[n]
  BY <1>1, <1>3 DEF IInv, TypeOK
<1>6. TypeOK'
  BY <1>1, <1>2, <1>3, <1>4 DEF IInv, TypeOK
<1>7. CurrentAgrees'
  <2>1. pcb[me - 1].process_num = me - 1
    BY <1>1 DEF IInv, ParentChain, FirstPcbNumbered
  <2> QED
    BY <1>1, <1>2, <1>3, <1>5, <2>1 DEF CurrentAgrees
<1>8. ParentChain' /\ ConsoleFds' /\ FirstPcbNumbered'
  BY <1>1, <1>3, <1>5 DEF IInv, ParentChain, ConsoleFds, FirstPcbNumbered
<1>9. DeadFdsFree'
  <2> SUFFICES ASSUME NEW n \in Num \ Live', NEW fd \in Fd
               PROVE  pcb'[n].fd_array[fd] = Free
    BY DEF DeadFdsFree
  <2>1. CASE n = me
    BY <1>4, <1>5, <2>1
  <2>2. CASE n # me
    BY <1>1, <1>3, <1>5, <2>2 DEF IInv, DeadFdsFree
  <2> QED
    BY <2>1, <2>2
<1> QED
  BY <1>6, <1>7, <1>8, <1>9 DEF IInv

\* A system call that only writes the running process' descriptors keeps IInv
\* when the console descriptors stay as they are.
LEMMA FdCallIInv ==
  ASSUME IInv, process_total > 0,
         NEW fds \in [Fd -> Kind \cup {Free}],
         fds[0] = pcb[current_pcb].fd_array[0],
         fds[1] = pcb[current_pcb].fd_array[1],
         pcb' = [pcb EXCEPT ![current_pcb].fd_array = fds],
         eax' \in Int,
         UNCHANGED <<process_total, current_pcb, page, frame, esp0, argument>>
  PROVE  IInv'
<1> DEFINE new == [pcb[current_pcb] EXCEPT !.fd_array = fds]
<1>1. /\ current_pcb \in Num /\ current_pcb = process_total
      /\ pcb[current_pcb] \in PCB
  BY DEF IInv, TypeOK, CurrentAgrees
<1>2. /\ new \in PCB /\ new.fd_array = fds
      /\ new.process_num = pcb[current_pcb].process_num
      /\ new.parent_pcb = pcb[current_pcb].parent_pcb
      /\ new.parent_process_num = pcb[current_pcb].parent_process_num
      /\ new.parent_kesp = pcb[current_pcb].parent_kesp
  BY <1>1 DEF PCB
<1>3. /\ pcb' = [pcb EXCEPT ![current_pcb] = new]
      /\ pcb'[current_pcb] = new
      /\ \A n \in Num \ {current_pcb} : pcb'[n] = pcb[n]
  BY <1>1 DEF IInv, TypeOK
<1> HIDE DEF new
<1>4. TypeOK'
  BY <1>1, <1>2, <1>3 DEF IInv, TypeOK
<1>5. CurrentAgrees' /\ FirstPcbNumbered'
  BY <1>1, <1>2, <1>3 DEF IInv, CurrentAgrees, FirstPcbNumbered
<1>6. ParentChain'
  BY <1>1, <1>2, <1>3 DEF IInv, ParentChain
<1>7. ConsoleFds' /\ DeadFdsFree'
  BY <1>1, <1>2, <1>3 DEF IInv, ConsoleFds, DeadFdsFree
<1> QED
  BY <1>4, <1>5, <1>6, <1>7 DEF IInv

LEMMA OpenIInv == ASSUME IInv, NEW k \in Kind, Open(k) PROVE IInv'
<1> DEFINE old == pcb[current_pcb].fd_array
<1>1. process_total > 0 /\ FreeFds(old) # {}
  BY DEF Open
<1>2. current_pcb \in Num /\ old \in [Fd -> Kind \cup {Free}]
      /\ old[0] = "stdin" /\ old[1] = "stdout"
  BY <1>1 DEF IInv, TypeOK, CurrentAgrees, ConsoleFds, PCB
<1>3. /\ Opened(old, k) \in [Fd -> Kind \cup {Free}]
      /\ Opened(old, k)[0] = old[0] /\ Opened(old, k)[1] = old[1]
  <2>1. 0 \in Fd /\ 1 \in Fd /\ old[0] # Free /\ old[1] # Free
    BY <1>2, FreeAssumption, ProcessAssumption DEF Kind
  <2> HIDE DEF old, Fd
  <2> QED
    BY <1>2, <2>1, OpenedKeeps
<1>4. FirstFree(old) \in Int
  BY <1>1, FirstFreeIsLowest DEF FreeFds
<1>5. /\ pcb' = [pcb EXCEPT ![current_pcb].fd_array = Opened(old, k)]
      /\ eax' = FirstFree(old)
      /\ UNCHANGED <<process_total, current_pcb, page, frame, esp0, argument>>
  BY DEF Open
<1> QED
  BY <1>1, <1>3, <1>4, <1>5, FdCallIInv

LEMMA CloseIInv == ASSUME IInv, NEW fd \in Fd, Close(fd) PROVE IInv'
<1> DEFINE old == pcb[current_pcb].fd_array
           new == [old EXCEPT ![fd] = Free]
<1>1. process_total > 0 /\ fd >= 2
  BY DEF Close
<1>2. current_pcb \in Num /\ old \in [Fd -> Kind \cup {Free}]
  BY <1>1 DEF IInv, TypeOK, CurrentAgrees, PCB
<1>3. /\ new \in [Fd -> Kind \cup {Free}] /\ new[0] = old[0] /\ new[1] = old[1]
  BY <1>1, <1>2, ProcessAssumption
<1>4. /\ pcb' = [pcb EXCEPT ![current_pcb].fd_array = new]
      /\ eax' \in Int
      /\ UNCHANGED <<process_total, current_pcb, page, frame, esp0, argument>>
  BY DEF Close
<1> HIDE DEF new, Fd
<1> QED
  BY <1>1, <1>3, <1>4, FdCallIInv

LEMMA HaltIInv == ASSUME IInv, NEW s \in Int, Halt(s) PROVE IInv'
<1>1. CASE HaltChild(s)
  BY <1>1, HaltChildIInv
<1>2. CASE HaltFirst(s)
  <2>1. process_total <= 1 /\ ExecuteFirst(Shell, NoArg)
    BY <1>2 DEF HaltFirst
  <2> QED
    BY <2>1, ExecuteFirstIInv
<1> QED
  BY <1>1, <1>2 DEF Halt

\* A call that fails writes the result, and execute the parsed argument.
LEMMA FailureIInv ==
  ASSUME IInv, argument' \in Arg, eax' = -1,
         UNCHANGED <<process_total, current_pcb, pcb, page, frame, esp0>>
  PROVE  IInv'
BY DEF IInv, TypeOK, CurrentAgrees, ParentChain, ConsoleFds, DeadFdsFree,
       FirstPcbNumbered

LEMMA NextIInv == IInv /\ [Next]_vars => IInv'
<1> SUFFICES ASSUME IInv, [Next]_vars PROVE IInv'
  OBVIOUS
<1>1. CASE Boot
  BY <1>1, ExecuteFirstIInv DEF Boot
<1>2. ASSUME NEW p \in Program, NEW a \in Arg, Execute(p, a) PROVE IInv'
  BY <1>2, ExecuteIInv
<1>3. ASSUME NEW p, NEW a \in Arg, ExecuteFails(p, a) PROVE IInv'
  BY <1>3, FailureIInv DEF ExecuteFails
<1>4. ASSUME NEW s \in Status, Halt(s) PROVE IInv'
  BY <1>4, HaltIInv, ProcessAssumption
<1>5. CASE PageFault
  BY <1>5, HaltIInv DEF PageFault
<1>6. ASSUME NEW k \in Kind, Open(k) PROVE IInv'
  BY <1>6, OpenIInv
<1>7. ASSUME NEW fd \in Fd, Close(fd) PROVE IInv'
  BY <1>7, CloseIInv
<1>8. CASE FdCallFails
  <2>1. argument' \in Arg
    BY <1>8 DEF FdCallFails, IInv, TypeOK
  <2> QED
    BY <1>8, <2>1, FailureIInv DEF FdCallFails
<1>9. CASE UNCHANGED vars
  BY <1>9 DEF vars, IInv, TypeOK, CurrentAgrees, ParentChain, ConsoleFds,
              DeadFdsFree, FirstPcbNumbered
<1> QED
  BY <1>1, <1>2, <1>3, <1>4, <1>5, <1>6, <1>7, <1>8, <1>9 DEF Next

LEMMA InductiveInvariant == Spec => []IInv
BY InitIInv, NextIInv, PTL DEF Spec

\* Type correctness of the process manager.
THEOREM TypeCorrect == Spec => []TypeOK
<1>1. IInv => TypeOK
  BY DEF IInv
<1> QED
  BY InductiveInvariant, <1>1, PTL

\* The process counter, current_pcb, the mapped page and the kernel stack always
\* name the same process, although execute and halt find them in four ways.
THEOREM CurrentAlwaysAgrees == Spec => []CurrentAgrees
<1>1. IInv => CurrentAgrees
  BY DEF IInv
<1> QED
  BY InductiveInvariant, <1>1, PTL

\* Every waiting process can be resumed from its child's PCB.
THEOREM ParentsAlwaysResumable == Spec => []ParentChain
<1>1. IInv => ParentChain
  BY DEF IInv
<1> QED
  BY InductiveInvariant, <1>1, PTL

\* Descriptors 0 and 1 of every live process are the console.
THEOREM DescriptorsSafe == Spec => []ConsoleFds
<1>1. IInv => ConsoleFds
  BY DEF IInv
<1> QED
  BY InductiveInvariant, <1>1, PTL

\* A slot without a process has no open descriptor for the next one to inherit.
THEOREM NothingInherited == Spec => []DeadFdsFree
<1>1. IInv => DeadFdsFree
  BY DEF IInv
<1> QED
  BY InductiveInvariant, <1>1, PTL

-----------------------------------------------------------------------------
(* What the running process cannot reach *)

\* execute, halt, open and close write only slots at or above the running
\* process: the one below it and all those under that are left alone.
LEMMA NextLeavesWaiting ==
  ASSUME IInv, [Next]_vars, NEW n \in 1..(process_total - 1), n < process_total'
  PROVE  pcb'[n] = pcb[n] /\ frame'[n] = frame[n]
<1>0. /\ n \in Num /\ process_total \in Num /\ n < process_total /\ process_total > 1
      /\ current_pcb = process_total
      /\ pcb \in [Num -> PCB] /\ frame \in [Num -> Program]
  <2>1. process_total \in 0..(MAXIMUM_PROCESS - 1)
    BY DEF IInv, TypeOK
  <2>2. n \in Num /\ process_total \in Num /\ n < process_total /\ process_total > 1
    BY <2>1, ProcessAssumption
  <2> QED
    BY <2>1, <2>2 DEF IInv, TypeOK, CurrentAgrees
<1>1. CASE Boot
  BY <1>0, <1>1 DEF Boot
<1>2. ASSUME NEW p \in Program, NEW a \in Arg, Execute(p, a)
      PROVE  pcb'[n] = pcb[n] /\ frame'[n] = frame[n]
  <2>1. pcb[PcbAt(Push(esp0, FRAME))].process_num + 1 = process_total + 1
    BY <1>2, ChildIsNext DEF Execute
  <2> QED
    BY <1>0, <1>2, <2>1 DEF Execute
<1>3. ASSUME NEW s, Halt(s) PROVE pcb'[n] = pcb[n] /\ frame'[n] = frame[n]
  <2>1. HaltChild(s)
    BY <1>0, <1>3 DEF Halt, HaltFirst
  <2> QED
    BY <1>0, <2>1 DEF HaltChild
<1>4. ASSUME NEW k \in Kind, Open(k) PROVE pcb'[n] = pcb[n] /\ frame'[n] = frame[n]
  BY <1>0, <1>4 DEF Open
<1>5. ASSUME NEW fd \in Fd, Close(fd) PROVE pcb'[n] = pcb[n] /\ frame'[n] = frame[n]
  BY <1>0, <1>5 DEF Close
<1>6. CASE FdCallFails \/ (\E p \in Program \cup NonProgram, a \in Arg : ExecuteFails(p, a))
  BY <1>6 DEF FdCallFails, ExecuteFails
<1>7. CASE UNCHANGED vars
  BY <1>7 DEF vars
<1> QED
  BY <1>1, <1>2, <1>3, <1>4, <1>5, <1>6, <1>7 DEF Next, PageFault

\* No system call of the running process changes the image or the PCB of a
\* process that waits in execute.
THEOREM WaitingAlwaysUntouched == Spec => WaitingUntouched
<1>1. IInv /\ [Next]_vars =>
        [\A n \in 1..(process_total - 1) :
            n < process_total' => pcb'[n] = pcb[n] /\ frame'[n] = frame[n]]_vars
  BY NextLeavesWaiting
<1> QED
  BY InductiveInvariant, <1>1, PTL DEF Spec, WaitingUntouched

-----------------------------------------------------------------------------
(* The process manager implements ProcessStack *)

Activation == [program : Program, args : Arg]

ActivationsOK ==
    /\ Activations \in Seq(Activation)
    /\ Len(Activations) = process_total
    /\ \A n \in 1..process_total :
          Activations[n] = [program |-> frame[n], args |-> pcb[n].argbuf]

LEMMA ActivationsSeq == IInv => ActivationsOK
<1> SUFFICES ASSUME IInv PROVE ActivationsOK
  OBVIOUS
<1>1. process_total \in Nat /\ process_total <= MAXIMUM_PROCESS - 1
  BY ProcessAssumption DEF IInv, TypeOK
<1>2. \A n \in 1..process_total :
        [program |-> frame[n], args |-> pcb[n].argbuf] \in Activation
  BY <1>1, ProcessAssumption DEF IInv, TypeOK, PCB, Activation
<1> QED
  BY <1>1, <1>2 DEF Activations, ActivationsOK

\* An activation stays what it is when its frame and its argument buffer do.
LEMMA RunRefines ==
  ASSUME IInv, IInv', NEW p \in Program, NEW a \in Arg, Execute(p, a)
  PROVE  Abstract!Run(p, a)
<1> DEFINE top == [program |-> p, args |-> a]
           n   == process_total
<1>1. /\ Activations \in Seq(Activation) /\ Len(Activations) = n
      /\ \A i \in 1..n : Activations[i] = [program |-> frame[i], args |-> pcb[i].argbuf]
  BY ActivationsSeq DEF ActivationsOK
<1>2. /\ Activations' \in Seq(Activation) /\ Len(Activations') = n'
      /\ \A i \in 1..n' :
            Activations'[i] = [program |-> frame'[i], args |-> pcb'[i].argbuf]
  <2>1. ActivationsOK'
    BY ActivationsSeq, PTL
  <2> QED
    BY <2>1 DEF ActivationsOK
<1>3. /\ n \in 1..(MAXIMUM_PROCESS - 2) /\ n' = n + 1 /\ n + 1 \in Num
      /\ current_pcb' = n + 1 /\ page' = n + 1 /\ eax' = Started
      /\ frame'[n + 1] = p /\ pcb'[n + 1].argbuf = a
      /\ \A i \in 1..n : frame'[i] = frame[i] /\ pcb'[i] = pcb[i]
  <2>1. /\ n \in 1..(MAXIMUM_PROCESS - 2) /\ n + 1 \in Num
        /\ pcb[PcbAt(Push(esp0, FRAME))].process_num + 1 = n + 1
    BY ChildIsNext DEF Execute
  <2>2. pcb \in [Num -> PCB] /\ frame \in [Num -> Program]
    BY DEF IInv, TypeOK
  <2>3. 1..n \subseteq Num \ {n + 1}
    BY <2>1, ProcessAssumption
  <2> QED
    BY <2>1, <2>2, <2>3 DEF Execute, ChildPCB
<1>4. top \in Activation
  BY DEF Activation
<1>5. Activations' = Append(Activations, top)
  <2>1. /\ Append(Activations, top) \in Seq(Activation)
        /\ Len(Append(Activations, top)) = n + 1
        /\ \A i \in 1..n : Append(Activations, top)[i] = Activations[i]
        /\ Append(Activations, top)[n + 1] = top
    BY <1>1, <1>3, <1>4
  <2>2. ASSUME NEW i \in 1..(n + 1)
        PROVE  Activations'[i] = Append(Activations, top)[i]
    <3>1. i \in 1..n' /\ (i \in 1..n \/ i = n + 1)
      BY <1>3
    <3>2. CASE i \in 1..n
      <4>1. Activations'[i] = Activations[i]
        BY <1>1, <1>2, <1>3, <3>1, <3>2
      <4> QED
        BY <2>1, <3>2, <4>1
    <3>3. CASE i = n + 1
      BY <1>2, <1>3, <2>1, <3>1, <3>3
    <3> QED
      BY <3>1, <3>2, <3>3
  <2> QED
    BY <1>2, <1>3, <2>1, <2>2, SeqEqual
<1>6. CurrentView' = top
  BY <1>3 DEF CurrentView
<1> QED
  BY <1>1, <1>3, <1>5, <1>6, ProcessAssumption DEF Abstract!Run

LEMMA ExitRefines ==
  ASSUME IInv, IInv', NEW s, HaltChild(s)
  PROVE  Abstract!Exit(s)
<1> DEFINE n == process_total
<1>1. /\ Activations \in Seq(Activation) /\ Len(Activations) = n
      /\ \A i \in 1..n : Activations[i] = [program |-> frame[i], args |-> pcb[i].argbuf]
  BY ActivationsSeq DEF ActivationsOK
<1>2. /\ Activations' \in Seq(Activation) /\ Len(Activations') = n'
      /\ \A i \in 1..n' :
            Activations'[i] = [program |-> frame'[i], args |-> pcb'[i].argbuf]
  <2>1. ActivationsOK'
    BY ActivationsSeq, PTL
  <2> QED
    BY <2>1 DEF ActivationsOK
<1>3. /\ n \in Num /\ n > 1 /\ n' = n - 1 /\ eax' = s
      /\ current_pcb' = n - 1 /\ page' = n - 1
      /\ \A i \in 1..(n - 1) : frame'[i] = frame[i] /\ pcb'[i] = pcb[i]
  <2>1. n > 1 /\ n' = n - 1
    BY DEF HaltChild
  <2>2. n \in Num /\ current_pcb = n /\ pcb \in [Num -> PCB]
    BY <2>1 DEF IInv, TypeOK, CurrentAgrees
  <2>3. pcb[n].parent_pcb = n - 1 /\ pcb[n].parent_process_num = n - 1
    BY <2>1, <2>2 DEF IInv, ParentChain
  <2>4. 1..(n - 1) \subseteq Num \ {n}
    BY <2>1, <2>2, ProcessAssumption
  <2> QED
    BY <2>1, <2>2, <2>3, <2>4 DEF HaltChild
<1>4. Activations' = SubSeq(Activations, 1, n - 1)
  <2>1. /\ SubSeq(Activations, 1, n - 1) \in Seq(Activation)
        /\ Len(SubSeq(Activations, 1, n - 1)) = n - 1
        /\ \A i \in 1..(n - 1) : SubSeq(Activations, 1, n - 1)[i] = Activations[i]
    BY <1>1, <1>3
  <2>2. ASSUME NEW i \in 1..(n - 1)
        PROVE  Activations'[i] = SubSeq(Activations, 1, n - 1)[i]
    <3>1. i \in 1..n /\ i \in 1..n'
      BY <1>3
    <3>2. frame'[i] = frame[i] /\ pcb'[i] = pcb[i]
      BY <1>3
    <3>3. Activations'[i] = Activations[i]
      BY <1>1, <1>2, <3>1, <3>2
    <3> QED
      BY <2>1, <3>3
  <2> QED
    BY <1>2, <1>3, <2>1, <2>2, SeqEqual
<1>5. CurrentView' = Activations'[n - 1]
  BY <1>2, <1>3 DEF CurrentView
<1> QED
  BY <1>1, <1>2, <1>3, <1>4, <1>5 DEF Abstract!Exit, Abstract!Front, Abstract!Last

\* At boot and after the first program's halt: the stack is the shell alone.
LEMMA FirstRefines ==
  ASSUME IInv, IInv', ExecuteFirst(Shell, NoArg)
  PROVE  /\ Activations' = <<Abstract!Base>>
         /\ CurrentView' = Abstract!Base
         /\ eax' = Started
<1>1. /\ Activations' \in Seq(Activation) /\ Len(Activations') = process_total'
      /\ \A i \in 1..process_total' :
            Activations'[i] = [program |-> frame'[i], args |-> pcb'[i].argbuf]
  <2>1. ActivationsOK'
    BY ActivationsSeq, PTL
  <2> QED
    BY <2>1 DEF ActivationsOK
<1>2. /\ process_total' = 1 /\ page' = 1 /\ current_pcb' = 1 /\ eax' = Started
      /\ frame'[1] = Shell /\ pcb'[1].argbuf = NoArg
  BY ProcessAssumption DEF ExecuteFirst, FirstPCB, IInv, TypeOK
<1>3. Abstract!Base \in Activation
  BY ProcessAssumption DEF Abstract!Base, Activation
<1>4. Activations' = <<Abstract!Base>>
  <2>1. /\ <<Abstract!Base>> \in Seq(Activation)
        /\ Len(<<Abstract!Base>>) = 1 /\ <<Abstract!Base>>[1] = Abstract!Base
    BY <1>3
  <2>2. \A i \in 1..1 : Activations'[i] = <<Abstract!Base>>[i]
    BY <1>1, <1>2, <2>1 DEF Abstract!Base
  <2> QED
    BY <1>1, <1>2, <2>1, <2>2, SeqEqual
<1>5. CurrentView' = Abstract!Base
  BY <1>2 DEF CurrentView, Abstract!Base
<1> QED
  BY <1>2, <1>4, <1>5

\* Every other call leaves the stack and the view as they are.
LEMMA CallRefines ==
  ASSUME IInv, IInv', process_total > 0, eax' \in Int,
         UNCHANGED <<process_total, current_pcb, page, frame>>,
         \A n \in Num : pcb'[n].argbuf = pcb[n].argbuf
  PROVE  Abstract!Call
<1>1. process_total \in Num /\ current_pcb \in Num
  BY DEF IInv, TypeOK, CurrentAgrees
<1>2. Activations' = Activations
  <2>1. /\ process_total' = process_total /\ frame' = frame
        /\ 1..process_total \subseteq Num
    BY <1>1, ProcessAssumption
  <2>2. \A n \in 1..process_total :
          [program |-> frame'[n], args |-> pcb'[n].argbuf]
            = [program |-> frame[n], args |-> pcb[n].argbuf]
    BY <2>1
  <2> QED
    BY <2>1, <2>2, Zenon DEF Activations
<1>3. CurrentView' = CurrentView
  BY <1>1 DEF CurrentView
<1>4. Activations # <<>>
  BY <1>1, ActivationsSeq DEF ActivationsOK
<1> QED
  BY <1>2, <1>3, <1>4 DEF Abstract!Call

LEMMA InitRefines == Init => Abstract!Init
<1> SUFFICES ASSUME Init PROVE Abstract!Init
  OBVIOUS
<1>1. Activations = <<>>
  <2>1. IInv
    BY InitIInv
  <2>2. Activations \in Seq(Activation) /\ Len(Activations) = 0
    BY <2>1, ActivationsSeq DEF ActivationsOK, Init
  <2> QED
    BY <2>2
<1> QED
  BY <1>1 DEF Init, Abstract!Init, Abstract!Base, CurrentView

LEMMA HaltRefines ==
  ASSUME IInv, IInv', NEW s \in Status \cup {256}, Halt(s)
  PROVE  Abstract!Next
<1>1. CASE HaltChild(s)
  BY <1>1, ExitRefines DEF Abstract!Next
<1>2. CASE HaltFirst(s)
  <2>1. process_total = 1 /\ ExecuteFirst(Shell, NoArg)
    BY <1>2 DEF HaltFirst
  <2>2. Len(Activations) = 1
    BY <2>1, ActivationsSeq DEF ActivationsOK
  <2> QED
    BY <2>1, <2>2, FirstRefines DEF Abstract!Next, Abstract!Respawn
<1> QED
  BY <1>1, <1>2 DEF Halt

LEMMA NextRefines ==
  IInv /\ IInv' /\ [Next]_vars => [Abstract!Next]_(Abstract!vars)
<1> SUFFICES ASSUME IInv, IInv', [Next]_vars
             PROVE  Abstract!Next \/ UNCHANGED Abstract!vars
  OBVIOUS
<1>0. pcb \in [Num -> PCB]
  BY DEF IInv, TypeOK
<1>1. CASE Boot
  <2>1. process_total = 0 /\ ExecuteFirst(Shell, NoArg)
    BY <1>1 DEF Boot
  <2>2. Activations = <<>>
    <3>1. Activations \in Seq(Activation) /\ Len(Activations) = 0
      BY <2>1, ActivationsSeq DEF ActivationsOK
    <3> QED
      BY <3>1
  <2> QED
    BY <2>1, <2>2, FirstRefines DEF Abstract!Next, Abstract!Boot
<1>2. ASSUME NEW p \in Program, NEW a \in Arg, Execute(p, a) PROVE Abstract!Next
  BY <1>2, RunRefines DEF Abstract!Next
<1>3. ASSUME NEW p, NEW a, ExecuteFails(p, a) PROVE Abstract!Next
  BY <1>3, CallRefines DEF ExecuteFails, Abstract!Next
<1>4. ASSUME NEW s \in Status, Halt(s) PROVE Abstract!Next
  BY <1>4, HaltRefines
<1>5. CASE PageFault
  BY <1>5, HaltRefines DEF PageFault
<1>6. ASSUME NEW k \in Kind, Open(k) PROVE Abstract!Next
  <2>1. process_total > 0 /\ UNCHANGED <<process_total, current_pcb, page, frame>>
    BY <1>6 DEF Open
  <2>2. current_pcb \in Num
    BY <2>1 DEF IInv, TypeOK, CurrentAgrees
  <2>3. eax' \in Int
    BY <1>6, FirstFreeIsLowest DEF Open, FreeFds
  <2>4. \A n \in Num : pcb'[n].argbuf = pcb[n].argbuf
    BY <1>0, <1>6, <2>2 DEF Open, PCB
  <2> QED
    BY <2>1, <2>3, <2>4, CallRefines DEF Abstract!Next
<1>7. ASSUME NEW fd \in Fd, Close(fd) PROVE Abstract!Next
  <2>1. /\ process_total > 0 /\ UNCHANGED <<process_total, current_pcb, page, frame>>
        /\ eax' \in Int
    BY <1>7 DEF Close
  <2>2. current_pcb \in Num
    BY <2>1 DEF IInv, TypeOK, CurrentAgrees
  <2>3. \A n \in Num : pcb'[n].argbuf = pcb[n].argbuf
    BY <1>0, <1>7, <2>2 DEF Close, PCB
  <2> QED
    BY <2>1, <2>3, CallRefines DEF Abstract!Next
<1>8. CASE FdCallFails
  BY <1>8, CallRefines DEF FdCallFails, Abstract!Next
<1>9. CASE UNCHANGED vars
  BY <1>9 DEF vars, Abstract!vars, Activations, CurrentView
<1> QED
  BY <1>1, <1>2, <1>3, <1>4, <1>5, <1>6, <1>7, <1>8, <1>9 DEF Next

\* The process manager implements the stack of programs: what runs is always the
\* image and the arguments of the latest execute whose program has not halted,
\* and a halt hands its status to the program right below.
THEOREM ProcessesImplementStack == Spec => ImplementsProcessStack
<1>1. Init => Abstract!Init
  BY InitRefines
<1>2. IInv /\ IInv' /\ [Next]_vars => [Abstract!Next]_(Abstract!vars)
  BY NextRefines
<1> QED
  BY <1>1, <1>2, InductiveInvariant, PTL DEF Spec, ImplementsProcessStack, Abstract!Spec
=============================================================================
