-------------------------- MODULE Interrupts_proofs ---------------------------
(***************************************************************************)
(* Proofs about Interrupts, for every number of processes, every set of    *)
(* call numbers and values, and every number of interrupts.  The argument  *)
(* is about the stack of contexts: what each context may look like         *)
(* (FrameOK), which contexts can stand on which (OnTop), and what can      *)
(* stand anywhere above a system call that has its result in return_val.   *)
(* Fairness plays no part.                                                 *)
(***************************************************************************)
EXTENDS Interrupts, SequenceTheorems, TLAPS

DeviceCode == {"keyboard", "rtc"}

Frame == [code : {"boot", "user", "keyboard", "rtc", "syscall"},
          at : Place, saved : BOOLEAN, number : Int, eax : Result, result : Result]

IsRunning(f) == f.code = "syscall" /\ f.at \in Function
HaltCall(f)  == f.code = "syscall" /\ f.number = 1
Device_(f)   == f.code \in DeviceCode
InWork(f)    == Device_(f) /\ f.at \in Work
Returning(f) == f.code = "syscall" /\ f.at = "reload"

FrameOK(f) ==
    /\ f.code = "user" => f.at = "user"
    /\ Device_(f) => f.at \in Work \cup {"exit"}
    /\ f.code = "boot" => f.at \notin {"exit", "user"}
    /\ f.code = "syscall" =>
         /\ f.number = 1 => f.at \in {"entry", "halt"}
         /\ f.at = "halt" => f.number = 1
         /\ f.at = "exit" => f.eax = f.result

\* A context f directly below a context g.
OnTop(f, g) ==
    /\ InWork(f) => f.at = "key" /\ HaltCall(g)
    /\ ~(f.code = "boot" /\ f.at = "pic")
    /\ g.code = "user" => f.code = "syscall" /\ f.at = "execute"
    /\ f.code = "user" \/ IsRunning(f) => g.saved \/ g.code = "user" \/ HaltCall(g)

Above(g) == Device_(g) \/ HaltCall(g)

StackOK ==
    /\ \A i \in 1..Len(frames) : FrameOK(frames[i])
    /\ frames[1].code = "boot"
    /\ \A i \in 1..(Len(frames) - 1) : OnTop(frames[i], frames[i + 1])
    /\ \A i, j \in 1..Len(frames) : i < j /\ Returning(frames[i]) => Above(frames[j])

ResultOK == \A i \in 1..Len(frames) : Returning(frames[i]) => return_val = frames[i].result

FlagOK == /\ Top.code = "user" \/ IsRunning(Top) => IF_ \/ dead
          /\ InWork(Top) => ~IF_
          /\ Top.code = "boot" /\ Top.at = "pic" => ~IF_

ServiceOK == /\ KEYBOARD_IRQ \in pic.isr => Top.code = "keyboard" /\ Top.at \in {"entry", "last"}
             /\ pic.isr \cap {SLAVE_IRQ, RTC_IRQ} # {} => Top.code = "rtc" /\ Top.at = "entry"

\* The timer's line, whose vector has no handler, is masked before interrupts
\* are on.
LinesOK == /\ pic.irr \subseteq {0, KEYBOARD_IRQ, RTC_IRQ}
           /\ 0 \in mask
           /\ 0 \in pic.imr \/ (Len(frames) = 1 /\ Top.code = "boot" /\ Top.at = "pic")

IInv == TypeOK /\ StackOK /\ ResultOK /\ FlagOK /\ ServiceOK /\ LinesOK

-----------------------------------------------------------------------------
(* Changes of the stack *)

LEMMA StackFacts ==
  ASSUME TypeOK
  PROVE  /\ frames \in Seq(Frame) /\ Len(frames) \in Nat /\ Len(frames) >= 1
         /\ Top \in Frame
         /\ \A i \in 1..Len(frames) : frames[i] \in Frame
<1>1. frames \in Seq(Frame) /\ frames # <<>>
  BY DEF TypeOK, Frame
<1>2. Len(frames) \in Nat /\ Len(frames) >= 1
  BY <1>1, EmptySeq, LenProperties
<1>3. \A i \in 1..Len(frames) : frames[i] \in Frame
  BY <1>1, ElementOfSeq
<1> QED
  BY <1>1, <1>2, <1>3 DEF Top

\* A context g takes the place of everything from place k on.
LEMMA Placed ==
  ASSUME StackOK, ResultOK, TypeOK,
         NEW k \in Nat, k >= 1, k <= Len(frames) + 1,
         NEW g, Len(frames') = k, frames'[k] = g,
         \A i \in 1..(k - 1) : frames'[i] = frames[i],
         FrameOK(g),
         k = 1 => g.code = "boot",
         k > 1 => OnTop(frames[k - 1], g),
         \A i \in 1..(k - 1) : Returning(frames[i]) => Above(g),
         return_val' = return_val \/ \A i \in 1..(k - 1) : ~Returning(frames[i]),
         Returning(g) => return_val' = g.result
  PROVE  StackOK' /\ ResultOK'
<1>0. Len(frames) \in Nat
  BY StackFacts
<1>1. \A i \in 1..(k - 1) : i \in 1..Len(frames)
  BY <1>0
<1>2. \A i \in 1..k : i \in 1..(k - 1) \/ i = k
  OBVIOUS
<1>3. \A i \in 1..k : FrameOK(frames'[i])
  BY <1>1, <1>2 DEF StackOK
<1>4. frames'[1].code = "boot"
  BY <1>0, <1>2 DEF StackOK
<1>5. ASSUME NEW i \in 1..(k - 1) PROVE OnTop(frames'[i], frames'[i + 1])
  <2>1. CASE i = k - 1
    BY <1>5, <2>1
  <2>2. CASE i # k - 1
    <3>1. i + 1 \in 1..(k - 1) /\ i \in 1..(Len(frames) - 1)
      BY <1>0, <1>5, <2>2
    <3> QED
      BY <3>1 DEF StackOK
  <2> QED
    BY <2>1, <2>2
<1>6. ASSUME NEW i \in 1..k, NEW j \in 1..k, i < j, Returning(frames'[i])
      PROVE  Above(frames'[j])
  <2>1. i \in 1..(k - 1) /\ Returning(frames[i])
    BY <1>6
  <2>2. CASE j = k
    BY <2>1, <2>2
  <2>3. CASE j # k
    <3>1. j \in 1..(k - 1)
      BY <2>3
    <3> QED
      BY <1>1, <1>6, <2>1, <3>1 DEF StackOK
  <2> QED
    BY <2>2, <2>3
<1>7. ASSUME NEW i \in 1..k, Returning(frames'[i]) PROVE return_val' = frames'[i].result
  BY <1>1, <1>2, <1>7 DEF ResultOK
<1>8. StackOK'
  BY <1>3, <1>4, <1>5, <1>6 DEF StackOK, FrameOK, OnTop, Returning, Above, InWork, Device_,
                                IsRunning, HaltCall
<1> QED
  BY <1>7, <1>8 DEF ResultOK, Returning

LEMMA Pushed ==
  ASSUME IInv, NEW g \in Frame, frames' = Append(frames, g), UNCHANGED return_val,
         FrameOK(g), OnTop(Top, g), ~Returning(g),
         Above(g) \/ ~(Above(Top) \/ Returning(Top))
  PROVE  /\ StackOK' /\ ResultOK'
         /\ frames' \in Seq(Frame) /\ frames' # <<>>
         /\ Len(frames') = Len(frames) + 1 /\ Top' = g
<1>0. /\ frames \in Seq(Frame) /\ Len(frames) \in Nat /\ Len(frames) >= 1
      /\ TypeOK /\ StackOK /\ ResultOK
  BY StackFacts DEF IInv
<1>1. /\ frames' \in Seq(Frame) /\ frames' # <<>> /\ Len(frames') = Len(frames) + 1
      /\ \A i \in 1..Len(frames) : frames'[i] = frames[i]
      /\ frames'[Len(frames) + 1] = g
  BY <1>0, AppendProperties
<1>2. Top' = g
  BY <1>1 DEF Top
<1>3. \A i \in 1..Len(frames) : Returning(frames[i]) => Above(g)
  BY <1>0 DEF StackOK, Top
<1> DEFINE k == Len(frames) + 1
<1>4. /\ k \in Nat /\ k >= 1 /\ k <= Len(frames) + 1 /\ k # 1 /\ k - 1 = Len(frames)
      /\ Len(frames') = k /\ frames'[k] = g
  BY <1>0, <1>1
<1>5. /\ \A i \in 1..(k - 1) : frames'[i] = frames[i]
      /\ \A i \in 1..(k - 1) : Returning(frames[i]) => Above(g)
      /\ k > 1 => OnTop(frames[k - 1], g)
  BY <1>1, <1>3, <1>4 DEF Top
<1>6. StackOK' /\ ResultOK'
  <2> HIDE DEF k
  <2> QED
    BY <1>0, <1>4, <1>5, Placed
<1> QED
  BY <1>1, <1>2, <1>6

\* What stands above place k is given up, and the context there changes, but not
\* what it is.
LEMMA CutTo ==
  ASSUME IInv, NEW k \in 1..Len(frames), NEW g,
         frames' \in Seq(Frame), Len(frames') = k, frames'[k] = g,
         \A i \in 1..(k - 1) : frames'[i] = frames[i],
         g.code = frames[k].code, g.saved = frames[k].saved, g.number = frames[k].number,
         FrameOK(g),
         UNCHANGED return_val \/ ~Above(frames[k]),
         Returning(g) => return_val' = g.result
  PROVE  /\ StackOK' /\ ResultOK'
         /\ frames' # <<>> /\ Top' = g
<1>0. /\ frames \in Seq(Frame) /\ Len(frames) \in Nat /\ Len(frames) >= 1
      /\ TypeOK /\ StackOK /\ ResultOK
  BY StackFacts DEF IInv
<1>1. k \in Nat /\ k >= 1 /\ k <= Len(frames) + 1
  BY <1>0
<1>2. \A i \in 1..(k - 1) : Returning(frames[i]) => Above(frames[k])
  BY <1>0, <1>1 DEF StackOK
<1>3. Above(g) <=> Above(frames[k])
  BY DEF Above, Device_, HaltCall
<1>4. k = 1 => g.code = "boot"
  BY <1>0 DEF StackOK
<1>5. k > 1 => OnTop(frames[k - 1], g)
  <2>1. HaltCall(g) <=> HaltCall(frames[k])
    BY DEF HaltCall
  <2>2. k > 1 => OnTop(frames[k - 1], frames[k])
    <3>1. k > 1 => k - 1 \in 1..(Len(frames) - 1) /\ (k - 1) + 1 = k
      BY <1>0, <1>1
    <3> QED
      BY <1>0, <3>1 DEF StackOK
  <2> QED
    BY <2>1, <2>2 DEF OnTop
<1>6. StackOK' /\ ResultOK'
  BY <1>0, <1>1, <1>2, <1>3, <1>4, <1>5, Placed
<1> QED
  BY <1>1, <1>6, EmptySeq DEF Top

\* The running context changes, but not what it is.
LEMMA Changed ==
  ASSUME IInv, NEW g \in Frame, frames' = [frames EXCEPT ![Len(frames)] = g],
         g.code = Top.code, g.saved = Top.saved, g.number = Top.number,
         FrameOK(g),
         UNCHANGED return_val \/ ~Above(Top),
         Returning(g) => return_val' = g.result
  PROVE  /\ StackOK' /\ ResultOK'
         /\ frames' \in Seq(Frame) /\ frames' # <<>>
         /\ Len(frames') = Len(frames) /\ Top' = g
<1>0. frames \in Seq(Frame) /\ Len(frames) \in Nat /\ Len(frames) >= 1
  BY StackFacts DEF IInv
<1>1. /\ frames' \in Seq(Frame) /\ Len(frames') = Len(frames)
      /\ frames'[Len(frames)] = g
      /\ \A i \in 1..(Len(frames) - 1) : frames'[i] = frames[i]
  BY <1>0, ExceptSeq
<1> DEFINE k == Len(frames)
<1>2. /\ k \in 1..Len(frames) /\ Len(frames') = k /\ frames'[k] = g
      /\ \A i \in 1..(k - 1) : frames'[i] = frames[i]
      /\ g.code = frames[k].code /\ g.saved = frames[k].saved /\ g.number = frames[k].number
      /\ UNCHANGED return_val \/ ~Above(frames[k])
  <2>1. k \in 1..Len(frames)
    BY <1>0
  <2>2. Top = frames[k]
    BY DEF Top
  <2> QED
    BY <1>1, <2>1, <2>2
<1>3. StackOK' /\ ResultOK' /\ frames' # <<>> /\ Top' = g
  <2> HIDE DEF k
  <2> QED
    BY <1>1, <1>2, CutTo
<1> QED
  BY <1>1, <1>3

\* The running context goes on to another place in its code.
LEMMA Gone ==
  ASSUME IInv, NEW l \in Place, frames' = Goto(l), UNCHANGED return_val,
         FrameOK([Top EXCEPT !.at = l]), l # "reload"
  PROVE  /\ StackOK' /\ ResultOK'
         /\ frames' \in Seq(Frame) /\ frames' # <<>>
         /\ Len(frames') = Len(frames) /\ Top' = [Top EXCEPT !.at = l]
<1> DEFINE g == [Top EXCEPT !.at = l]
<1>1. Top \in Frame
  BY StackFacts DEF IInv
<1>2. g \in Frame /\ g.at = l /\ g.code = Top.code /\ g.saved = Top.saved /\ g.number = Top.number
  BY <1>1 DEF Frame
<1>3. frames' = [frames EXCEPT ![Len(frames)] = g]
  BY DEF Goto, Top
<1>4. ~Returning(g) /\ FrameOK(g)
  BY <1>2 DEF Returning
<1> QED
  <2> HIDE DEF g
  <2>1. /\ StackOK' /\ ResultOK'
        /\ frames' \in Seq(Frame) /\ frames' # <<>>
        /\ Len(frames') = Len(frames) /\ Top' = g
    BY <1>2, <1>3, <1>4, Changed
  <2> QED
    BY <2>1 DEF g

-----------------------------------------------------------------------------
(* Boot *)

LEMMA TypeFacts ==
  ASSUME TypeOK
  PROVE  /\ IF_ \in BOOLEAN /\ dead \in BOOLEAN /\ mask \subseteq Line
         /\ pic \in [imr : SUBSET Line, irr : SUBSET Line, isr : SUBSET Line, smm : BOOLEAN]
         /\ clock \in [enabled : BOOLEAN, unread : BOOLEAN]
         /\ return_val \in Result /\ raised \in 0..MaxRaised
BY DEF TypeOK

\* What a step that keeps the stack's shape has to show of the rest.
LEMMA Rest ==
  ASSUME frames' \in Seq(Frame), frames' # <<>>, StackOK', ResultOK',
         FlagOK', ServiceOK', LinesOK',
         IF_' \in BOOLEAN, dead' \in BOOLEAN, mask' \subseteq Line,
         pic' \in [imr : SUBSET Line, irr : SUBSET Line, isr : SUBSET Line, smm : BOOLEAN],
         clock' \in [enabled : BOOLEAN, unread : BOOLEAN],
         return_val' \in Result, raised' \in 0..MaxRaised
  PROVE  IInv'
BY DEF IInv, TypeOK, Frame

LEMMA BootInv ==
  ASSUME IInv, i8259_init \/ restore_flags \/ keyboard_init \/ rtc_init
  PROVE  IInv'
<1>0. /\ TypeOK /\ Top \in Frame /\ Len(frames) \in Nat /\ Len(frames) >= 1
      /\ FlagOK /\ ServiceOK /\ LinesOK
  BY StackFacts DEF IInv
<1> USE DEF At, Enabled, Chip, Line, SLAVE_IRQ, KEYBOARD_IRQ, RTC_IRQ, IRQ_TOTAL
<1>1. ASSUME NEW l \in {"restore", "keyboard", "clock", "execute"},
             Top.code = "boot", frames' = Goto(l), UNCHANGED return_val
      PROVE  /\ StackOK' /\ ResultOK'
             /\ frames' \in Seq(Frame) /\ frames' # <<>>
             /\ Len(frames') = Len(frames) /\ Top'.at = l /\ Top'.code = "boot"
  <2>1. FrameOK([Top EXCEPT !.at = l])
    BY <1>0, <1>1 DEF FrameOK, Frame, Device_, DeviceCode
  <2>2. l \in Place /\ l # "reload"
    BY <1>1 DEF Place, Function
  <2>3. [Top EXCEPT !.at = l].at = l /\ [Top EXCEPT !.at = l].code = "boot"
    BY <1>0, <1>1 DEF Frame
  <2>4. /\ StackOK' /\ ResultOK' /\ frames' \in Seq(Frame) /\ frames' # <<>>
        /\ Len(frames') = Len(frames) /\ Top' = [Top EXCEPT !.at = l]
    <3> HIDE DEF At
    <3> QED
      BY <1>1, <2>1, <2>2, Gone
  <2> QED
    BY <2>3, <2>4
<1>2. CASE i8259_init
  <2>1. /\ StackOK' /\ ResultOK' /\ frames' \in Seq(Frame) /\ frames' # <<>>
        /\ Top'.at = "restore" /\ Top'.code = "boot"
    BY <1>1, <1>2 DEF i8259_init
  <2>2. mask' \subseteq Line /\ 0 \in mask' /\ 0 \in pic'.imr /\ pic'.irr = {} /\ pic'.isr = {}
    BY <1>0, <1>2, TypeFacts DEF i8259_init, LinesOK
  <2>3. pic' \in [imr : SUBSET Line, irr : SUBSET Line, isr : SUBSET Line, smm : BOOLEAN]
    BY <1>2, <2>2 DEF i8259_init
  <2>4. FlagOK' /\ ServiceOK' /\ LinesOK'
    BY <2>1, <2>2 DEF FlagOK, ServiceOK, LinesOK, IsRunning, InWork, Device_, DeviceCode
  <2> QED
    BY <1>0, <1>2, <2>1, <2>2, <2>3, <2>4, TypeFacts, Rest DEF i8259_init
<1>3. CASE restore_flags
  <2>1. /\ StackOK' /\ ResultOK' /\ frames' \in Seq(Frame) /\ frames' # <<>>
        /\ Len(frames') = Len(frames) /\ Top'.at = "keyboard" /\ Top'.code = "boot"
    BY <1>1, <1>3 DEF restore_flags
  <2>2. FlagOK' /\ ServiceOK' /\ LinesOK'
    BY <1>0, <1>3, <2>1 DEF restore_flags, FlagOK, ServiceOK, LinesOK, IsRunning, InWork,
                            Device_, DeviceCode
  <2> QED
    BY <1>0, <1>3, <2>1, <2>2, TypeFacts, Rest DEF restore_flags
<1>4. ASSUME NEW irq \in {1, 8}, enable_irq(irq), Top.code = "boot", Top.at # "pic"
      PROVE  /\ mask' \subseteq Line /\ 0 \in mask' /\ 0 \in pic'.imr
             /\ pic'.irr = pic.irr /\ pic'.isr = pic.isr
             /\ pic' \in [imr : SUBSET Line, irr : SUBSET Line, isr : SUBSET Line, smm : BOOLEAN]
  <2>1. mask' = mask \ {irq} /\ 0 \in mask'
    BY <1>0, <1>4 DEF enable_irq, LinesOK
  <2>2. 0 \in pic.imr
    BY <1>0, <1>4 DEF LinesOK
  <2> QED
    BY <1>0, <1>4, <2>1, <2>2, TypeFacts DEF enable_irq
<1>5. CASE keyboard_init
  <2>1. /\ StackOK' /\ ResultOK' /\ frames' \in Seq(Frame) /\ frames' # <<>>
        /\ Top'.at = "clock" /\ Top'.code = "boot"
    BY <1>1, <1>5 DEF keyboard_init
  <2>2. /\ mask' \subseteq Line /\ 0 \in mask' /\ 0 \in pic'.imr
        /\ pic'.irr = pic.irr /\ pic'.isr = pic.isr
        /\ pic' \in [imr : SUBSET Line, irr : SUBSET Line, isr : SUBSET Line, smm : BOOLEAN]
    BY <1>4, <1>5 DEF keyboard_init
  <2>3. FlagOK' /\ ServiceOK' /\ LinesOK'
    BY <1>0, <1>5, <2>1, <2>2 DEF keyboard_init, FlagOK, ServiceOK, LinesOK, IsRunning, InWork,
                                  Device_, DeviceCode
  <2> QED
    BY <1>0, <1>5, <2>1, <2>2, <2>3, TypeFacts, Rest DEF keyboard_init
<1>6. CASE rtc_init
  <2>1. /\ StackOK' /\ ResultOK' /\ frames' \in Seq(Frame) /\ frames' # <<>>
        /\ Top'.at = "execute" /\ Top'.code = "boot"
    BY <1>1, <1>6 DEF rtc_init
  <2>2. /\ mask' \subseteq Line /\ 0 \in mask' /\ 0 \in pic'.imr
        /\ pic'.irr = pic.irr /\ pic'.isr = pic.isr
        /\ pic' \in [imr : SUBSET Line, irr : SUBSET Line, isr : SUBSET Line, smm : BOOLEAN]
    BY <1>4, <1>6 DEF rtc_init
  <2>3. FlagOK' /\ ServiceOK' /\ LinesOK'
    BY <1>0, <1>6, <2>1, <2>2 DEF rtc_init, FlagOK, ServiceOK, LinesOK, IsRunning, InWork,
                                  Device_, DeviceCode
  <2>4. clock' \in [enabled : BOOLEAN, unread : BOOLEAN]
    BY <1>0, <1>6, TypeFacts DEF rtc_init
  <2> QED
    BY <1>0, <1>6, <2>1, <2>2, <2>3, <2>4, TypeFacts, Rest DEF rtc_init
<1> QED
  BY <1>2, <1>3, <1>5, <1>6

-----------------------------------------------------------------------------
(* Interrupts and their handlers *)

LEMMA Handlers ==
  /\ Handler(Vector(KEYBOARD_IRQ)) = "keyboard" /\ Handler(Vector(RTC_IRQ)) = "rtc"
  /\ Gate(Vector(KEYBOARD_IRQ)) = "interrupt" /\ Gate(Vector(RTC_IRQ)) = "interrupt"
<1>1. /\ 33 \in DOMAIN Stub /\ Stub[33] = -34 /\ 40 \in DOMAIN Stub /\ Stub[40] = -41
  BY DEF Stub
<1>2. interrupt_jump_table[33] = "keyboard" /\ interrupt_jump_table[40] = "rtc"
  BY DEF interrupt_jump_table
<1>3. Vector(KEYBOARD_IRQ) = 33 /\ Vector(RTC_IRQ) = 40
  BY DEF Vector, KEYBOARD_IRQ, RTC_IRQ
<1>4. Handler(33) = "keyboard" /\ Handler(40) = "rtc"
  BY <1>1, <1>2 DEF Handler
<1> QED
  BY <1>3, <1>4 DEF Gate

LEMMA InterruptInv ==
  ASSUME IInv, IF_, NEW l \in Deliverable, Interrupt(l)
  PROVE  IInv'
<1>0. /\ TypeOK /\ Top \in Frame /\ Len(frames) \in Nat /\ Len(frames) >= 1
      /\ FlagOK /\ ServiceOK /\ LinesOK
  BY StackFacts DEF IInv
<1>1. l \in {KEYBOARD_IRQ, RTC_IRQ}
  BY <1>0 DEF LinesOK, FlagOK, Deliverable
<1> DEFINE g == Context(Handler(Vector(l)), "entry", IF_)
<1>2. g.code = (IF l = RTC_IRQ THEN "rtc" ELSE "keyboard") /\ g.at = "entry" /\ g.saved
  BY <1>1, Handlers DEF Context, KEYBOARD_IRQ, RTC_IRQ
<1>3. g \in Frame
  <2>1. "entry" \in Place /\ 0 \in Result /\ g.code \in {"keyboard", "rtc"}
    BY <1>2 DEF Place, Work, Result
  <2> QED
    BY <1>0, <2>1, TypeFacts DEF Context, Frame
<1>4. frames' = Append(frames, g) /\ ~IF_' /\ IF_' \in BOOLEAN
      /\ UNCHANGED <<mask, clock, return_val, raised, dead>>
      /\ pic' = [pic EXCEPT !.irr = @ \ {l}, !.isr = @ \cup {l, Through(l)}]
  BY <1>0, <1>1, Handlers, TypeFacts DEF Interrupt, KEYBOARD_IRQ, RTC_IRQ
<1>5. ~InWork(Top) /\ ~(Top.code = "boot" /\ Top.at = "pic")
  BY <1>0 DEF FlagOK
<1>6. FrameOK(g) /\ OnTop(Top, g) /\ ~Returning(g) /\ Above(g)
  BY <1>2, <1>5 DEF FrameOK, OnTop, Returning, Above, Device_, DeviceCode, Work
<1>7. /\ StackOK' /\ ResultOK' /\ frames' \in Seq(Frame) /\ frames' # <<>>
      /\ Len(frames') = Len(frames) + 1 /\ Top' = g
  <2> HIDE DEF g
  <2> QED
    BY <1>3, <1>4, <1>6, Pushed
<1>8. /\ pic' \in [imr : SUBSET Line, irr : SUBSET Line, isr : SUBSET Line, smm : BOOLEAN]
      /\ pic'.isr = pic.isr \cup {l, Through(l)} /\ pic'.imr = pic.imr
      /\ pic'.irr \subseteq pic.irr
  <2>1. {l, Through(l)} \subseteq Line
    BY <1>1 DEF Through, Line, KEYBOARD_IRQ, RTC_IRQ, SLAVE_IRQ, IRQ_TOTAL
  <2>2. pic \in [imr : SUBSET Line, irr : SUBSET Line, isr : SUBSET Line, smm : BOOLEAN]
    BY <1>0, TypeFacts
  <2>3. pic' = [pic EXCEPT !.irr = pic.irr \ {l}, !.isr = pic.isr \cup {l, Through(l)}]
    BY <1>4
  <2>4. pic.irr \ {l} \in SUBSET Line /\ pic.isr \cup {l, Through(l)} \in SUBSET Line
    BY <2>1, <2>2
  <2> QED
    BY <2>2, <2>3, <2>4
<1>9. pic.isr \cap {KEYBOARD_IRQ, SLAVE_IRQ, RTC_IRQ} = {}
  BY <1>0, <1>5 DEF ServiceOK, InWork, Device_, DeviceCode, Work
<1>10. ServiceOK'
  <2>1. Top'.at = "entry" /\ Top'.code = (IF l = RTC_IRQ THEN "rtc" ELSE "keyboard")
    BY <1>2, <1>7
  <2>2. Through(l) = IF l = RTC_IRQ THEN SLAVE_IRQ ELSE l
    BY <1>1 DEF Through, KEYBOARD_IRQ, RTC_IRQ, IRQ_TOTAL
  <2> HIDE DEF g
  <2> QED
    BY <1>1, <1>8, <1>9, <2>1, <2>2 DEF ServiceOK, KEYBOARD_IRQ, RTC_IRQ, SLAVE_IRQ
<1>11. FlagOK'
  BY <1>2, <1>4, <1>7 DEF FlagOK, IsRunning
<1>12. LinesOK'
  BY <1>0, <1>4, <1>8 DEF LinesOK, FlagOK
<1> QED
  BY <1>0, <1>4, <1>7, <1>8, <1>10, <1>11, <1>12, TypeFacts, Rest

\* What acknowledging does: the lines in service are gone.
LEMMA Acknowledged ==
  ASSUME TypeOK
  PROVE  /\ \A irq \in {KEYBOARD_IRQ, RTC_IRQ} :
              LET p == EndOfInterrupt(pic, irq) IN
              /\ p \in [imr : SUBSET Line, irr : SUBSET Line, isr : SUBSET Line, smm : BOOLEAN]
              /\ p.imr = pic.imr /\ p.irr = pic.irr /\ p.isr \subseteq pic.isr
         /\ KEYBOARD_IRQ \notin EndOfInterrupt(pic, KEYBOARD_IRQ).isr
         /\ EndOfInterrupt(pic, RTC_IRQ).isr \cap {SLAVE_IRQ, RTC_IRQ} = {}
<1>1. /\ pic \in [imr : SUBSET Line, irr : SUBSET Line, isr : SUBSET Line, smm : BOOLEAN]
      /\ pic.isr \ {1} \in SUBSET Line /\ (pic.isr \ {8}) \ {2} \in SUBSET Line
  BY TypeFacts
<1>2. EndOfInterrupt(pic, KEYBOARD_IRQ) = [pic EXCEPT !.isr = pic.isr \ {1}]
  BY <1>1 DEF EndOfInterrupt, MasterEOI, KEYBOARD_IRQ, IRQ_TOTAL
<1> DEFINE Chips == [imr : SUBSET Line, irr : SUBSET Line, isr : SUBSET Line, smm : BOOLEAN]
           q     == [pic EXCEPT !.isr = (pic.isr \ {8}) \ {2}]
<1>3. EndOfInterrupt(pic, RTC_IRQ) = [q EXCEPT !.smm = TRUE]
  <2>1. EndOfInterrupt(pic, RTC_IRQ) = MasterEOI(MasterEOI([pic EXCEPT !.isr = pic.isr \ {8}], 2), 8)
    BY DEF EndOfInterrupt, RTC_IRQ, SLAVE_IRQ, IRQ_TOTAL
  <2>2. MasterEOI([pic EXCEPT !.isr = pic.isr \ {8}], 2) = q
    <3>1. 2 < IRQ_TOTAL
      BY DEF IRQ_TOTAL
    <3>2. MasterEOI([pic EXCEPT !.isr = pic.isr \ {8}], 2)
             = [[pic EXCEPT !.isr = pic.isr \ {8}] EXCEPT !.isr = @ \ {2}]
      BY <3>1 DEF MasterEOI
    <3>3. [pic EXCEPT !.isr = pic.isr \ {8}].isr = pic.isr \ {8}
      BY <1>1
    <3> QED
      BY <1>1, <3>2, <3>3
  <2>3. MasterEOI(q, 8) = [q EXCEPT !.smm = TRUE]
    <3> HIDE DEF q
    <3> QED
      BY DEF MasterEOI, IRQ_TOTAL
  <2> QED
    BY <2>1, <2>2, <2>3
<1>4. q \in Chips /\ q.imr = pic.imr /\ q.irr = pic.irr /\ q.isr = (pic.isr \ {8}) \ {2}
  BY <1>1
<1>5. LET p == EndOfInterrupt(pic, RTC_IRQ) IN
      /\ p \in Chips /\ p.imr = pic.imr /\ p.irr = pic.irr /\ p.isr = (pic.isr \ {8}) \ {2}
  <2> HIDE DEF q
  <2> QED
    BY <1>3, <1>4
<1>6. LET p == EndOfInterrupt(pic, KEYBOARD_IRQ) IN
      /\ p \in Chips /\ p.imr = pic.imr /\ p.irr = pic.irr /\ p.isr = pic.isr \ {1}
  BY <1>1, <1>2
<1>7. ASSUME NEW irq \in {KEYBOARD_IRQ, RTC_IRQ}
      PROVE  LET p == EndOfInterrupt(pic, irq) IN
             /\ p \in Chips /\ p.imr = pic.imr /\ p.irr = pic.irr /\ p.isr \subseteq pic.isr
  <2>1. CASE irq = KEYBOARD_IRQ
    BY <1>6, <2>1
  <2>2. CASE irq = RTC_IRQ
    BY <1>5, <2>2
  <2> QED
    BY <2>1, <2>2
<1>8. /\ KEYBOARD_IRQ \notin EndOfInterrupt(pic, KEYBOARD_IRQ).isr
      /\ EndOfInterrupt(pic, RTC_IRQ).isr \cap {SLAVE_IRQ, RTC_IRQ} = {}
  BY <1>5, <1>6 DEF KEYBOARD_IRQ, RTC_IRQ, SLAVE_IRQ
<1> QED
  BY <1>7, <1>8

LEMMA DeviceInv ==
  ASSUME IInv,
         KeyboardEntry \/ KeyboardNoKey \/ KeyboardKey \/ KeyboardEnd \/ RtcEntry \/ RtcEnd
  PROVE  IInv'
<1>0. /\ TypeOK /\ Top \in Frame /\ Len(frames) \in Nat /\ Len(frames) >= 1
      /\ FlagOK /\ ServiceOK /\ LinesOK
  BY StackFacts DEF IInv
<1>1. ASSUME NEW l \in Work \cup {"exit"}, Device_(Top), frames' = Goto(l), UNCHANGED return_val
      PROVE  /\ StackOK' /\ ResultOK' /\ frames' \in Seq(Frame) /\ frames' # <<>>
             /\ Len(frames') = Len(frames) /\ Top'.at = l /\ Top'.code = Top.code
  <2>1. [Top EXCEPT !.at = l].at = l /\ [Top EXCEPT !.at = l].code = Top.code
    BY <1>0, <1>1 DEF Frame
  <2>2. FrameOK([Top EXCEPT !.at = l])
    BY <1>1, <2>1 DEF FrameOK, Device_, DeviceCode
  <2>3. l \in Place /\ l # "reload"
    BY <1>1 DEF Place, Work
  <2>4. /\ StackOK' /\ ResultOK' /\ frames' \in Seq(Frame) /\ frames' # <<>>
        /\ Len(frames') = Len(frames) /\ Top' = [Top EXCEPT !.at = l]
    BY <1>1, <2>2, <2>3, Gone
  <2> QED
    BY <2>1, <2>4
<1>2. KEYBOARD_IRQ \in {KEYBOARD_IRQ, RTC_IRQ} /\ RTC_IRQ \in {KEYBOARD_IRQ, RTC_IRQ}
  OBVIOUS
<1> USE DEF At
<1>3. CASE KeyboardEntry
  <2>1. /\ StackOK' /\ ResultOK' /\ frames' \in Seq(Frame) /\ frames' # <<>>
        /\ Len(frames') = Len(frames) /\ Top'.at = "key" /\ Top'.code = "keyboard"
    BY <1>1, <1>3 DEF KeyboardEntry, Device_, DeviceCode, Work
  <2>2. /\ pic' \in [imr : SUBSET Line, irr : SUBSET Line, isr : SUBSET Line, smm : BOOLEAN]
        /\ pic'.imr = pic.imr /\ pic'.irr = pic.irr /\ pic'.isr \subseteq pic.isr
        /\ KEYBOARD_IRQ \notin pic'.isr
    BY <1>0, <1>2, <1>3, Acknowledged DEF KeyboardEntry
  <2>3. FlagOK' /\ ServiceOK' /\ LinesOK'
    BY <1>0, <1>3, <2>1, <2>2 DEF KeyboardEntry, FlagOK, ServiceOK, LinesOK, IsRunning
  <2> QED
    BY <1>0, <1>3, <2>1, <2>2, <2>3, TypeFacts, Rest DEF KeyboardEntry
<1>4. CASE KeyboardKey
  <2>1. /\ StackOK' /\ ResultOK' /\ frames' \in Seq(Frame) /\ frames' # <<>>
        /\ Len(frames') = Len(frames) /\ Top'.at = "last" /\ Top'.code = "keyboard"
    BY <1>1, <1>4 DEF KeyboardKey, Device_, DeviceCode, Work
  <2>2. ~IF_
    BY <1>0, <1>4 DEF KeyboardKey, FlagOK, InWork, Device_, DeviceCode, Work
  <2>3. FlagOK' /\ ServiceOK' /\ LinesOK'
    BY <1>0, <1>4, <2>1, <2>2 DEF KeyboardKey, FlagOK, ServiceOK, LinesOK, IsRunning
  <2> QED
    BY <1>0, <1>4, <2>1, <2>3, TypeFacts, Rest DEF KeyboardKey
<1>5. CASE KeyboardEnd
  <2>1. /\ StackOK' /\ ResultOK' /\ frames' \in Seq(Frame) /\ frames' # <<>>
        /\ Len(frames') = Len(frames) /\ Top'.at = "exit" /\ Top'.code = "keyboard"
    BY <1>1, <1>5 DEF KeyboardEnd, Device_, DeviceCode
  <2>2. /\ pic' \in [imr : SUBSET Line, irr : SUBSET Line, isr : SUBSET Line, smm : BOOLEAN]
        /\ pic'.imr = pic.imr /\ pic'.irr = pic.irr /\ pic'.isr \subseteq pic.isr
        /\ KEYBOARD_IRQ \notin pic'.isr
    BY <1>0, <1>2, <1>5, Acknowledged DEF KeyboardEnd
  <2>3. FlagOK' /\ ServiceOK' /\ LinesOK'
    BY <1>0, <1>5, <2>1, <2>2 DEF KeyboardEnd, FlagOK, ServiceOK, LinesOK, IsRunning, InWork, Work
  <2> QED
    BY <1>0, <1>5, <2>1, <2>2, <2>3, TypeFacts, Rest DEF KeyboardEnd
<1>6. CASE RtcEntry
  <2>1. /\ StackOK' /\ ResultOK' /\ frames' \in Seq(Frame) /\ frames' # <<>>
        /\ Len(frames') = Len(frames) /\ Top'.at = "last" /\ Top'.code = "rtc"
    BY <1>1, <1>6 DEF RtcEntry, Device_, DeviceCode, Work
  <2>2. /\ pic' \in [imr : SUBSET Line, irr : SUBSET Line, isr : SUBSET Line, smm : BOOLEAN]
        /\ pic'.imr = pic.imr /\ pic'.irr = pic.irr /\ pic'.isr \subseteq pic.isr
        /\ pic'.isr \cap {SLAVE_IRQ, RTC_IRQ} = {}
    BY <1>0, <1>2, <1>6, Acknowledged DEF RtcEntry
  <2>3. FlagOK' /\ ServiceOK' /\ LinesOK'
    BY <1>0, <1>6, <2>1, <2>2 DEF RtcEntry, FlagOK, ServiceOK, LinesOK, IsRunning
  <2> QED
    BY <1>0, <1>6, <2>1, <2>2, <2>3, TypeFacts, Rest DEF RtcEntry
<1>7. CASE RtcEnd
  <2>1. /\ StackOK' /\ ResultOK' /\ frames' \in Seq(Frame) /\ frames' # <<>>
        /\ Len(frames') = Len(frames) /\ Top'.at = "exit" /\ Top'.code = "rtc"
    BY <1>1, <1>7 DEF RtcEnd, Device_, DeviceCode
  <2>2. FlagOK' /\ ServiceOK' /\ LinesOK'
    BY <1>0, <1>7, <2>1 DEF RtcEnd, FlagOK, ServiceOK, LinesOK, IsRunning, InWork, Work
  <2>3. clock' \in [enabled : BOOLEAN, unread : BOOLEAN]
    BY <1>0, <1>7, TypeFacts DEF RtcEnd
  <2> QED
    BY <1>0, <1>7, <2>1, <2>2, <2>3, TypeFacts, Rest DEF RtcEnd
<1>8. CASE KeyboardNoKey
  <2>1. /\ StackOK' /\ ResultOK' /\ frames' \in Seq(Frame) /\ frames' # <<>>
        /\ Len(frames') = Len(frames) /\ Top'.at = "last" /\ Top'.code = "keyboard"
    BY <1>1, <1>8 DEF KeyboardNoKey, Device_, DeviceCode, Work
  <2>2. FlagOK' /\ ServiceOK' /\ LinesOK'
    BY <1>0, <1>8, <2>1 DEF KeyboardNoKey, FlagOK, ServiceOK, LinesOK, IsRunning
  <2> QED
    BY <1>0, <1>8, <2>1, <2>2, TypeFacts, Rest DEF KeyboardNoKey
<1> QED
  BY <1>3, <1>4, <1>5, <1>6, <1>7, <1>8

-----------------------------------------------------------------------------
(* System calls *)

LEMMA CallInFrame ==
  ASSUME NEW n \in Int, NEW a \in Result, NEW saved \in BOOLEAN
  PROVE  /\ Call(n, a, saved) \in Frame
         /\ Call(n, a, saved).code = "syscall" /\ Call(n, a, saved).at = "entry"
         /\ Call(n, a, saved).saved = saved /\ Call(n, a, saved).number = n
         /\ ~Returning(Call(n, a, saved)) /\ FrameOK(Call(n, a, saved))
         /\ ~IsRunning(Call(n, a, saved))
<1>1. "entry" \in Place /\ 0 \in Result
  BY DEF Place, Work, Result
<1>2. Call(n, a, saved) = [code |-> "syscall", at |-> "entry", saved |-> saved,
                           number |-> n, eax |-> a, result |-> 0]
  BY DEF Call
<1> QED
  BY <1>1, <1>2 DEF Frame, Returning, FrameOK, Device_, DeviceCode, IsRunning, Function

\* A system call, or a fault, enters the kernel on top of a context.
LEMMA Entered ==
  ASSUME IInv, NEW n \in Int, NEW a \in Result, NEW saved \in BOOLEAN,
         frames' = Append(frames, Call(n, a, saved)),
         UNCHANGED <<mask, pic, clock, return_val, raised, dead>>, IF_' = FALSE,
         OnTop(Top, Call(n, a, saved)),
         n = 1 \/ ~(Above(Top) \/ Returning(Top)),
         Top.at \notin {"entry", "last", "pic"}
  PROVE  IInv'
<1> DEFINE g == Call(n, a, saved)
<1>0. TypeOK /\ Top \in Frame /\ FlagOK /\ ServiceOK /\ LinesOK
  BY StackFacts DEF IInv
<1>1. /\ g \in Frame /\ FrameOK(g) /\ ~Returning(g) /\ ~IsRunning(g)
      /\ g.code = "syscall" /\ g.at = "entry" /\ g.number = n
  BY CallInFrame
<1>2. Above(g) \/ ~(Above(Top) \/ Returning(Top))
  BY <1>1 DEF Above, HaltCall
<1> HIDE DEF g
<1>3. /\ StackOK' /\ ResultOK' /\ frames' \in Seq(Frame) /\ frames' # <<>>
      /\ Top' = g
  BY <1>1, <1>2, Pushed DEF g
<1>4. pic.isr \cap {KEYBOARD_IRQ, SLAVE_IRQ, RTC_IRQ} = {}
  BY <1>0 DEF ServiceOK
<1>5. FlagOK' /\ ServiceOK' /\ LinesOK'
  BY <1>0, <1>1, <1>3, <1>4 DEF FlagOK, ServiceOK, LinesOK, InWork, Device_, DeviceCode
<1> QED
  BY <1>0, <1>3, <1>5, TypeFacts, Rest

LEMMA CallsInv ==
  ASSUME IInv, ~dead, UserCalls \/ PageFault
  PROVE  IInv'
<1>0. TypeOK /\ Top \in Frame /\ FlagOK /\ StackOK /\ IF_ \in BOOLEAN /\ FrameOK(Top)
  <2>1. FrameOK(Top)
    BY StackFacts DEF IInv, StackOK, Top
  <2> QED
    BY <2>1, StackFacts, TypeFacts DEF IInv
<1>1. CASE UserCalls
  <2>1. PICK n \in Number, a \in Value : frames' = Append(frames, Call(n, a, IF_))
    BY <1>1 DEF UserCalls
  <2>2. n \in Int /\ a \in Result
    BY InterruptsAssumption DEF Result
  <2>3. Top.code = "user" /\ Top.at = "user" /\ IF_
    BY <1>0, <1>1 DEF UserCalls, FlagOK, FrameOK
  <2>4. OnTop(Top, Call(n, a, IF_))
    BY <1>0, <2>2, <2>3, CallInFrame DEF OnTop, InWork, Device_, DeviceCode
  <2>5. ~(Above(Top) \/ Returning(Top))
    BY <2>3 DEF Above, Returning, Device_, DeviceCode, HaltCall
  <2> QED
    BY <1>0, <1>1, <2>1, <2>2, <2>3, <2>4, <2>5, Entered DEF UserCalls
<1>2. CASE PageFault
  <2>1. 1 \in Int /\ 256 \in Result /\ FALSE \in BOOLEAN
    BY DEF Result
  <2>2. Top.at \in {"user", "key"} \cup Dereferencing
    BY <1>0, <1>2 DEF PageFault, At, FrameOK
  <2>3. OnTop(Top, Call(1, 256, FALSE))
    <3>1. HaltCall(Call(1, 256, FALSE)) /\ Call(1, 256, FALSE).code # "user"
      BY DEF HaltCall, Call
    <3>2. InWork(Top) => Top.at = "key"
      BY <2>2 DEF InWork, Work, Dereferencing
    <3>3. Top.at # "pic"
      BY <2>2 DEF Dereferencing
    <3> QED
      BY <3>1, <3>2, <3>3 DEF OnTop
  <2>4. Top.at \notin {"entry", "last", "pic"}
    BY <2>2 DEF Dereferencing
  <2> QED
    BY <1>2, <2>1, <2>3, <2>4, Entered DEF PageFault
<1> QED
  BY <1>1, <1>2

\* The first execute, of the boot code, which goes on behind it.
LEMMA BootExecutesInv == ASSUME IInv, BootExecutes PROVE IInv'
<1>0. /\ TypeOK /\ Top \in Frame /\ FlagOK /\ ServiceOK /\ LinesOK /\ StackOK
      /\ frames \in Seq(Frame) /\ Len(frames) \in Nat /\ Len(frames) >= 1 /\ IF_ \in BOOLEAN
  BY StackFacts, TypeFacts DEF IInv
<1> DEFINE b == [Top EXCEPT !.at = "halted"]
           g == Call(2, 0, IF_)
<1>1. /\ Top.code = "boot" /\ Top.at = "execute" /\ IF_' = FALSE
      /\ UNCHANGED <<mask, pic, clock, return_val, raised, dead>>
      /\ frames' = Append([frames EXCEPT ![Len(frames)] = b], g)
  BY DEF BootExecutes, At, Goto, Top
<1>2. /\ b \in Frame /\ b.code = "boot" /\ b.at = "halted"
  BY <1>0, <1>1 DEF Frame, Place
<1>3. /\ g \in Frame /\ g.code = "syscall" /\ g.at = "entry" /\ g.number = 2
      /\ FrameOK(g) /\ ~Returning(g) /\ ~IsRunning(g)
  <2>1. 2 \in Int /\ 0 \in Result
    BY DEF Result
  <2> QED
    BY <1>0, <2>1, CallInFrame
<1> HIDE DEF b, g
<1> DEFINE s == [frames EXCEPT ![Len(frames)] = b]
           n == Len(frames)
<1>4. /\ s \in Seq(Frame) /\ Len(s) = n /\ s[n] = b
      /\ \A i \in 1..(n - 1) : s[i] = frames[i]
  BY <1>0, <1>2, ExceptSeq
<1> HIDE DEF s
<1>5. /\ frames' \in Seq(Frame) /\ frames' # <<>> /\ Len(frames') = n + 1
      /\ frames'[n + 1] = g /\ frames'[n] = b
      /\ \A i \in 1..(n - 1) : frames'[i] = frames[i]
  <2>1. frames' = Append(s, g)
    BY <1>1 DEF s
  <2>2. /\ Append(s, g) \in Seq(Frame) /\ Append(s, g) # <<>> /\ Len(Append(s, g)) = n + 1
        /\ \A i \in 1..n : Append(s, g)[i] = s[i]
        /\ Append(s, g)[n + 1] = g
    BY <1>3, <1>4, AppendProperties
  <2>3. n \in 1..n /\ \A i \in 1..(n - 1) : i \in 1..n
    BY <1>0
  <2> QED
    BY <1>4, <2>1, <2>2, <2>3
<1>6. Top = frames[n] /\ Top' = g
  BY <1>5 DEF Top
<1> HIDE DEF n
<1>7. n \in Nat /\ n >= 1 /\ n = Len(frames)
  BY <1>0 DEF n
<1>8. FrameOK(b) /\ ~Returning(b) /\ OnTop(b, g) /\ b.code # "user"
  BY <1>2, <1>3 DEF FrameOK, Returning, OnTop, InWork, Device_, DeviceCode, IsRunning
<1>9. \A i \in 1..n : ~Returning(frames[i])
  <2>1. ~Above(Top) /\ ~Returning(Top)
    BY <1>1 DEF Above, Returning, Device_, DeviceCode, HaltCall
  <2>2. \A i \in 1..(n - 1) : i < n /\ i \in 1..n /\ n \in 1..n
    BY <1>7
  <2>3. \A i \in 1..(n - 1) : ~Returning(frames[i])
    BY <1>0, <1>6, <1>7, <2>1, <2>2 DEF StackOK
  <2> QED
    BY <1>6, <1>7, <2>1, <2>3
<1>10. \A i \in 1..(n + 1) : i \in 1..(n - 1) \/ i = n \/ i = n + 1
  BY <1>7
<1>11. \A i \in 1..(n - 1) : i \in 1..n /\ i \in 1..Len(frames)
  BY <1>7
<1>12. \A i \in 1..(n + 1) : FrameOK(frames'[i]) /\ ~Returning(frames'[i])
  BY <1>0, <1>3, <1>5, <1>8, <1>9, <1>10, <1>11 DEF StackOK
<1>13. frames'[1].code = "boot"
  <2>1. CASE n = 1
    BY <1>2, <1>5, <2>1
  <2>2. CASE n # 1
    <3>1. 1 \in 1..(n - 1)
      BY <1>7, <2>2
    <3> QED
      BY <1>0, <1>5, <3>1 DEF StackOK
  <2> QED
    BY <2>1, <2>2
<1>14. ASSUME NEW i \in 1..n PROVE OnTop(frames'[i], frames'[i + 1])
  <2>1. CASE i = n
    BY <1>5, <1>8, <2>1
  <2>2. CASE i = n - 1
    <3>1. i \in 1..(Len(frames) - 1) /\ i \in 1..(n - 1) /\ i + 1 = n
      BY <1>7, <2>2
    <3>2. OnTop(frames[i], frames[n])
      BY <1>0, <3>1 DEF StackOK
    <3>3. OnTop(frames[i], b)
      <4>1. HaltCall(b) <=> HaltCall(Top)
        BY <1>1, <1>2 DEF HaltCall
      <4>2. b.saved = Top.saved /\ b.code = Top.code
        BY <1>0, <1>1, <1>2 DEF b, Frame
      <4> QED
        BY <1>6, <3>2, <4>1, <4>2 DEF OnTop
    <3> QED
      BY <1>5, <3>1, <3>3
  <2>3. CASE i # n /\ i # n - 1
    <3>1. i \in 1..(n - 1) /\ i + 1 \in 1..(n - 1) /\ i \in 1..(Len(frames) - 1)
      BY <1>7, <2>3
    <3> QED
      BY <1>0, <1>5, <3>1 DEF StackOK
  <2> QED
    BY <2>1, <2>2, <2>3
<1>15. Len(frames') = n + 1 /\ (n + 1) - 1 = n
  BY <1>5, <1>7
<1>16. StackOK' /\ ResultOK'
  BY <1>12, <1>13, <1>14, <1>15
     DEF StackOK, ResultOK, FrameOK, OnTop, Returning, Above, InWork, Device_, IsRunning, HaltCall
<1>17. FlagOK' /\ ServiceOK' /\ LinesOK'
  BY <1>0, <1>1, <1>3, <1>6 DEF FlagOK, ServiceOK, LinesOK, InWork, Device_, DeviceCode
<1> QED
  BY <1>0, <1>1, <1>5, <1>16, <1>17, TypeFacts, Rest

\* The part of a system call between its entry and its exit.
LEMMA SyscallInv ==
  ASSUME IInv, ~dead,
         BadNumber \/ Dispatch \/ FunctionReturns \/ StoreResult \/ ReloadResult
  PROVE  IInv'
<1>0. /\ TypeOK /\ Top \in Frame /\ FlagOK /\ ServiceOK /\ LinesOK /\ StackOK /\ ResultOK
      /\ FrameOK(Top) /\ Len(frames) \in Nat /\ Len(frames) >= 1
  <2>1. FrameOK(Top)
    BY StackFacts DEF IInv, StackOK, Top
  <2> QED
    BY <2>1, StackFacts DEF IInv
\* What stays to be shown of a step that changes the running system call.
<1>1. ASSUME NEW g \in Frame, frames' = [frames EXCEPT ![Len(frames)] = g],
             Top.code = "syscall", g.code = "syscall", g.saved = Top.saved, g.number = Top.number,
             FrameOK(g), UNCHANGED return_val \/ ~Above(Top),
             Returning(g) => return_val' = g.result,
             UNCHANGED <<mask, pic, clock, raised, dead>>, return_val' \in Result,
             IF_' \in BOOLEAN, IsRunning(g) => IF_'
      PROVE  IInv'
  <2>1. /\ StackOK' /\ ResultOK' /\ frames' \in Seq(Frame) /\ frames' # <<>>
        /\ Len(frames') = Len(frames) /\ Top' = g
    BY <1>1, Changed
  <2>2. FlagOK' /\ ServiceOK' /\ LinesOK'
    BY <1>0, <1>1, <2>1 DEF FlagOK, ServiceOK, LinesOK, InWork, Device_, DeviceCode
  <2> QED
    BY <1>0, <1>1, <2>1, <2>2, TypeFacts, Rest
<1> USE DEF At, Device_, DeviceCode
<1>2. CASE BadNumber
  <2> DEFINE g == [Top EXCEPT !.at = "exit", !.eax = -1, !.result = -1]
  <2>1. Top.number # 1 /\ Top.code = "syscall" /\ Top.at = "entry"
    BY <1>0, <1>2 DEF BadNumber, Frame
  <2>2. "exit" \in Place /\ -1 \in Result
    BY DEF Place, Result
  <2>3. /\ g \in Frame /\ g.code = "syscall" /\ g.at = "exit" /\ g.saved = Top.saved
        /\ g.number = Top.number /\ g.eax = g.result
    BY <1>0, <2>1, <2>2 DEF Frame
  <2>4. frames' = [frames EXCEPT ![Len(frames)] = g]
    BY <1>2 DEF BadNumber, Top
  <2> HIDE DEF g
  <2>5. FrameOK(g) /\ ~Returning(g) /\ ~IsRunning(g)
    BY <2>1, <2>3 DEF FrameOK, Returning, IsRunning, Function
  <2> QED
    BY <1>0, <1>1, <1>2, <2>1, <2>3, <2>4, <2>5, TypeFacts DEF BadNumber
<1>3. CASE Dispatch
  <2> DEFINE l == syscall_jump_table[Top.number]
             g == [Top EXCEPT !.at = l]
  <2>1. Top.number \in 1..10 /\ Top.code = "syscall" /\ Top.at = "entry"
    BY <1>3 DEF Dispatch
  <2>2. l \in Function /\ (l = "halt" <=> Top.number = 1)
    BY <2>1 DEF syscall_jump_table, Function
  <2> HIDE DEF l
  <2>3. l \in Place /\ l \notin {"exit", "reload"}
    BY <2>2 DEF Place, Function
  <2>4. /\ g \in Frame /\ g.code = "syscall" /\ g.at = l /\ g.saved = Top.saved
        /\ g.number = Top.number
    BY <1>0, <2>1, <2>3 DEF Frame
  <2>5. frames' = [frames EXCEPT ![Len(frames)] = g]
    BY <1>3 DEF Dispatch, Goto, Top, l
  <2> HIDE DEF g
  <2>6. FrameOK(g) /\ ~Returning(g)
    BY <2>2, <2>3, <2>4 DEF FrameOK, Returning
  <2> QED
    BY <1>0, <1>1, <1>3, <2>1, <2>4, <2>5, <2>6, TypeFacts DEF Dispatch
<1>4. CASE FunctionReturns
  <2>1. PICK r : /\ r \in Result
                 /\ frames' = Answered(Len(frames), r)
    BY <1>4 DEF FunctionReturns, Result
  <2> DEFINE g == [Top EXCEPT !.at = "store", !.result = r]
  <2>2. Top.code = "syscall" /\ Top.number # 1
    <3>1. Top.code = "syscall" /\ Top.at # "halt" /\ Top.at # "entry"
      <4>1. \A n \in 1..10 : syscall_jump_table[n] # "entry"
        BY DEF syscall_jump_table
      <4> QED
        BY <1>4, <4>1 DEF FunctionReturns, Running
    <3> QED
      BY <1>0, <3>1 DEF FrameOK
  <2>3. "store" \in Place
    BY DEF Place
  <2>4. /\ g \in Frame /\ g.code = "syscall" /\ g.at = "store" /\ g.saved = Top.saved
        /\ g.number = Top.number
    BY <1>0, <2>1, <2>2, <2>3 DEF Frame
  <2>5. frames' = [frames EXCEPT ![Len(frames)] = g]
    <3>1. SubSeq(frames, 1, Len(frames)) = frames
      BY StackFacts, <1>0, SubSeqFull
    <3> QED
      BY <2>1, <3>1 DEF Answered, Top
  <2> HIDE DEF g
  <2>6. FrameOK(g) /\ ~Returning(g) /\ ~IsRunning(g)
    BY <2>2, <2>4 DEF FrameOK, Returning, IsRunning, Function
  <2> QED
    BY <1>0, <1>1, <1>4, <2>2, <2>4, <2>5, <2>6, TypeFacts DEF FunctionReturns
<1>5. CASE StoreResult
  <2> DEFINE g == [Top EXCEPT !.at = "reload"]
  <2>1. Top.code = "syscall" /\ Top.at = "store" /\ Top.number # 1
    BY <1>0, <1>5 DEF StoreResult, FrameOK
  <2>2. "reload" \in Place
    BY DEF Place
  <2>3. /\ g \in Frame /\ g.code = "syscall" /\ g.at = "reload" /\ g.saved = Top.saved
        /\ g.number = Top.number /\ g.result = Top.result
    BY <1>0, <2>1, <2>2 DEF Frame
  <2>4. frames' = [frames EXCEPT ![Len(frames)] = g]
    BY <1>5 DEF StoreResult, Goto, Top
  <2>5. return_val' = Top.result /\ Top.result \in Result
    BY <1>0, <1>5 DEF StoreResult, Frame
  <2> HIDE DEF g
  <2>6. FrameOK(g) /\ ~IsRunning(g) /\ ~Above(Top)
    BY <2>1, <2>3 DEF FrameOK, IsRunning, Function, Above, HaltCall
  <2> QED
    BY <1>0, <1>1, <1>5, <2>1, <2>3, <2>4, <2>5, <2>6, TypeFacts DEF StoreResult
<1>6. CASE ReloadResult
  <2> DEFINE g == [Top EXCEPT !.at = "exit", !.eax = return_val]
  <2>1. Top.code = "syscall" /\ Top.at = "reload" /\ Top.number # 1
    BY <1>0, <1>6 DEF ReloadResult, FrameOK
  <2>2. "exit" \in Place /\ return_val \in Result
    BY <1>0, TypeFacts DEF Place
  <2>3. /\ g \in Frame /\ g.code = "syscall" /\ g.at = "exit" /\ g.saved = Top.saved
        /\ g.number = Top.number /\ g.eax = return_val /\ g.result = Top.result
    BY <1>0, <2>1, <2>2 DEF Frame
  <2>4. return_val = Top.result
    BY <1>0, <2>1 DEF ResultOK, Returning, Top
  <2>5. frames' = [frames EXCEPT ![Len(frames)] = g]
    BY <1>6 DEF ReloadResult, Top
  <2> HIDE DEF g
  <2>6. FrameOK(g) /\ ~Returning(g) /\ ~IsRunning(g)
    BY <2>1, <2>3, <2>4 DEF FrameOK, Returning, IsRunning, Function
  <2> QED
    BY <1>0, <1>1, <1>6, <2>1, <2>2, <2>3, <2>5, <2>6 DEF ReloadResult
<1> QED
  BY <1>2, <1>3, <1>4, <1>5, <1>6

\* A program begins on top of the execute that loaded it.
LEMMA ExecuteInv == ASSUME IInv, Execute PROVE IInv'
<1>0. TypeOK /\ Top \in Frame /\ FlagOK /\ ServiceOK /\ LinesOK /\ FrameOK(Top)
  <2>1. FrameOK(Top)
    BY StackFacts DEF IInv, StackOK, Top
  <2> QED
    BY <2>1, StackFacts DEF IInv
<1> DEFINE g == Context("user", "user", FALSE)
<1>1. /\ g \in Frame /\ g.code = "user" /\ g.at = "user"
  <2>1. "user" \in Place /\ 0 \in Result
    BY DEF Place, Result
  <2> QED
    BY <2>1 DEF Context, Frame
<1>2. Top.code = "syscall" /\ Top.at = "execute" /\ Top.number # 1
  BY <1>0 DEF Execute, At, FrameOK
<1>3. /\ frames' = Append(frames, g) /\ IF_' = TRUE
      /\ UNCHANGED <<mask, pic, clock, return_val, raised, dead>>
  BY DEF Execute
<1> HIDE DEF g
<1>4. FrameOK(g) /\ OnTop(Top, g) /\ ~Returning(g) /\ ~(Above(Top) \/ Returning(Top))
  BY <1>1, <1>2
     DEF FrameOK, OnTop, InWork, Returning, Above, Device_, DeviceCode, HaltCall, IsRunning
<1>5. /\ StackOK' /\ ResultOK' /\ frames' \in Seq(Frame) /\ frames' # <<>>
      /\ Len(frames') = Len(frames) + 1 /\ Top' = g
  BY <1>1, <1>3, <1>4, Pushed DEF IInv
<1>6. FlagOK' /\ ServiceOK' /\ LinesOK'
  BY <1>0, <1>1, <1>2, <1>3, <1>5
     DEF FlagOK, ServiceOK, LinesOK, InWork, Device_, DeviceCode, IsRunning
<1> QED
  BY <1>0, <1>3, <1>5, <1>6, TypeFacts, Rest

\* The contexts above place k are given up.
LEMMA CutFrames ==
  ASSUME TypeOK, NEW k \in 1..Len(frames)
  PROVE  /\ SubSeq(frames, 1, k) \in Seq(Frame) /\ Len(SubSeq(frames, 1, k)) = k
         /\ \A i \in 1..k : SubSeq(frames, 1, k)[i] = frames[i]
<1>1. /\ Len(frames) \in Nat /\ \A i \in 1..Len(frames) : frames[i] \in Frame
  BY StackFacts
<1>2. /\ 1 \in Int /\ k \in Int /\ 1 <= k /\ \A i \in 1..k : i \in 1..Len(frames) /\ 1 + i - 1 = i
  BY <1>1
<1>3. \A i \in 1..k : frames[i] \in Frame
  BY <1>1, <1>2
<1>4. /\ SubSeq(frames, 1, k) \in Seq(Frame)
      /\ Len(SubSeq(frames, 1, k)) = IF 1 <= k THEN k - 1 + 1 ELSE 0
      /\ \A i \in 1..(k - 1 + 1) : SubSeq(frames, 1, k)[i] = frames[1 + i - 1]
  BY <1>2, <1>3, SubSeqProperties
<1>5. k - 1 + 1 = k
  BY <1>2
<1> QED
  BY <1>2, <1>4, <1>5

LEMMA HaltInv == ASSUME IInv, Halt PROVE IInv'
<1>0. /\ TypeOK /\ Top \in Frame /\ FlagOK /\ ServiceOK /\ LinesOK /\ StackOK /\ ResultOK
      /\ frames \in Seq(Frame) /\ Len(frames) \in Nat /\ Len(frames) >= 1
  BY StackFacts DEF IInv
<1>1. /\ Top.code = "syscall" /\ Top.at = "halt" /\ IF_' = TRUE
      /\ UNCHANGED <<mask, pic, clock, return_val, raised, dead>>
  BY DEF Halt, At
<1>2. PICK child \in User :
          frames' = IF Cardinality(User) = 1 THEN SubSeq(frames, 1, child)
                    ELSE Answered(child - 1, Top.eax)
  BY DEF Halt
<1>3. child \in 1..Len(frames) /\ frames[child].code = "user"
  BY <1>2 DEF User
<1>4. frames[child] \in Frame /\ FrameOK(frames[child])
  BY <1>0, <1>3, StackFacts DEF StackOK
<1>5. pic.isr \cap {KEYBOARD_IRQ, SLAVE_IRQ, RTC_IRQ} = {}
  BY <1>0, <1>1 DEF ServiceOK
<1>6. 0 \in pic.imr
  BY <1>0, <1>1 DEF LinesOK
<1>7. ASSUME Top'.code = "user" \/ Top'.code = "syscall"
      PROVE  FlagOK' /\ ServiceOK' /\ LinesOK'
  BY <1>0, <1>1, <1>5, <1>6, <1>7 DEF FlagOK, ServiceOK, LinesOK, InWork, Device_, DeviceCode
<1>8. ASSUME frames' \in Seq(Frame), frames' # <<>>, StackOK', ResultOK',
             Top'.code = "user" \/ Top'.code = "syscall"
      PROVE  IInv'
  BY <1>0, <1>1, <1>7, <1>8, TypeFacts, Rest
<1>9. CASE Cardinality(User) = 1
  <2> DEFINE g == frames[child]
  <2>1. /\ frames' \in Seq(Frame) /\ Len(frames') = child /\ frames'[child] = g
        /\ \A i \in 1..(child - 1) : frames'[i] = frames[i]
    <3>1. child \in 1..child /\ \A i \in 1..(child - 1) : i \in 1..child
      BY <1>0, <1>3
    <3> QED
      BY <1>0, <1>2, <1>3, <1>9, <3>1, CutFrames
  <2>2. ~Returning(g) /\ FrameOK(g) /\ g.code = "user"
    BY <1>3, <1>4 DEF Returning
  <2> HIDE DEF g
  <2>3. StackOK' /\ ResultOK' /\ frames' # <<>> /\ Top' = g
    BY <1>1, <1>3, <2>1, <2>2, CutTo DEF g
  <2> QED
    BY <1>8, <2>1, <2>2, <2>3
<1>10. CASE Cardinality(User) # 1
  <2> DEFINE k == child - 1
             f == frames[k]
             g == [f EXCEPT !.at = "store", !.result = Top.eax]
             s == SubSeq(frames, 1, k)
  <2>1. k \in 1..Len(frames) /\ k \in 1..(Len(frames) - 1) /\ k + 1 = child
    <3>1. child # 1
      BY <1>0, <1>3 DEF StackOK
    <3> QED
      BY <1>0, <1>3, <3>1
  <2>2. f \in Frame /\ OnTop(f, frames[child]) /\ FrameOK(f)
    BY <1>0, <2>1, StackFacts DEF StackOK
  <2>3. f.code = "syscall" /\ f.at = "execute"
    BY <1>3, <2>2 DEF OnTop
  <2>4. "store" \in Place /\ Top.eax \in Result
    BY <1>0 DEF Place, Frame
  <2>5. /\ g \in Frame /\ g.code = f.code /\ g.at = "store" /\ g.saved = f.saved
        /\ g.number = f.number
    BY <2>2, <2>4 DEF Frame
  <2>6. FrameOK(g) /\ ~Returning(g)
    <3> HIDE DEF g
    <3> QED
      BY <2>2, <2>3, <2>5 DEF FrameOK, Returning, Device_, DeviceCode
  <2>7. frames' = [s EXCEPT ![k] = [s[k] EXCEPT !.at = "store", !.result = Top.eax]]
    BY <1>2, <1>10 DEF Answered
  <2>8. s \in Seq(Frame) /\ Len(s) = k /\ \A i \in 1..k : s[i] = frames[i]
    <3> HIDE DEF k
    <3> QED
      BY <1>0, <2>1, CutFrames
  <2>9. s[k] = f /\ k \in 1..Len(s) /\ \A i \in 1..(k - 1) : i \in 1..Len(s) /\ i # k
    BY <2>1, <2>8
  <2>10. frames' = [s EXCEPT ![k] = g]
    BY <2>7, <2>9
  <2> HIDE DEF s, g
  <2>11. /\ frames' \in Seq(Frame) /\ Len(frames') = k /\ frames'[k] = g
         /\ \A i \in 1..(k - 1) : frames'[i] = frames[i]
    <3> HIDE DEF k
    <3>1. /\ [s EXCEPT ![k] = g] \in Seq(Frame) /\ Len([s EXCEPT ![k] = g]) = Len(s)
          /\ \A j \in 1..Len(s) : [s EXCEPT ![k] = g][j] = IF j = k THEN g ELSE s[j]
      BY <2>5, <2>8, <2>9, ExceptSeq
    <3> QED
      BY <2>8, <2>9, <2>10, <3>1
  <2>12. StackOK' /\ ResultOK' /\ frames' # <<>> /\ Top' = g
    <3> HIDE DEF k
    <3> QED
      BY <1>1, <2>1, <2>5, <2>6, <2>11, CutTo
  <2> QED
    BY <1>8, <2>3, <2>5, <2>11, <2>12
<1> QED
  BY <1>9, <1>10

\* A context that returns gives the flag back to one that ran with it.
LEMMA IretInv == ASSUME IInv, ~dead, Iret PROVE IInv'
<1>0. /\ TypeOK /\ Top \in Frame /\ FlagOK /\ ServiceOK /\ LinesOK /\ StackOK /\ FrameOK(Top)
      /\ frames \in Seq(Frame) /\ Len(frames) \in Nat /\ Len(frames) >= 1
  <2>1. FrameOK(Top)
    BY StackFacts DEF IInv, StackOK, Top
  <2> QED
    BY <2>1, StackFacts DEF IInv
<1>1. /\ Top.at = "exit" /\ IF_' = Top.saved
      /\ UNCHANGED <<mask, pic, clock, return_val, raised, dead>>
      /\ frames' = SubSeq(frames, 1, Len(frames) - 1)
  BY DEF Iret
<1>2. /\ Top.code \notin {"user", "boot"} /\ ~HaltCall(Top)
  BY <1>0, <1>1 DEF FrameOK, HaltCall
<1> DEFINE k == Len(frames) - 1
           g == frames[k]
<1>3. k \in 1..Len(frames) /\ k \in 1..(Len(frames) - 1) /\ k + 1 = Len(frames)
  <2>1. Len(frames) # 1
    <3>1. Len(frames) = 1 => Top.code = "boot"
      BY <1>0 DEF StackOK, Top
    <3> QED
      BY <1>2, <3>1
  <2>2. Len(frames) \in Nat /\ Len(frames) >= 1
    BY <1>0
  <2>3. \A n \in Nat : n >= 1 /\ n # 1 =>
           n - 1 \in 1..n /\ n - 1 \in 1..(n - 1) /\ (n - 1) + 1 = n
    OBVIOUS
  <2> QED
    BY <2>1, <2>2, <2>3
<1>4. /\ frames' \in Seq(Frame) /\ Len(frames') = k /\ frames'[k] = g
      /\ \A i \in 1..(k - 1) : frames'[i] = frames[i]
  <2>1. k \in 1..k /\ \A i \in 1..(k - 1) : i \in 1..k
    BY <1>3
  <2> HIDE DEF k
  <2>2. /\ SubSeq(frames, 1, k) \in Seq(Frame) /\ Len(SubSeq(frames, 1, k)) = k
        /\ \A i \in 1..k : SubSeq(frames, 1, k)[i] = frames[i]
    BY <1>0, <1>3, CutFrames
  <2>3. frames' = SubSeq(frames, 1, k)
    BY <1>1 DEF k
  <2> QED
    BY <2>1, <2>2, <2>3
<1>5. g \in Frame /\ FrameOK(g) /\ (Returning(g) => return_val = g.result)
  BY <1>0, <1>3, StackFacts DEF IInv, StackOK, ResultOK
<1>6. OnTop(g, Top)
  BY <1>0, <1>3 DEF StackOK, Top
<1> HIDE DEF g
<1>7. StackOK' /\ ResultOK' /\ frames' # <<>> /\ Top' = g
  <2> HIDE DEF k
  <2>1. g = frames[k]
    BY DEF g
  <2> QED
    BY <1>1, <1>3, <1>4, <1>5, <2>1, CutTo
<1>8. ~InWork(g) /\ (g.code = "user" \/ IsRunning(g) => Top.saved)
  BY <1>2, <1>6 DEF OnTop
<1>9. pic.isr \cap {KEYBOARD_IRQ, SLAVE_IRQ, RTC_IRQ} = {}
  BY <1>0, <1>1 DEF ServiceOK
<1>10. 0 \in pic.imr /\ Top.saved \in BOOLEAN
  BY <1>0, <1>1 DEF LinesOK, Frame
<1>11. ~(g.code = "boot" /\ g.at = "pic")
  BY <1>6 DEF OnTop
<1>12. FlagOK' /\ ServiceOK' /\ LinesOK'
  BY <1>0, <1>1, <1>7, <1>8, <1>9, <1>10, <1>11 DEF FlagOK, ServiceOK, LinesOK
<1> QED
  BY <1>0, <1>1, <1>4, <1>7, <1>10, <1>12, TypeFacts, Rest

\* A device raises its line; a program faults where no handler comes back.
LEMMA OutsideInv ==
  ASSUME IInv, Exception \/ \E l \in Device : Raise(l)
  PROVE  IInv'
<1>0. TypeOK /\ FlagOK /\ ServiceOK /\ LinesOK /\ frames \in Seq(Frame) /\ frames # <<>>
  BY StackFacts DEF IInv, TypeOK
<1>1. UNCHANGED <<frames, mask, return_val>>
  BY DEF Exception, Raise
<1>2. Top' = Top /\ StackOK' /\ ResultOK' /\ frames' \in Seq(Frame) /\ frames' # <<>>
  BY <1>0, <1>1 DEF IInv, Top, StackOK, ResultOK, FrameOK, OnTop, Above, Returning, InWork, Device_,
                    IsRunning, HaltCall
<1>3. CASE Exception
  <2>1. FlagOK' /\ ServiceOK' /\ LinesOK'
    BY <1>0, <1>1, <1>2, <1>3 DEF Exception, FlagOK, ServiceOK, LinesOK
  <2> QED
    BY <1>0, <1>1, <1>2, <1>3, <2>1, TypeFacts, Rest DEF Exception
<1>4. ASSUME NEW l \in Device, Raise(l) PROVE IInv'
  <2>1. l \in {0, KEYBOARD_IRQ, RTC_IRQ}
    BY InterruptsAssumption DEF KEYBOARD_IRQ
  <2>2. pic.irr \cup {l} \in SUBSET Line
    BY <1>0, <2>1, TypeFacts DEF Line, KEYBOARD_IRQ, RTC_IRQ
  <2>3. /\ pic' \in [imr : SUBSET Line, irr : SUBSET Line, isr : SUBSET Line, smm : BOOLEAN]
        /\ pic'.irr = pic.irr \cup {l} /\ pic'.isr = pic.isr /\ pic'.imr = pic.imr
    BY <1>0, <1>4, <2>2, TypeFacts DEF Raise
  <2>4. FlagOK' /\ ServiceOK' /\ LinesOK'
    BY <1>0, <1>1, <1>2, <1>4, <2>1, <2>3 DEF Raise, FlagOK, ServiceOK, LinesOK
  <2>5. clock' \in [enabled : BOOLEAN, unread : BOOLEAN]
    BY <1>0, <1>4, TypeFacts DEF Raise
  <2>6. raised' \in 0..MaxRaised
    BY <1>0, <1>4, TypeFacts, InterruptsAssumption DEF Raise
  <2> QED
    BY <1>0, <1>1, <1>2, <1>4, <2>3, <2>4, <2>5, <2>6, TypeFacts, Rest DEF Raise
<1> QED
  BY <1>3, <1>4

-----------------------------------------------------------------------------
(* The inductive invariant, and what follows from it *)

LEMMA InitIInv == ASSUME Init PROVE IInv
<1> DEFINE b == Context("boot", "pic", FALSE)
<1>1. b \in Frame /\ b.code = "boot" /\ b.at = "pic"
  <2>1. "pic" \in Place /\ 0 \in Result
    BY DEF Place, Result
  <2> QED
    BY <2>1 DEF Context, Frame
<1>2. frames = <<b>>
  BY DEF Init
<1> HIDE DEF b
<1>3. frames \in Seq(Frame) /\ frames # <<>> /\ Len(frames) = 1 /\ frames[1] = b /\ Top = b
  BY <1>1, <1>2 DEF Top
<1>4. FrameOK(b) /\ ~Returning(b)
  BY <1>1 DEF FrameOK, Returning, Device_, DeviceCode
<1>5. StackOK /\ ResultOK
  <2>1. 1..1 = {1} /\ 1..(1 - 1) = {}
    OBVIOUS
  <2> QED
    BY <1>1, <1>3, <1>4, <2>1 DEF StackOK, ResultOK
<1>6. FlagOK /\ ServiceOK /\ LinesOK
  BY <1>1, <1>3 DEF Init, FlagOK, ServiceOK, LinesOK, Line, IsRunning, InWork, Device_, DeviceCode
<1>7. /\ IF_ \in BOOLEAN /\ dead \in BOOLEAN /\ mask \subseteq Line
      /\ pic \in [imr : SUBSET Line, irr : SUBSET Line, isr : SUBSET Line, smm : BOOLEAN]
      /\ clock \in [enabled : BOOLEAN, unread : BOOLEAN]
      /\ return_val \in Result /\ raised \in 0..MaxRaised
  <2>1. return_val = 0 /\ raised = 0 /\ 0 \in Result /\ 0 \in 0..MaxRaised
    BY InterruptsAssumption DEF Init, Result
  <2>2. pic = [imr |-> {}, irr |-> {}, isr |-> {}, smm |-> FALSE]
    BY DEF Init
  <2>3. pic \in [imr : SUBSET Line, irr : SUBSET Line, isr : SUBSET Line, smm : BOOLEAN]
    BY <2>2
  <2> QED
    BY <2>1, <2>3 DEF Init
<1> QED
  BY <1>3, <1>5, <1>6, <1>7 DEF IInv, TypeOK, Frame

LEMMA NextIInv == ASSUME IInv, [Next]_vars PROVE IInv'
<1>1. CASE Cpu
  <2>1. ~dead
    BY <1>1 DEF Cpu
  <2>2. ASSUME Takes, NEW l \in Deliverable, Interrupt(l) PROVE IInv'
    BY <2>2, InterruptInv DEF Takes
  <2>3. ASSUME Step PROVE IInv'
    BY <2>1, <2>3, BootInv, DeviceInv, CallsInv, BootExecutesInv, SyscallInv, ExecuteInv, HaltInv,
       IretInv, OutsideInv DEF Step
  <2> QED
    BY <1>1, <2>2, <2>3 DEF Cpu
<1>2. CASE \E l \in Device : Raise(l)
  BY <1>2, OutsideInv
<1>3. CASE UNCHANGED vars
  <2>1. UNCHANGED <<frames, IF_, mask, pic, clock, return_val, raised, dead>>
    BY <1>3 DEF vars
  <2>2. Top' = Top
    BY <2>1 DEF Top
  <2>3. StackOK' /\ ResultOK'
    BY <2>1 DEF IInv, StackOK, ResultOK, FrameOK, OnTop, Above, Returning, InWork, Device_, IsRunning,
                HaltCall
  <2>4. FlagOK' /\ ServiceOK' /\ LinesOK'
    BY <2>1, <2>2 DEF IInv, FlagOK, ServiceOK, LinesOK
  <2>5. frames' \in Seq(Frame) /\ frames' # <<>> /\ TypeOK
    BY <2>1, StackFacts DEF IInv, TypeOK
  <2> QED
    BY <2>1, <2>3, <2>4, <2>5, TypeFacts, Rest
<1> QED
  BY <1>1, <1>2, <1>3 DEF Next

LEMMA InductiveInvariant == Spec => []IInv
<1>1. Init => IInv
  BY InitIInv
<1>2. IInv /\ [Next]_vars => IInv'
  BY NextIInv
<1> QED
  BY <1>1, <1>2, PTL DEF Spec

\* Every context has the code of a handler the kernel has, and the chips, the
\* masks and the flag stay what they can be: no interrupt or exception of
\* isr.S's vectors without a handler ever comes on the stack.
THEOREM TypeCorrect == Spec => []TypeOK
<1>1. IInv => TypeOK
  BY DEF IInv
<1> QED
  BY <1>1, InductiveInvariant, PTL

\* The work of keyboard_interrupt_handler and rtc_interrupt_handler is one step
\* for everything else: nothing is entered on top of it but the halt of a
\* handler that faulted.
THEOREM HandlersStayAtomic == Spec => []HandlersAtomic
<1>1. ASSUME IInv PROVE HandlersAtomic
  <2>1. ASSUME NEW i \in 1..(Len(frames) - 1), frames[i].code \in {"keyboard", "rtc"},
               frames[i].at \in Work
        PROVE  frames[i + 1].code = "syscall" /\ frames[i + 1].number = 1
    <3>1. InWork(frames[i]) /\ OnTop(frames[i], frames[i + 1])
      BY <1>1, <2>1 DEF IInv, StackOK, InWork, Device_, DeviceCode
    <3> QED
      BY <3>1 DEF OnTop, HaltCall
  <2> QED
    BY <2>1 DEF HandlersAtomic
<1> QED
  BY <1>1, InductiveInvariant, PTL

\* The acknowledgement at the beginning of both handlers is enough: whatever
\* is nested, and whatever halt gives up, no line stays in service.
THEOREM LinesAreEnded == Spec => []ServiceMatched
<1>1. ASSUME IInv PROVE ServiceMatched
  <2>1. ServiceOK /\ Len(frames) \in Nat /\ Len(frames) >= 1 /\ frames \in Seq(Frame)
    BY <1>1, StackFacts DEF IInv
  <2>2. Len(frames) \in DOMAIN frames
    BY <2>1
  <2> QED
    BY <2>1, <2>2 DEF ServiceOK, ServiceMatched, Top
<1> QED
  BY <1>1, InductiveInvariant, PTL

\* Whoever spins for a key or a tick spins with interrupts on: the flag that
\* is saved when a program or a system function is left is the flag it had.
THEOREM ProgramsInterruptible == Spec => []Interruptible
<1>1. IInv => Interruptible
  <2>1. ASSUME Running PROVE IsRunning(Top)
    <3>1. \A n \in 1..10 : syscall_jump_table[n] \in Function
      BY DEF syscall_jump_table, Function
    <3> QED
      BY <2>1, <3>1 DEF Running, IsRunning
  <2> QED
    BY <2>1 DEF IInv, FlagOK, Interruptible
<1> QED
  BY <1>1, InductiveInvariant, PTL

\* One return_val serves the system calls of every nested program.
THEOREM ResultsStay == Spec => []ResultsKept
<1>1. ASSUME IInv PROVE ResultsKept
  <2>1. frames \in Seq(Frame) /\ StackOK
    BY <1>1, StackFacts DEF IInv
  <2>2. \A i \in DOMAIN frames : i \in 1..Len(frames)
    BY <2>1
  <2> QED
    BY <2>1, <2>2 DEF ResultsKept, StackOK, FrameOK
<1> QED
  BY <1>1, InductiveInvariant, PTL
===============================================================================
