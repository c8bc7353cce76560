----------------------------- MODULE Rtc_proofs -----------------------------
(***************************************************************************)
(* Proofs about Rtc, for every set of requests and every counter bound.    *)
(* Fairness plays no part in them.                                         *)
(***************************************************************************)
EXTENDS Rtc, TLAPS

\* Before rtc_init nothing can interrupt; between the two port accesses of
\* rtc_set_freq the handler can leave register C selected, but nothing selects
\* register B, where the enabling bit is; and only ResetFlag lowers the flag.
IInv ==
    /\ TypeOK
    /\ NeverSilenced
    /\ ReadsHaveTicks
    /\ pc = "boot" => ~periodic /\ ~irq /\ reads = 0
    /\ pc = "write" => index \in {"A", "C"}
    /\ pc = "reset" => rtc_interrupt_occur = 1

LEMMA FreqsFact == Len(rtc_freqs) = 10 /\ 1024 \in Supported
<1>1. Len(rtc_freqs) = 10 /\ rtc_freqs[1] = 1024
  BY DEF rtc_freqs
<1> QED
  BY <1>1 DEF Supported

\* Each frequency of the table has a rate of the chip.
LEMMA RateFits == ASSUME NEW f \in Supported PROVE RateOf(f) \in 6..15
<1> DEFINE i == CHOOSE k \in 1..Len(rtc_freqs) : rtc_freqs[k] = f
<1>1. i \in 1..Len(rtc_freqs)
  BY DEF Supported
<1> HIDE DEF i
<1>2. i \in 1..10
  BY <1>1, FreqsFact
<1>3. RateOf(f) = i + 5
  BY DEF RateOf, i
<1> QED
  BY <1>2, <1>3

LEMMA UpFact ==
  ASSUME NEW n \in 0..MaxTick
  PROVE  /\ Up(n) \in 0..MaxTick
         /\ Up(n) = n + 1 \/ (n = MaxTick /\ Up(n) = MaxTick)
BY RtcAssumption DEF Up

LEMMA InitIInv == Init => IInv
<1> SUFFICES ASSUME Init PROVE IInv
  OBVIOUS
<1>1. 0 \in 0..MaxTick
  BY RtcAssumption
<1>2. TypeOK
  <2>1. 0 \in {0, 1} /\ 6 \in 6..15 /\ 1024 \in Supported
    BY FreqsFact
  <2>2. freq \in Supported /\ rate \in 6..15 /\ rtc_interrupt_occur \in {0, 1}
    BY <2>1 DEF Init
  <2> QED
    BY <1>1, <2>2 DEF Init, TypeOK
<1>3. NeverSilenced /\ ReadsHaveTicks
  BY <1>1 DEF Init, NeverSilenced, ReadsHaveTicks
<1> QED
  BY <1>2, <1>3 DEF Init, IInv

LEMMA NextIInv == IInv /\ [Next]_vars => IInv'
<1> SUFFICES ASSUME IInv, [Next]_vars PROVE IInv'
  OBVIOUS
<1> USE RtcAssumption DEF IInv, TypeOK, NeverSilenced, ReadsHaveTicks, chip, driver
<1>1. CASE rtc_init
  BY <1>1 DEF rtc_init
<1>2. CASE Tick
  BY <1>2 DEF Tick, call
<1>3. CASE rtc_interrupt_handler
  <2>1. rtc_num_tick' = Up(rtc_num_tick)
    BY <1>3 DEF rtc_interrupt_handler
  <2>2. rtc_num_tick' \in 0..MaxTick
        /\ (rtc_num_tick' = rtc_num_tick + 1 \/ rtc_num_tick' = MaxTick)
    BY <2>1, UpFact
  <2>3. UNCHANGED <<reads, pc, freq, ret>> /\ rtc_interrupt_occur' = 1 /\ pc # "boot"
    BY <1>3 DEF rtc_interrupt_handler, call
  <2>4. ReadsHaveTicks'
    BY <2>2, <2>3
  <2>5. TypeOK'
    BY <1>3, <2>2, <2>3 DEF rtc_interrupt_handler
  <2>6. NeverSilenced'
    BY <1>3, <2>3 DEF rtc_interrupt_handler
  <2> QED
    BY <1>3, <2>3, <2>4, <2>5, <2>6 DEF rtc_interrupt_handler
<1>4. ASSUME NEW f \in Request, rtc_set_freq(f) PROVE IInv'
  BY <1>4 DEF rtc_set_freq
<1>5. CASE rtc_read
  BY <1>5 DEF rtc_read
<1>6. CASE SelectA
  BY <1>6 DEF SelectA
<1>7. CASE WriteRate
  <2>1. RateOf(freq) \in 6..15
    BY RateFits
  <2> QED
    BY <1>7, <2>1 DEF WriteRate
<1>8. CASE LeaveSpin
  BY <1>8 DEF LeaveSpin
<1>9. CASE ResetFlag
  <2>1. reads' = Up(reads)
    BY <1>9 DEF ResetFlag
  <2> QED
    BY <1>9, <2>1, UpFact DEF ResetFlag
<1>10. CASE UNCHANGED vars
  BY <1>10 DEF vars, call
<1> QED
  BY <1>1, <1>2, <1>3, <1>4, <1>5, <1>6, <1>7, <1>8, <1>9, <1>10 DEF Next, CallStep

LEMMA InductiveInvariant == Spec => []IInv
BY InitIInv, NextIInv, PTL DEF Spec

\* The driver's variables and the chip's registers hold values of their kind: in
\* particular every rate that is ever programmed is a rate of the chip.
THEOREM TypeCorrect == Spec => []TypeOK
BY InductiveInvariant, PTL DEF IInv

\* Wherever the handler interrupts the driver, periodic interrupts stay enabled
\* and an interrupt the chip wants acknowledged stays on its way to the handler.
THEOREM ChipNeverSilenced == Spec => []NeverSilenced
BY InductiveInvariant, PTL DEF IInv

\* No interrupt lets two reads of the clock through.
THEOREM EachReadHasItsTick == Spec => []ReadsHaveTicks
BY InductiveInvariant, PTL DEF IInv
=============================================================================
