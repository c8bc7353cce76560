--------------------------------- MODULE Rtc ---------------------------------
(***************************************************************************)
(* The real-time clock driver (rtc.c) and the part of the chip it uses:    *)
(* an index register (port 0x70) that selects which register the data port *)
(* (0x71) reads or writes, register A with the rate, register B with the   *)
(* bit that enables periodic interrupts, and register C, which must be     *)
(* read before the chip raises the next interrupt.                         *)
(*                                                                         *)
(* System calls run with interrupts on, so rtc_interrupt_handler can come  *)
(* between any two port accesses of rtc_set_freq and between any two       *)
(* accesses of rtc_read to the flag; it runs with interrupts off itself.   *)
(***************************************************************************)
EXTENDS Integers, Sequences

CONSTANTS Request,  \* values that programs write to the rtc
          MaxTick   \* bound: counters stop here (the code's wrap at 2^32)

ASSUME RtcAssumption == Request \subseteq Int /\ MaxTick \in Nat \ {0}

rtc_freqs == <<1024, 512, 256, 128, 64, 32, 16, 8, 4, 2>>

Supported == {rtc_freqs[i] : i \in 1..Len(rtc_freqs)}

\* Mutant: an off-by-one in the table.
RateAfter(f) == (CHOOSE i \in 1..Len(rtc_freqs) : rtc_freqs[i] = f) + 6

\* (index of freq in the table, from 0) + 6, of which the low four bits count.
RateOf(f) == (CHOOSE i \in 1..Len(rtc_freqs) : rtc_freqs[i] = f) + 5

VARIABLES index,                \* register the data port reaches: "A" to "D"
          rate,                 \* register A, the rate bits
          periodic,             \* register B, the periodic interrupt bit
          flagged,              \* register C, an interrupt not acknowledged
          irq,                  \* the PIC holds a request of the chip
          rtc_interrupt_occur,
          rtc_num_tick,
          pc,                   \* what the driver is doing for a program
          freq,                 \* the frequency asked for last
          ret,                  \* what the last call returned
          reads                 \* reads that have returned (not in the code)

chip   == <<index, rate, periodic, flagged, irq>>
driver == <<rtc_interrupt_occur, rtc_num_tick>>
call   == <<pc, freq, ret, reads>>
vars   == <<chip, driver, call>>

Init == /\ index \in {"A", "D"}
        /\ rate = 6
        /\ periodic = FALSE /\ flagged \in BOOLEAN /\ irq = FALSE
        /\ rtc_interrupt_occur = 0 /\ rtc_num_tick = 0
        /\ pc = "boot" /\ freq = 1024 /\ ret = 0 /\ reads = 0

Up(n) == IF n < MaxTick THEN n + 1 ELSE n

\* Runs with interrupts off: set the bit in register B, open the irq line.
rtc_init ==
    /\ pc = "boot" /\ pc' = "user"
    /\ index' = "B"
    /\ periodic' = TRUE
    /\ irq' = flagged
    /\ rtc_interrupt_occur' = 0
    /\ rtc_num_tick' = 0
    /\ UNCHANGED <<rate, flagged, freq, ret, reads>>

\* The chip's divider wraps: a request goes out unless one is unacknowledged.
Tick ==
    /\ ~flagged
    /\ flagged' = TRUE
    /\ irq' = (irq \/ periodic)
    /\ UNCHANGED <<index, rate, periodic, driver, call>>

\* Mutant: register C is not read.
HandlerUnacknowledged ==
    /\ irq
    /\ irq' = FALSE
    /\ rtc_interrupt_occur' = 1
    /\ rtc_num_tick' = Up(rtc_num_tick)
    /\ index' = "C"
    /\ UNCHANGED <<rate, periodic, flagged, call>>

rtc_interrupt_handler ==
    /\ irq
    /\ irq' = FALSE
    /\ rtc_interrupt_occur' = 1
    /\ rtc_num_tick' = Up(rtc_num_tick)
    /\ index' = "C"
    /\ flagged' = FALSE
    /\ UNCHANGED <<rate, periodic, call>>

-----------------------------------------------------------------------------
(* System calls *)

\* rtc_write, and rtc_open with 2.
rtc_set_freq(f) ==
    /\ pc = "user"
    /\ IF f \in Supported
       THEN pc' = "select" /\ freq' = f /\ UNCHANGED ret
       ELSE ret' = -1 /\ UNCHANGED <<pc, freq>>
    /\ UNCHANGED <<chip, driver, reads>>

\* Mutant: the other register is selected.
SelectB == /\ pc = "select" /\ pc' = "write"
           /\ index' = "B"
           /\ UNCHANGED <<rate, periodic, flagged, irq, driver, freq, ret, reads>>

\* outb(REGISTER_A, RTC_PORT)
SelectA == /\ pc = "select" /\ pc' = "write"
           /\ index' = "A"
           /\ UNCHANGED <<rate, periodic, flagged, irq, driver, freq, ret, reads>>

\* outb(rate, CMOS_PORT): to whatever register is selected by now.  No rate has
\* the periodic bit of register B; register C is read-only.
WriteRate == /\ pc = "write" /\ pc' = "user"
             /\ rate' = IF index = "A" THEN RateOf(freq) ELSE rate
             /\ periodic' = (periodic /\ index # "B")
             /\ ret' = 0
             /\ UNCHANGED <<index, flagged, irq, driver, freq, reads>>

rtc_read == /\ pc = "user" /\ pc' = "spin"
            /\ UNCHANGED <<chip, driver, freq, ret, reads>>

LeaveSpin == /\ pc = "spin" /\ pc' = "reset"
             /\ rtc_interrupt_occur # 0
             /\ UNCHANGED <<chip, driver, freq, ret, reads>>

\* Mutant: a read leaves the flag as it found it.
KeepFlag == /\ pc = "reset" /\ pc' = "user"
            /\ ret' = 0
            /\ reads' = Up(reads)
            /\ UNCHANGED <<chip, driver, freq>>

ResetFlag == /\ pc = "reset" /\ pc' = "user"
             /\ rtc_interrupt_occur' = 0
             /\ ret' = 0
             /\ reads' = Up(reads)
             /\ UNCHANGED <<chip, rtc_num_tick, freq>>

CallStep == SelectA \/ WriteRate \/ LeaveSpin \/ ResetFlag

Next == \/ rtc_init
        \/ Tick
        \/ rtc_interrupt_handler
        \/ \E f \in Request : rtc_set_freq(f)
        \/ rtc_read
        \/ CallStep

\* The chip keeps time, the processor takes pending requests (no code leaves
\* interrupts off for good), and a call that can move does.
Spec == /\ Init /\ [][Next]_vars
        /\ WF_vars(Tick) /\ WF_vars(rtc_interrupt_handler) /\ WF_vars(CallStep)

-----------------------------------------------------------------------------
(* Properties *)

TypeOK == /\ index \in {"A", "B", "C", "D"}
          /\ rate \in 6..15
          /\ periodic \in BOOLEAN /\ flagged \in BOOLEAN /\ irq \in BOOLEAN
          /\ rtc_interrupt_occur \in {0, 1}
          /\ rtc_num_tick \in 0..MaxTick /\ reads \in 0..MaxTick
          /\ pc \in {"boot", "user", "select", "write", "spin", "reset"}
          /\ freq \in Supported
          /\ ret \in {0, -1}

\* Once the driver is up, an interrupt that the chip waits to see acknowledged
\* is on its way to the handler: were one dropped, the chip would never raise
\* another.  A rate written to the wrong register must not turn interrupts off.
NeverSilenced == pc # "boot" => periodic /\ (flagged => irq)

\* Every read that returns has used up an interrupt of its own: the flag that
\* one read saw does not let a second one through.
ReadsHaveTicks == reads + rtc_interrupt_occur <= rtc_num_tick \/ reads = MaxTick
                    \/ rtc_num_tick = MaxTick

\* A read always returns.
ReadReturns == (pc = "spin") ~> (pc = "user")
=============================================================================
