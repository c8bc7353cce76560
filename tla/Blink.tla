-------------------------------- MODULE Blink ---------------------------------
(***************************************************************************)
(* The blinking characters of the program fish (fish/blink.S): a linked    *)
(* list of entries, the four calls of mp1_ioctl, and mp1_rtc_tasklet,      *)
(* which fish calls after each tick of the clock.  The entries come from a *)
(* pool (fish/fish.c) in which a slot is free when its location is 0, so   *)
(* that location 0 must not be added: fish adds locations from 40 on.      *)
(* Lengths and countdowns are words, compared as signed numbers.           *)
(***************************************************************************)
EXTENDS Integers, SequencesExt

CONSTANTS POOL_SIZE,         \* entries of blink_array
          CELLS,             \* locations of the screen
          Location,          \* locations the caller passes
          OnChar, OffChar,   \* characters the caller passes
          Blank,
          OnLength,          \* lengths the caller passes
          OffLength,
          SIGN_BIT           \* of a countdown, as a number

ASSUME BlinkAssumption ==
    /\ POOL_SIZE \in Nat /\ CELLS \in Nat /\ SIGN_BIT \in Nat \ {0}
    /\ Location \subseteq Nat \ {0}
    /\ OnLength \cup OffLength \subseteq 0..SIGN_BIT

VARIABLES pool,              \* blink_array, by slot
          mp1_list_head,     \* a slot, or NULL
          shown,             \* video memory
          mixed              \* history: locations not drawn by their entry alone

vars == <<pool, mp1_list_head, shown, mixed>>

NULL  == 0
Slot  == 1..POOL_SIZE
Modulus == 2 * SIGN_BIT

Free == [location |-> 0, on_char |-> Blank, off_char |-> Blank, on_length |-> 0,
         off_length |-> 0, countdown |-> 0, on |-> FALSE, next |-> NULL]

Init == /\ pool = [s \in Slot |-> Free]
        /\ mp1_list_head = NULL
        /\ shown = [c \in 0..(CELLS - 1) |-> Blank]
        /\ mixed = {}

-----------------------------------------------------------------------------

\* The list from a slot on, as its slots in order.
From[s \in Slot \cup {NULL}] == IF s = NULL THEN <<>> ELSE <<s>> \o From[pool[s].next]

List   == From[mp1_list_head]
Listed == ToSet(List)

\* mp1_find_helper: the first entry with the location.
Find(loc) ==
    LET list  == List
        first == SelectInSeq(list, LAMBDA s : pool[s].location = loc)
    IN IF first = 0 THEN NULL ELSE list[first]

\* mp1_malloc takes the first slot whose location is 0.
Malloc == LET free == {s \in Slot : pool[s].location = 0}
          IN IF free = {} THEN NULL ELSE Min(free)

Displayed(r) == IF r.on THEN r.on_char ELSE r.off_char

\* Mutant: the entry goes to the front and its successor is lost.
LinkedLast(r) == [r EXCEPT !.next = NULL]

Linked(r) == [r EXCEPT !.next = mp1_list_head]

Add == \E loc \in Location, on \in OnChar, off \in OffChar, onl \in OnLength, offl \in OffLength :
    LET s == Malloc
        r == [location |-> loc, on_char |-> on, off_char |-> off, on_length |-> onl,
              off_length |-> offl, countdown |-> onl, on |-> TRUE, next |-> NULL]
    IN /\ loc < CELLS /\ s # NULL
       /\ pool' = [pool EXCEPT ![s] = Linked(r)]
       /\ mp1_list_head' = s
       /\ shown' = [shown EXCEPT ![loc] = on]
       /\ mixed' = IF Find(loc) = NULL THEN mixed \ {loc} ELSE mixed \cup {loc}

\* The entry is unlinked, and mp1_free clears its slot.
RemoveEntry == \E loc \in Location :
    LET s    == Find(loc)
        prev == {p \in Listed : pool[p].next = s}
    IN /\ s # NULL
       /\ pool' = [p \in Slot |-> IF p = s THEN Free
                                  ELSE IF p \in prev THEN [pool[p] EXCEPT !.next = pool[s].next]
                                  ELSE pool[p]]
       /\ mp1_list_head' = IF mp1_list_head = s THEN pool[s].next ELSE mp1_list_head
       /\ UNCHANGED <<shown, mixed>>

Copied(from, to) ==
    [to EXCEPT !.on_length = from.on_length, !.off_length = from.off_length,
               !.countdown = from.countdown, !.on = from.on]

\* The conditional move after the test of STATUS is never taken: what is drawn
\* is the character for off, whatever the status.
Sync == \E a, b \in Location :
    LET from == Find(a)
        to   == Find(b)
    IN /\ from # NULL /\ to # NULL
       /\ pool' = [pool EXCEPT ![to] = Copied(pool[from], @)]
       /\ shown' = [shown EXCEPT ![b] = pool[to].off_char]
       /\ mixed' = mixed \cup {b}
       /\ UNCHANGED mp1_list_head

-----------------------------------------------------------------------------
(* mp1_rtc_tasklet *)

Decremented(c) == (c + Modulus - 1) % Modulus

\* The decremented countdown is not above 0, as a signed number.
Expired(c) == c = 0 \/ c >= SIGN_BIT

\* Mutant: the character is chosen after the status has changed.
DrawnLate(r) == IF r.on THEN r.on_char ELSE r.off_char

\* What an entry whose countdown has expired draws.
Drawn(r) == IF r.on THEN r.off_char ELSE r.on_char

Ticked(r) ==
    LET c == Decremented(r.countdown) IN
    IF Expired(c)
    THEN [r EXCEPT !.on = ~@, !.countdown = IF r.on THEN r.off_length ELSE r.on_length]
    ELSE [r EXCEPT !.countdown = c]

\* Entries draw in the order of the list.
Tasklet ==
    LET list         == List
        toggles(loc) == {i \in DOMAIN list :
                            /\ pool[list[i]].location = loc
                            /\ Expired(Decremented(pool[list[i]].countdown))}
        there(loc)   == {s \in ToSet(list) : pool[s].location = loc}
    IN /\ pool' = [s \in Slot |-> IF s \in ToSet(list) THEN Ticked(pool[s]) ELSE pool[s]]
       /\ shown' = [c \in 0..(CELLS - 1) |->
                       IF toggles(c) = {} THEN shown[c] ELSE Drawn(pool[list[Max(toggles(c))]])]
       /\ mixed' = {c \in mixed : toggles(c) = {} \/ Cardinality(there(c)) > 1}
       /\ UNCHANGED mp1_list_head

Next == Add \/ RemoveEntry \/ Sync \/ Tasklet

Spec == Init /\ [][Next]_vars

-----------------------------------------------------------------------------
(* Properties *)

\* The pool and the pointers implement a list: no entry is lost, none appears
\* twice, a removed slot can be used again, and countdowns count as
\* numbers do.
items == LET list == List IN
         [i \in DOMAIN list |->
             LET r == pool[list[i]]
             IN [location |-> r.location, on_char |-> r.on_char, off_char |-> r.off_char,
                 on_length |-> r.on_length, off_length |-> r.off_length,
                 countdown |-> r.countdown, on |-> r.on]]

Abstract == INSTANCE BlinkList WITH Capacity <- POOL_SIZE, Cells <- CELLS

ImplementsBlinkList == Abstract!Spec

\* The screen shows the state of every entry that has its location for itself,
\* from its first tick or its add on; RTC_SYNC draws the wrong character until
\* the next change.
ShownIsState ==
    \A s \in Listed : pool[s].location \notin mixed =>
        shown[pool[s].location] = Displayed(pool[s])
===============================================================================
