------------------------------ MODULE BlinkList -------------------------------
(***************************************************************************)
(* What the fish program's blink calls promise: a list of blinking         *)
(* locations, the newest first, of at most Capacity entries.  A location   *)
(* may be on the list more than once; removing or synchronising it means   *)
(* its newest entry.  Each entry is on for on_length ticks and off for     *)
(* off_length ticks, in turn; a length of 0 counts as 1.                   *)
(***************************************************************************)
EXTENDS Integers, SequencesExt

CONSTANTS Capacity, Cells, Location, OnChar, OffChar, OnLength, OffLength

VARIABLE items

\* An entry as it is added: on, for a whole on_length.
Item == [location : 0..(Cells - 1), on_char : OnChar, off_char : OffChar,
         on_length : OnLength, off_length : OffLength, countdown : OnLength, on : {TRUE}]

Init == items = <<>>

\* The newest entry of a location, 0 if there is none.
Newest(loc) == SelectInSeq(items, LAMBDA item : item.location = loc)

Add == /\ Len(items) < Capacity
       /\ items' \in {<<item>> \o items : item \in {i \in Item : i.countdown = i.on_length}}

RemoveEntry == \E loc \in Location :
    /\ Newest(loc) # 0
    /\ items' = RemoveAt(items, Newest(loc))

Synchronised(from, to) ==
    [from EXCEPT !.location = to.location, !.on_char = to.on_char, !.off_char = to.off_char]

Sync == \E a, b \in Location :
    /\ Newest(a) # 0 /\ Newest(b) # 0
    /\ items' = [items EXCEPT ![Newest(b)] = Synchronised(items[Newest(a)], @)]

Ticked(item) ==
    IF item.countdown > 1 THEN [item EXCEPT !.countdown = @ - 1]
    ELSE [item EXCEPT !.on = ~@,
                      !.countdown = IF item.on THEN item.off_length ELSE item.on_length]

Tick == items' = [i \in DOMAIN items |-> Ticked(items[i])]

Next == Add \/ RemoveEntry \/ Sync \/ Tick

Spec == Init /\ [][Next]_items
===============================================================================
