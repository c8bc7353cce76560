------------------------------- MODULE Library -------------------------------
(***************************************************************************)
(* The kernel's C library (lib.c): filling and copying memory, strings,    *)
(* and the numbers printf prints.  Calls follow one another on one small   *)
(* memory; what a call leaves behind besides its result is the CPU's       *)
(* direction flag, which a backward memmove sets and does not clear.       *)
(*                                                                         *)
(* An assembly loop is the sequence of moves it makes, in its order; a     *)
(* move takes place at once and sees what earlier moves have written.      *)
(***************************************************************************)
EXTENDS Integers, SequencesExt

CONSTANTS SIZE,        \* bytes of memory
          Byte,        \* their values, 0 ends a string
          WORD,        \* bytes moved at once when the destination is aligned
          HEX          \* hexadecimal digits of an integer

ASSUME LibraryAssumption ==
    /\ SIZE \in Nat \ {0}
    /\ Byte \subseteq Nat /\ 0 \in Byte
    /\ WORD \in Nat \ {0}
    /\ HEX \in Nat \ {0}

VARIABLES mem,         \* memory, by address
          df,          \* the direction flag: string instructions go backward
          printed      \* the last conversion of printf: what it was and its text

vars == <<mem, df, printed>>

Address == 0..(SIZE - 1)

\* The numbers of k hexadecimal digits, and of an integer's.
Power[k \in 0..HEX] == IF k = 0 THEN 1 ELSE 16 * Power[k - 1]
Width == Power[HEX]

Nothing == [as |-> "u", value |-> 0, text |-> <<0>>]

Init == /\ mem \in [Address -> Byte]
        /\ df = FALSE
        /\ printed = Nothing

-----------------------------------------------------------------------------
(* Memory *)

\* One move of k bytes from s to d, and a sequence of moves.
Move(m, d, s, k) == [a \in Address |-> IF a \in d..(d + k - 1) THEN m[s + a - d] ELSE m[a]]
Moves(m, d, s, blocks) ==
    FoldLeft(LAMBDA acc, b : Move(acc, d + b.at, s + b.at, b.len), m, blocks)

Set(m, d, k, c) == [a \in Address |-> IF a \in d..(d + k - 1) THEN c ELSE m[a]]
Sets(m, d, blocks, c) == FoldLeft(LAMBDA acc, b : Set(acc, d + b.at, b.len, c), m, blocks)

\* Bytes moved one by one until d is aligned.
Lead(d, n) == LET h == (WORD - (d % WORD)) % WORD IN IF n < h THEN n ELSE h

Run(at, count, len) == [i \in 1..count |-> [at |-> at + (i - 1) * len, len |-> len]]

\* The moves of memset and memcpy: bytes, whole words, and the rest.
Blocks(d, n) ==
    LET h    == Lead(d, n)
        rest == (n - h) % WORD
    IN Run(0, h, 1) \o Run(h, (n - h) \div WORD, WORD) \o Run(n - rest, rest, 1)

\* The moves of a rep instruction of n steps of len bytes.
Rep(n, len, backward) == IF backward THEN Reverse(Run(0, n, len)) ELSE Run(0, n, len)

Memset(m, d, c, n)      == Sets(m, d, Blocks(d, n), c)
MemsetWords(m, d, c, n) == Sets(m, d, Rep(n, WORD, FALSE), c)
Memcpy(m, d, s, n)      == Moves(m, d, s, Blocks(d, n))

\* Mutant: without cld, the flag an earlier memmove left decides.
BackwardUncleared(d, s) == df \/ s < d

\* The direction of memmove: cld, then std when the source is below.
Backward(d, s) == s < d

Memmove(m, d, s, n) == Moves(m, d, s, Rep(n, 1, Backward(d, s)))

Inside(a, n) == a + n <= SIZE

memset == \E d \in Address, c \in Byte, n \in 0..SIZE :
    /\ Inside(d, n)
    /\ mem' = Memset(mem, d, c, n)
    /\ df' = (df /\ n <= Lead(d, n))
    /\ printed' = Nothing

\* memset_word and memset_dword
memset_word == \E d \in Address, c \in Byte, n \in 0..SIZE :
    /\ Inside(d, n * WORD)
    /\ mem' = MemsetWords(mem, d, c, n)
    /\ df' = FALSE
    /\ printed' = Nothing

memcpy == \E d, s \in Address, n \in 0..SIZE :
    /\ Inside(d, n) /\ Inside(s, n)
    /\ mem' = Memcpy(mem, d, s, n)
    /\ df' = (df /\ n <= Lead(d, n))
    /\ printed' = Nothing

memmove == \E d, s \in Address, n \in 0..SIZE :
    /\ Inside(d, n) /\ Inside(s, n)
    /\ mem' = Memmove(mem, d, s, n)
    /\ df' = Backward(d, s)
    /\ printed' = Nothing

-----------------------------------------------------------------------------
(* Strings *)

\* A string begins at s and ends in memory.
IsString(m, s) == \E a \in s..(SIZE - 1) : m[a] = 0
Strlen(m, s)   == Min({a \in s..(SIZE - 1) : m[a] = 0}) - s

\* Mutant: the string is copied from its end.
StrcpyBackward(m, d, s) == Moves(m, d, s, Reverse(Run(0, Strlen(m, s) + 1, 1)))

Strcpy(m, d, s) == Moves(m, d, s, Run(0, Strlen(m, s) + 1, 1))

Strncpy(m, d, s, n) ==
    LET k == IF Strlen(m, s) < n THEN Strlen(m, s) ELSE n
    IN Set(Moves(m, d, s, Run(0, k, 1)), d + k, n - k, 0)

\* strrev swaps from both ends.
Swap(f, a, b) == [f EXCEPT ![a] = f[b], ![b] = f[a]]
Strrev(m, s) ==
    LET end == s + Strlen(m, s) - 1
    IN FoldLeft(LAMBDA acc, i : Swap(acc, s + i - 1, end - i + 1), m,
                [i \in 1..(Strlen(m, s) \div 2) |-> i])

\* strcpy towards higher addresses over its own source never ends.
CanCopy(m, d, s) ==
    /\ IsString(m, s) /\ Inside(d, Strlen(m, s) + 1)
    /\ d <= s \/ d > s + Strlen(m, s)

strcpy == \E d, s \in Address :
    /\ CanCopy(mem, d, s)
    /\ mem' = Strcpy(mem, d, s)
    /\ UNCHANGED df /\ printed' = Nothing

strncpy == \E d, s \in Address, n \in 0..SIZE :
    /\ CanCopy(mem, d, s) /\ Inside(d, n)
    /\ d < s => d + n <= s
    /\ mem' = Strncpy(mem, d, s, n)
    /\ UNCHANGED df /\ printed' = Nothing

strrev == \E s \in Address :
    /\ IsString(mem, s)
    /\ mem' = Strrev(mem, s)
    /\ UNCHANGED df /\ printed' = Nothing

-----------------------------------------------------------------------------
(* Numbers *)

\* itoa: digits from the lowest, then reversed; zero is a case of its own.
LowDigits(radix) ==
    LET f[v \in 0..(Width - 1)] == IF v = 0 THEN <<>> ELSE <<v % radix>> \o f[v \div radix] IN f

itoa(v, radix) == IF v = 0 THEN <<0>> ELSE Reverse(LowDigits(radix)[v])

\* Mutant: the sign is taken off before the width is considered.
NegatedSmall(v) == IF v = Width \div 2 THEN v - 1 ELSE Width - v

\* -value of a negative value, as the unsigned number itoa takes.
Negated(v) == Width - v

Minus    == -1       \* the sign, among digits
Zeros(n) == [i \in 1..n |-> 0]

\* printf's conversions; v is the argument's bit pattern.
Converted(as, v) ==
    CASE as = "x"  -> itoa(v, 16)
      [] as = "#x" -> Zeros(HEX - Len(itoa(v, 16))) \o itoa(v, 16)
      [] as = "u"  -> itoa(v, 10)
      [] as = "d"  -> IF v >= Width \div 2 THEN <<Minus>> \o itoa(Negated(v), 10)
                      ELSE itoa(v, 10)

\* Bound: printf shares no state with the calls above, so that it is enough to
\* print from one memory.
PrintsFrom == ~df /\ \A a \in Address : mem[a] = 0

printf == \E as \in {"x", "#x", "u", "d"}, v \in 0..(Width - 1) :
    /\ PrintsFrom
    /\ printed' = [as |-> as, value |-> v, text |-> Converted(as, v)]
    /\ UNCHANGED <<mem, df>>

Next == \/ memset \/ memset_word \/ memcpy \/ memmove
        \/ strcpy \/ strncpy \/ strrev
        \/ printf

Spec == Init /\ [][Next]_vars

-----------------------------------------------------------------------------
(* Properties *)

\* Whatever was called before, a copy is a copy: memmove moves regions that
\* overlap either way, memcpy those it is safe for, and both fills and copies
\* reach every byte whatever the alignment, and no other.
MemoryAsSpecified ==
    \A d, s \in Address, n \in 0..SIZE : Inside(d, n) /\ Inside(s, n) =>
        /\ Memmove(mem, d, s, n) = Move(mem, d, s, n)
        /\ d <= s \/ d >= s + n => Memcpy(mem, d, s, n) = Move(mem, d, s, n)
        /\ \A c \in Byte : Memset(mem, d, c, n) = Set(mem, d, n, c)

\* A copied string is the string that was there, also when it is copied down
\* over itself, as grep does with the line it has read half of; reversing a
\* string twice gives it back.
StringsAsSpecified ==
    /\ \A d, s \in Address : CanCopy(mem, d, s) =>
           LET after == Strcpy(mem, d, s) IN
           /\ Strlen(after, d) = Strlen(mem, s)
           /\ \A i \in 0..Strlen(mem, s) : after[d + i] = mem[s + i]
    /\ \A s \in Address : IsString(mem, s) =>
           LET once == Strrev(mem, s) IN
           /\ \A i \in 0..(Strlen(mem, s) - 1) : once[s + i] = mem[s + Strlen(mem, s) - 1 - i]
           /\ Strrev(once, s) = mem

\* Comment of printf (lib.c:70-80): the text of every conversion denotes its
\* argument, the most negative number among them, and %#x has all its digits.
NumberOf(text, radix) == FoldLeft(LAMBDA acc, digit : acc * radix + digit, 0, text)
NumbersPrinted ==
    LET v == printed.value
        t == printed.text
    IN CASE printed.as = "x"  -> NumberOf(t, 16) = v
         [] printed.as = "#x" -> NumberOf(t, 16) = v /\ Len(t) = HEX
         [] printed.as = "u"  -> NumberOf(t, 10) = v
         [] printed.as = "d"  -> IF Head(t) = Minus THEN v = Width - NumberOf(Tail(t), 10)
                                 ELSE v = NumberOf(t, 10)
=============================================================================
