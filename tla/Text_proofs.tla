----------------------------- MODULE Text_proofs ------------------------------
(***************************************************************************)
(* Proofs about the modules that work on bytes and on text: Library, and   *)
(* Shell with Grep.                                                        *)
(*                                                                         *)
(* Library, for every size of memory and of a word: whatever the alignment *)
(* and the overlap, the moves of memmove, memcpy and memset have the       *)
(* effect of one move, and the string functions do what their names say.   *)
(* A loop of the model is a fold over the sequence of its steps; it is     *)
(* reasoned about through the values R[0], R[1], ... it passes through,    *)
(* with the least step that goes wrong as a counterexample.  The digits of *)
(* a number are a function that takes the number apart; the same argument  *)
(* shows that NumberOf puts it together again.                             *)
(*                                                                         *)
(* Shell and Grep, for every line and every text, and every size of the    *)
(* buffers: Split, Without, FoundIn and FlattenSeq are such loops, and     *)
(* what they make of a text is followed one character at a time, in step   *)
(* with the parser and with the buffer of grep.                            *)
(***************************************************************************)
EXTENDS Library, Shell, SequenceTheorems, WellFoundedInduction, TLAPS

Memory == [Address -> Byte]

-----------------------------------------------------------------------------
(* Least elements *)

Before == {ss \in Nat \X Nat : ss[1] < ss[2]}

LEMMA BeforeWellFounded == IsWellFoundedOn(Before, Nat)
BY NatLessThanWellFounded DEF OpToRel, Before

LEMMA Least ==
  ASSUME NEW T \in SUBSET Nat, T # {}
  PROVE  \E x \in T : \A y \in T : x <= y
<1>1. PICK x \in T : \A y \in T : <<y, x>> \notin Before
  BY WFMin, BeforeWellFounded
<1>2. x \in Nat /\ \A y \in T : y \in Nat
  OBVIOUS
<1>3. \A y \in T : ~(y < x)
  BY <1>1, <1>2, Zenon DEF Before
<1> QED
  BY <1>2, <1>3

\* Where something first goes wrong it was right before.
LEMMA First ==
  ASSUME NEW n \in Nat, NEW W \in SUBSET (0..n), W # {}, 0 \notin W
  PROVE  \E k \in 1..n : k \in W /\ k - 1 \in 0..n /\ k - 1 \notin W
<1>1. PICK k \in W : \A j \in W : k <= j
  <2>1. W \in SUBSET Nat
    OBVIOUS
  <2> QED
    BY <2>1, Least
<1>2. k \in 0..n /\ k # 0
  OBVIOUS
<1>3. k \in 1..n /\ k - 1 \in 0..n /\ ~(k <= k - 1)
  BY <1>2
<1> QED
  BY <1>1, <1>3

LEMMA MinIs ==
  ASSUME NEW T \in SUBSET Nat, T # {}
  PROVE  Min(T) \in T /\ \A y \in T : Min(T) <= y
BY Least DEF Min

LEMMA MinUnique ==
  ASSUME NEW T \in SUBSET Nat, NEW x \in T, \A y \in T : x <= y
  PROVE  Min(T) = x
<1>1. Min(T) \in T /\ Min(T) <= x
  BY MinIs
<1>2. x <= Min(T) /\ x \in Nat /\ Min(T) \in Nat
  BY <1>1
<1> QED
  BY <1>1, <1>2

\* The greatest of some numbers from 1 to n.
LEMMA MaxIs ==
  ASSUME NEW n \in Nat, NEW T \in SUBSET (1..n), T # {}
  PROVE  Max(T) \in T /\ \A y \in T : y <= Max(T)
<1> DEFINE U == {n - y : y \in T}
<1>1. U \in SUBSET Nat /\ U # {}
  <2>1. \A y \in T : n - y \in Nat
    OBVIOUS
  <2> QED
    BY <2>1
<1>2. PICK u \in U : \A v \in U : u <= v
  BY <1>1, Least
<1>3. PICK x \in T : u = n - x
  OBVIOUS
<1>4. \A y \in T : n - y \in U
  OBVIOUS
<1>5. \A y \in T : x >= y
  <2> HIDE DEF U
  <2> QED
    BY <1>2, <1>3, <1>4
<1>6. Max(T) \in T /\ \A y \in T : Max(T) >= y
  BY <1>5 DEF Max
<1>7. \A y \in T : y \in Int
  OBVIOUS
<1> QED
  BY <1>6, <1>7

LEMMA MaxRun ==
  ASSUME NEW n \in Nat, NEW k \in 1..n
  PROVE  /\ 1..k \in SUBSET (1..n) /\ 1..k # {} /\ Max(1..k) = k
         /\ (1..k) \ {k} = 1..(k - 1)
<1>1. 1..k \in SUBSET (1..n) /\ k \in 1..k
  OBVIOUS
<1>2. Max(1..k) \in 1..k /\ k <= Max(1..k)
  BY <1>1, MaxIs
<1> QED
  BY <1>1, <1>2

-----------------------------------------------------------------------------
(* Loops.  The k-th step of a loop turns an x \in S into g[k][x]; a fold is *)
(* computed by a function h on the sets of steps.                           *)

Folds(n, S, base, g, h) ==
    \A s \in SUBSET (1..n) : h[s] = IF s = {} THEN base ELSE g[Max(s)][h[s \ {Max(s)}]]

LEMMA FoldExists ==
  ASSUME NEW n \in Nat, NEW S, NEW base \in S, NEW g \in [1..n -> [S -> S]]
  PROVE  \E h \in [SUBSET (1..n) -> S] : Folds(n, S, base, g, h)
<1> DEFINE Good(k) == \E h \in [SUBSET (1..k) -> S] : Folds(k, S, base, g, h)
           W == {k \in 0..n : ~Good(k)}
<1>1. Good(0)
  <2> DEFINE h == [s \in SUBSET (1..0) |-> base]
  <2>1. \A s \in SUBSET (1..0) : s = {}
    OBVIOUS
  <2>2. h \in [SUBSET (1..0) -> S] /\ Folds(0, S, base, g, h)
    BY <2>1 DEF Folds
  <2> QED
    BY <2>2
<1>2. ASSUME NEW k \in 1..n, Good(k - 1) PROVE Good(k)
  <2>1. PICK f \in [SUBSET (1..(k - 1)) -> S] : Folds(k - 1, S, base, g, f)
    BY <1>2
  <2> DEFINE h == [s \in SUBSET (1..k) |-> IF k \in s THEN g[k][f[s \ {k}]] ELSE f[s]]
  <2>2. \A s \in SUBSET (1..k) : s \ {k} \in SUBSET (1..(k - 1))
    OBVIOUS
  <2>3. \A s \in SUBSET (1..k) : k \notin s => s \in SUBSET (1..(k - 1))
    BY <2>2
  <2>4. \A s \in SUBSET (1..(k - 1)) : k \notin s /\ s \in SUBSET (1..k) /\ h[s] = f[s]
    <3>1. \A s \in SUBSET (1..(k - 1)) : k \notin s /\ s \in SUBSET (1..k)
      OBVIOUS
    <3> QED
      BY <3>1
  <2>5. h \in [SUBSET (1..k) -> S]
    <3>1. \A s \in SUBSET (1..k) : k \in s => g[k][f[s \ {k}]] \in S
      <4>1. g[k] \in [S -> S]
        OBVIOUS
      <4>2. \A s \in SUBSET (1..k) : f[s \ {k}] \in S
        BY <2>2
      <4> QED
        BY <4>1, <4>2
    <3>2. \A s \in SUBSET (1..k) : k \notin s => f[s] \in S
      BY <2>3
    <3> QED
      BY <3>1, <3>2
  <2>6. ASSUME NEW s \in SUBSET (1..k)
        PROVE  h[s] = IF s = {} THEN base ELSE g[Max(s)][h[s \ {Max(s)}]]
    <3>1. CASE k \in s
      <4>1. Max(s) = k
        <5>1. k \in Nat /\ s # {}
          BY <3>1
        <5>2. Max(s) \in s /\ \A y \in s : y <= Max(s)
          BY <5>1, MaxIs
        <5>3. Max(s) \in 1..k /\ k <= Max(s)
          BY <3>1, <5>2
        <5> QED
          BY <5>1, <5>3
      <4>2. h[s] = g[k][f[s \ {k}]]
        BY <3>1
      <4>3. h[s \ {k}] = f[s \ {k}]
        BY <2>2, <2>4
      <4> HIDE DEF h
      <4> QED
        BY <3>1, <4>1, <4>2, <4>3
    <3>2. CASE k \notin s
      <4>1. s \in SUBSET (1..(k - 1)) /\ h[s] = f[s]
        BY <2>3, <3>2
      <4>2. s \ {Max(s)} \in SUBSET (1..(k - 1))
        BY <4>1
      <4>3. h[s \ {Max(s)}] = f[s \ {Max(s)}]
        BY <2>4, <4>2
      <4> QED
        BY <2>1, <4>1, <4>3 DEF Folds
    <3> QED
      BY <3>1, <3>2
  <2> HIDE DEF h
  <2> QED
    BY <2>5, <2>6 DEF Folds
<1>3. W = {}
  <2> SUFFICES ASSUME W # {} PROVE FALSE
    OBVIOUS
  <2>1. W \in SUBSET (0..n) /\ 0 \notin W
    BY <1>1
  <2>2. PICK k \in 1..n : k \in W /\ k - 1 \in 0..n /\ k - 1 \notin W
    <3> HIDE DEF W
    <3> QED
      BY <2>1, First
  <2>3. Good(k - 1) /\ ~Good(k)
    BY <2>2
  <2> HIDE DEF Good
  <2> QED
    BY <1>2, <2>3
<1>4. n \in 0..n
  OBVIOUS
<1>5. Good(n)
  <2> HIDE DEF Good
  <2> QED
    BY <1>3, <1>4
<1> QED
  BY <1>5

\* The values R[k] a loop passes through stay in S.
LEMMA LoopStays ==
  ASSUME NEW n \in Nat, NEW S, NEW R, R[0] \in S,
         \A k \in 1..n : R[k - 1] \in S => R[k] \in S
  PROVE  \A k \in 0..n : R[k] \in S
<1> DEFINE W == {k \in 0..n : R[k] \notin S}
<1>1. W \in SUBSET (0..n) /\ 0 \notin W
  OBVIOUS
<1>2. \A k \in 0..n : k \notin W => R[k] \in S
  OBVIOUS
<1>3. \A k \in W : R[k] \notin S
  OBVIOUS
<1> HIDE DEF W
<1>4. W = {}
  BY <1>1, <1>2, <1>3, First
<1> QED
  BY <1>2, <1>4

-----------------------------------------------------------------------------
(* Moves, fills and swaps are loops *)

LEMMA SizeFacts ==
  /\ SIZE \in Nat /\ SIZE > 0 /\ WORD \in Nat /\ WORD > 0
  /\ Byte \subseteq Nat /\ 0 \in Byte
  /\ \A a : a \in Address <=> a \in Int /\ 0 <= a /\ a < SIZE
BY LibraryAssumption DEF Address

\* A block of len bytes at d and s, both inside memory.
Fits(d, len) == d \in Int /\ len \in Nat /\ 0 <= d /\ d + len <= SIZE

LEMMA MoveIs ==
  ASSUME NEW m \in Memory, NEW d, NEW s, NEW k, Fits(d, k), Fits(s, k)
  PROVE  /\ Move(m, d, s, k) \in Memory
         /\ \A a \in Address : Move(m, d, s, k)[a] =
                IF d <= a /\ a < d + k THEN m[s + a - d] ELSE m[a]
<1>1. d \in Int /\ s \in Int /\ k \in Nat
  BY DEF Fits
<1>2. \A a \in Address : a \in d..(d + k - 1) <=> d <= a /\ a < d + k
  BY <1>1, SizeFacts
<1>3. \A a \in Address : d <= a /\ a < d + k => s + a - d \in Address
  BY <1>1, SizeFacts DEF Fits
<1> QED
  BY <1>2, <1>3 DEF Move, Memory

LEMMA SetIs ==
  ASSUME NEW m \in Memory, NEW d, NEW k, NEW c \in Byte, Fits(d, k)
  PROVE  /\ Set(m, d, k, c) \in Memory
         /\ \A a \in Address : Set(m, d, k, c)[a] =
                IF d <= a /\ a < d + k THEN c ELSE m[a]
<1>1. d \in Int /\ k \in Nat
  BY DEF Fits
<1>2. \A a \in Address : a \in d..(d + k - 1) <=> d <= a /\ a < d + k
  BY <1>1, SizeFacts
<1> QED
  BY <1>2 DEF Set, Memory

\* The memories R[0], ..., R[n] that a sequence of moves or of fills passes through.
MovesThrough(R, m, d, s, n, bs) ==
    /\ R[0] = m
    /\ \A k \in 0..n : R[k] \in Memory
    /\ \A k \in 1..n : R[k] = Move(R[k - 1], d + bs[k].at, s + bs[k].at, bs[k].len)
    /\ Moves(m, d, s, bs) = R[n]

SetsThrough(R, m, d, n, bs, c) ==
    /\ R[0] = m
    /\ \A k \in 0..n : R[k] \in Memory
    /\ \A k \in 1..n : R[k] = Set(R[k - 1], d + bs[k].at, bs[k].len, c)
    /\ Sets(m, d, bs, c) = R[n]

LEMMA MovesRun ==
  ASSUME NEW m \in Memory, NEW d, NEW s, NEW n \in Nat, NEW blocks,
         DOMAIN blocks = 1..n,
         \A k \in 1..n : Fits(d + blocks[k].at, blocks[k].len)
                         /\ Fits(s + blocks[k].at, blocks[k].len)
  PROVE  \E R : MovesThrough(R, m, d, s, n, blocks)
<1> DEFINE g == [k \in 1..n |-> [x \in Memory |->
                    Move(x, d + blocks[k].at, s + blocks[k].at, blocks[k].len)]]
           Iter(h) == h = [t \in SUBSET (1..n) |->
                    IF t = {} THEN m
                    ELSE Move(h[t \ {Max(t)}], d + blocks[Max(t)].at,
                              s + blocks[Max(t)].at, blocks[Max(t)].len)]
           f == CHOOSE h : Iter(h)
<1>1. Moves(m, d, s, blocks) = f[1..n]
  BY DEF Moves, FoldLeft, MapThenFoldSet
<1>2. g \in [1..n -> [Memory -> Memory]]
  BY MoveIs
<1>3. \A t \in SUBSET (1..n) : t # {} => Max(t) \in 1..n /\ t \ {Max(t)} \in SUBSET (1..n)
  BY MaxIs
<1>4. PICK h \in [SUBSET (1..n) -> Memory] : Folds(n, Memory, m, g, h)
  <2> HIDE DEF g
  <2> QED
    BY <1>2, FoldExists
<1>5. Iter(h)
  BY <1>3, <1>4 DEF Folds
<1>6. Iter(f)
  <2> HIDE DEF Iter
  <2> QED
    BY <1>5
<1> DEFINE R == [k \in 0..n |-> f[1..k]]
<1>7. R[0] = m
  <2> HIDE DEF f
  <2>1. 1..0 = {} /\ {} \in SUBSET (1..n) /\ 0 \in 0..n
    OBVIOUS
  <2> QED
    BY <1>6, <2>1
<1>8. ASSUME NEW k \in 1..n
      PROVE  R[k] = Move(R[k - 1], d + blocks[k].at, s + blocks[k].at, blocks[k].len)
  <2> HIDE DEF f
  <2>1. /\ 1..k \in SUBSET (1..n) /\ 1..k # {} /\ Max(1..k) = k
        /\ (1..k) \ {k} = 1..(k - 1) /\ k \in 0..n /\ k - 1 \in 0..n
    BY MaxRun
  <2>2. f[1..k] = Move(f[1..(k - 1)], d + blocks[k].at, s + blocks[k].at, blocks[k].len)
    BY <1>6, <2>1
  <2> QED
    BY <2>1, <2>2
<1>9. Moves(m, d, s, blocks) = R[n]
  BY <1>1
<1> HIDE DEF R
<1>10. \A k \in 1..n : R[k - 1] \in Memory => R[k] \in Memory
  BY <1>8, MoveIs
<1>11. \A k \in 0..n : R[k] \in Memory
  BY <1>7, <1>10, LoopStays
<1> QED
  BY <1>7, <1>8, <1>9, <1>11 DEF MovesThrough

LEMMA SetsRun ==
  ASSUME NEW m \in Memory, NEW d, NEW c \in Byte, NEW n \in Nat, NEW blocks,
         DOMAIN blocks = 1..n,
         \A k \in 1..n : Fits(d + blocks[k].at, blocks[k].len)
  PROVE  \E R : SetsThrough(R, m, d, n, blocks, c)
<1> DEFINE g == [k \in 1..n |-> [x \in Memory |->
                    Set(x, d + blocks[k].at, blocks[k].len, c)]]
           Iter(h) == h = [t \in SUBSET (1..n) |->
                    IF t = {} THEN m
                    ELSE Set(h[t \ {Max(t)}], d + blocks[Max(t)].at, blocks[Max(t)].len, c)]
           f == CHOOSE h : Iter(h)
<1>1. Sets(m, d, blocks, c) = f[1..n]
  BY DEF Sets, FoldLeft, MapThenFoldSet
<1>2. g \in [1..n -> [Memory -> Memory]]
  BY SetIs
<1>3. \A t \in SUBSET (1..n) : t # {} => Max(t) \in 1..n /\ t \ {Max(t)} \in SUBSET (1..n)
  BY MaxIs
<1>4. PICK h \in [SUBSET (1..n) -> Memory] : Folds(n, Memory, m, g, h)
  <2> HIDE DEF g
  <2> QED
    BY <1>2, FoldExists
<1>5. Iter(h)
  BY <1>3, <1>4 DEF Folds
<1>6. Iter(f)
  <2> HIDE DEF Iter
  <2> QED
    BY <1>5
<1> DEFINE R == [k \in 0..n |-> f[1..k]]
<1>7. R[0] = m
  <2> HIDE DEF f
  <2>1. 1..0 = {} /\ {} \in SUBSET (1..n) /\ 0 \in 0..n
    OBVIOUS
  <2> QED
    BY <1>6, <2>1
<1>8. ASSUME NEW k \in 1..n
      PROVE  R[k] = Set(R[k - 1], d + blocks[k].at, blocks[k].len, c)
  <2> HIDE DEF f
  <2>1. /\ 1..k \in SUBSET (1..n) /\ 1..k # {} /\ Max(1..k) = k
        /\ (1..k) \ {k} = 1..(k - 1) /\ k \in 0..n /\ k - 1 \in 0..n
    BY MaxRun
  <2>2. f[1..k] = Set(f[1..(k - 1)], d + blocks[k].at, blocks[k].len, c)
    BY <1>6, <2>1
  <2> QED
    BY <2>1, <2>2
<1>9. Sets(m, d, blocks, c) = R[n]
  BY <1>1
<1> HIDE DEF R
<1>10. \A k \in 1..n : R[k - 1] \in Memory => R[k] \in Memory
  BY <1>8, SetIs
<1>11. \A k \in 0..n : R[k] \in Memory
  BY <1>7, <1>10, LoopStays
<1> QED
  BY <1>7, <1>8, <1>9, <1>11 DEF SetsThrough

-----------------------------------------------------------------------------
(* Blocks that follow one another *)

Block == [at : Nat, len : Nat]

\* The blocks of bs lie side by side from a to b; o[k] is where the k-th ends.
Tiles(bs, a, b) ==
    /\ bs \in Seq(Block)
    /\ \E o \in [0..Len(bs) -> a..b] :
           /\ o[0] = a /\ o[Len(bs)] = b
           /\ \A k \in 1..Len(bs) : bs[k].at = o[k - 1] /\ o[k] = o[k - 1] + bs[k].len

LEMMA Product ==
  ASSUME NEW len \in Nat, NEW i \in Nat, NEW n \in Nat, i <= n
  PROVE  /\ i * len \in Nat /\ n * len \in Nat /\ i * len <= n * len
         /\ i > 0 => (i - 1) * len + len = i * len /\ (i - 1) * len \in Nat
<1>1. n * len = i * len + (n - i) * len /\ (n - i) * len \in Nat /\ i * len \in Nat
  BY SMT
<1>2. i > 0 => (i - 1) * len + len = i * len /\ (i - 1) * len \in Nat
  BY SMT
<1> QED
  BY <1>1, <1>2

LEMMA RunTiles ==
  ASSUME NEW from \in Nat, NEW count \in Nat, NEW len \in Nat
  PROVE  Tiles(Run(from, count, len), from, from + count * len)
<1> DEFINE bs == Run(from, count, len)
           o  == [k \in 0..count |-> from + k * len]
<1>1. \A i \in 1..count : (i - 1) * len \in Nat /\ (i - 1) * len + len = i * len
  BY Product
<1>2. \A k \in 0..count : k * len \in Nat /\ k * len <= count * len
  BY Product
<1>3. bs \in Seq(Block) /\ Len(bs) = count
  <2>1. bs \in [1..count -> Block]
    BY <1>1 DEF Run, Block
  <2> HIDE DEF bs
  <2> QED
    BY <2>1
<1>4. count \in 0..count /\ count * len \in Nat
  BY <1>2
<1>5. o \in [0..count -> from..(from + count * len)]
  BY <1>2, <1>4
<1>6. o[0] = from
  <2>1. 0 * len = 0 /\ 0 \in 0..count
    OBVIOUS
  <2> QED
    BY <2>1
<1>7. ASSUME NEW k \in 1..count
      PROVE  bs[k].at = o[k - 1] /\ o[k] = o[k - 1] + bs[k].len
  <2>1. bs[k] = [at |-> from + (k - 1) * len, len |-> len]
    BY DEF Run
  <2>2. k \in 0..count /\ k - 1 \in 0..count /\ (k - 1) * len \in Nat
        /\ (k - 1) * len + len = k * len
    BY <1>1
  <2> HIDE DEF bs
  <2> QED
    BY <2>1, <2>2
<1> HIDE DEF o, bs
<1> QED
  <2>1. o[count] = from + count * len
    BY <1>4 DEF o
  <2> QED
    <3>1. /\ o \in [0..Len(bs) -> from..(from + count * len)] /\ o[Len(bs)] = from + count * len
          /\ \A k \in 1..Len(bs) : bs[k].at = o[k - 1] /\ o[k] = o[k - 1] + bs[k].len
      BY <1>3, <1>5, <1>7, <2>1
    <3>2. Tiles(bs, from, from + count * len)
      BY <1>3, <1>6, <3>1 DEF Tiles
    <3> QED
      BY <3>2 DEF bs

LEMMA TilesJoin ==
  ASSUME NEW a \in Nat, NEW b \in Nat, NEW c \in Nat, a <= b, b <= c,
         NEW x, NEW y, Tiles(x, a, b), Tiles(y, b, c)
  PROVE  Tiles(x \o y, a, c)
<1> DEFINE n == Len(x)
           l == Len(y)
           z == x \o y
<1>1. x \in Seq(Block) /\ y \in Seq(Block) /\ n \in Nat /\ l \in Nat
  BY LenProperties DEF Tiles
<1>2. PICK o \in [0..n -> a..b] :
           /\ o[0] = a /\ o[n] = b
           /\ \A k \in 1..n : x[k].at = o[k - 1] /\ o[k] = o[k - 1] + x[k].len
  BY DEF Tiles
<1>3. PICK p \in [0..l -> b..c] :
           /\ p[0] = b /\ p[l] = c
           /\ \A k \in 1..l : y[k].at = p[k - 1] /\ p[k] = p[k - 1] + y[k].len
  BY DEF Tiles
<1>4. /\ z \in Seq(Block) /\ Len(z) = n + l
      /\ \A i \in 1..(n + l) : z[i] = IF i <= n THEN x[i] ELSE y[i - n]
  BY <1>1, ConcatProperties
<1> DEFINE q == [k \in 0..(n + l) |-> IF k <= n THEN o[k] ELSE p[k - n]]
<1> HIDE DEF n, l, z
<1>5. q \in [0..(n + l) -> a..c]
  <2>1. ASSUME NEW k \in 0..(n + l) PROVE (IF k <= n THEN o[k] ELSE p[k - n]) \in a..c
    <3>1. CASE k <= n
      <4>1. k \in 0..n
        BY <1>1, <3>1
      <4>2. o[k] \in a..b
        BY <4>1
      <4> QED
        BY <3>1, <4>2
    <3>2. CASE k > n
      <4>1. k - n \in 0..l
        BY <1>1, <3>2
      <4>2. p[k - n] \in b..c
        BY <4>1
      <4> QED
        BY <1>1, <3>2, <4>2
    <3> QED
      BY <1>1, <3>1, <3>2
  <2> QED
    BY <2>1
<1>6. q[0] = a /\ q[n + l] = c /\ q[n] = b
  <2>1. 0 \in 0..(n + l) /\ n + l \in 0..(n + l) /\ n \in 0..(n + l)
    BY <1>1
  <2>2. n + l <= n => l = 0 /\ n + l = n
    BY <1>1
  <2>3. (n + l) - n = l
    BY <1>1
  <2> QED
    BY <1>1, <1>2, <1>3, <2>1, <2>2, <2>3
<1>7. ASSUME NEW k \in 1..(n + l)
      PROVE  z[k].at = q[k - 1] /\ q[k] = q[k - 1] + z[k].len
  <2>1. k \in 0..(n + l) /\ k - 1 \in 0..(n + l) /\ k \in Nat
    BY <1>1
  <2>2. CASE k <= n
    <3>1. k \in 1..n /\ k - 1 <= n
      BY <1>1, <2>2
    <3> QED
      BY <1>2, <1>4, <2>1, <2>2, <3>1
  <2>3. CASE k > n
    <3>1. k - n \in 1..l /\ (k - 1) - n = (k - n) - 1 /\ ~(k <= n)
      BY <1>1, <2>3
    <3>2. q[k] = p[k - n] /\ z[k] = y[k - n]
      BY <1>4, <2>1, <3>1
    <3>3. q[k - 1] = p[(k - n) - 1]
      <4>1. CASE k - 1 <= n
        <5>1. k - 1 = n /\ (k - n) - 1 = 0
          BY <1>1, <2>1, <2>3, <4>1
        <5> QED
          BY <1>3, <1>6, <5>1
      <4>2. CASE ~(k - 1 <= n)
        BY <2>1, <3>1, <4>2
      <4> QED
        BY <4>1, <4>2
    <3> QED
      BY <1>3, <3>1, <3>2, <3>3
  <2> QED
    BY <1>1, <2>2, <2>3
<1> HIDE DEF q
<1> QED
  <2>1. /\ q \in [0..Len(z) -> a..c] /\ q[Len(z)] = c
        /\ \A k \in 1..Len(z) : z[k].at = q[k - 1] /\ q[k] = q[k - 1] + z[k].len
    BY <1>4, <1>5, <1>6, <1>7
  <2>2. Tiles(z, a, c)
    BY <1>4, <1>6, <2>1 DEF Tiles
  <2> QED
    BY <2>2 DEF z

LEMMA TiledRun ==
  ASSUME NEW m \in Memory, NEW bs, NEW n \in Nat, Tiles(bs, 0, n),
         NEW d, NEW s, Fits(d, n), Fits(s, n)
  PROVE  \E R : MovesThrough(R, m, d, s, Len(bs), bs)
<1> DEFINE l == Len(bs)
<1>1. bs \in Seq(Block) /\ l \in Nat /\ DOMAIN bs = 1..l
  BY LenProperties DEF Tiles
<1>2. PICK o \in [0..l -> 0..n] :
           /\ o[0] = 0 /\ o[l] = n
           /\ \A k \in 1..l : bs[k].at = o[k - 1] /\ o[k] = o[k - 1] + bs[k].len
  BY DEF Tiles
<1> HIDE DEF l
<1>3. d \in Int /\ s \in Int /\ 0 <= d /\ 0 <= s /\ d + n <= SIZE /\ s + n <= SIZE
  BY DEF Fits
<1>4. \A k \in 1..l : bs[k].at \in Nat /\ bs[k].len \in Nat /\ o[k - 1] \in 0..n /\ o[k] \in 0..n
  <2> SUFFICES ASSUME NEW k \in 1..l
               PROVE  bs[k].at \in Nat /\ bs[k].len \in Nat /\ o[k - 1] \in 0..n /\ o[k] \in 0..n
    OBVIOUS
  <2>1. bs[k] \in Block
    BY <1>1
  <2>2. k - 1 \in 0..l /\ k \in 0..l
    BY <1>1
  <2> QED
    BY <2>1, <2>2 DEF Block
<1>5. \A k \in 1..l : Fits(d + bs[k].at, bs[k].len) /\ Fits(s + bs[k].at, bs[k].len)
  <2> SUFFICES ASSUME NEW k \in 1..l
               PROVE  Fits(d + bs[k].at, bs[k].len) /\ Fits(s + bs[k].at, bs[k].len)
    OBVIOUS
  <2> DEFINE p == bs[k].at
             w == bs[k].len
  <2>1. p \in Nat /\ w \in Nat /\ o[k] \in 0..n /\ o[k] = p + w
    BY <1>2, <1>4
  <2> HIDE DEF p, w
  <2>2. Fits(d + p, w) /\ Fits(s + p, w)
    BY <1>3, <2>1, SizeFacts DEF Fits
  <2> QED
    BY <2>2 DEF p, w
<1>6. \E R : MovesThrough(R, m, d, s, l, bs)
  BY <1>1, <1>5, MovesRun
<1> QED
  BY <1>6 DEF l

LEMMA TiledStay ==
  ASSUME NEW m \in Memory, NEW bs, NEW n \in Nat, Tiles(bs, 0, n),
         NEW d, NEW s, Fits(d, n), Fits(s, n)
  PROVE  Moves(m, d, s, bs) \in Memory
<1>1. Len(bs) \in 0..Len(bs)
  BY LenProperties DEF Tiles
<1> QED
  BY <1>1, TiledRun DEF MovesThrough

\* One move of side-by-side blocks after the other is one move of all, when what is
\* still to be read has not been written.
LEMMA TiledMoves ==
  ASSUME NEW m \in Memory, NEW bs, NEW n \in Nat, Tiles(bs, 0, n),
         NEW d, NEW s, Fits(d, n), Fits(s, n), d <= s \/ d >= s + n
  PROVE  Moves(m, d, s, bs) = Move(m, d, s, n)
<1> DEFINE l == Len(bs)
<1>1. bs \in Seq(Block) /\ l \in Nat /\ DOMAIN bs = 1..l
  BY LenProperties DEF Tiles
<1>2. PICK o \in [0..l -> 0..n] :
           /\ o[0] = 0 /\ o[l] = n
           /\ \A k \in 1..l : bs[k].at = o[k - 1] /\ o[k] = o[k - 1] + bs[k].len
  BY DEF Tiles
<1> HIDE DEF l
<1>3. d \in Int /\ s \in Int /\ 0 <= d /\ 0 <= s /\ d + n <= SIZE /\ s + n <= SIZE
  BY DEF Fits
<1>4. \A k \in 1..l : bs[k].at \in Nat /\ bs[k].len \in Nat /\ o[k - 1] \in 0..n /\ o[k] \in 0..n
  <2> SUFFICES ASSUME NEW k \in 1..l
               PROVE  bs[k].at \in Nat /\ bs[k].len \in Nat /\ o[k - 1] \in 0..n /\ o[k] \in 0..n
    OBVIOUS
  <2>1. bs[k] \in Block
    BY <1>1
  <2>2. k - 1 \in 0..l /\ k \in 0..l
    BY <1>1
  <2> QED
    BY <2>1, <2>2 DEF Block
<1>a. PICK R : MovesThrough(R, m, d, s, l, bs)
  BY TiledRun DEF l
<1>6. /\ R[0] = m
      /\ \A k \in 0..l : R[k] \in Memory
      /\ \A k \in 1..l : R[k] = Move(R[k - 1], d + bs[k].at, s + bs[k].at, bs[k].len)
      /\ Moves(m, d, s, bs) = R[l]
  BY <1>a DEF MovesThrough
<1>7. \A k \in 0..l : o[k] \in Nat /\ Fits(d, o[k]) /\ Fits(s, o[k]) /\ o[k] <= n
  BY <1>3, SizeFacts DEF Fits
<1>8. R[0] = Move(m, d, s, o[0])
  <2>1. 0 \in 0..l /\ o[0] = 0
    BY <1>1, <1>2
  <2>2. Fits(d, 0) /\ Fits(s, 0)
    BY <1>7, <2>1
  <2>3. \A a \in Address : ~(d <= a /\ a < d + 0)
    BY <1>3, SizeFacts
  <2>4. Move(m, d, s, 0) \in Memory /\ \A a \in Address : Move(m, d, s, 0)[a] = m[a]
    BY <2>2, <2>3, MoveIs
  <2>5. Move(m, d, s, 0) = m
    BY <2>4 DEF Memory
  <2> QED
    BY <1>6, <2>1, <2>5
<1>9. ASSUME NEW k \in 1..l, R[k - 1] = Move(m, d, s, o[k - 1])
      PROVE  R[k] = Move(m, d, s, o[k])
  <2> DEFINE p == o[k - 1]
             w == bs[k].len
  <2>0. k \in 0..l /\ k - 1 \in 0..l
    BY <1>1
  <2>a. p \in Nat /\ w \in Nat /\ o[k] = p + w /\ bs[k].at = p /\ o[k] \in 0..n
    BY <1>2, <1>4
  <2>b. Fits(d, p) /\ Fits(s, p) /\ Fits(d, o[k]) /\ Fits(s, o[k])
    BY <1>7, <2>0
  <2>1. p \in Nat /\ w \in Nat /\ o[k] = p + w /\ bs[k].at = p /\ p + w <= n
        /\ Fits(d, p) /\ Fits(s, p) /\ Fits(d, p + w) /\ Fits(s, p + w)
        /\ k \in 0..l /\ k - 1 \in 0..l
    <3> HIDE DEF p, w
    <3> QED
      BY <2>0, <2>a, <2>b
  <2>2. R[k] = Move(Move(m, d, s, p), d + p, s + p, w)
    BY <1>6, <1>9, <2>1
  <2> HIDE DEF p, w
  <2>3. Fits(d + p, w) /\ Fits(s + p, w)
    BY <1>3, <2>1, SizeFacts DEF Fits
  <2>4. /\ Move(m, d, s, p) \in Memory
        /\ \A a \in Address : Move(m, d, s, p)[a] =
               IF d <= a /\ a < d + p THEN m[s + a - d] ELSE m[a]
    BY <2>1, MoveIs
  <2>5. \A a \in Address : R[k][a] =
            IF d + p <= a /\ a < d + p + w THEN Move(m, d, s, p)[(s + p) + a - (d + p)]
            ELSE Move(m, d, s, p)[a]
    BY <2>2, <2>3, <2>4, MoveIs
  <2>6. /\ Move(m, d, s, p + w) \in Memory
        /\ \A a \in Address : Move(m, d, s, p + w)[a] =
               IF d <= a /\ a < d + (p + w) THEN m[s + a - d] ELSE m[a]
    BY <2>1, MoveIs
  <2>7. ASSUME NEW a \in Address PROVE R[k][a] = Move(m, d, s, p + w)[a]
    <3>1. a \in Int /\ 0 <= a /\ a < SIZE
      BY SizeFacts
    <3>2. CASE d + p <= a /\ a < d + p + w
      <4> DEFINE b == s + a - d
      <4>1. (s + p) + a - (d + p) = b /\ d <= a /\ a < d + (p + w)
        BY <1>3, <2>1, <3>1, <3>2
      <4>2. b \in Address /\ ~(d <= b /\ b < d + p)
        BY <1>3, <2>1, <3>1, <3>2, SizeFacts
      <4> HIDE DEF b
      <4>3. R[k][a] = m[b]
        BY <2>4, <2>5, <3>2, <4>1, <4>2
      <4> QED
        BY <2>6, <4>1, <4>3 DEF b
    <3>3. CASE ~(d + p <= a /\ a < d + p + w)
      <4>1. (d <= a /\ a < d + (p + w)) <=> (d <= a /\ a < d + p)
        BY <1>3, <2>1, <3>1, <3>3
      <4> QED
        BY <2>4, <2>5, <2>6, <3>3, <4>1
    <3> QED
      BY <3>2, <3>3
  <2>8. R[k] = Move(m, d, s, p + w)
    <3>1. R[k] \in Memory
      BY <1>6, <2>1
    <3> QED
      BY <2>6, <2>7, <3>1 DEF Memory
  <2> QED
    BY <2>1, <2>8
<1> DEFINE W == {k \in 0..l : R[k] # Move(m, d, s, o[k])}
<1>10. W = {}
  <2>1. W \in SUBSET (0..l) /\ 0 \notin W
    BY <1>8
  <2>2. \A k \in 0..l : k \notin W => R[k] = Move(m, d, s, o[k])
    OBVIOUS
  <2>3. \A k \in W : R[k] # Move(m, d, s, o[k])
    OBVIOUS
  <2> HIDE DEF W
  <2> QED
    BY <1>1, <1>9, <2>1, <2>2, <2>3, First
<1>11. l \in 0..l /\ R[l] = Move(m, d, s, o[l])
  BY <1>1, <1>10
<1> QED
  BY <1>2, <1>6, <1>11

LEMMA TiledSets ==
  ASSUME NEW m \in Memory, NEW bs, NEW n \in Nat, Tiles(bs, 0, n),
         NEW d, Fits(d, n), NEW c \in Byte
  PROVE  Sets(m, d, bs, c) = Set(m, d, n, c)
<1> DEFINE l == Len(bs)
<1>1. bs \in Seq(Block) /\ l \in Nat /\ DOMAIN bs = 1..l
  BY LenProperties DEF Tiles
<1>2. PICK o \in [0..l -> 0..n] :
           /\ o[0] = 0 /\ o[l] = n
           /\ \A k \in 1..l : bs[k].at = o[k - 1] /\ o[k] = o[k - 1] + bs[k].len
  BY DEF Tiles
<1> HIDE DEF l
<1>3. d \in Int /\ 0 <= d /\ d + n <= SIZE
  BY DEF Fits
<1>4. \A k \in 1..l : bs[k].at \in Nat /\ bs[k].len \in Nat /\ o[k - 1] \in 0..n /\ o[k] \in 0..n
  <2> SUFFICES ASSUME NEW k \in 1..l
               PROVE  bs[k].at \in Nat /\ bs[k].len \in Nat /\ o[k - 1] \in 0..n /\ o[k] \in 0..n
    OBVIOUS
  <2>1. bs[k] \in Block
    BY <1>1
  <2>2. k - 1 \in 0..l /\ k \in 0..l
    BY <1>1
  <2> QED
    BY <2>1, <2>2 DEF Block
<1>5. \A k \in 1..l : Fits(d + bs[k].at, bs[k].len)
  <2> SUFFICES ASSUME NEW k \in 1..l PROVE Fits(d + bs[k].at, bs[k].len)
    OBVIOUS
  <2> DEFINE p == bs[k].at
             w == bs[k].len
  <2>1. p \in Nat /\ w \in Nat /\ o[k] \in 0..n /\ o[k] = p + w
    BY <1>2, <1>4
  <2> HIDE DEF p, w
  <2>2. Fits(d + p, w)
    BY <1>3, <2>1, SizeFacts DEF Fits
  <2> QED
    BY <2>2 DEF p, w
<1>a. PICK R : SetsThrough(R, m, d, l, bs, c)
  BY <1>1, <1>5, SetsRun
<1>6. /\ R[0] = m
      /\ \A k \in 0..l : R[k] \in Memory
      /\ \A k \in 1..l : R[k] = Set(R[k - 1], d + bs[k].at, bs[k].len, c)
      /\ Sets(m, d, bs, c) = R[l]
  BY <1>a DEF SetsThrough
<1>7. \A k \in 0..l : o[k] \in Nat /\ Fits(d, o[k]) /\ o[k] <= n
  BY <1>3, SizeFacts DEF Fits
<1>8. R[0] = Set(m, d, o[0], c)
  <2>1. 0 \in 0..l /\ o[0] = 0
    BY <1>1, <1>2
  <2>2. Fits(d, 0)
    BY <1>7, <2>1
  <2>3. \A a \in Address : ~(d <= a /\ a < d + 0)
    BY <1>3, SizeFacts
  <2>4. Set(m, d, 0, c) \in Memory /\ \A a \in Address : Set(m, d, 0, c)[a] = m[a]
    BY <2>2, <2>3, SetIs
  <2>5. Set(m, d, 0, c) = m
    BY <2>4 DEF Memory
  <2> QED
    BY <1>6, <2>1, <2>5
<1>9. ASSUME NEW k \in 1..l, R[k - 1] = Set(m, d, o[k - 1], c)
      PROVE  R[k] = Set(m, d, o[k], c)
  <2> DEFINE p == o[k - 1]
             w == bs[k].len
  <2>1. k \in 0..l /\ k - 1 \in 0..l
    BY <1>1
  <2>2. p \in Nat /\ w \in Nat /\ o[k] = p + w /\ bs[k].at = p /\ o[k] \in 0..n
    BY <1>2, <1>4
  <2>3. Fits(d, p) /\ Fits(d, o[k])
    BY <1>7, <2>1
  <2>4. R[k] = Set(Set(m, d, p, c), d + p, w, c)
    BY <1>6, <1>9, <2>2
  <2> HIDE DEF p, w
  <2>5. Fits(d + p, w) /\ Fits(d, p + w)
    BY <1>3, <2>2, <2>3, SizeFacts DEF Fits
  <2>6. /\ Set(m, d, p, c) \in Memory
        /\ \A a \in Address : Set(m, d, p, c)[a] = IF d <= a /\ a < d + p THEN c ELSE m[a]
    BY <2>3, SetIs
  <2>7. \A a \in Address : R[k][a] =
            IF d + p <= a /\ a < d + p + w THEN c ELSE Set(m, d, p, c)[a]
    BY <2>4, <2>5, <2>6, SetIs
  <2>8. /\ Set(m, d, p + w, c) \in Memory
        /\ \A a \in Address : Set(m, d, p + w, c)[a] =
               IF d <= a /\ a < d + (p + w) THEN c ELSE m[a]
    BY <2>5, SetIs
  <2>9. ASSUME NEW a \in Address PROVE R[k][a] = Set(m, d, p + w, c)[a]
    <3>1. a \in Int
      BY SizeFacts
    <3>2. (d <= a /\ a < d + (p + w))
             <=> ((d + p <= a /\ a < d + p + w) \/ (d <= a /\ a < d + p))
      BY <1>3, <2>2, <3>1
    <3> QED
      BY <2>6, <2>7, <2>8, <3>2
  <2>10. R[k] = Set(m, d, p + w, c)
    <3>1. R[k] \in Memory
      BY <1>6, <2>1
    <3> QED
      BY <2>8, <2>9, <3>1 DEF Memory
  <2> QED
    BY <2>2, <2>10
<1> DEFINE W == {k \in 0..l : R[k] # Set(m, d, o[k], c)}
<1>10. W = {}
  <2>1. W \in SUBSET (0..l) /\ 0 \notin W
    BY <1>8
  <2>2. \A k \in 0..l : k \notin W => R[k] = Set(m, d, o[k], c)
    OBVIOUS
  <2>3. \A k \in W : R[k] # Set(m, d, o[k], c)
    OBVIOUS
  <2> HIDE DEF W
  <2> QED
    BY <1>1, <1>9, <2>1, <2>2, <2>3, First
<1>11. l \in 0..l /\ R[l] = Set(m, d, o[l], c)
  BY <1>1, <1>10
<1> QED
  BY <1>2, <1>6, <1>11

\* The bytes, words and bytes of memset and memcpy lie side by side.
LEMMA LeadIs ==
  ASSUME NEW d \in Nat, NEW n \in Nat
  PROVE  Lead(d, n) \in Nat /\ Lead(d, n) <= n
<1> DEFINE h == (WORD - (d % WORD)) % WORD
<1>1. h \in Nat
  BY SizeFacts, SMT
<1> HIDE DEF h
<1>2. Lead(d, n) = IF n < h THEN n ELSE h
  BY DEF Lead, h
<1> QED
  BY <1>1, <1>2

LEMMA DivMod ==
  ASSUME NEW B \in Nat, B > 0, NEW a \in Nat
  PROVE  /\ a \div B \in Nat
         /\ a % B \in 0..(B - 1)
         /\ a = (a \div B) * B + (a % B)
         /\ (a \div B) * B \in Nat
BY SMT

LEMMA BlocksTile ==
  ASSUME NEW d \in Nat, NEW n \in Nat
  PROVE  Tiles(Blocks(d, n), 0, n)
<1> DEFINE h == Lead(d, n)
           q == (n - h) \div WORD
           r == (n - h) % WORD
<1>1. h \in Nat /\ h <= n /\ n - h \in Nat
  BY LeadIs
<1>2. Blocks(d, n) = Run(0, h, 1) \o Run(h, q, WORD) \o Run(n - r, r, 1)
  BY DEF Blocks
<1> HIDE DEF h
<1>3. q \in Nat /\ r \in Nat /\ n - h = q * WORD + r /\ q * WORD \in Nat
  BY <1>1, DivMod, SizeFacts
<1> HIDE DEF q, r
<1> DEFINE e == h + q * WORD
<1>4. e \in Nat /\ h <= e /\ e <= n /\ n - r = e /\ e + r = n /\ 0 <= h
  BY <1>1, <1>3
<1>5. Tiles(Run(0, h, 1), 0, h)
  <2>1. 0 + h * 1 = h
    BY <1>1
  <2>2. Tiles(Run(0, h, 1), 0, 0 + h * 1)
    BY <1>1, RunTiles
  <2> QED
    BY <2>1, <2>2
<1>6. Tiles(Run(h, q, WORD), h, e)
  BY <1>1, <1>3, RunTiles, SizeFacts
<1>7. Tiles(Run(n - r, r, 1), e, n)
  <2>1. e + r * 1 = n
    BY <1>3, <1>4
  <2> HIDE DEF e
  <2>2. Tiles(Run(e, r, 1), e, e + r * 1)
    BY <1>3, <1>4, RunTiles
  <2> QED
    BY <1>4, <2>1, <2>2
<1> HIDE DEF e
<1>8. Tiles(Run(0, h, 1) \o Run(h, q, WORD), 0, e)
  BY <1>1, <1>4, <1>5, <1>6, TilesJoin
<1>9. Tiles((Run(0, h, 1) \o Run(h, q, WORD)) \o Run(n - r, r, 1), 0, n)
  BY <1>4, <1>7, <1>8, TilesJoin
<1> QED
  BY <1>2, <1>9

-----------------------------------------------------------------------------
(* The memory functions *)

LEMMA InsideFits ==
  ASSUME NEW d \in Address, NEW n \in Nat, Inside(d, n)
  PROVE  Fits(d, n) /\ d \in Nat
BY SizeFacts DEF Inside, Fits

LEMMA MemcpyMoves ==
  ASSUME NEW m \in Memory, NEW d \in Address, NEW s \in Address, NEW n \in Nat,
         Inside(d, n), Inside(s, n), d <= s \/ d >= s + n
  PROVE  Memcpy(m, d, s, n) = Move(m, d, s, n)
<1>1. Fits(d, n) /\ Fits(s, n) /\ d \in Nat /\ Tiles(Blocks(d, n), 0, n)
  BY InsideFits, BlocksTile
<1> QED
  BY <1>1, TiledMoves DEF Memcpy

LEMMA MemsetSets ==
  ASSUME NEW m \in Memory, NEW d \in Address, NEW n \in Nat, NEW c \in Byte, Inside(d, n)
  PROVE  Memset(m, d, c, n) = Set(m, d, n, c)
<1>1. Fits(d, n) /\ d \in Nat /\ Tiles(Blocks(d, n), 0, n)
  BY InsideFits, BlocksTile
<1> QED
  BY <1>1, TiledSets DEF Memset

LEMMA ForwardMoves ==
  ASSUME NEW m \in Memory, NEW d \in Address, NEW s \in Address, NEW n \in Nat,
         Inside(d, n), Inside(s, n), d <= s \/ d >= s + n
  PROVE  Moves(m, d, s, Run(0, n, 1)) = Move(m, d, s, n)
<1>1. Fits(d, n) /\ Fits(s, n)
  BY InsideFits
<1>2. Tiles(Run(0, n, 1), 0, n)
  <2>1. Tiles(Run(0, n, 1), 0, 0 + n * 1)
    BY RunTiles
  <2>2. 0 + n * 1 = n
    OBVIOUS
  <2> QED
    BY <2>1, <2>2
<1> QED
  BY <1>1, <1>2, TiledMoves

\* From the last byte down, when the source is below.
LEMMA BackwardMoves ==
  ASSUME NEW m \in Memory, NEW d \in Address, NEW s \in Address, NEW n \in Nat,
         Inside(d, n), Inside(s, n), s < d
  PROVE  Moves(m, d, s, Reverse(Run(0, n, 1))) = Move(m, d, s, n)
<1> DEFINE bs == Reverse(Run(0, n, 1))
<1>1. d \in Int /\ s \in Int /\ 0 <= d /\ 0 <= s /\ d + n <= SIZE /\ s + n <= SIZE
  BY SizeFacts DEF Inside
<1>2. DOMAIN bs = 1..n /\ \A k \in 1..n : bs[k].at = n - k /\ bs[k].len = 1
  <2> DEFINE x == Run(0, n, 1)
  <2>1. x = [i \in 1..n |-> [at |-> 0 + (i - 1) * 1, len |-> 1]]
    BY DEF Run
  <2>2. \A i \in 1..n : 0 + (i - 1) * 1 = i - 1 /\ i - 1 \in Int
    OBVIOUS
  <2> HIDE DEF x
  <2>3. x \in [1..n -> [at : Int, len : Int]] /\ \A i \in 1..n : x[i].at = i - 1 /\ x[i].len = 1
    BY <2>1, <2>2
  <2>4. Len(x) = n
    BY <2>3
  <2>5. bs = [i \in 1..n |-> x[(n - i) + 1]]
    BY <2>4 DEF Reverse, x
  <2>6. \A k \in 1..n : (n - k) + 1 \in 1..n /\ ((n - k) + 1) - 1 = n - k
    OBVIOUS
  <2> HIDE DEF bs
  <2> QED
    BY <2>3, <2>5, <2>6
<1> HIDE DEF bs
<1>3. \A k \in 1..n : Fits(d + bs[k].at, bs[k].len) /\ Fits(s + bs[k].at, bs[k].len)
  BY <1>1, <1>2, SizeFacts DEF Fits
<1>4. PICK R : MovesThrough(R, m, d, s, n, bs)
  BY <1>2, <1>3, MovesRun
<1>5. /\ R[0] = m
      /\ \A k \in 0..n : R[k] \in Memory
      /\ \A k \in 1..n : R[k] = Move(R[k - 1], d + (n - k), s + (n - k), 1)
      /\ Moves(m, d, s, bs) = R[n]
  BY <1>2, <1>4 DEF MovesThrough
<1> DEFINE Done(k) == \A a \in Address :
               R[k][a] = IF d + n - k <= a /\ a < d + n THEN m[s + a - d] ELSE m[a]
<1>6. Done(0)
  <2>1. \A a \in Address : ~(d + n - 0 <= a /\ a < d + n)
    BY <1>1, SizeFacts
  <2> QED
    BY <1>5, <2>1
<1>7. ASSUME NEW k \in 1..n, Done(k - 1) PROVE Done(k)
  <2> DEFINE p == d + (n - k)
             q == s + (n - k)
  <2>1. k - 1 \in 0..n /\ R[k] = Move(R[k - 1], p, q, 1) /\ R[k - 1] \in Memory
    BY <1>5
  <2>2. Fits(p, 1) /\ Fits(q, 1)
    BY <1>1, SizeFacts DEF Fits
  <2>3. p \in Int /\ q \in Int /\ q + d = p + s /\ q < p
        /\ p = d + n - k /\ d + n - (k - 1) = p + 1 /\ p + 1 <= d + n
    BY <1>1
  <2> HIDE DEF p, q
  <2>4. \A a \in Address : R[k][a] = IF p <= a /\ a < p + 1 THEN R[k - 1][q + a - p]
                                     ELSE R[k - 1][a]
    BY <2>1, <2>2, MoveIs
  <2>5. \A a \in Address : R[k - 1][a] = IF p + 1 <= a /\ a < d + n THEN m[s + a - d] ELSE m[a]
    BY <1>7, <2>3
  <2>6. ASSUME NEW a \in Address
        PROVE  R[k][a] = IF p <= a /\ a < d + n THEN m[s + a - d] ELSE m[a]
    <3>1. a \in Int
      BY SizeFacts
    <3>2. CASE a = p
      <4>1. q + a - p = q /\ s + a - d = q /\ p <= a /\ a < p + 1 /\ a < d + n
        BY <1>1, <2>3, <3>1, <3>2
      <4>2. q \in Address /\ ~(p + 1 <= q)
        BY <2>2, <2>3, SizeFacts DEF Fits
      <4> QED
        BY <2>4, <2>5, <4>1, <4>2
    <3>3. CASE a # p
      <4>1. ~(p <= a /\ a < p + 1) /\ (p <= a <=> p + 1 <= a)
        BY <2>3, <3>1, <3>3
      <4> QED
        BY <2>4, <2>5, <4>1
    <3> QED
      BY <3>2, <3>3
  <2> QED
    BY <2>3, <2>6
<1> DEFINE W == {k \in 0..n : ~Done(k)}
<1>8. Done(n)
  <2>1. W \in SUBSET (0..n) /\ 0 \notin W /\ n \in 0..n
    BY <1>6
  <2>2. \A k \in 0..n : k \notin W => Done(k)
    OBVIOUS
  <2>3. \A k \in W : ~Done(k)
    OBVIOUS
  <2> HIDE DEF W, Done
  <2>4. W = {}
    BY <1>7, <2>1, <2>2, <2>3, First
  <2> QED
    BY <2>1, <2>2, <2>4
<1>9. Fits(d, n) /\ Fits(s, n) /\ d + n - n = d
  BY <1>1, InsideFits
<1>10. R[n] = Move(m, d, s, n)
  <2>1. /\ Move(m, d, s, n) \in Memory
        /\ \A a \in Address : Move(m, d, s, n)[a] =
               IF d <= a /\ a < d + n THEN m[s + a - d] ELSE m[a]
    BY <1>9, MoveIs
  <2>2. \A a \in Address : R[n][a] = Move(m, d, s, n)[a]
    BY <1>8, <1>9, <2>1
  <2>3. R[n] \in Memory
    BY <1>5
  <2> QED
    BY <2>1, <2>2, <2>3 DEF Memory
<1> QED
  BY <1>5, <1>10 DEF bs

LEMMA MemmoveMoves ==
  ASSUME NEW m \in Memory, NEW d \in Address, NEW s \in Address, NEW n \in Nat,
         Inside(d, n), Inside(s, n)
  PROVE  Memmove(m, d, s, n) = Move(m, d, s, n)
<1>1. d \in Int /\ s \in Int
  BY SizeFacts
<1>2. CASE s < d
  BY <1>2, BackwardMoves DEF Memmove, Rep, Backward
<1>3. CASE d <= s
  <2>1. ~(s < d)
    BY <1>1, <1>3
  <2> QED
    BY <1>3, <2>1, ForwardMoves DEF Memmove, Rep, Backward
<1> QED
  BY <1>1, <1>2, <1>3

-----------------------------------------------------------------------------
(* Strings *)

LEMMA StrlenIs ==
  ASSUME NEW m \in Memory, NEW s \in Address, NEW l \in Nat, s + l \in Address,
         m[s + l] = 0, \A i \in 0..(l - 1) : m[s + i] # 0
  PROVE  IsString(m, s) /\ Strlen(m, s) = l
<1> DEFINE T == {a \in s..(SIZE - 1) : m[a] = 0}
<1>1. s \in Nat /\ SIZE \in Nat /\ s + l < SIZE
  BY SizeFacts
<1>2. s + l \in T /\ T \in SUBSET Nat
  BY <1>1
<1>3. ASSUME NEW a \in T PROVE s + l <= a
  <2>1. a \in Int /\ s <= a /\ m[a] = 0
    BY <1>1
  <2>2. a < s + l => a - s \in 0..(l - 1) /\ s + (a - s) = a
    BY <1>1, <2>1
  <2> QED
    BY <1>1, <2>1, <2>2
<1>4. IsString(m, s)
  BY <1>1 DEF IsString
<1>5. Strlen(m, s) = Min(T) - s
  BY DEF Strlen
<1> HIDE DEF T
<1>6. Min(T) = s + l
  BY <1>2, <1>3, MinUnique
<1> QED
  BY <1>1, <1>4, <1>5, <1>6

LEMMA StrlenFacts ==
  ASSUME NEW m \in Memory, NEW s \in Address, IsString(m, s)
  PROVE  /\ Strlen(m, s) \in Nat /\ s + Strlen(m, s) \in Address
         /\ m[s + Strlen(m, s)] = 0
         /\ \A i \in 0..(Strlen(m, s) - 1) : m[s + i] # 0
         /\ Inside(s, Strlen(m, s) + 1)
<1> DEFINE T == {a \in s..(SIZE - 1) : m[a] = 0}
           l == Strlen(m, s)
<1>1. s \in Nat /\ SIZE \in Nat
  BY SizeFacts
<1>2. T # {} /\ T \in SUBSET Nat
  BY <1>1 DEF IsString
<1>3. l = Min(T) - s
  BY DEF Strlen
<1>4. Min(T) \in T /\ \A a \in T : Min(T) <= a
  <2> HIDE DEF T
  <2> QED
    BY <1>2, MinIs
<1> DEFINE e == Min(T)
<1>5. e \in Int /\ s <= e /\ e < SIZE /\ m[e] = 0
  <2>1. e \in s..(SIZE - 1) /\ m[e] = 0
    BY <1>4
  <2> HIDE DEF e
  <2> QED
    BY <1>1, <2>1
<1> HIDE DEF e, l
<1>6. l \in Nat /\ s + l = e /\ e \in Address
  BY <1>1, <1>3, <1>5, SizeFacts DEF e
<1>7. ASSUME NEW i \in 0..(l - 1) PROVE m[s + i] # 0
  <2>1. s + i \in s..(SIZE - 1) /\ ~(e <= s + i)
    BY <1>1, <1>5, <1>6
  <2> QED
    BY <1>4, <2>1 DEF e
<1>8. Inside(s, l + 1)
  BY <1>1, <1>5, <1>6 DEF Inside
<1> QED
  BY <1>5, <1>6, <1>7, <1>8 DEF l

LEMMA StrcpyMoves ==
  ASSUME NEW m \in Memory, NEW d \in Address, NEW s \in Address, CanCopy(m, d, s)
  PROVE  Strcpy(m, d, s) = Move(m, d, s, Strlen(m, s) + 1)
<1> DEFINE l == Strlen(m, s)
<1>1. IsString(m, s) /\ Inside(d, l + 1) /\ (d <= s \/ d > s + l)
  BY DEF CanCopy
<1>2. l \in Nat /\ Inside(s, l + 1)
  BY <1>1, StrlenFacts
<1>3. Strcpy(m, d, s) = Moves(m, d, s, Run(0, l + 1, 1))
  BY DEF Strcpy
<1> HIDE DEF l
<1>4. l + 1 \in Nat /\ (d <= s \/ d >= s + (l + 1))
  BY <1>1, <1>2, SizeFacts
<1>5. Strcpy(m, d, s) = Move(m, d, s, l + 1)
  BY <1>1, <1>2, <1>3, <1>4, ForwardMoves
<1> QED
  BY <1>5 DEF l

LEMMA StrcpyCopies ==
  ASSUME NEW m \in Memory, NEW d \in Address, NEW s \in Address, CanCopy(m, d, s)
  PROVE  /\ Strcpy(m, d, s) \in Memory
         /\ Strlen(Strcpy(m, d, s), d) = Strlen(m, s)
         /\ \A i \in 0..Strlen(m, s) : Strcpy(m, d, s)[d + i] = m[s + i]
<1> DEFINE l == Strlen(m, s)
           t == Strcpy(m, d, s)
<1>1. IsString(m, s) /\ Inside(d, l + 1)
  BY DEF CanCopy
<1>2. /\ l \in Nat /\ Inside(s, l + 1) /\ m[s + l] = 0
      /\ \A i \in 0..(l - 1) : m[s + i] # 0
  BY <1>1, StrlenFacts
<1>3. t = Move(m, d, s, l + 1)
  BY StrcpyMoves
<1> HIDE DEF l, t
<1>4. l + 1 \in Nat /\ Fits(d, l + 1) /\ Fits(s, l + 1)
  BY <1>1, <1>2, InsideFits
<1>5. t \in Memory /\ \A a \in Address : t[a] =
          IF d <= a /\ a < d + (l + 1) THEN m[s + a - d] ELSE m[a]
  BY <1>3, <1>4, MoveIs
<1>6. ASSUME NEW i \in 0..l PROVE d + i \in Address /\ t[d + i] = m[s + i]
  <2> DEFINE b == d + i
  <2>1. d \in Int /\ s \in Int /\ i \in Int
    BY SizeFacts
  <2>2. b \in Address /\ d <= b /\ b < d + (l + 1) /\ s + b - d = s + i
    BY <1>1, <1>2, <2>1, SizeFacts DEF Inside
  <2> HIDE DEF b
  <2>3. t[b] = m[s + i]
    BY <1>5, <2>2
  <2> QED
    BY <2>2, <2>3 DEF b
<1>7. l \in 0..l /\ \A i \in 0..(l - 1) : i \in 0..l
  BY <1>2
<1>8. Strlen(t, d) = l
  BY <1>2, <1>5, <1>6, <1>7, StrlenIs
<1> QED
  BY <1>5, <1>6, <1>8 DEF l, t

LEMMA StrncpyStays ==
  ASSUME NEW m \in Memory, NEW d \in Address, NEW s \in Address, NEW n \in Nat,
         CanCopy(m, d, s), Inside(d, n)
  PROVE  Strncpy(m, d, s, n) \in Memory
<1> DEFINE l == Strlen(m, s)
           k == IF l < n THEN l ELSE n
           x == Moves(m, d, s, Run(0, k, 1))
<1>1. IsString(m, s) /\ (d <= s \/ d > s + l)
  BY DEF CanCopy
<1>2. l \in Nat /\ Inside(s, l + 1)
  BY <1>1, StrlenFacts
<1>3. Strncpy(m, d, s, n) = Set(x, d + k, n - k, 0)
  BY DEF Strncpy
<1> HIDE DEF l
<1>4. k \in Nat /\ k <= n /\ k <= l
  BY <1>2
<1> HIDE DEF k
<1>5. /\ Inside(d, k) /\ Inside(s, k) /\ (d <= s \/ d >= s + k)
      /\ Fits(d + k, n - k)
  BY <1>1, <1>2, <1>4, SizeFacts DEF Inside, Fits
<1>6. x \in Memory
  <2>1. x = Move(m, d, s, k)
    BY <1>4, <1>5, ForwardMoves
  <2>2. Fits(d, k) /\ Fits(s, k)
    BY <1>4, <1>5, InsideFits
  <2> QED
    BY <2>1, <2>2, MoveIs
<1> HIDE DEF x
<1> QED
  BY <1>3, <1>5, <1>6, SetIs, SizeFacts

\* What strrev does to a string that begins at s and ends before s + l.
Reversed(m, s, l) ==
    [a \in Address |-> IF s <= a /\ a < s + l THEN m[s + (s + l - 1) - a] ELSE m[a]]

LEMMA SwapIs ==
  ASSUME NEW m \in Memory, NEW p \in Address, NEW q \in Address, p # q
  PROVE  /\ Swap(m, p, q) \in Memory
         /\ \A a \in Address : Swap(m, p, q)[a] =
                IF a = p THEN m[q] ELSE IF a = q THEN m[p] ELSE m[a]
BY DEF Swap, Memory

SwapsThrough(R, m, s, e, n) ==
    /\ R[0] = m
    /\ \A k \in 0..n : R[k] \in Memory
    /\ \A k \in 1..n : R[k] = Swap(R[k - 1], s + k - 1, e - k + 1)

\* strrev exchanges the k-th byte with the k-th last, up to the middle.
LEMMA StrrevRun ==
  ASSUME NEW m \in Memory, NEW s \in Address, IsString(m, s),
         NEW e, e = s + Strlen(m, s) - 1, NEW n, n = Strlen(m, s) \div 2
  PROVE  /\ n \in Nat /\ 2 * n <= Strlen(m, s) /\ Strlen(m, s) <= 2 * n + 1
         /\ \A k \in 1..n : /\ s + k - 1 \in Address /\ e - k + 1 \in Address
                            /\ s + k - 1 < e - k + 1
         /\ \E R : SwapsThrough(R, m, s, e, n) /\ Strrev(m, s) = R[n]
<1> DEFINE l == Strlen(m, s)
           c == [i \in 1..n |-> i]
           g == [k \in 1..n |-> [x \in Memory |-> Swap(x, s + k - 1, e - k + 1)]]
           Iter(h) == h = [t \in SUBSET (1..n) |->
                    IF t = {} THEN m
                    ELSE Swap(h[t \ {Max(t)}], s + c[Max(t)] - 1, e - c[Max(t)] + 1)]
           f == CHOOSE h : Iter(h)
<1>1. l \in Nat /\ s + l \in Address
  BY StrlenFacts
<1>2. n \in Nat /\ 2 * n <= l /\ l <= 2 * n + 1
  <2>1. n = l \div 2
    OBVIOUS
  <2> HIDE DEF l
  <2> QED
    BY <1>1, <2>1
<1>3. ASSUME NEW k \in 1..n
      PROVE  s + k - 1 \in Address /\ e - k + 1 \in Address /\ s + k - 1 < e - k + 1
  <2> HIDE DEF l
  <2> QED
    BY <1>1, <1>2, SizeFacts DEF l
<1>4. Strrev(m, s) = f[1..n]
  <2>1. Strrev(m, s) = FoldLeft(LAMBDA acc, i : Swap(acc, s + i - 1, e - i + 1), m, c)
    BY DEF Strrev
  <2>2. DOMAIN c = 1..n
    OBVIOUS
  <2> HIDE DEF c
  <2> QED
    BY <2>1, <2>2 DEF FoldLeft, MapThenFoldSet
<1>5. g \in [1..n -> [Memory -> Memory]]
  <2> SUFFICES ASSUME NEW k \in 1..n, NEW x \in Memory
               PROVE  Swap(x, s + k - 1, e - k + 1) \in Memory
    OBVIOUS
  <2>1. s + k - 1 # e - k + 1
    BY <1>3, SizeFacts
  <2> QED
    BY <1>3, <2>1, SwapIs
<1>6. \A t \in SUBSET (1..n) :
          t # {} => /\ Max(t) \in 1..n /\ t \ {Max(t)} \in SUBSET (1..n)
                    /\ c[Max(t)] = Max(t)
  BY <1>2, MaxIs
<1>7. PICK h \in [SUBSET (1..n) -> Memory] : Folds(n, Memory, m, g, h)
  <2> HIDE DEF g
  <2> QED
    BY <1>2, <1>5, FoldExists
<1>8. Iter(h)
  <2> HIDE DEF c
  <2> QED
    BY <1>6, <1>7 DEF Folds
<1>9. Iter(f)
  <2> HIDE DEF Iter
  <2> QED
    BY <1>8
<1> DEFINE R == [k \in 0..n |-> f[1..k]]
<1>10. R[0] = m
  <2> HIDE DEF f, c
  <2>1. 1..0 = {} /\ {} \in SUBSET (1..n) /\ 0 \in 0..n
    BY <1>2
  <2> QED
    BY <1>9, <2>1
<1>11. ASSUME NEW k \in 1..n
       PROVE  R[k] = Swap(R[k - 1], s + k - 1, e - k + 1)
  <2> HIDE DEF f, c
  <2>1. /\ 1..k \in SUBSET (1..n) /\ 1..k # {} /\ Max(1..k) = k
        /\ (1..k) \ {k} = 1..(k - 1) /\ k \in 0..n /\ k - 1 \in 0..n
    BY <1>2, MaxRun
  <2>2. f[1..k] = Swap(f[1..(k - 1)], s + c[k] - 1, e - c[k] + 1)
    BY <1>9, <2>1
  <2>3. c[k] = k
    BY <1>6, <2>1
  <2> QED
    BY <2>1, <2>2, <2>3
<1>12. Strrev(m, s) = R[n]
  BY <1>2, <1>4
<1> HIDE DEF R
<1>13. \A k \in 1..n : R[k - 1] \in Memory => R[k] \in Memory
  <2> SUFFICES ASSUME NEW k \in 1..n, R[k - 1] \in Memory PROVE R[k] \in Memory
    OBVIOUS
  <2>1. s + k - 1 # e - k + 1
    BY <1>3, SizeFacts
  <2> QED
    BY <1>3, <1>11, <2>1, SwapIs
<1>14. \A k \in 0..n : R[k] \in Memory
  BY <1>2, <1>10, <1>13, LoopStays
<1>15. SwapsThrough(R, m, s, e, n) /\ Strrev(m, s) = R[n]
  BY <1>10, <1>11, <1>12, <1>14 DEF SwapsThrough
<1> QED
  BY <1>2, <1>3, <1>15

LEMMA StrrevReverses ==
  ASSUME NEW m \in Memory, NEW s \in Address, IsString(m, s)
  PROVE  /\ Strrev(m, s) \in Memory
         /\ Strrev(m, s) = Reversed(m, s, Strlen(m, s))
<1> DEFINE l == Strlen(m, s)
           e == s + l - 1
           n == l \div 2
<1>1. l \in Nat /\ s + l \in Address /\ s \in Nat
  BY StrlenFacts, SizeFacts
<1>2. /\ n \in Nat /\ 2 * n <= l /\ l <= 2 * n + 1
      /\ \A k \in 1..n : s + k - 1 \in Address /\ e - k + 1 \in Address /\ s + k - 1 < e - k + 1
  BY StrrevRun
<1>3. PICK R : SwapsThrough(R, m, s, e, n) /\ Strrev(m, s) = R[n]
  BY StrrevRun
<1>4. e = s + l - 1 /\ e \in Int
  BY <1>1
<1> HIDE DEF l, e, n
<1>5. /\ R[0] = m
      /\ \A k \in 0..n : R[k] \in Memory
      /\ \A k \in 1..n : R[k] = Swap(R[k - 1], s + k - 1, e - k + 1)
  BY <1>3 DEF SwapsThrough
<1> DEFINE Done(k) == \A a \in Address :
               R[k][a] = IF (s <= a /\ a < s + k) \/ (e - k < a /\ a <= e)
                         THEN m[s + e - a] ELSE m[a]
<1>6. Done(0)
  <2>1. \A a \in Address : ~((s <= a /\ a < s + 0) \/ (e - 0 < a /\ a <= e))
    BY <1>1, <1>4, SizeFacts
  <2> QED
    BY <1>5, <2>1
<1>7. ASSUME NEW k \in 1..n, Done(k - 1) PROVE Done(k)
  <2> DEFINE p == s + k - 1
             q == e - k + 1
  <2>1. /\ R[k] = Swap(R[k - 1], p, q) /\ R[k - 1] \in Memory
        /\ p \in Address /\ q \in Address /\ p < q
    <3>1. k - 1 \in 0..n
      BY <1>2
    <3> QED
      BY <1>2, <1>5, <3>1
  <2>2. p \in Int /\ q \in Int /\ k \in Int
        /\ p = s + (k - 1) /\ p + 1 = s + k /\ q = e - (k - 1) /\ q - 1 = e - k /\ p + q = s + e
    BY <1>1, <1>2, <1>4
  <2> HIDE DEF p, q
  <2>3. \A a \in Address : R[k][a] =
            IF a = p THEN R[k - 1][q] ELSE IF a = q THEN R[k - 1][p] ELSE R[k - 1][a]
    <3> DEFINE x == R[k - 1]
    <3>1. p # q /\ x \in Memory /\ R[k] = Swap(x, p, q)
      BY <2>1, <2>2
    <3> HIDE DEF x
    <3>2. \A a \in Address : Swap(x, p, q)[a] =
              IF a = p THEN x[q] ELSE IF a = q THEN x[p] ELSE x[a]
      BY <2>1, <3>1, SwapIs
    <3> QED
      BY <3>1, <3>2 DEF x
  <2>4. \A a \in Address : R[k - 1][a] = IF (s <= a /\ a < p) \/ (q < a /\ a <= e)
                                         THEN m[s + e - a] ELSE m[a]
    BY <1>7, <2>2
  <2>5. ASSUME NEW a \in Address
        PROVE  R[k][a] = IF (s <= a /\ a < p + 1) \/ (q - 1 < a /\ a <= e)
                         THEN m[s + e - a] ELSE m[a]
    <3>1. a \in Int /\ s <= p /\ q <= e
      BY <1>1, <1>2, <1>4, <2>2, SizeFacts
    <3>2. R[k - 1][p] = m[p] /\ R[k - 1][q] = m[q]
      BY <2>1, <2>2, <2>4
    <3>3. CASE a = p
      <4>1. s + e - a = q /\ s <= a /\ a < p + 1
        BY <1>1, <1>4, <2>2, <3>1, <3>3
      <4> QED
        BY <2>3, <3>2, <3>3, <4>1
    <3>4. CASE a = q
      <4>1. s + e - a = p /\ q - 1 < a /\ a <= e /\ a # p
        BY <1>1, <1>4, <2>1, <2>2, <3>1, <3>4
      <4> QED
        BY <2>3, <3>2, <3>4, <4>1
    <3>5. CASE a # p /\ a # q
      <4>1. (s <= a /\ a < p + 1 <=> s <= a /\ a < p) /\ (q - 1 < a /\ a <= e <=> q < a /\ a <= e)
        BY <2>2, <3>1, <3>5
      <4> QED
        BY <2>3, <2>4, <3>5, <4>1
    <3> QED
      BY <3>3, <3>4, <3>5
  <2> QED
    BY <2>2, <2>5
<1> DEFINE W == {k \in 0..n : ~Done(k)}
<1>8. Done(n)
  <2>1. W \in SUBSET (0..n) /\ 0 \notin W /\ n \in 0..n
    BY <1>2, <1>6
  <2>2. \A k \in 0..n : k \notin W => Done(k)
    OBVIOUS
  <2>3. \A k \in W : ~Done(k)
    OBVIOUS
  <2> HIDE DEF W, Done
  <2>4. W = {}
    BY <1>2, <1>7, <2>1, <2>2, <2>3, First
  <2> QED
    BY <2>1, <2>2, <2>4
<1>9. R[n] \in Memory
  BY <1>2, <1>5
<1>10. ASSUME NEW a \in Address PROVE R[n][a] = Reversed(m, s, l)[a]
  <2>1. a \in Int
    BY SizeFacts
  <2>2. Reversed(m, s, l)[a] = IF s <= a /\ a < s + l THEN m[s + e - a] ELSE m[a]
    BY <1>4 DEF Reversed
  <2>3. R[n][a] = IF (s <= a /\ a < s + n) \/ (e - n < a /\ a <= e) THEN m[s + e - a] ELSE m[a]
    BY <1>8
  <2>4. ((s <= a /\ a < s + n) \/ (e - n < a /\ a <= e))
           => s <= a /\ a < s + l
    BY <1>1, <1>2, <1>4, <2>1
  <2>5. s <= a /\ a < s + l => ((s <= a /\ a < s + n) \/ (e - n < a /\ a <= e)
                                \/ s + e - a = a)
    BY <1>1, <1>2, <1>4, <2>1
  <2> QED
    BY <2>2, <2>3, <2>4, <2>5
<1>11. R[n] = Reversed(m, s, l)
  <2>1. Reversed(m, s, l) = [a \in Address |-> Reversed(m, s, l)[a]]
    BY DEF Reversed
  <2> QED
    BY <1>9, <1>10, <2>1 DEF Memory
<1> QED
  BY <1>3, <1>9, <1>11 DEF l

-----------------------------------------------------------------------------
(* Recursive functions on the first numbers.  Power and LowDigits are defined  *)
(* by their value at smaller arguments; on 0..n such a function exists because *)
(* one on 0..(k - 1) can be extended to k.                                      *)

PowerRec(n, f) == f = [k \in 0..n |-> IF k = 0 THEN 1 ELSE 16 * f[k - 1]]

LEMMA PowerExists ==
  ASSUME NEW n \in Nat
  PROVE  \E f \in [0..n -> Nat] : PowerRec(n, f)
<1> DEFINE Good(k) == \E f \in [0..k -> Nat] : PowerRec(k, f)
           W == {k \in 0..n : ~Good(k)}
<1>1. Good(0)
  <2> DEFINE f == [k \in 0..0 |-> 1]
  <2>1. f \in [0..0 -> Nat] /\ PowerRec(0, f)
    BY DEF PowerRec
  <2> QED
    BY <2>1
<1>2. ASSUME NEW k \in 1..n, Good(k - 1) PROVE Good(k)
  <2>1. PICK f \in [0..(k - 1) -> Nat] : PowerRec(k - 1, f)
    BY <1>2
  <2>2. \A i \in 0..(k - 1) : f[i] = IF i = 0 THEN 1 ELSE 16 * f[i - 1]
    BY <2>1 DEF PowerRec
  <2> DEFINE g == [i \in 0..k |-> IF i = k THEN 16 * f[k - 1] ELSE f[i]]
  <2>3. \A i \in 0..k : i # k => i \in 0..(k - 1)
    OBVIOUS
  <2>4. g \in [0..k -> Nat]
    <3>1. f[k - 1] \in Nat
      OBVIOUS
    <3>2. 16 * f[k - 1] \in Nat
      BY <3>1
    <3> QED
      BY <2>3, <3>2
  <2>5. \A i \in 0..(k - 1) : g[i] = f[i] /\ i # k /\ i \in 0..k
    OBVIOUS
  <2>6. g[k] = 16 * f[k - 1] /\ k # 0 /\ k - 1 \in 0..(k - 1)
    OBVIOUS
  <2>7. ASSUME NEW i \in 0..k PROVE g[i] = IF i = 0 THEN 1 ELSE 16 * g[i - 1]
    <3> HIDE DEF g
    <3>1. CASE i = k
      BY <2>5, <2>6, <3>1
    <3>2. CASE i # k
      <4>1. i \in 0..(k - 1) /\ (i # 0 => i - 1 \in 0..(k - 1))
        BY <3>2
      <4> QED
        BY <2>2, <2>5, <4>1
    <3> QED
      BY <3>1, <3>2
  <2> HIDE DEF g
  <2>8. PowerRec(k, g)
    BY <2>4, <2>7 DEF PowerRec
  <2> QED
    BY <2>4, <2>8
<1>3. n \in 0..n /\ W \in SUBSET (0..n) /\ 0 \notin W
  BY <1>1
<1>4. \A k \in 0..n : k \notin W => Good(k)
  OBVIOUS
<1>5. \A k \in W : ~Good(k)
  OBVIOUS
<1>6. Good(n)
  <2> HIDE DEF W, Good
  <2>1. W = {}
    BY <1>2, <1>3, <1>4, <1>5, First
  <2> QED
    BY <1>3, <1>4, <2>1
<1> QED
  BY <1>6

LEMMA PowerFacts ==
  /\ HEX \in Nat /\ HEX > 0
  /\ \A k \in 0..HEX : Power[k] \in Nat
  /\ Power[0] = 1
  /\ \A k \in 1..HEX : Power[k] = 16 * Power[k - 1]
<1>1. HEX \in Nat /\ HEX > 0
  BY LibraryAssumption
<1> DEFINE f == CHOOSE g : PowerRec(HEX, g)
<1>2. Power = f
  BY DEF Power, PowerRec
<1>3. PowerRec(HEX, f)
  BY <1>1, PowerExists
<1> HIDE DEF f
<1>4. /\ f[0] = 1
      /\ \A k \in 1..HEX : f[k] = 16 * f[k - 1]
  BY <1>1, <1>3 DEF PowerRec
<1>5. \A k \in 0..HEX : f[k] \in Nat
  <2>1. \A k \in 1..HEX : f[k - 1] \in Nat => f[k] \in Nat
    BY <1>4
  <2>2. f[0] \in Nat
    BY <1>4
  <2> QED
    BY <1>1, <2>1, <2>2, LoopStays
<1> QED
  BY <1>1, <1>2, <1>4, <1>5

LEMMA WidthFacts == Width \in Nat /\ Width >= 16
<1>1. \A k \in 1..HEX : Power[k - 1] \in {p \in Nat : p >= 1} => Power[k] \in {p \in Nat : p >= 1}
  BY PowerFacts
<1>2. Power[0] \in {p \in Nat : p >= 1}
  BY PowerFacts
<1>3. \A k \in 0..HEX : Power[k] \in {p \in Nat : p >= 1}
  BY <1>1, <1>2, PowerFacts, LoopStays
<1>4. HEX \in 1..HEX /\ HEX - 1 \in 0..HEX
  BY PowerFacts
<1>5. Power[HEX - 1] \in Nat /\ Power[HEX - 1] >= 1 /\ Power[HEX] = 16 * Power[HEX - 1]
  BY <1>3, <1>4, PowerFacts
<1> QED
  BY <1>5 DEF Width

DigitsRec(n, r, f) ==
    f = [v \in 0..n |-> IF v = 0 THEN <<>> ELSE <<v % r>> \o f[v \div r]]

Radix == {10, 16}

LEMMA Quotient ==
  ASSUME NEW r \in Radix, NEW v \in Nat
  PROVE  /\ v \div r \in Nat /\ v % r \in 0..(r - 1) /\ v = (v \div r) * r + (v % r)
         /\ v > 0 => v \div r < v
         /\ r \in Nat
<1>1. CASE r = 10
  BY <1>1
<1>2. CASE r = 16
  BY <1>2
<1> QED
  BY <1>1, <1>2 DEF Radix

LEMMA DigitsExist ==
  ASSUME NEW n \in Nat, NEW r \in Radix
  PROVE  \E f : DigitsRec(n, r, f)
<1> DEFINE Good(k) == \E f : DigitsRec(k, r, f)
           W == {k \in 0..n : ~Good(k)}
<1>1. Good(0)
  <2> DEFINE f == [k \in 0..0 |-> <<>>]
  <2>1. DigitsRec(0, r, f)
    BY DEF DigitsRec
  <2> QED
    BY <2>1
<1>2. ASSUME NEW k \in 1..n, Good(k - 1) PROVE Good(k)
  <2>1. PICK f : DigitsRec(k - 1, r, f)
    BY <1>2
  <2>2. \A v \in 0..(k - 1) : f[v] = IF v = 0 THEN <<>> ELSE <<v % r>> \o f[v \div r]
    BY <2>1 DEF DigitsRec
  <2> DEFINE g == [v \in 0..k |-> IF v = k THEN <<k % r>> \o f[k \div r] ELSE f[v]]
  <2>3. \A v \in 0..k : v # 0 => v \div r \in 0..(k - 1)
    BY Quotient
  <2>4. \A v \in 0..(k - 1) : g[v] = f[v]
    OBVIOUS
  <2>5. g[k] = <<k % r>> \o f[k \div r] /\ k # 0 /\ k \in 0..k
    OBVIOUS
  <2>6. ASSUME NEW v \in 0..k PROVE g[v] = IF v = 0 THEN <<>> ELSE <<v % r>> \o g[v \div r]
    <3> HIDE DEF g
    <3>1. CASE v = k
      <4>1. g[k \div r] = f[k \div r]
        BY <2>3, <2>4, <2>5
      <4> QED
        BY <2>5, <3>1, <4>1
    <3>2. CASE v # k
      <4>1. v \in 0..(k - 1)
        BY <3>2
      <4>2. v # 0 => g[v \div r] = f[v \div r]
        BY <2>3, <2>4
      <4>3. g[v] = f[v] /\ f[v] = IF v = 0 THEN <<>> ELSE <<v % r>> \o f[v \div r]
        BY <2>2, <2>4, <4>1
      <4> QED
        BY <4>2, <4>3
    <3> QED
      BY <3>1, <3>2
  <2>7. g = [v \in 0..k |-> g[v]]
    OBVIOUS
  <2> HIDE DEF g
  <2>8. DigitsRec(k, r, g)
    BY <2>6, <2>7 DEF DigitsRec
  <2> QED
    BY <2>8
<1>3. n \in 0..n /\ W \in SUBSET (0..n) /\ 0 \notin W
  BY <1>1
<1>4. \A k \in 0..n : k \notin W => Good(k)
  OBVIOUS
<1>5. \A k \in W : ~Good(k)
  OBVIOUS
<1>6. Good(n)
  <2> HIDE DEF W, Good
  <2>1. W = {}
    BY <1>2, <1>3, <1>4, <1>5, First
  <2> QED
    BY <1>3, <1>4, <2>1
<1> QED
  BY <1>6

LEMMA DigitsFacts ==
  ASSUME NEW r \in Radix
  PROVE  /\ LowDigits(r)[0] = <<>>
         /\ \A v \in 1..(Width - 1) : LowDigits(r)[v] = <<v % r>> \o LowDigits(r)[v \div r]
<1> DEFINE n == Width - 1
           f == CHOOSE g : DigitsRec(n, r, g)
<1>1. LowDigits(r) = f
  BY DEF LowDigits, DigitsRec
<1>2. n \in Nat
  BY WidthFacts
<1> HIDE DEF n
<1>3. DigitsRec(n, r, f)
  BY <1>2, DigitsExist
<1> HIDE DEF f
<1>4. f[0] = <<>> /\ \A v \in 1..n : f[v] = <<v % r>> \o f[v \div r]
  <2>1. \A v \in 0..n : f[v] = IF v = 0 THEN <<>> ELSE <<v % r>> \o f[v \div r]
    BY <1>3, Zenon DEF DigitsRec
  <2>2. 0 \in 0..n /\ \A v \in 1..n : v \in 0..n /\ v # 0
    BY <1>2
  <2> QED
    BY <2>1, <2>2
<1> QED
  BY <1>1, <1>4 DEF n

-----------------------------------------------------------------------------
(* The number a text of digits denotes *)

\* The numbers R[0], ..., R[n] of the first digits.
ValuesThrough(R, t, r, n) ==
    /\ R[0] = 0
    /\ \A k \in 0..n : R[k] \in Int
    /\ \A k \in 1..n : R[k] = R[k - 1] * r + t[k]

LEMMA NumberRun ==
  ASSUME NEW t \in Seq(Int), NEW r \in Radix
  PROVE  \E R : ValuesThrough(R, t, r, Len(t)) /\ NumberOf(t, r) = R[Len(t)]
<1> DEFINE n == Len(t)
           g == [k \in 1..n |-> [x \in Int |-> x * r + t[k]]]
           Iter(h) == h = [u \in SUBSET (1..n) |->
                    IF u = {} THEN 0 ELSE h[u \ {Max(u)}] * r + t[Max(u)]]
           f == CHOOSE h : Iter(h)
<1>1. n \in Nat /\ DOMAIN t = 1..n /\ \A k \in 1..n : t[k] \in Int
  OBVIOUS
<1>2. NumberOf(t, r) = f[1..n]
  <2>1. DOMAIN t = 1..n
    BY <1>1
  <2> HIDE DEF n
  <2> QED
    BY <2>1 DEF NumberOf, FoldLeft, MapThenFoldSet
<1> HIDE DEF n
<1>3. \A x \in Int, y \in Int : x * r + y \in Int
  BY Quotient DEF Radix
<1>4. g \in [1..n -> [Int -> Int]]
  BY <1>1, <1>3
<1>5. \A u \in SUBSET (1..n) : u # {} => Max(u) \in 1..n /\ u \ {Max(u)} \in SUBSET (1..n)
  BY <1>1, MaxIs
<1>6. PICK h \in [SUBSET (1..n) -> Int] : Folds(n, Int, 0, g, h)
  <2> HIDE DEF g
  <2>1. 0 \in Int
    OBVIOUS
  <2> QED
    BY <1>1, <1>4, <2>1, FoldExists
<1>7. Iter(h)
  <2>1. \A u \in SUBSET (1..n) : h[u] = IF u = {} THEN 0 ELSE g[Max(u)][h[u \ {Max(u)}]]
    BY <1>6 DEF Folds
  <2>2. \A u \in SUBSET (1..n) : u # {} =>
            g[Max(u)][h[u \ {Max(u)}]] = h[u \ {Max(u)}] * r + t[Max(u)]
    BY <1>5
  <2> HIDE DEF g
  <2>3. h = [u \in SUBSET (1..n) |-> h[u]]
    OBVIOUS
  <2> QED
    BY <2>1, <2>2, <2>3, Zenon
<1>8. Iter(f)
  <2> HIDE DEF Iter
  <2> QED
    BY <1>7
<1> DEFINE R == [k \in 0..n |-> f[1..k]]
<1>9. R[0] = 0
  <2> HIDE DEF f
  <2>1. 1..0 = {} /\ {} \in SUBSET (1..n) /\ 0 \in 0..n
    BY <1>1
  <2>2. f[{}] = 0
    BY <1>8, <2>1, Zenon
  <2> QED
    BY <2>1, <2>2
<1>10. ASSUME NEW k \in 1..n PROVE R[k] = R[k - 1] * r + t[k]
  <2> HIDE DEF f
  <2>1. /\ 1..k \in SUBSET (1..n) /\ 1..k # {} /\ Max(1..k) = k
        /\ (1..k) \ {k} = 1..(k - 1) /\ k \in 0..n /\ k - 1 \in 0..n
    BY <1>1, MaxRun
  <2>2. f[1..k] = f[(1..k) \ {Max(1..k)}] * r + t[Max(1..k)]
    BY <1>8, <2>1, Zenon
  <2> QED
    BY <2>1, <2>2
<1>11. n \in 0..n /\ NumberOf(t, r) = R[n]
  BY <1>1, <1>2
<1> HIDE DEF R
<1>12. \A k \in 1..n : R[k - 1] \in Int => R[k] \in Int
  BY <1>1, <1>3, <1>10
<1>13. \A k \in 0..n : R[k] \in Int
  <2>1. R[0] \in Int
    BY <1>9
  <2> QED
    BY <1>1, <1>12, <2>1, LoopStays
<1>14. ValuesThrough(R, t, r, n) /\ NumberOf(t, r) = R[n]
  BY <1>9, <1>10, <1>11, <1>13 DEF ValuesThrough
<1> QED
  BY <1>14 DEF n

\* The digits t count the same behind the first k digits of u, when those are zeros.
SameDigits(R, t, Q, u, r, k, n) ==
    /\ R[0] = 0 /\ Q[k] = 0
    /\ \A i \in 1..n : /\ R[i] = R[i - 1] * r + t[i]
                       /\ Q[k + i] = Q[k + i - 1] * r + u[k + i]
                       /\ u[k + i] = t[i]

LEMMA SameValues ==
  ASSUME NEW r, NEW k, NEW n, NEW R, NEW Q, NEW t, NEW u, k \in Nat, n \in Nat,
         SameDigits(R, t, Q, u, r, k, n)
  PROVE  \A i \in 0..n : Q[k + i] = R[i]
<1> DEFINE W == {i \in 0..n : Q[k + i] # R[i]}
<1>1. W \in SUBSET (0..n) /\ 0 \notin W
  <2>1. k + 0 = k
    OBVIOUS
  <2> QED
    BY <2>1 DEF SameDigits
<1>2. \A i \in 0..n : i \notin W => Q[k + i] = R[i]
  OBVIOUS
<1>3. \A i \in W : Q[k + i] # R[i]
  OBVIOUS
<1> HIDE DEF W
<1>4. W = {}
  <2> SUFFICES ASSUME W # {} PROVE FALSE
    OBVIOUS
  <2>1. PICK i \in 1..n : i \in W /\ i - 1 \in 0..n /\ i - 1 \notin W
    BY <1>1, First
  <2>2. k + (i - 1) = k + i - 1
    OBVIOUS
  <2>3. Q[k + i - 1] = R[i - 1]
    BY <1>2, <2>1, <2>2
  <2> QED
    BY <1>3, <2>1, <2>3 DEF SameDigits
<1> QED
  BY <1>2, <1>4

LEMMA NumberAppend ==
  ASSUME NEW t \in Seq(Int), NEW a \in Int, NEW r \in Radix
  PROVE  NumberOf(Append(t, a), r) = NumberOf(t, r) * r + a
<1> DEFINE u == Append(t, a)
           n == Len(t)
<1>1. /\ u \in Seq(Int) /\ Len(u) = n + 1 /\ u[n + 1] = a /\ n \in Nat
      /\ \A i \in 1..n : u[i] = t[i]
  OBVIOUS
<1>2. PICK R : ValuesThrough(R, t, r, n) /\ NumberOf(t, r) = R[n]
  BY NumberRun
<1> HIDE DEF u, n
<1>3. PICK Q : ValuesThrough(Q, u, r, n + 1) /\ NumberOf(u, r) = Q[n + 1]
  BY <1>1, NumberRun
<1>4. \A i \in 0..n : Q[0 + i] = R[i]
  <2>1. \A i \in 1..n : i \in 1..(n + 1) /\ 0 + i = i /\ 0 + i - 1 = i - 1
    BY <1>1
  <2>2. \A i \in 1..n : /\ R[i] = R[i - 1] * r + t[i]
                        /\ Q[0 + i] = Q[0 + i - 1] * r + u[0 + i]
                        /\ u[0 + i] = t[i]
    BY <1>1, <1>2, <1>3, <2>1 DEF ValuesThrough
  <2>3. R[0] = 0 /\ Q[0] = 0 /\ 0 \in Nat
    BY <1>2, <1>3 DEF ValuesThrough
  <2>4. SameDigits(R, t, Q, u, r, 0, n)
    BY <2>2, <2>3 DEF SameDigits
  <2>5. 0 \in Nat /\ n \in Nat
    BY <1>1
  <2> QED
    BY <2>4, <2>5, SameValues
<1>5. Q[n] = R[n]
  <2>1. n \in 0..n /\ 0 + n = n
    BY <1>1
  <2> QED
    BY <1>4, <2>1
<1>6. n + 1 \in 1..(n + 1) /\ (n + 1) - 1 = n
  BY <1>1
<1>7. Q[n + 1] = Q[n] * r + u[n + 1]
  BY <1>3, <1>6 DEF ValuesThrough
<1> QED
  BY <1>1, <1>2, <1>3, <1>5, <1>7 DEF u

LEMMA NumberZeros ==
  ASSUME NEW t \in Seq(Int), NEW k \in Nat, NEW r \in Radix
  PROVE  NumberOf(Zeros(k) \o t, r) = NumberOf(t, r) /\ Len(Zeros(k) \o t) = k + Len(t)
<1> DEFINE z == Zeros(k)
           u == z \o t
           n == Len(t)
<1>1. z \in Seq(Int) /\ Len(z) = k /\ \A i \in 1..k : z[i] = 0
  <2>1. z \in [1..k -> Int] /\ \A i \in 1..k : z[i] = 0
    BY DEF Zeros
  <2> HIDE DEF z
  <2> QED
    BY <2>1
<1>2. n \in Nat
  OBVIOUS
<1> HIDE DEF z
<1>3. /\ u \in Seq(Int) /\ Len(u) = k + n
      /\ \A i \in 1..k : u[i] = 0
      /\ \A i \in 1..n : u[k + i] = t[i]
  <2>1. /\ u \in Seq(Int) /\ Len(u) = Len(z) + n
        /\ \A i \in 1..(Len(z) + n) : u[i] = IF i <= Len(z) THEN z[i] ELSE t[i - Len(z)]
    BY <1>1, ConcatProperties
  <2> HIDE DEF u, n
  <2>2. \A i \in 1..(k + n) : u[i] = IF i <= k THEN z[i] ELSE t[i - k]
    BY <1>1, <2>1
  <2>3. \A i \in 1..k : i \in 1..(k + n) /\ i <= k
    BY <1>2
  <2>4. \A i \in 1..n : k + i \in 1..(k + n) /\ ~(k + i <= k) /\ (k + i) - k = i
    BY <1>2
  <2> QED
    BY <1>1, <2>1, <2>2, <2>3, <2>4
<1>4. PICK R : ValuesThrough(R, t, r, n) /\ NumberOf(t, r) = R[n]
  BY NumberRun
<1> HIDE DEF u, n
<1>5. PICK Q : ValuesThrough(Q, u, r, k + n) /\ NumberOf(u, r) = Q[k + n]
  BY <1>3, NumberRun
<1>6. Q[k] = 0
  <2> DEFINE Zero == {0}
  <2>1. \A i \in 1..k : Q[i - 1] \in Zero => Q[i] \in Zero
    <3>1. \A i \in 1..k : i \in 1..(k + n)
      BY <1>2
    <3>2. 0 * r + 0 = 0
      BY DEF Radix
    <3> QED
      BY <1>3, <1>5, <3>1, <3>2 DEF ValuesThrough
  <2>2. Q[0] \in Zero
    BY <1>5 DEF ValuesThrough
  <2>3. k \in 0..k /\ \A x \in Zero : x = 0
    OBVIOUS
  <2> HIDE DEF Zero
  <2>4. \A i \in 0..k : Q[i] \in Zero
    BY <2>1, <2>2, LoopStays
  <2> QED
    BY <2>3, <2>4
<1>7. \A i \in 0..n : Q[k + i] = R[i]
  <2>1. \A i \in 1..n : k + i \in 1..(k + n)
    BY <1>2
  <2>2. \A i \in 1..n : /\ R[i] = R[i - 1] * r + t[i]
                        /\ Q[k + i] = Q[k + i - 1] * r + u[k + i]
                        /\ u[k + i] = t[i]
    BY <1>3, <1>4, <1>5, <2>1 DEF ValuesThrough
  <2>3. R[0] = 0
    BY <1>4 DEF ValuesThrough
  <2>4. SameDigits(R, t, Q, u, r, k, n)
    BY <1>6, <2>2, <2>3 DEF SameDigits
  <2> QED
    BY <1>2, <2>4, SameValues
<1>8. n \in 0..n
  BY <1>2
<1> QED
  BY <1>3, <1>4, <1>5, <1>7, <1>8 DEF u, n, z

-----------------------------------------------------------------------------
(* itoa and printf *)

LEMMA ReverseFirst ==
  ASSUME NEW t \in Seq(Int), NEW a \in Int
  PROVE  Reverse(<<a>> \o t) = Append(Reverse(t), a) /\ Reverse(t) \in Seq(Int)
<1> DEFINE n == Len(t)
           u == <<a>> \o t
           w == Reverse(t)
<1>1. n \in Nat /\ \A i \in 1..n : t[i] \in Int
  OBVIOUS
<1>2. /\ u \in Seq(Int) /\ Len(u) = n + 1 /\ u[1] = a
      /\ \A i \in 1..n : u[i + 1] = t[i]
  OBVIOUS
<1>3. w = [i \in 1..n |-> t[(n - i) + 1]]
  BY DEF Reverse
<1> HIDE DEF u, w, n
<1>4. \A i \in 1..n : (n - i) + 1 \in 1..n
  BY <1>1
<1>5. w \in [1..n -> Int]
  BY <1>1, <1>3, <1>4
<1>6. w \in Seq(Int) /\ Len(w) = n
  BY <1>1, <1>5
<1>7. Reverse(u) = [i \in 1..(n + 1) |-> u[((n + 1) - i) + 1]]
  BY <1>2 DEF Reverse
<1>8. ASSUME NEW i \in 1..(n + 1) PROVE u[((n + 1) - i) + 1] = Append(w, a)[i]
  <2>1. CASE i = n + 1
    <3>1. ((n + 1) - i) + 1 = 1
      BY <1>1, <2>1
    <3>2. Append(w, a)[n + 1] = a
      BY <1>6
    <3> QED
      BY <1>2, <2>1, <3>1, <3>2
  <2>2. CASE i # n + 1
    <3> DEFINE j == (n - i) + 1
    <3>1. i \in 1..n /\ j \in 1..n /\ ((n + 1) - i) + 1 = j + 1
      BY <1>1, <2>2
    <3>2. Append(w, a)[i] = w[i]
      BY <1>6, <3>1
    <3>3. w[i] = t[j]
      BY <1>3, <3>1
    <3> HIDE DEF j
    <3> QED
      BY <1>2, <3>1, <3>2, <3>3
  <2> QED
    BY <2>1, <2>2
<1>9. Append(w, a) = [i \in 1..(n + 1) |-> Append(w, a)[i]]
  <2> DEFINE z == Append(w, a)
  <2>1. z \in Seq(Int) /\ Len(z) = n + 1
    BY <1>6
  <2> HIDE DEF z
  <2>2. z \in [1..(n + 1) -> Int]
    BY <2>1, LenProperties
  <2>3. z = [i \in 1..(n + 1) |-> z[i]]
    BY <2>2
  <2> QED
    BY <2>3 DEF z
<1>10. Reverse(u) = Append(w, a)
  BY <1>7, <1>8, <1>9
<1> QED
  BY <1>6, <1>10 DEF u, w

\* The digits of a number are digits and denote it, and none denote zero.
LEMMA DigitsDenote ==
  ASSUME NEW r \in Radix, NEW v \in 0..(Width - 1)
  PROVE  LET t == LowDigits(r)[v] IN
         /\ t \in Seq(Int) /\ (v # 0 => Len(t) > 0)
         /\ \A i \in 1..Len(t) : t[i] >= 0
         /\ NumberOf(Reverse(t), r) = v
<1> DEFINE D == LowDigits(r)
           Good(x) == /\ D[x] \in Seq(Int) /\ (x # 0 => Len(D[x]) > 0)
                      /\ \A i \in 1..Len(D[x]) : D[x][i] >= 0
                      /\ NumberOf(Reverse(D[x]), r) = x
           W == {x \in 0..(Width - 1) : ~Good(x)}
<1>1. D[0] = <<>> /\ \A x \in 1..(Width - 1) : D[x] = <<x % r>> \o D[x \div r]
  BY DigitsFacts
<1>2. Width \in Nat
  BY WidthFacts
<1> HIDE DEF D
<1>3. Good(0)
  <2>1. D[0] \in Seq(Int) /\ Len(D[0]) = 0
    BY <1>1
  <2>2. Reverse(D[0]) = <<>>
    <3>1. Reverse(D[0]) = [i \in 1..0 |-> D[0][(0 - i) + 1]]
      BY <2>1 DEF Reverse
    <3>2. 1..0 = {}
      OBVIOUS
    <3>3. Reverse(D[0]) \in Seq(Int) /\ Len(Reverse(D[0])) = 0
      <4>1. Reverse(D[0]) \in [1..0 -> Int]
        BY <3>1, <3>2
      <4> QED
        BY <4>1
    <3> QED
      BY <3>3, EmptySeq
  <2>3. <<>> \in Seq(Int) /\ Len(<<>>) = 0
    OBVIOUS
  <2>4. NumberOf(<<>>, r) = 0
    <3>1. PICK R : ValuesThrough(R, <<>>, r, 0) /\ NumberOf(<<>>, r) = R[0]
      BY <2>3, NumberRun
    <3> QED
      BY <3>1 DEF ValuesThrough
  <2> QED
    BY <2>1, <2>2, <2>4
<1>4. ASSUME NEW x \in 1..(Width - 1), Good(x \div r) PROVE Good(x)
  <2> DEFINE t == D[x \div r]
             a == x % r
  <2>1. x \in Nat /\ x # 0
    OBVIOUS
  <2>2. a \in Int /\ a >= 0 /\ x = (x \div r) * r + a /\ r \in Nat
    BY <2>1, Quotient
  <2>3. t \in Seq(Int) /\ (\A i \in 1..Len(t) : t[i] >= 0) /\ NumberOf(Reverse(t), r) = x \div r
    BY <1>4
  <2>4. D[x] = <<a>> \o t
    BY <1>1
  <2> HIDE DEF t, a
  <2>5. Reverse(D[x]) = Append(Reverse(t), a) /\ Reverse(t) \in Seq(Int)
    BY <2>2, <2>3, <2>4, ReverseFirst
  <2>6. NumberOf(Reverse(D[x]), r) = (x \div r) * r + a
    BY <2>2, <2>3, <2>5, NumberAppend
  <2>7. D[x] \in Seq(Int) /\ Len(D[x]) > 0 /\ \A i \in 1..Len(D[x]) : D[x][i] >= 0
    <3>1. /\ <<a>> \o t \in Seq(Int) /\ Len(<<a>> \o t) = 1 + Len(t)
          /\ \A i \in 1..(1 + Len(t)) : (<<a>> \o t)[i] = IF i <= 1 THEN a ELSE t[i - 1]
      BY <2>2, <2>3
    <3>2. Len(t) \in Nat
      BY <2>3
    <3>3. \A i \in 1..(1 + Len(t)) : i <= 1 \/ i - 1 \in 1..Len(t)
      BY <3>2
    <3> QED
      BY <2>2, <2>3, <2>4, <3>1, <3>2, <3>3
  <2> QED
    BY <2>2, <2>6, <2>7
<1>5. Good(v)
  <2> SUFFICES ASSUME v \in W PROVE FALSE
    OBVIOUS
  <2>1. W \in SUBSET Nat /\ W # {}
    BY <1>2
  <2>2. PICK x \in W : \A y \in W : x <= y
    <3> HIDE DEF W
    <3> QED
      BY <2>1, Least
  <2>3. x \in 0..(Width - 1) /\ ~Good(x)
    OBVIOUS
  <2>4. x # 0
    <3> HIDE DEF Good
    <3> QED
      BY <1>3, <2>3
  <2>5. x \div r \in 0..(Width - 1) /\ ~(x <= x \div r) /\ x \in 1..(Width - 1)
    <3> DEFINE y == x \div r
    <3>1. x \in Nat /\ x > 0 /\ x <= Width - 1
      BY <1>2, <2>3, <2>4
    <3>2. y \in Nat /\ y < x
      BY <3>1, Quotient
    <3> HIDE DEF y
    <3>3. y \in 0..(Width - 1) /\ ~(x <= y) /\ x \in 1..(Width - 1)
      BY <1>2, <3>1, <3>2
    <3> QED
      BY <3>3 DEF y
  <2>6. Good(x \div r)
    <3>1. x \div r \notin W
      <4> HIDE DEF W
      <4> QED
        BY <2>2, <2>5
    <3> HIDE DEF Good
    <3> QED
      BY <2>5, <3>1
  <2> HIDE DEF Good
  <2> QED
    BY <1>4, <2>3, <2>5, <2>6
<1> QED
  BY <1>5 DEF D

\* A number below the k-th power of 16 has at most k digits.
LEMMA DigitsFit ==
  ASSUME NEW v \in 0..(Width - 1)
  PROVE  Len(LowDigits(16)[v]) <= HEX
<1> DEFINE D == LowDigits(16)
           Good(k) == \A x \in 0..(Width - 1) : x < Power[k] => Len(D[x]) <= k
           W == {k \in 0..HEX : ~Good(k)}
<1>0. 16 \in Radix /\ Width \in Nat /\ HEX \in Nat
  BY WidthFacts, PowerFacts DEF Radix
<1>1. D[0] = <<>> /\ \A x \in 1..(Width - 1) : D[x] = <<x % 16>> \o D[x \div 16]
  BY <1>0, DigitsFacts
<1>2. \A x \in 0..(Width - 1) : D[x] \in Seq(Int)
  BY <1>0, DigitsDenote
<1> HIDE DEF D
<1>3. Good(0)
  <2> SUFFICES ASSUME NEW x \in 0..(Width - 1), x < Power[0] PROVE Len(D[x]) <= 0
    OBVIOUS
  <2>1. x = 0
    BY <1>0, PowerFacts
  <2> QED
    BY <1>1, <2>1
<1>4. ASSUME NEW k \in 1..HEX, Good(k - 1) PROVE Good(k)
  <2> SUFFICES ASSUME NEW x \in 0..(Width - 1), x < Power[k] PROVE Len(D[x]) <= k
    OBVIOUS
  <2>1. k - 1 \in 0..HEX /\ k \in Nat
    BY <1>0
  <2>2. CASE x = 0
    BY <1>1, <2>1, <2>2
  <2>3. CASE x # 0
    <3> DEFINE y == x \div 16
               p == Power[k - 1]
               a == x % 16
    <3>1. p \in Nat /\ Power[k] = 16 * p
      BY <2>1, PowerFacts
    <3>2. x \in Nat /\ x < 16 * p /\ x \in 1..(Width - 1)
      BY <1>0, <2>3, <3>1
    <3> HIDE DEF p
    <3>3. y \in Nat /\ y <= x /\ y < p /\ a \in Int
      BY <3>1, <3>2
    <3> HIDE DEF y, a
    <3>4. y \in 0..(Width - 1)
      BY <1>0, <3>2, <3>3
    <3>5. Len(D[y]) <= k - 1 /\ D[y] \in Seq(Int)
      BY <1>2, <1>4, <3>3, <3>4 DEF p
    <3>6. D[x] = <<a>> \o D[y]
      BY <1>1, <3>2 DEF y, a
    <3>7. Len(<<a>> \o D[y]) = 1 + Len(D[y]) /\ Len(D[y]) \in Nat
      BY <3>3, <3>5
    <3> QED
      BY <2>1, <3>5, <3>6, <3>7
  <2> QED
    BY <2>2, <2>3
<1>5. W \in SUBSET (0..HEX) /\ 0 \notin W /\ HEX \in 0..HEX
  BY <1>0, <1>3
<1>6. \A k \in 0..HEX : k \notin W => Good(k)
  OBVIOUS
<1>7. \A k \in W : ~Good(k)
  OBVIOUS
<1>8. Good(HEX)
  <2> HIDE DEF W, Good
  <2>1. W = {}
    BY <1>0, <1>4, <1>5, <1>6, <1>7, First
  <2> QED
    BY <1>5, <1>6, <2>1
<1>9. v < Power[HEX]
  BY <1>0 DEF Width
<1> QED
  BY <1>8, <1>9 DEF D

LEMMA ItoaDenotes ==
  ASSUME NEW r \in Radix, NEW v \in 0..(Width - 1)
  PROVE  LET t == itoa(v, r) IN
         /\ t \in Seq(Int) /\ Len(t) > 0 /\ t[1] >= 0
         /\ NumberOf(t, r) = v
         /\ r = 16 => Len(t) <= HEX
<1>1. HEX \in Nat /\ HEX > 0 /\ Width \in Nat
  BY PowerFacts, WidthFacts
<1>2. CASE v = 0
  <2>1. itoa(v, r) = <<0>>
    BY <1>2 DEF itoa
  <2>2. <<0>> \in Seq(Int) /\ Len(<<0>>) = 1 /\ <<0>>[1] = 0 /\ <<>> \in Seq(Int)
        /\ Append(<<>>, 0) = <<0>> /\ Len(<<>>) = 0 /\ 1 \in 1..1 /\ 1 - 1 = 0
    OBVIOUS
  <2>3. PICK R : ValuesThrough(R, <<0>>, r, 1) /\ NumberOf(<<0>>, r) = R[1]
    BY <2>2, NumberRun
  <2>4. R[0] = 0 /\ R[1] = R[0] * r + 0
    BY <2>2, <2>3 DEF ValuesThrough
  <2>5. NumberOf(<<0>>, r) = 0
    BY <2>3, <2>4 DEF Radix
  <2> DEFINE t == itoa(v, r)
  <2>6. t \in Seq(Int)
    BY <2>1, <2>2
  <2>7. Len(t) = 1 /\ t[1] = 0
    BY <2>1, <2>2
  <2>8. NumberOf(t, r) = v
    BY <1>2, <2>1, <2>5
  <2> HIDE DEF t
  <2>9. Len(t) > 0 /\ t[1] >= 0 /\ Len(t) <= HEX
    BY <1>1, <2>7
  <2> QED
    BY <2>6, <2>8, <2>9 DEF t
<1>3. CASE v # 0
  <2> DEFINE t == LowDigits(r)[v]
             w == Reverse(t)
             n == Len(t)
  <2>1. itoa(v, r) = w
    BY <1>3 DEF itoa
  <2>2. /\ t \in Seq(Int) /\ n > 0 /\ \A i \in 1..n : t[i] >= 0
        /\ NumberOf(w, r) = v
    BY <1>3, DigitsDenote
  <2>3. r = 16 => n <= HEX
    BY DigitsFit
  <2>4. w = [i \in 1..n |-> t[(n - i) + 1]]
    BY DEF Reverse
  <2> HIDE DEF t, w
  <2>5. n \in Nat /\ \A i \in 1..n : t[i] \in Int
    BY <2>2
  <2> HIDE DEF n
  <2>6. \A i \in 1..n : (n - i) + 1 \in 1..n
    BY <2>5
  <2>7. w \in [1..n -> Int]
    BY <2>4, <2>5, <2>6
  <2>8. w \in Seq(Int) /\ Len(w) = n
    BY <2>5, <2>7
  <2>9. 1 \in 1..n /\ (n - 1) + 1 \in 1..n
    BY <2>2, <2>5
  <2>10. w[1] >= 0
    BY <2>2, <2>4, <2>9
  <2> QED
    BY <2>1, <2>2, <2>3, <2>8, <2>10
<1> QED
  BY <1>2, <1>3

LEMMA FirstAndRest ==
  ASSUME NEW a \in Int, NEW t \in Seq(Int)
  PROVE  Head(<<a>> \o t) = a /\ Tail(<<a>> \o t) = t
<1> DEFINE n == Len(t)
           u == <<a>> \o t
<1>1. /\ u \in Seq(Int) /\ Len(u) = n + 1 /\ u[1] = a /\ n \in Nat
      /\ \A i \in 1..n : u[i + 1] = t[i]
  OBVIOUS
<1>2. t \in [1..n -> Int]
  BY LenProperties
<1> HIDE DEF u, n
<1>3. u # <<>>
  <2> SUFFICES ASSUME u = <<>> PROVE FALSE
    OBVIOUS
  <2>1. Len(u) = 0
    OBVIOUS
  <2> QED
    BY <1>1, <2>1
<1> DEFINE w == Tail(u)
<1>4. w \in Seq(Int) /\ Len(w) = n /\ \A i \in 1..n : w[i] = u[i + 1]
  <2>1. w \in Seq(Int) /\ Len(w) = Len(u) - 1 /\ \A i \in 1..(Len(u) - 1) : w[i] = u[i + 1]
    BY <1>1, <1>3, HeadTailProperties
  <2> HIDE DEF w
  <2> QED
    BY <1>1, <2>1
<1> HIDE DEF w
<1>5. w \in [1..n -> Int]
  BY <1>4, LenProperties
<1>6. w = t
  BY <1>1, <1>2, <1>4, <1>5
<1>7. Head(u) = a
  BY <1>1, <1>3, HeadTailProperties
<1> QED
  BY <1>6, <1>7 DEF u, w

\* What NumbersPrinted says of one conversion.
Denotes(as, v, t) ==
    CASE as = "x"  -> NumberOf(t, 16) = v
      [] as = "#x" -> NumberOf(t, 16) = v /\ Len(t) = HEX
      [] as = "u"  -> NumberOf(t, 10) = v
      [] as = "d"  -> IF Head(t) = Minus THEN v = Width - NumberOf(Tail(t), 10)
                      ELSE v = NumberOf(t, 10)

LEMMA ConvertedDenotes ==
  ASSUME NEW as \in {"x", "#x", "u", "d"}, NEW v \in 0..(Width - 1)
  PROVE  Denotes(as, v, Converted(as, v))
<1>1. 10 \in Radix /\ 16 \in Radix /\ Width \in Nat /\ Width >= 16 /\ HEX \in Nat
  BY WidthFacts, PowerFacts DEF Radix
<1>2. CASE as = "x"
  BY <1>1, <1>2, ItoaDenotes DEF Denotes, Converted
<1>3. CASE as = "#x"
  <2> DEFINE t == itoa(v, 16)
  <2>1. t \in Seq(Int) /\ NumberOf(t, 16) = v /\ Len(t) <= HEX
    BY <1>1, ItoaDenotes
  <2> HIDE DEF t
  <2>2. HEX - Len(t) \in Nat /\ (HEX - Len(t)) + Len(t) = HEX
    BY <1>1, <2>1
  <2>3. /\ NumberOf(Zeros(HEX - Len(t)) \o t, 16) = v
        /\ Len(Zeros(HEX - Len(t)) \o t) = HEX
    BY <1>1, <2>1, <2>2, NumberZeros
  <2> QED
    BY <1>3, <2>3 DEF Denotes, Converted, t
<1>4. CASE as = "u"
  BY <1>1, <1>4, ItoaDenotes DEF Denotes, Converted
<1>5. CASE as = "d"
  <2> DEFINE t == Converted(as, v)
  <2>1. CASE v >= Width \div 2
    <3> DEFINE x == Negated(v)
               u == itoa(x, 10)
    <3>1. x \in 0..(Width - 1) /\ v = Width - x
      BY <1>1, <2>1 DEF Negated
    <3>2. t = <<Minus>> \o u
      BY <1>5, <2>1 DEF Converted
    <3> HIDE DEF x
    <3>3. u \in Seq(Int) /\ NumberOf(u, 10) = x
      BY <1>1, <3>1, ItoaDenotes
    <3> HIDE DEF u, t
    <3>4. Head(t) = Minus /\ Tail(t) = u
      BY <3>2, <3>3, FirstAndRest DEF Minus
    <3>5. v = Width - NumberOf(Tail(t), 10)
      BY <3>1, <3>3, <3>4
    <3> QED
      BY <1>5, <3>4, <3>5 DEF Denotes, t
  <2>2. CASE ~(v >= Width \div 2)
    <3>1. t = itoa(v, 10)
      BY <1>5, <2>2 DEF Converted
    <3>2. t \in Seq(Int) /\ Len(t) > 0 /\ t[1] >= 0 /\ NumberOf(t, 10) = v
      BY <1>1, <3>1, ItoaDenotes
    <3> HIDE DEF t
    <3>3. Head(t) = t[1] /\ t[1] # Minus
      BY <3>2 DEF Minus
    <3> QED
      BY <1>5, <3>2, <3>3 DEF Denotes, t
  <2> QED
    BY <2>1, <2>2
<1> QED
  BY <1>2, <1>3, <1>4, <1>5

-----------------------------------------------------------------------------
(* The results *)

\* Memory always holds bytes; where a call left the direction flag does not matter,
\* as every string instruction is preceded by cld or std.
MemoryOK == mem \in Memory

LEMMA InitMemory == Init => MemoryOK
BY DEF Init, MemoryOK, Memory

LEMMA StepMemory ==
  ASSUME MemoryOK, [Next]_vars
  PROVE  MemoryOK'
<1> USE DEF MemoryOK
<1>0. 0..SIZE \subseteq Nat
  BY SizeFacts
<1>1. CASE memset
  <2>1. PICK d \in Address, c \in Byte, n \in 0..SIZE :
            Inside(d, n) /\ mem' = Memset(mem, d, c, n)
    BY <1>1 DEF memset
  <2>2. n \in Nat /\ Fits(d, n)
    BY <1>0, <2>1, InsideFits
  <2> QED
    BY <2>1, <2>2, MemsetSets, SetIs
<1>2. CASE memset_word
  <2>1. PICK d \in Address, c \in Byte, n \in 0..SIZE :
            Inside(d, n * WORD) /\ mem' = MemsetWords(mem, d, c, n)
    BY <1>2 DEF memset_word
  <2> DEFINE k == n * WORD
  <2>2. n \in Nat /\ k \in Nat
    BY <1>0, SizeFacts
  <2>3. mem' = Sets(mem, d, Run(0, n, WORD), c)
    BY <2>1 DEF MemsetWords, Rep
  <2>4. Tiles(Run(0, n, WORD), 0, k)
    <3>1. Tiles(Run(0, n, WORD), 0, 0 + k)
      BY <2>2, RunTiles, SizeFacts
    <3> HIDE DEF k
    <3>2. 0 + k = k
      BY <2>2
    <3> QED
      BY <3>1, <3>2
  <2> HIDE DEF k
  <2>5. Fits(d, k)
    BY <2>1, <2>2, InsideFits DEF k
  <2> QED
    BY <2>2, <2>3, <2>4, <2>5, TiledSets, SetIs
<1>3. CASE memcpy
  <2>1. PICK d \in Address, s \in Address, n \in 0..SIZE :
            Inside(d, n) /\ Inside(s, n) /\ mem' = Memcpy(mem, d, s, n)
    BY <1>3 DEF memcpy
  <2>2. n \in Nat /\ Fits(d, n) /\ Fits(s, n)
    BY <1>0, <2>1, InsideFits
  <2> QED
    BY <2>1, <2>2, BlocksTile, TiledStay, SizeFacts DEF Memcpy
<1>4. CASE memmove
  <2>1. PICK d \in Address, s \in Address, n \in 0..SIZE :
            Inside(d, n) /\ Inside(s, n) /\ mem' = Memmove(mem, d, s, n)
    BY <1>4 DEF memmove
  <2>2. n \in Nat /\ Fits(d, n) /\ Fits(s, n)
    BY <1>0, <2>1, InsideFits
  <2> QED
    BY <2>1, <2>2, MemmoveMoves, MoveIs
<1>5. CASE strcpy
  BY <1>5, StrcpyCopies DEF strcpy
<1>6. CASE strncpy
  <2>1. PICK d \in Address, s \in Address, n \in 0..SIZE :
            CanCopy(mem, d, s) /\ Inside(d, n) /\ mem' = Strncpy(mem, d, s, n)
    BY <1>6 DEF strncpy
  <2> QED
    BY <1>0, <2>1, StrncpyStays
<1>7. CASE strrev
  BY <1>7, StrrevReverses DEF strrev
<1>8. CASE printf
  BY <1>8 DEF printf
<1>9. CASE UNCHANGED vars
  BY <1>9 DEF vars
<1> QED
  BY <1>1, <1>2, <1>3, <1>4, <1>5, <1>6, <1>7, <1>8, <1>9 DEF Next

LEMMA MemoryMeansSpecified ==
  ASSUME MemoryOK
  PROVE  MemoryAsSpecified
<1>1. 0..SIZE \subseteq Nat
  BY SizeFacts
<1>2. ASSUME NEW d \in Address, NEW s \in Address, NEW n \in 0..SIZE, Inside(d, n), Inside(s, n)
      PROVE  /\ Memmove(mem, d, s, n) = Move(mem, d, s, n)
             /\ d <= s \/ d >= s + n => Memcpy(mem, d, s, n) = Move(mem, d, s, n)
             /\ \A c \in Byte : Memset(mem, d, c, n) = Set(mem, d, n, c)
  BY <1>1, <1>2, MemmoveMoves, MemcpyMoves, MemsetSets DEF MemoryOK
<1> QED
  BY <1>2 DEF MemoryAsSpecified

LEMMA MemoryMeansStrings ==
  ASSUME MemoryOK
  PROVE  StringsAsSpecified
<1>1. ASSUME NEW d \in Address, NEW s \in Address, CanCopy(mem, d, s)
      PROVE  /\ Strlen(Strcpy(mem, d, s), d) = Strlen(mem, s)
             /\ \A i \in 0..Strlen(mem, s) : Strcpy(mem, d, s)[d + i] = mem[s + i]
  BY <1>1, StrcpyCopies DEF MemoryOK
<1>2. ASSUME NEW s \in Address, IsString(mem, s)
      PROVE  /\ \A i \in 0..(Strlen(mem, s) - 1) :
                    Strrev(mem, s)[s + i] = mem[s + Strlen(mem, s) - 1 - i]
             /\ Strrev(Strrev(mem, s), s) = mem
  <2> DEFINE l == Strlen(mem, s)
             r == Strrev(mem, s)
  <2>1. /\ l \in Nat /\ s + l \in Address /\ mem[s + l] = 0
        /\ \A i \in 0..(l - 1) : mem[s + i] # 0
    BY <1>2, StrlenFacts DEF MemoryOK
  <2>2. r \in Memory /\ r = Reversed(mem, s, l)
    BY <1>2, StrrevReverses DEF MemoryOK
  <2>3. mem \in Memory
    BY DEF MemoryOK
  <2> HIDE DEF l, r
  <2>4. s \in Nat /\ SIZE \in Nat /\ s + l < SIZE
    BY <2>1, SizeFacts
  <2>5. \A a \in Address : r[a] = IF s <= a /\ a < s + l THEN mem[s + (s + l - 1) - a] ELSE mem[a]
    BY <2>2 DEF Reversed
  <2>6. ASSUME NEW i \in 0..(l - 1)
        PROVE  /\ r[s + i] = mem[s + l - 1 - i]
               /\ r[s + i] # 0
    <3> DEFINE a == s + i
               j == l - 1 - i
    <3>1. /\ a \in Address /\ s <= a /\ a < s + l
          /\ s + (s + l - 1) - a = s + j /\ s + j = s + l - 1 - i /\ j \in 0..(l - 1)
      BY <2>1, <2>4, SizeFacts
    <3> HIDE DEF a, j
    <3>2. r[a] = mem[s + j]
      BY <2>5, <3>1
    <3>3. mem[s + j] # 0
      BY <2>1, <3>1
    <3> QED
      BY <3>1, <3>2, <3>3 DEF a
  <2>7. r[s + l] = 0
    BY <2>1, <2>4, <2>5
  <2>8. IsString(r, s) /\ Strlen(r, s) = l
    BY <2>1, <2>2, <2>6, <2>7, StrlenIs
  <2>9. Strrev(r, s) = Reversed(r, s, l)
    BY <2>2, <2>8, StrrevReverses
  <2>10. ASSUME NEW a \in Address PROVE Reversed(r, s, l)[a] = mem[a]
    <3> DEFINE b == s + (s + l - 1) - a
    <3>1. a \in Int
      BY SizeFacts
    <3>2. Reversed(r, s, l)[a] = IF s <= a /\ a < s + l THEN r[b] ELSE r[a]
      BY DEF Reversed
    <3>3. CASE s <= a /\ a < s + l
      <4>1. b \in Address /\ s <= b /\ b < s + l /\ s + (s + l - 1) - b = a
        BY <2>1, <2>4, <3>1, <3>3, SizeFacts
      <4> HIDE DEF b
      <4>2. r[b] = mem[a]
        BY <2>5, <4>1
      <4> QED
        BY <3>2, <3>3, <4>2
    <3>4. CASE ~(s <= a /\ a < s + l)
      BY <2>5, <3>2, <3>4
    <3> QED
      BY <3>3, <3>4
  <2>11. Reversed(r, s, l) = mem
    <3>1. Reversed(r, s, l) = [a \in Address |-> Reversed(r, s, l)[a]]
      BY DEF Reversed
    <3> QED
      BY <2>3, <2>10, <3>1 DEF Memory
  <2> QED
    BY <2>6, <2>9, <2>11 DEF l, r
<1> QED
  BY <1>1, <1>2 DEF StringsAsSpecified

\* Memory holds bytes whatever is called (lib.c:413-630).
THEOREM TypeCorrect == Spec => []MemoryOK
<1> QED
  BY InitMemory, StepMemory, PTL DEF Spec

\* After any calls, memmove moves regions that overlap either way, memcpy those it is
\* safe for, and memset reaches every byte and no other, for every word size and
\* alignment (lib.c:413-571).
THEOREM MemoryAlwaysAsSpecified == Spec => []MemoryAsSpecified
<1>1. MemoryOK => MemoryAsSpecified
  BY MemoryMeansSpecified
<1> QED
  BY <1>1, TypeCorrect, PTL

\* After any calls, a copied string is the one that was there and a string reversed
\* twice is the string (lib.c:383-411, 596-610).
THEOREM StringsAlwaysAsSpecified == Spec => []StringsAsSpecified
<1>1. MemoryOK => StringsAsSpecified
  BY MemoryMeansStrings
<1> QED
  BY <1>1, TypeCorrect, PTL

\* The text printed holds at first, and after a call that prints nothing.
LEMMA NothingPrinted ==
  /\ printed = Nothing => NumbersPrinted
  /\ printed' = Nothing => NumbersPrinted'
<1>1. 10 \in Radix /\ 0 \in 0..(Width - 1)
  BY WidthFacts, PowerFacts DEF Radix
<1>2. itoa(0, 10) = <<0>>
  BY DEF itoa
<1>3. NumberOf(<<0>>, 10) = 0
  BY <1>1, <1>2, ItoaDenotes
<1>4. ASSUME NEW p, p = Nothing PROVE p.as = "u" /\ p.value = 0 /\ p.text = <<0>>
  BY <1>4 DEF Nothing
<1>5. ASSUME printed = Nothing PROVE NumbersPrinted
  <2>1. printed.as = "u" /\ printed.value = 0 /\ NumberOf(printed.text, 10) = 0
    BY <1>3, <1>4, <1>5
  <2> QED
    BY <2>1 DEF NumbersPrinted
<1>6. ASSUME printed' = Nothing PROVE NumbersPrinted'
  <2>1. printed'.as = "u" /\ printed'.value = 0 /\ NumberOf(printed'.text, 10) = 0
    BY <1>3, <1>4, <1>6
  <2> QED
    BY <2>1 DEF NumbersPrinted
<1> QED
  BY <1>5, <1>6

\* What is printed last denotes its argument: every conversion starts afresh.
LEMMA InitPrinted == Init => NumbersPrinted
<1> SUFFICES ASSUME Init PROVE NumbersPrinted
  OBVIOUS
<1>1. printed = Nothing
  BY DEF Init
<1> QED
  BY <1>1, NothingPrinted

LEMMA StepPrinted ==
  ASSUME NumbersPrinted, [Next]_vars
  PROVE  NumbersPrinted'
<1>1. CASE printed' = Nothing
  BY <1>1, NothingPrinted
<1>2. CASE printf
  <2>1. PICK as \in {"x", "#x", "u", "d"}, v \in 0..(Width - 1) :
            printed' = [as |-> as, value |-> v, text |-> Converted(as, v)]
    BY <1>2 DEF printf
  <2>2. Denotes(as, v, Converted(as, v))
    BY ConvertedDenotes
  <2> QED
    BY <2>1, <2>2 DEF NumbersPrinted, Denotes
<1>3. CASE UNCHANGED printed
  BY <1>3 DEF NumbersPrinted
<1> QED
  BY <1>1, <1>2, <1>3
     DEF Next, vars, memset, memset_word, memcpy, memmove, strcpy, strncpy, strrev

\* Every conversion prints a text that denotes its argument, for every width of an
\* integer: the most negative number, whose negation overflows, among them, and %#x
\* with all its digits (lib.c:70-160, 351-381).
THEOREM NumbersAlwaysPrinted == Spec => []NumbersPrinted
<1> QED
  BY InitPrinted, StepPrinted, PTL DEF Spec
-----------------------------------------------------------------------------
(* Texts in parts *)

\* Two loops that make the same steps.
Alike(R, Q, n) == R[0] = Q[0] /\ \A k \in 1..n : R[k - 1] = Q[k - 1] => R[k] = Q[k]

LEMMA SameRuns ==
  ASSUME NEW n, n \in Nat, NEW R, NEW Q, Alike(R, Q, n)
  PROVE  \A k \in 0..n : R[k] = Q[k]
<1> DEFINE W == {k \in 0..n : R[k] # Q[k]}
<1>1. W \in SUBSET (0..n) /\ 0 \notin W
  BY DEF Alike
<1>2. \A k \in 0..n : k \notin W => R[k] = Q[k]
  OBVIOUS
<1>3. \A k \in W : R[k] # Q[k]
  OBVIOUS
<1> HIDE DEF W
<1>4. W = {}
  BY <1>1, <1>2, <1>3, First DEF Alike
<1> QED
  BY <1>2, <1>4

\* The parts of a text are never none; a character ends one or is added to the last.
Parts(C) == Seq(Seq(C)) \ {<<>>}

AddTo(parts, c, sep) == IF c = sep THEN Append(parts, <<>>)
                        ELSE [parts EXCEPT ![Len(parts)] = Append(@, c)]

LEMMA LastPart ==
  ASSUME NEW C, NEW p \in Parts(C)
  PROVE  \E X \in Seq(Seq(C)), l \in Seq(C) : p = Append(X, l)
BY SequenceEmptyOrAppend DEF Parts

LEMMA AddToIs ==
  ASSUME NEW C, NEW X \in Seq(Seq(C)), NEW l \in Seq(C), NEW c \in C, NEW sep
  PROVE  /\ Append(X, l) \in Parts(C)
         /\ c = sep => AddTo(Append(X, l), c, sep) = Append(Append(X, l), <<>>)
         /\ c # sep => AddTo(Append(X, l), c, sep) = Append(X, Append(l, c))
<1> DEFINE p == Append(X, l)
           q == [p EXCEPT ![Len(p)] = Append(@, c)]
           r == Append(X, Append(l, c))
<1>1. p \in Seq(Seq(C)) /\ p # <<>> /\ Len(p) = Len(X) + 1 /\ p[Len(p)] = l
      /\ \A i \in 1..Len(X) : p[i] = X[i]
  BY AppendProperties
<1>2. Append(l, c) \in Seq(C)
  OBVIOUS
<1> DEFINE m == Append(l, c)
<1> HIDE DEF m
<1>3. r \in Seq(Seq(C)) /\ Len(r) = Len(X) + 1 /\ r[Len(X) + 1] = m
      /\ \A i \in 1..Len(X) : r[i] = X[i]
  BY <1>2, AppendProperties DEF m
<1>4. q = [p EXCEPT ![Len(p)] = m]
  BY <1>1 DEF m
<1> HIDE DEF p, r
<1>5. q \in Seq(Seq(C)) /\ Len(q) = Len(p)
      /\ \A i \in 1..Len(p) : q[i] = IF i = Len(p) THEN m ELSE p[i]
  <2> DEFINE j == Len(p)
             S == Seq(C)
  <2>1. j \in 1..Len(p) /\ m \in S /\ p \in Seq(S) /\ q = [p EXCEPT ![j] = m]
    BY <1>1, <1>2, <1>4, LenProperties DEF m
  <2> HIDE DEF j, S, q
  <2>2. /\ q \in Seq(S) /\ Len(q) = Len(p)
        /\ \A i \in 1..Len(p) : q[i] = IF i = j THEN m ELSE p[i]
    BY <2>1, ExceptSeq
  <2> QED
    BY <2>2 DEF j, S
<1> HIDE DEF q
<1>6. q = r
  <2>1. Len(q) = Len(r) /\ Len(X) \in Nat
    BY <1>1, <1>3, <1>5, LenProperties
  <2>2. ASSUME NEW i \in 1..Len(q) PROVE q[i] = r[i]
    <3>1. i \in 1..Len(p) /\ Len(p) = Len(X) + 1 /\ (i = Len(p) \/ i \in 1..Len(X))
      BY <1>1, <1>5, <2>1
    <3>2. CASE i = Len(p)
      BY <1>1, <1>3, <1>5, <3>1, <3>2
    <3>3. CASE i # Len(p)
      BY <1>1, <1>3, <1>5, <3>1, <3>3
    <3> QED
      BY <3>2, <3>3
  <2> QED
    BY <1>3, <1>5, <2>1, <2>2, SeqEqual
<1>7. c # sep => AddTo(p, c, sep) = q
  BY DEF AddTo, q
<1> QED
  BY <1>1, <1>6, <1>7 DEF AddTo, Parts, p, r, m

\* The equation has a name so that the provers take it as it stands.
AddsOn(X, l, c, sep) == AddTo(Append(X, l), c, sep) = Append(X, Append(l, c))

LEMMA AddOn ==
  ASSUME NEW C, NEW X \in Seq(Seq(C)), NEW l \in Seq(C), NEW c \in C, NEW sep, c # sep
  PROVE  AddsOn(X, l, c, sep)
<1>1. AddTo(Append(X, l), c, sep) = Append(X, Append(l, c))
  BY AddToIs
<1> QED
  BY <1>1, Zenon DEF AddsOn

\* The parts of t, all in S, after 0, 1, ... of its characters.
PartsThrough(R, t, sep, n, S) ==
    /\ R[0] = <<<<>>>>
    /\ \A k \in 0..n : R[k] \in S
    /\ \A k \in 1..n : R[k] = AddTo(R[k - 1], t[k], sep)

LEMMA SplitRun ==
  ASSUME NEW C, NEW t \in Seq(C), NEW sep
  PROVE  \E R : PartsThrough(R, t, sep, Len(t), Parts(C)) /\ Split(t, sep) = R[Len(t)]
<1> DEFINE n == Len(t)
           S == Parts(C)
           g == [k \in 1..n |-> [x \in S |-> AddTo(x, t[k], sep)]]
           Iter(h) == h = [u \in SUBSET (1..n) |->
                    IF u = {} THEN <<<<>>>>
                    ELSE IF t[Max(u)] = sep THEN Append(h[u \ {Max(u)}], <<>>)
                    ELSE [h[u \ {Max(u)}] EXCEPT
                             ![Len(h[u \ {Max(u)}])] = Append(@, t[Max(u)])]]
           f == CHOOSE h : Iter(h)
<1>1. n \in Nat /\ DOMAIN t = 1..n /\ \A k \in 1..n : t[k] \in C
  OBVIOUS
<1>2. Split(t, sep) = f[1..n]
  <2>1. DOMAIN t = 1..n
    BY <1>1
  <2> HIDE DEF n
  <2> QED
    BY <2>1 DEF Split, FoldLeft, MapThenFoldSet
<1> HIDE DEF n
<1>3. \A x \in S, k \in 1..n : AddTo(x, t[k], sep) \in S
  <2> SUFFICES ASSUME NEW x \in S, NEW k \in 1..n PROVE AddTo(x, t[k], sep) \in S
    OBVIOUS
  <2>1. PICK X \in Seq(Seq(C)), l \in Seq(C) : x = Append(X, l)
    BY LastPart
  <2>2. t[k] \in C /\ <<>> \in Seq(C) /\ x \in Seq(Seq(C))
    BY <1>1 DEF Parts
  <2>3. Append(x, <<>>) \in S
    BY <2>2, AddToIs
  <2>4. Append(X, Append(l, t[k])) \in S
    <3>1. Append(l, t[k]) \in Seq(C)
      BY <2>2, AppendProperties
    <3> QED
      BY <2>2, <3>1, AddToIs
  <2>5. AddTo(x, t[k], sep) \in {Append(x, <<>>), Append(X, Append(l, t[k]))}
    <3> HIDE DEF S
    <3> QED
      BY <2>1, <2>2, AddToIs
  <2> QED
    BY <2>3, <2>4, <2>5
<1>4. g \in [1..n -> [S -> S]]
  BY <1>3
<1>5. \A u \in SUBSET (1..n) : u # {} => Max(u) \in 1..n /\ u \ {Max(u)} \in SUBSET (1..n)
  BY <1>1, MaxIs
<1>a. <<<<>>>> \in S
  <2>1. <<<<>>>> = Append(<<>>, <<>>) /\ <<>> \in Seq(Seq(C)) /\ <<>> \in Seq(C)
    OBVIOUS
  <2>2. Append(<<>>, <<>>) \in Seq(Seq(C)) /\ Append(<<>>, <<>>) # <<>>
    BY <2>1, AppendProperties
  <2> QED
    BY <2>1, <2>2 DEF Parts
<1>6. PICK h \in [SUBSET (1..n) -> S] : Folds(n, S, <<<<>>>>, g, h)
  <2> HIDE DEF g, S
  <2> QED
    BY <1>1, <1>4, <1>a, FoldExists
<1>7. Iter(h)
  <2>1. \A u \in SUBSET (1..n) : h[u] = IF u = {} THEN <<<<>>>> ELSE g[Max(u)][h[u \ {Max(u)}]]
    BY <1>6 DEF Folds
  <2>2. \A u \in SUBSET (1..n) : u # {} =>
            g[Max(u)][h[u \ {Max(u)}]] = AddTo(h[u \ {Max(u)}], t[Max(u)], sep)
    BY <1>5
  <2> HIDE DEF g
  <2>3. h = [u \in SUBSET (1..n) |-> h[u]]
    OBVIOUS
  <2>4. h = [u \in SUBSET (1..n) |-> IF u = {} THEN <<<<>>>>
                                     ELSE AddTo(h[u \ {Max(u)}], t[Max(u)], sep)]
    BY <2>1, <2>2, <2>3, Zenon
  <2> QED
    BY <2>4 DEF AddTo
<1>8. Iter(f)
  <2> HIDE DEF Iter
  <2> QED
    BY <1>7
<1>b. f = [u \in SUBSET (1..n) |-> IF u = {} THEN <<<<>>>>
                                   ELSE AddTo(f[u \ {Max(u)}], t[Max(u)], sep)]
  <2> HIDE DEF f
  <2> QED
    BY <1>8 DEF AddTo
<1> HIDE DEF f
<1> DEFINE R == [k \in 0..n |-> f[1..k]]
<1>9. R[0] = <<<<>>>>
  <2>1. 1..0 = {} /\ {} \in SUBSET (1..n) /\ 0 \in 0..n
    BY <1>1
  <2>2. f[{}] = <<<<>>>>
    BY <1>b, <2>1, Zenon
  <2> QED
    BY <2>1, <2>2
<1>10. ASSUME NEW k \in 1..n PROVE R[k] = AddTo(R[k - 1], t[k], sep)
  <2>1. /\ 1..k \in SUBSET (1..n) /\ 1..k # {} /\ Max(1..k) = k
        /\ (1..k) \ {k} = 1..(k - 1) /\ k \in 0..n /\ k - 1 \in 0..n
    BY <1>1, MaxRun
  <2>2. f[1..k] = AddTo(f[(1..k) \ {Max(1..k)}], t[Max(1..k)], sep)
    BY <1>b, <2>1, Zenon
  <2> QED
    BY <2>1, <2>2
<1>11. n \in 0..n /\ Split(t, sep) = R[n]
  BY <1>1, <1>2
<1> HIDE DEF R, S
<1>12. \A k \in 1..n : R[k - 1] \in S => R[k] \in S
  BY <1>3, <1>10
<1>13. \A k \in 0..n : R[k] \in S
  <2>1. R[0] \in S
    BY <1>9, <1>a
  <2> QED
    BY <1>1, <1>12, <2>1, LoopStays
<1>14. PartsThrough(R, t, sep, n, S) /\ Split(t, sep) = R[n]
  BY <1>9, <1>10, <1>11, <1>13 DEF PartsThrough
<1> QED
  BY <1>14 DEF n, S

\* The parts of the first k characters.
SplitTo(t, sep, k) == Split(SubSeq(t, 1, k), sep)

LEMMA Prefix ==
  ASSUME NEW C, NEW t \in Seq(C), NEW k \in 0..Len(t)
  PROVE  /\ SubSeq(t, 1, k) \in Seq(C) /\ Len(SubSeq(t, 1, k)) = k
         /\ \A i \in 1..k : SubSeq(t, 1, k)[i] = t[i]
         /\ SubSeq(t, 1, Len(t)) = t
<1>1. Len(t) \in Nat /\ k \in Nat
  OBVIOUS
<1> QED
  BY <1>1, SubSeqProperties, SubSeqFull

LEMMA SplitSteps ==
  ASSUME NEW C, NEW t \in Seq(C), NEW sep
  PROVE  /\ SplitTo(t, sep, 0) = <<<<>>>>
         /\ SplitTo(t, sep, Len(t)) = Split(t, sep)
         /\ \A k \in 0..Len(t) : SplitTo(t, sep, k) \in Parts(C)
         /\ \A k \in 1..Len(t) : SplitTo(t, sep, k) = AddTo(SplitTo(t, sep, k - 1), t[k], sep)
<1>1. PICK R : PartsThrough(R, t, sep, Len(t), Parts(C))
  BY SplitRun
<1>2. ASSUME NEW k \in 0..Len(t) PROVE SplitTo(t, sep, k) = R[k]
  <2> DEFINE u == SubSeq(t, 1, k)
  <2>1. u \in Seq(C) /\ Len(u) = k /\ (\A i \in 1..k : u[i] = t[i]) /\ k \in Nat /\ k <= Len(t)
    BY Prefix
  <2> HIDE DEF u
  <2>2. PICK Q : PartsThrough(Q, u, sep, Len(u), Parts(C)) /\ Split(u, sep) = Q[Len(u)]
    BY <2>1, SplitRun
  <2>3. R[0] = Q[0]
    BY <1>1, <2>2 DEF PartsThrough
  <2>4. \A i \in 1..k : R[i] = AddTo(R[i - 1], t[i], sep) /\ Q[i] = AddTo(Q[i - 1], u[i], sep)
    BY <1>1, <2>1, <2>2 DEF PartsThrough
  <2>5. \A i \in 1..k : R[i - 1] = Q[i - 1] => R[i] = Q[i]
    BY <2>1, <2>4
  <2>6. \A i \in 0..k : R[i] = Q[i]
    <3>1. Alike(R, Q, k)
      BY <2>3, <2>5 DEF Alike
    <3> QED
      BY <2>1, <3>1, SameRuns
  <2> QED
    BY <2>1, <2>2, <2>6 DEF SplitTo, u
<1>3. SubSeq(t, 1, Len(t)) = t /\ Len(t) \in Nat
  BY Prefix
<1>4. SplitTo(t, sep, 0) = <<<<>>>>
  <2>1. 0 \in 0..Len(t) /\ R[0] = <<<<>>>>
    BY <1>1, <1>3 DEF PartsThrough
  <2> QED
    BY <1>2, <2>1
<1>5. SplitTo(t, sep, Len(t)) = Split(t, sep)
  BY <1>3 DEF SplitTo
<1>6. \A k \in 0..Len(t) : SplitTo(t, sep, k) \in Parts(C)
  BY <1>1, <1>2 DEF PartsThrough
<1>7. ASSUME NEW k \in 1..Len(t)
      PROVE  SplitTo(t, sep, k) = AddTo(SplitTo(t, sep, k - 1), t[k], sep)
  <2>1. k \in 0..Len(t) /\ k - 1 \in 0..Len(t)
    BY <1>3
  <2> QED
    BY <1>1, <1>2, <2>1 DEF PartsThrough
<1> QED
  BY <1>4, <1>5, <1>6, <1>7

-----------------------------------------------------------------------------
(* What is left without a character, and the lines that are found *)

\* What one more character, or line, adds to them.
Unless(acc, c, x)  == IF c = x THEN acc ELSE Append(acc, c)
IfFound(acc, c, x) == IF Found(c, x) THEN Append(acc, c) ELSE acc

WithoutThrough(R, t, x, n, S) ==
    /\ R[0] = <<>>
    /\ \A k \in 0..n : R[k] \in S
    /\ \A k \in 1..n : R[k] = Unless(R[k - 1], t[k], x)

LEMMA WithoutRun ==
  ASSUME NEW C, NEW t \in Seq(C), NEW x
  PROVE  \E R : WithoutThrough(R, t, x, Len(t), Seq(C)) /\ Without(t, x) = R[Len(t)]
<1> DEFINE n == Len(t)
           S == Seq(C)
           g == [k \in 1..n |-> [y \in S |-> Unless(y, t[k], x)]]
           Iter(h) == h = [u \in SUBSET (1..n) |->
                    IF u = {} THEN <<>>
                    ELSE IF t[Max(u)] = x THEN h[u \ {Max(u)}]
                    ELSE Append(h[u \ {Max(u)}], t[Max(u)])]
           f == CHOOSE h : Iter(h)
<1>1. n \in Nat /\ DOMAIN t = 1..n /\ \A k \in 1..n : t[k] \in C
  OBVIOUS
<1>2. Without(t, x) = f[1..n]
  <2>1. DOMAIN t = 1..n
    BY <1>1
  <2> HIDE DEF n
  <2> QED
    BY <2>1 DEF Without, FoldLeft, MapThenFoldSet
<1> HIDE DEF n
<1>3. \A y \in S, k \in 1..n : Unless(y, t[k], x) \in S
  BY <1>1 DEF Unless
<1>4. g \in [1..n -> [S -> S]]
  BY <1>3
<1>5. \A u \in SUBSET (1..n) : u # {} => Max(u) \in 1..n /\ u \ {Max(u)} \in SUBSET (1..n)
  BY <1>1, MaxIs
<1>6. <<>> \in S
  OBVIOUS
<1>7. PICK h \in [SUBSET (1..n) -> S] : Folds(n, S, <<>>, g, h)
  <2> HIDE DEF g, S
  <2> QED
    BY <1>1, <1>4, <1>6, FoldExists
<1>8. Iter(h)
  <2>1. \A u \in SUBSET (1..n) : h[u] = IF u = {} THEN <<>> ELSE g[Max(u)][h[u \ {Max(u)}]]
    BY <1>7 DEF Folds
  <2>2. \A u \in SUBSET (1..n) : u # {} =>
            g[Max(u)][h[u \ {Max(u)}]] = Unless(h[u \ {Max(u)}], t[Max(u)], x)
    BY <1>5
  <2> HIDE DEF g
  <2>3. h = [u \in SUBSET (1..n) |-> h[u]]
    OBVIOUS
  <2>4. h = [u \in SUBSET (1..n) |-> IF u = {} THEN <<>>
                                     ELSE Unless(h[u \ {Max(u)}], t[Max(u)], x)]
    BY <2>1, <2>2, <2>3, Zenon
  <2> QED
    BY <2>4 DEF Unless
<1>9. Iter(f)
  <2> HIDE DEF Iter
  <2> QED
    BY <1>8
<1>10. f = [u \in SUBSET (1..n) |-> IF u = {} THEN <<>>
                                    ELSE Unless(f[u \ {Max(u)}], t[Max(u)], x)]
  <2> HIDE DEF f
  <2> QED
    BY <1>9 DEF Unless
<1> HIDE DEF f
<1> DEFINE R == [k \in 0..n |-> f[1..k]]
<1>11. R[0] = <<>>
  <2>1. 1..0 = {} /\ {} \in SUBSET (1..n) /\ 0 \in 0..n
    BY <1>1
  <2>2. f[{}] = <<>>
    BY <1>10, <2>1, Zenon
  <2> QED
    BY <2>1, <2>2
<1>12. ASSUME NEW k \in 1..n PROVE R[k] = Unless(R[k - 1], t[k], x)
  <2>1. /\ 1..k \in SUBSET (1..n) /\ 1..k # {} /\ Max(1..k) = k
        /\ (1..k) \ {k} = 1..(k - 1) /\ k \in 0..n /\ k - 1 \in 0..n
    BY <1>1, MaxRun
  <2>2. f[1..k] = Unless(f[(1..k) \ {Max(1..k)}], t[Max(1..k)], x)
    BY <1>10, <2>1, Zenon
  <2> QED
    BY <2>1, <2>2
<1>13. n \in 0..n /\ Without(t, x) = R[n]
  BY <1>1, <1>2
<1> HIDE DEF R, S
<1>14. \A k \in 1..n : R[k - 1] \in S => R[k] \in S
  BY <1>3, <1>12
<1>15. \A k \in 0..n : R[k] \in S
  <2>1. R[0] \in S
    BY <1>6, <1>11
  <2> QED
    BY <1>1, <1>14, <2>1, LoopStays
<1>16. WithoutThrough(R, t, x, n, S) /\ Without(t, x) = R[n]
  BY <1>11, <1>12, <1>13, <1>15 DEF WithoutThrough
<1> QED
  BY <1>16 DEF n, S

LEMMA WithoutSteps ==
  ASSUME NEW C, NEW x
  PROVE  /\ Without(<<>>, x) = <<>>
         /\ \A t \in Seq(C) : Without(t, x) \in Seq(C)
         /\ \A t \in Seq(C), c \in C :
                Without(Append(t, c), x) = Unless(Without(t, x), c, x)
<1>1. Without(<<>>, x) = <<>>
  <2>1. <<>> \in Seq(C) /\ Len(<<>>) = 0
    OBVIOUS
  <2>2. PICK R : WithoutThrough(R, <<>>, x, 0, Seq(C)) /\ Without(<<>>, x) = R[0]
    BY <2>1, WithoutRun
  <2> QED
    BY <2>2 DEF WithoutThrough
<1>2. ASSUME NEW t \in Seq(C) PROVE Without(t, x) \in Seq(C)
  <2>1. PICK R : WithoutThrough(R, t, x, Len(t), Seq(C)) /\ Without(t, x) = R[Len(t)]
    BY WithoutRun
  <2>2. Len(t) \in 0..Len(t)
    OBVIOUS
  <2> QED
    BY <2>1, <2>2 DEF WithoutThrough
<1>3. ASSUME NEW t \in Seq(C), NEW c \in C
      PROVE  Without(Append(t, c), x) = Unless(Without(t, x), c, x)
  <2> DEFINE n == Len(t)
             u == Append(t, c)
  <2>1. n \in Nat /\ u \in Seq(C) /\ Len(u) = n + 1 /\ u[n + 1] = c
        /\ \A i \in 1..n : u[i] = t[i]
    BY AppendProperties
  <2>2. PICK R : WithoutThrough(R, t, x, n, Seq(C)) /\ Without(t, x) = R[n]
    BY WithoutRun
  <2> HIDE DEF n, u
  <2>3. PICK Q : WithoutThrough(Q, u, x, n + 1, Seq(C)) /\ Without(u, x) = Q[n + 1]
    BY <2>1, WithoutRun
  <2>4. R[0] = Q[0]
    BY <2>2, <2>3 DEF WithoutThrough
  <2>5. \A k \in 1..n : R[k] = Unless(R[k - 1], t[k], x) /\ Q[k] = Unless(Q[k - 1], u[k], x)
    BY <2>1, <2>2, <2>3 DEF WithoutThrough
  <2>6. Alike(R, Q, n)
    BY <2>1, <2>4, <2>5 DEF Alike
  <2>7. R[n] = Q[n]
    <3>0. n \in Nat
      BY <2>1
    <3>1. n \in 0..n
      BY <3>0
    <3>2. \A i \in 0..n : R[i] = Q[i]
      BY <2>6, <3>0, SameRuns
    <3> QED
      BY <3>1, <3>2
  <2>8. n + 1 \in 1..(n + 1) /\ (n + 1) - 1 = n
    BY <2>1
  <2>9. Q[n + 1] = Unless(Q[n], u[n + 1], x)
    BY <2>3, <2>8 DEF WithoutThrough
  <2> QED
    BY <2>1, <2>2, <2>3, <2>7, <2>9 DEF u
<1> QED
  BY <1>1, <1>2, <1>3

FoundThrough(R, t, x, n, S) ==
    /\ R[0] = <<>>
    /\ \A k \in 0..n : R[k] \in S
    /\ \A k \in 1..n : R[k] = IfFound(R[k - 1], t[k], x)

LEMMA FoundRun ==
  ASSUME NEW C, NEW t \in Seq(C), NEW x
  PROVE  \E R : FoundThrough(R, t, x, Len(t), Seq(C)) /\ FoundIn(t, x) = R[Len(t)]
<1> DEFINE n == Len(t)
           S == Seq(C)
           g == [k \in 1..n |-> [y \in S |-> IfFound(y, t[k], x)]]
           Iter(h) == h = [u \in SUBSET (1..n) |->
                    IF u = {} THEN <<>>
                    ELSE IF Found(t[Max(u)], x) THEN Append(h[u \ {Max(u)}], t[Max(u)])
                    ELSE h[u \ {Max(u)}]]
           f == CHOOSE h : Iter(h)
<1>1. n \in Nat /\ DOMAIN t = 1..n /\ \A k \in 1..n : t[k] \in C
  OBVIOUS
<1>2. FoundIn(t, x) = f[1..n]
  <2>1. DOMAIN t = 1..n
    BY <1>1
  <2> HIDE DEF n
  <2> QED
    BY <2>1 DEF FoundIn, FoldLeft, MapThenFoldSet
<1> HIDE DEF n
<1>3. \A y \in S, k \in 1..n : IfFound(y, t[k], x) \in S
  BY <1>1 DEF IfFound
<1>4. g \in [1..n -> [S -> S]]
  BY <1>3
<1>5. \A u \in SUBSET (1..n) : u # {} => Max(u) \in 1..n /\ u \ {Max(u)} \in SUBSET (1..n)
  BY <1>1, MaxIs
<1>6. <<>> \in S
  OBVIOUS
<1>7. PICK h \in [SUBSET (1..n) -> S] : Folds(n, S, <<>>, g, h)
  <2> HIDE DEF g, S
  <2> QED
    BY <1>1, <1>4, <1>6, FoldExists
<1>8. Iter(h)
  <2>1. \A u \in SUBSET (1..n) : h[u] = IF u = {} THEN <<>> ELSE g[Max(u)][h[u \ {Max(u)}]]
    BY <1>7 DEF Folds
  <2>2. \A u \in SUBSET (1..n) : u # {} =>
            g[Max(u)][h[u \ {Max(u)}]] = IfFound(h[u \ {Max(u)}], t[Max(u)], x)
    BY <1>5
  <2> HIDE DEF g
  <2>3. h = [u \in SUBSET (1..n) |-> h[u]]
    OBVIOUS
  <2>4. h = [u \in SUBSET (1..n) |-> IF u = {} THEN <<>>
                                     ELSE IfFound(h[u \ {Max(u)}], t[Max(u)], x)]
    BY <2>1, <2>2, <2>3, Zenon
  <2> QED
    BY <2>4 DEF IfFound
<1>9. Iter(f)
  <2> HIDE DEF Iter
  <2> QED
    BY <1>8
<1>10. f = [u \in SUBSET (1..n) |-> IF u = {} THEN <<>>
                                    ELSE IfFound(f[u \ {Max(u)}], t[Max(u)], x)]
  <2> HIDE DEF f
  <2> QED
    BY <1>9 DEF IfFound
<1> HIDE DEF f
<1> DEFINE R == [k \in 0..n |-> f[1..k]]
<1>11. R[0] = <<>>
  <2>1. 1..0 = {} /\ {} \in SUBSET (1..n) /\ 0 \in 0..n
    BY <1>1
  <2>2. f[{}] = <<>>
    BY <1>10, <2>1, Zenon
  <2> QED
    BY <2>1, <2>2
<1>12. ASSUME NEW k \in 1..n PROVE R[k] = IfFound(R[k - 1], t[k], x)
  <2>1. /\ 1..k \in SUBSET (1..n) /\ 1..k # {} /\ Max(1..k) = k
        /\ (1..k) \ {k} = 1..(k - 1) /\ k \in 0..n /\ k - 1 \in 0..n
    BY <1>1, MaxRun
  <2>2. f[1..k] = IfFound(f[(1..k) \ {Max(1..k)}], t[Max(1..k)], x)
    BY <1>10, <2>1, Zenon
  <2> QED
    BY <2>1, <2>2
<1>13. n \in 0..n /\ FoundIn(t, x) = R[n]
  BY <1>1, <1>2
<1> HIDE DEF R, S
<1>14. \A k \in 1..n : R[k - 1] \in S => R[k] \in S
  BY <1>3, <1>12
<1>15. \A k \in 0..n : R[k] \in S
  <2>1. R[0] \in S
    BY <1>6, <1>11
  <2> QED
    BY <1>1, <1>14, <2>1, LoopStays
<1>16. FoundThrough(R, t, x, n, S) /\ FoundIn(t, x) = R[n]
  BY <1>11, <1>12, <1>13, <1>15 DEF FoundThrough
<1> QED
  BY <1>16 DEF n, S

LEMMA FoundSteps ==
  ASSUME NEW C, NEW x
  PROVE  /\ FoundIn(<<>>, x) = <<>>
         /\ \A t \in Seq(C) : FoundIn(t, x) \in Seq(C)
         /\ \A t \in Seq(C), c \in C :
                FoundIn(Append(t, c), x) = IfFound(FoundIn(t, x), c, x)
<1>1. FoundIn(<<>>, x) = <<>>
  <2>1. <<>> \in Seq(C) /\ Len(<<>>) = 0
    OBVIOUS
  <2>2. PICK R : FoundThrough(R, <<>>, x, 0, Seq(C)) /\ FoundIn(<<>>, x) = R[0]
    BY <2>1, FoundRun
  <2> QED
    BY <2>2 DEF FoundThrough
<1>2. ASSUME NEW t \in Seq(C) PROVE FoundIn(t, x) \in Seq(C)
  <2>1. PICK R : FoundThrough(R, t, x, Len(t), Seq(C)) /\ FoundIn(t, x) = R[Len(t)]
    BY FoundRun
  <2>2. Len(t) \in 0..Len(t)
    OBVIOUS
  <2> QED
    BY <2>1, <2>2 DEF FoundThrough
<1>3. ASSUME NEW t \in Seq(C), NEW c \in C
      PROVE  FoundIn(Append(t, c), x) = IfFound(FoundIn(t, x), c, x)
  <2> DEFINE n == Len(t)
             u == Append(t, c)
  <2>1. n \in Nat /\ u \in Seq(C) /\ Len(u) = n + 1 /\ u[n + 1] = c
        /\ \A i \in 1..n : u[i] = t[i]
    BY AppendProperties
  <2>2. PICK R : FoundThrough(R, t, x, n, Seq(C)) /\ FoundIn(t, x) = R[n]
    BY FoundRun
  <2> HIDE DEF n, u
  <2>3. PICK Q : FoundThrough(Q, u, x, n + 1, Seq(C)) /\ FoundIn(u, x) = Q[n + 1]
    BY <2>1, FoundRun
  <2>4. R[0] = Q[0]
    BY <2>2, <2>3 DEF FoundThrough
  <2>5. \A k \in 1..n : R[k] = IfFound(R[k - 1], t[k], x) /\ Q[k] = IfFound(Q[k - 1], u[k], x)
    BY <2>1, <2>2, <2>3 DEF FoundThrough
  <2>6. Alike(R, Q, n)
    BY <2>1, <2>4, <2>5 DEF Alike
  <2>7. R[n] = Q[n]
    <3>0. n \in Nat
      BY <2>1
    <3>1. n \in 0..n
      BY <3>0
    <3>2. \A i \in 0..n : R[i] = Q[i]
      BY <2>6, <3>0, SameRuns
    <3> QED
      BY <3>1, <3>2
  <2>8. n + 1 \in 1..(n + 1) /\ (n + 1) - 1 = n
    BY <2>1
  <2>9. Q[n + 1] = IfFound(Q[n], u[n + 1], x)
    BY <2>3, <2>8 DEF FoundThrough
  <2> QED
    BY <2>1, <2>2, <2>3, <2>7, <2>9 DEF u
<1> QED
  BY <1>1, <1>2, <1>3

-----------------------------------------------------------------------------
(* Words without what was between them *)

LEMMA FlattenRun ==
  ASSUME NEW C, NEW ws \in Seq(Seq(C))
  PROVE  \E R : /\ R[0] = <<>>
                /\ \A k \in 0..Len(ws) : R[k] \in Seq(C)
                /\ \A k \in 1..Len(ws) : R[k] = R[k - 1] \o ws[k]
                /\ FlattenSeq(ws) = R[Len(ws)]
<1> DEFINE n == Len(ws)
           S == Seq(C)
           g == [k \in 1..n |-> [y \in S |-> y \o ws[k]]]
           Iter(h) == h = [i \in 1..n |-> IF i = 1 THEN ws[i] ELSE h[i - 1] \o ws[i]]
           f == CHOOSE h : Iter(h)
<1>1. n \in Nat /\ \A k \in 1..n : ws[k] \in S
  OBVIOUS
<1>2. /\ n # 0 => FlattenSeq(ws) = f[n]
      /\ n = 0 => FlattenSeq(ws) = <<>>
  <2>1. n = 0 => ws = <<>>
    BY EmptySeq
  <2> QED
    BY <2>1 DEF FlattenSeq
<1> HIDE DEF n
<1>3. g \in [1..n -> [S -> S]] /\ <<>> \in S
  <2>1. \A y \in S, k \in 1..n : y \o ws[k] \in S
    BY <1>1
  <2> QED
    BY <2>1
<1>4. PICK h \in [SUBSET (1..n) -> S] : Folds(n, S, <<>>, g, h)
  <2> HIDE DEF g, S
  <2> QED
    BY <1>1, <1>3, FoldExists
<1> DEFINE Q == [k \in 0..n |-> h[1..k]]
<1>5. Q[0] = <<>>
  <2>1. 1..0 = {} /\ {} \in SUBSET (1..n) /\ 0 \in 0..n
    BY <1>1
  <2>2. h[{}] = <<>>
    BY <1>4, <2>1 DEF Folds
  <2> QED
    BY <2>1, <2>2
<1>6. ASSUME NEW k \in 1..n PROVE Q[k - 1] \in S /\ Q[k] \in S /\ Q[k] = Q[k - 1] \o ws[k]
  <2>1. /\ 1..k \in SUBSET (1..n) /\ 1..k # {} /\ Max(1..k) = k
        /\ (1..k) \ {k} = 1..(k - 1) /\ k \in 0..n /\ k - 1 \in 0..n
        /\ 1..(k - 1) \in SUBSET (1..n)
    BY <1>1, MaxRun
  <2>2. h[1..k] = g[k][h[1..(k - 1)]]
    <3> HIDE DEF g
    <3>1. h[1..k] = g[Max(1..k)][h[(1..k) \ {Max(1..k)}]]
      BY <1>4, <2>1, Zenon DEF Folds
    <3> QED
      BY <2>1, <3>1
  <2>3. h[1..(k - 1)] \in S /\ h[1..k] \in S
    BY <1>4, <2>1
  <2> QED
    BY <2>1, <2>2, <2>3
<1> HIDE DEF Q
<1>7. Iter([i \in 1..n |-> Q[i]])
  <2> DEFINE e == [i \in 1..n |-> Q[i]]
  <2>1. ASSUME NEW i \in 1..n PROVE e[i] = IF i = 1 THEN ws[i] ELSE e[i - 1] \o ws[i]
    <3>1. CASE i = 1
      <4>a. ws[i] \in S /\ i - 1 = 0
        BY <1>1, <3>1
      <4>b. Q[i] = Q[i - 1] \o ws[i]
        <5> HIDE DEF e, S
        <5> QED
          BY <1>6
      <4>1. Q[i] = Q[i - 1] \o ws[i] /\ ws[i] \in S /\ i - 1 = 0
        BY <4>a, <4>b
      <4>2. <<>> \o ws[i] = ws[i]
        BY <4>1, ConcatEmptySeq
      <4>3. Q[i - 1] = <<>>
        BY <1>5, <4>1, Zenon
      <4>4. Q[i] = ws[i]
        BY <4>1, <4>2, <4>3
      <4>5. e[i] = Q[i]
        OBVIOUS
      <4> HIDE DEF e
      <4> QED
        BY <3>1, <4>4, <4>5
    <3>2. CASE i # 1
      <4>1. i - 1 \in 1..n
        BY <1>1, <3>2
      <4> QED
        BY <1>6, <3>2, <4>1
    <3> QED
      BY <3>1, <3>2
  <2>2. e = [i \in 1..n |-> e[i]]
    OBVIOUS
  <2> HIDE DEF e
  <2>3. Iter(e)
    BY <2>1, <2>2, Zenon
  <2> HIDE DEF Iter
  <2> QED
    BY <2>3 DEF e
<1>8. Iter(f)
  <2> HIDE DEF Iter
  <2> QED
    BY <1>7
<1> HIDE DEF f
<1> DEFINE R == [k \in 0..n |-> IF k = 0 THEN <<>> ELSE f[k]]
<1>9. R[0] = <<>>
  <2>1. 0 \in 0..n
    BY <1>1
  <2> QED
    BY <2>1
<1>10. ASSUME NEW k \in 1..n, R[k - 1] \in S PROVE R[k] \in S /\ R[k] = R[k - 1] \o ws[k]
  <2>1. k \in 0..n /\ k # 0 /\ k - 1 \in 0..n
    BY <1>1
  <2>2. R[k] = f[k] /\ f[k] = IF k = 1 THEN ws[k] ELSE f[k - 1] \o ws[k]
    BY <1>8, <2>1, Zenon
  <2>3. CASE k = 1
    <3>1. R[k - 1] = <<>> /\ ws[k] \in S
      BY <1>1, <1>9, <2>3
    <3>2. <<>> \o ws[k] = ws[k]
      BY <3>1, ConcatEmptySeq
    <3> QED
      BY <2>2, <2>3, <3>1, <3>2
  <2>4. CASE k # 1
    <3>1. R[k - 1] = f[k - 1]
      BY <1>1, <2>1, <2>4
    <3>2. R[k] = R[k - 1] \o ws[k]
      BY <2>2, <2>4, <3>1
    <3> HIDE DEF R
    <3>3. R[k - 1] \o ws[k] \in S
      BY <1>1, <1>10, ConcatProperties
    <3> QED
      BY <3>2, <3>3
  <2> QED
    BY <2>3, <2>4
<1>11. n \in 0..n /\ FlattenSeq(ws) = R[n]
  BY <1>1, <1>2
<1> HIDE DEF R, S
<1>12. \A k \in 0..n : R[k] \in S
  <2>1. R[0] \in S
    BY <1>3, <1>9
  <2>2. \A k \in 1..n : R[k - 1] \in S => R[k] \in S
    BY <1>10
  <2> QED
    BY <1>1, <2>1, <2>2, LoopStays
<1>13. \A k \in 1..n : R[k] = R[k - 1] \o ws[k]
  <2>1. \A k \in 1..n : k - 1 \in 0..n
    BY <1>1
  <2> QED
    BY <1>10, <1>12, <2>1
<1> QED
  BY <1>9, <1>11, <1>12, <1>13 DEF n, S

LEMMA FlattenSteps ==
  ASSUME NEW C
  PROVE  /\ FlattenSeq(<<>>) = <<>>
         /\ \A ws \in Seq(Seq(C)) : FlattenSeq(ws) \in Seq(C)
         /\ \A ws \in Seq(Seq(C)), w \in Seq(C) :
                FlattenSeq(Append(ws, w)) = FlattenSeq(ws) \o w
<1>1. FlattenSeq(<<>>) = <<>>
  BY DEF FlattenSeq
<1>2. ASSUME NEW ws \in Seq(Seq(C)) PROVE FlattenSeq(ws) \in Seq(C)
  <2>1. Len(ws) \in 0..Len(ws)
    OBVIOUS
  <2> QED
    BY <2>1, FlattenRun
<1>3. ASSUME NEW ws \in Seq(Seq(C)), NEW w \in Seq(C)
      PROVE  FlattenSeq(Append(ws, w)) = FlattenSeq(ws) \o w
  <2> DEFINE n == Len(ws)
             u == Append(ws, w)
  <2>1. n \in Nat /\ u \in Seq(Seq(C)) /\ Len(u) = n + 1 /\ u[n + 1] = w
        /\ \A i \in 1..n : u[i] = ws[i]
    BY AppendProperties
  <2>2. PICK R : /\ R[0] = <<>>
                 /\ \A k \in 1..n : R[k] = R[k - 1] \o ws[k]
                 /\ FlattenSeq(ws) = R[n]
    BY FlattenRun
  <2>3. PICK Q : /\ Q[0] = <<>>
                 /\ \A k \in 1..Len(u) : Q[k] = Q[k - 1] \o u[k]
                 /\ FlattenSeq(u) = Q[Len(u)]
    BY <2>1, FlattenRun
  <2> HIDE DEF n, u
  <2>4. Alike(R, Q, n)
    <3>1. \A k \in 1..n : k \in 1..Len(u)
      BY <2>1
    <3>2. \A k \in 1..n : R[k] = R[k - 1] \o ws[k] /\ Q[k] = Q[k - 1] \o ws[k]
      BY <2>1, <2>2, <2>3, <3>1
    <3> QED
      BY <2>2, <2>3, <3>2 DEF Alike
  <2>5. \A i \in 0..n : R[i] = Q[i]
    <3>1. n \in Nat
      BY <2>1
    <3> QED
      BY <2>4, <3>1, SameRuns
  <2>6. n + 1 \in 1..Len(u) /\ (n + 1) - 1 = n /\ n \in 0..n
    BY <2>1
  <2>7. Q[n + 1] = Q[n] \o w
    BY <2>1, <2>3, <2>6
  <2> QED
    BY <2>1, <2>2, <2>3, <2>5, <2>6, <2>7 DEF u
<1> QED
  BY <1>1, <1>2, <1>3

-----------------------------------------------------------------------------
(* Lines *)

\* The place behind c begins a line.
AtLine(t, c) == c = 0 \/ t[c] = NewLine

LEMMA LineStart ==
  ASSUME NEW C, NEW t \in Seq(C), NEW c \in 0..Len(t), AtLine(t, c)
  PROVE  \E X \in Seq(Seq(C)) : SplitTo(t, NewLine, c) = Append(X, <<>>)
<1>1. CASE c = 0
  <2>1. <<>> \in Seq(Seq(C)) /\ Append(<<>>, <<>>) = <<<<>>>>
    OBVIOUS
  <2> QED
    BY <1>1, <2>1, SplitSteps
<1>2. CASE c # 0
  <2>1. c \in 1..Len(t) /\ c - 1 \in 0..Len(t) /\ t[c] = NewLine
    BY <1>2 DEF AtLine
  <2>2. SplitTo(t, NewLine, c - 1) \in Seq(Seq(C))
    BY <2>1, SplitSteps DEF Parts
  <2>3. SplitTo(t, NewLine, c) = AddTo(SplitTo(t, NewLine, c - 1), t[c], NewLine)
    BY <2>1, SplitSteps
  <2> QED
    BY <2>1, <2>2, <2>3 DEF AddTo
<1> QED
  BY <1>1, <1>2

LEMMA SubSeqGrows ==
  ASSUME NEW C, NEW t \in Seq(C), NEW c \in 0..Len(t), NEW k \in (c + 1)..Len(t)
  PROVE  /\ SubSeq(t, c + 1, k) = Append(SubSeq(t, c + 1, k - 1), t[k])
         /\ SubSeq(t, c + 1, k - 1) \in Seq(C)
         /\ t[k] \in C
<1> DEFINE u == SubSeq(t, c + 1, k - 1)
           v == SubSeq(t, c + 1, k)
           w == Append(u, t[k])
<1>1. /\ Len(t) \in Nat /\ c \in Nat /\ k \in Nat /\ c < k /\ k <= Len(t) /\ t[k] \in C
      /\ c + 1 \in Int /\ k - 1 \in Int /\ \A i \in (c + 1)..k : t[i] \in C
  OBVIOUS
<1>2. u \in Seq(C) /\ Len(u) = k - 1 - c /\ \A i \in 1..(k - 1 - c) : u[i] = t[c + i]
  <2>1. \A i \in (c + 1)..(k - 1) : t[i] \in C
    BY <1>1
  <2>2. /\ u \in Seq(C)
        /\ Len(u) = IF c + 1 <= k - 1 THEN (k - 1) - (c + 1) + 1 ELSE 0
        /\ \A i \in 1..((k - 1) - (c + 1) + 1) : u[i] = t[(c + 1) + i - 1]
    BY <1>1, <2>1, SubSeqProperties
  <2> HIDE DEF u
  <2> QED
    BY <1>1, <2>2
<1>3. v \in Seq(C) /\ Len(v) = k - c /\ \A i \in 1..(k - c) : v[i] = t[c + i]
  <2>1. /\ v \in Seq(C)
        /\ Len(v) = IF c + 1 <= k THEN k - (c + 1) + 1 ELSE 0
        /\ \A i \in 1..(k - (c + 1) + 1) : v[i] = t[(c + 1) + i - 1]
    BY <1>1, SubSeqProperties
  <2> HIDE DEF v
  <2> QED
    BY <1>1, <2>1
<1> HIDE DEF u, v
<1>4. w \in Seq(C) /\ Len(w) = k - c /\ \A i \in 1..(k - c) : w[i] = t[c + i]
  <2>1. /\ w \in Seq(C) /\ Len(w) = Len(u) + 1 /\ w[Len(u) + 1] = t[k]
        /\ \A i \in 1..Len(u) : w[i] = u[i]
    BY <1>1, <1>2, AppendProperties
  <2> HIDE DEF w
  <2>2. Len(w) = k - c /\ w[k - c] = t[k]
    BY <1>1, <1>2, <2>1
  <2>3. ASSUME NEW i \in 1..(k - c) PROVE w[i] = t[c + i]
    <3>1. CASE i = k - c
      BY <1>1, <2>2, <3>1
    <3>2. CASE i # k - c
      <4>1. i \in 1..(k - 1 - c)
        BY <1>1, <3>2
      <4> QED
        BY <1>2, <2>1, <4>1
    <3> QED
      BY <3>1, <3>2
  <2> QED
    BY <2>1, <2>2, <2>3
<1> HIDE DEF w
<1>5. v = w
  <2>1. \A i \in 1..(k - c) : v[i] = w[i]
    BY <1>3, <1>4
  <2> QED
    BY <1>3, <1>4, <2>1, SeqEqual
<1> QED
  BY <1>1, <1>2, <1>5 DEF u, v, w

\* Up to the end of a part a text only adds to its last part.
LEMMA PartGrows ==
  ASSUME NEW C, NEW t \in Seq(C), NEW sep, NEW c \in 0..Len(t), NEW n \in c..Len(t),
         NEW X \in Seq(Seq(C)), SplitTo(t, sep, c) = Append(X, <<>>),
         \A k \in (c + 1)..n : t[k] # sep
  PROVE  SplitTo(t, sep, n) = Append(X, SubSeq(t, c + 1, n))
<1> DEFINE Grown(j) == SplitTo(t, sep, j) = Append(X, SubSeq(t, c + 1, j))
           m == n - c
           W == {k \in 0..m : ~Grown(c + k)}
<1>1. m \in Nat /\ c + m = n /\ c + 0 = c /\ c \in Nat /\ Len(t) \in Nat /\ n <= Len(t)
  OBVIOUS
<1> HIDE DEF m
<1>2. Grown(c)
  <2>1. c \in Int /\ c + 1 \in Int /\ c < c + 1
    BY <1>1
  <2>2. SubSeq(t, c + 1, c) = <<>>
    BY <2>1, SubSeqEmpty
  <2> QED
    BY <2>2
<1>3. ASSUME NEW j \in (c + 1)..n, Grown(j - 1) PROVE Grown(j)
  <2> DEFINE l == SubSeq(t, c + 1, j - 1)
  <2>1. j \in (c + 1)..Len(t) /\ j \in 1..Len(t)
    BY <1>1
  <2>2. l \in Seq(C) /\ t[j] \in C /\ SubSeq(t, c + 1, j) = Append(l, t[j])
    BY <2>1, SubSeqGrows
  <2>3. SplitTo(t, sep, j - 1) = Append(X, l)
    BY <1>3
  <2>4. t[j] # sep
    OBVIOUS
  <2>5. SplitTo(t, sep, j) = AddTo(SplitTo(t, sep, j - 1), t[j], sep)
    BY <2>1, SplitSteps
  <2> HIDE DEF l
  <2>6. AddTo(Append(X, l), t[j], sep) = Append(X, Append(l, t[j]))
    <3>1. AddsOn(X, l, t[j], sep)
      BY <2>2, <2>4, AddOn
    <3> QED
      BY <3>1, Zenon DEF AddsOn
  <2>7. SplitTo(t, sep, j) = Append(X, SubSeq(t, c + 1, j))
    BY <2>2, <2>3, <2>5, <2>6, Zenon
  <2> QED
    BY <2>7
<1> HIDE DEF Grown
<1>4. W \in SUBSET (0..m) /\ (\A k \in W : ~Grown(c + k)) /\ (\A k \in 0..m : k \notin W => Grown(c + k))
  OBVIOUS
<1> HIDE DEF W
<1>5. 0 \notin W
  BY <1>1, <1>2, <1>4
<1>6. W = {}
  <2> SUFFICES ASSUME W # {} PROVE FALSE
    OBVIOUS
  <2>1. PICK k \in 1..m : k \in W /\ k - 1 \in 0..m /\ k - 1 \notin W
    BY <1>1, <1>4, <1>5, First
  <2>2. c + k \in (c + 1)..n /\ (c + k) - 1 = c + (k - 1)
    BY <1>1
  <2>3. Grown(c + (k - 1)) /\ ~Grown(c + k)
    BY <1>4, <2>1
  <2> QED
    BY <1>3, <2>2, <2>3
<1>7. Grown(n)
  <2>1. m \in 0..m
    BY <1>1
  <2> QED
    BY <1>1, <1>4, <1>6, <2>1
<1> QED
  BY <1>7 DEF Grown

LEMMA PartsGrow ==
  ASSUME NEW C, NEW p \in Parts(C), NEW c \in C, NEW sep
  PROVE  \A i \in DOMAIN p : /\ i \in DOMAIN AddTo(p, c, sep)
                             /\ p[i] \in Seq(C) /\ AddTo(p, c, sep)[i] \in Seq(C)
                             /\ Len(p[i]) <= Len(AddTo(p, c, sep)[i])
<1>1. PICK X \in Seq(Seq(C)), l \in Seq(C) : p = Append(X, l)
  BY LastPart
<1> DEFINE m == Append(l, c)
           q == Append(p, <<>>)
           r == Append(X, m)
           n == Len(X)
<1>2. p \in Seq(Seq(C)) /\ <<>> \in Seq(C) /\ m \in Seq(C) /\ Len(m) = Len(l) + 1
      /\ Len(l) \in Nat /\ n \in Nat
  BY AppendProperties DEF Parts
<1>3. Len(p) = n + 1 /\ p[n + 1] = l /\ (\A i \in 1..n : p[i] = X[i]) /\ \A i \in 1..n : X[i] \in Seq(C)
  BY <1>1, AppendProperties
<1>4. q \in Seq(Seq(C)) /\ Len(q) = Len(p) + 1 /\ \A i \in 1..Len(p) : q[i] = p[i]
  BY <1>2, AppendProperties
<1> HIDE DEF m
<1>5. r \in Seq(Seq(C)) /\ Len(r) = n + 1 /\ r[n + 1] = m /\ \A i \in 1..n : r[i] = X[i]
  BY <1>2, AppendProperties
<1>6. AddTo(p, c, sep) \in {q, r}
  BY <1>1, AddToIs DEF m
<1>7. /\ DOMAIN p = 1..(n + 1) /\ DOMAIN q = 1..(n + 1 + 1) /\ DOMAIN r = 1..(n + 1)
      /\ \A i \in 1..(n + 1) : i = n + 1 \/ i \in 1..n
  BY <1>2, <1>3, <1>4, <1>5
<1> HIDE DEF q, r, n
<1>8. ASSUME NEW i \in DOMAIN p
      PROVE  /\ i \in DOMAIN q /\ q[i] = p[i] /\ p[i] \in Seq(C)
             /\ i \in DOMAIN r /\ r[i] \in Seq(C) /\ Len(p[i]) <= Len(r[i])
  <2>1. i \in 1..(n + 1) /\ i \in DOMAIN q /\ i \in DOMAIN r /\ i \in 1..Len(p)
    BY <1>2, <1>3, <1>7
  <2>2. CASE i = n + 1
    BY <1>2, <1>3, <1>4, <1>5, <2>1, <2>2
  <2>3. CASE i \in 1..n
    <3>1. p[i] = X[i] /\ r[i] = X[i] /\ X[i] \in Seq(C)
      BY <1>3, <1>5, <2>3
    <3>2. Len(X[i]) \in Nat
      BY <3>1, LenProperties
    <3> QED
      BY <1>4, <2>1, <3>1, <3>2
  <2> QED
    BY <1>7, <2>1, <2>2, <2>3
<1>9. \A i \in DOMAIN p : Len(p[i]) \in Nat
  BY <1>8, LenProperties
<1> QED
  BY <1>6, <1>8, <1>9

\* A text of short lines has no long line on the way.
Short(t, k) == \A i \in DOMAIN SplitTo(t, NewLine, k) : Len(SplitTo(t, NewLine, k)[i]) <= BUFSIZE
LinesFit(t)     == \A i \in DOMAIN LinesOf(t) : Len(LinesOf(t)[i]) <= BUFSIZE

LEMMA FitsOnTheWay ==
  ASSUME NEW C, NEW t \in Seq(C), LinesFit(t)
  PROVE  \A k \in 0..Len(t) : Short(t, k)
<1> DEFINE n == Len(t)
           W == {j \in 0..n : ~Short(t, n - j)}
<1>1. n \in Nat
  OBVIOUS
<1>2. Short(t, n)
  BY SplitSteps DEF Short, LinesFit, LinesOf
<1>3. ASSUME NEW k \in 1..n, Short(t, k) PROVE Short(t, k - 1)
  <2> DEFINE p == SplitTo(t, NewLine, k - 1)
             q == SplitTo(t, NewLine, k)
  <2>1. p \in Parts(C) /\ q = AddTo(p, t[k], NewLine) /\ t[k] \in C
    <3>1. k \in 1..Len(t) /\ k - 1 \in 0..Len(t) /\ t[k] \in C
      BY <1>1
    <3> QED
      BY <3>1, SplitSteps
  <2>2. BUFSIZE \in Nat
    BY GrepAssumption
  <2>3. \A i \in DOMAIN q : Len(q[i]) <= BUFSIZE
    BY <1>3, Zenon DEF Short
  <2> HIDE DEF p, q
  <2>4. ASSUME NEW i \in DOMAIN p PROVE Len(p[i]) <= BUFSIZE
    <3>1. i \in DOMAIN q /\ p[i] \in Seq(C) /\ q[i] \in Seq(C) /\ Len(p[i]) <= Len(q[i])
      BY <2>1, PartsGrow
    <3>2. Len(p[i]) \in Nat /\ Len(q[i]) \in Nat
      BY <3>1, LenProperties
    <3> QED
      BY <2>2, <2>3, <3>1, <3>2
  <2> QED
    BY <2>4 DEF Short, p
<1> HIDE DEF n
<1>4. W \in SUBSET (0..n) /\ (\A j \in W : ~Short(t, n - j)) /\ (\A j \in 0..n : j \notin W => Short(t, n - j))
  OBVIOUS
<1> HIDE DEF W
<1>5. 0 \notin W
  <2>1. n - 0 = n
    BY <1>1
  <2> QED
    BY <1>2, <1>4, <2>1
<1>6. W = {}
  <2> SUFFICES ASSUME W # {} PROVE FALSE
    OBVIOUS
  <2>1. PICK j \in 1..n : j \in W /\ j - 1 \in 0..n /\ j - 1 \notin W
    BY <1>1, <1>4, <1>5, First
  <2>2. n - (j - 1) \in 1..n /\ n - (j - 1) - 1 = n - j
    BY <1>1
  <2>3. Short(t, n - (j - 1)) /\ ~Short(t, n - j)
    BY <1>4, <2>1
  <2> QED
    BY <1>3, <2>2, <2>3
<1>7. ASSUME NEW k \in 0..n PROVE Short(t, k)
  <2>1. n - k \in 0..n /\ n - (n - k) = k
    BY <1>1
  <2> QED
    BY <1>4, <1>6, <2>1
<1> QED
  BY <1>7 DEF n

-----------------------------------------------------------------------------
(* grep *)

LEMMA LineEndIs ==
  ASSUME last \in Nat, line_start \in 0..last
  PROVE  /\ line_end \in line_start..last
         /\ line_end = last \/ data[line_end] = NewLine
         /\ \A j \in line_start..(line_end - 1) : data[j] # NewLine
<1> DEFINE T == {i \in line_start..last : i = last \/ data[i] = NewLine}
<1>1. T \in SUBSET Nat /\ last \in T
  OBVIOUS
<1>2. PICK e \in T : \A i \in T : e <= i
  BY <1>1, Least
<1>3. e \in line_start..last /\ (e = last \/ data[e] = NewLine)
  OBVIOUS
<1>4. \A j \in line_start..(e - 1) : data[j] # NewLine
  <2> SUFFICES ASSUME NEW j \in line_start..(e - 1), data[j] = NewLine PROVE FALSE
    OBVIOUS
  <2>1. j \in line_start..last /\ j < e
    BY <1>3
  <2>2. j \in T
    BY <2>1
  <2> QED
    BY <1>2, <1>3, <2>1, <2>2
<1> QED
  BY <1>3, <1>4, Zenon DEF line_end

LEMMA NothingFound == \A s : ~Found(<<>>, s)
BY DEF Found

LEMMA FoundOne ==
  ASSUME NEW C, NEW s, NEW X \in Seq(Seq(C)), NEW l \in Seq(C)
  PROVE  /\ FoundIn(Append(X, l), s) = IfFound(FoundIn(X, s), l, s)
         /\ FoundIn(Append(X, <<>>), s) = FoundIn(X, s)
<1> DEFINE D == Seq(C)
<1> HIDE DEF D
<1>1. X \in Seq(D) /\ l \in D
  BY DEF D
<1>2. FoundIn(Append(X, l), s) = IfFound(FoundIn(X, s), l, s)
  BY <1>1, FoundSteps
<1>3. <<>> \in D
  BY DEF D
<1>4. FoundIn(Append(X, <<>>), s) = IfFound(FoundIn(X, s), <<>>, s)
  <2> DEFINE e == <<>>
  <2>1. e \in D
    BY <1>3
  <2> HIDE DEF e
  <2>2. FoundIn(Append(X, e), s) = IfFound(FoundIn(X, s), e, s)
    BY <1>1, <2>1, FoundSteps
  <2> QED
    BY <2>2 DEF e
<1>5. ~Found(<<>>, s)
  BY NothingFound
<1> QED
  BY <1>2, <1>4, <1>5 DEF IfFound

\* Behind c a line begins or ends, or the text.
Resumes(t, c) == c = Len(t) \/ t[c + 1] = NewLine \/ AtLine(t, c)

\* Of a text of lines that fit, lines are those with s up to c.
Printed(t, s, lines, c) == LinesFit(t) => lines = FoundIn(SplitTo(t, NewLine, c), s) /\ Resumes(t, c)

\* The line from c to n has been searched.
LEMMA SearchOne ==
  ASSUME NEW C, NEW t \in Seq(C), NEW s, NEW lines, NEW c \in 0..Len(t), NEW n \in c..Len(t),
         Printed(t, s, lines, c), \A k \in (c + 1)..n : t[k] # NewLine,
         n - c <= BUFSIZE, n = Len(t) \/ t[n + 1] = NewLine \/ n - c = BUFSIZE
  PROVE  Printed(t, s, IfFound(lines, SubSeq(t, c + 1, n), s), n)
<1> DEFINE line == SubSeq(t, c + 1, n)
<1> SUFFICES ASSUME LinesFit(t)
             PROVE  IfFound(lines, line, s) = FoundIn(SplitTo(t, NewLine, n), s) /\ Resumes(t, n)
  BY DEF Printed
<1>0. c \in Nat /\ n \in Nat /\ Len(t) \in Nat /\ c <= n /\ n <= Len(t) /\ BUFSIZE \in Nat
      /\ \A i \in 1..Len(t) : t[i] \in C
  BY GrepAssumption
<1>1. lines = FoundIn(SplitTo(t, NewLine, c), s) /\ Resumes(t, c)
  BY DEF Printed
<1>2. CASE AtLine(t, c)
  <2>1. PICK X \in Seq(Seq(C)) : SplitTo(t, NewLine, c) = Append(X, <<>>)
    BY <1>2, LineStart
  <2>2. SplitTo(t, NewLine, n) = Append(X, line) /\ line \in Seq(C) /\ <<>> \in Seq(C)
    <3>1. SplitTo(t, NewLine, n) = Append(X, line)
      BY <2>1, PartGrows
    <3>2. \A k \in (c + 1)..n : t[k] \in C
      BY <1>0
    <3>3. c + 1 \in Int /\ n \in Int
      BY <1>0
    <3>4. line \in Seq(C)
      BY <3>2, <3>3, SubSeqProperties
    <3> QED
      BY <3>1, <3>4
  <2>3. lines = FoundIn(X, s)
    BY <1>1, <2>1, <2>2, FoundOne
  <2>4. FoundIn(Append(X, line), s) = IfFound(FoundIn(X, s), line, s)
    BY <2>2, FoundOne
  <2>5. Resumes(t, n)
    <3> SUFFICES ASSUME n # Len(t), t[n + 1] # NewLine PROVE FALSE
      BY DEF Resumes
    <3>1. n + 1 \in c..Len(t) /\ n + 1 \in 0..Len(t) /\ n - c = BUFSIZE /\ n + 1 \in Int /\ c + 1 \in Int
      BY <1>0
    <3>2. \A k \in (c + 1)..(n + 1) : t[k] # NewLine /\ t[k] \in C
      BY <1>0, <3>1
    <3> DEFINE long == SubSeq(t, c + 1, n + 1)
    <3>3. SplitTo(t, NewLine, n + 1) = Append(X, long)
      <4>1. \A k \in (c + 1)..(n + 1) : t[k] # NewLine
        BY <3>2
      <4> HIDE DEF long
      <4> DEFINE m == n + 1
      <4>2. m \in c..Len(t) /\ \A k \in (c + 1)..m : t[k] # NewLine
        BY <3>1, <4>1
      <4> HIDE DEF m
      <4>3. SplitTo(t, NewLine, m) = Append(X, SubSeq(t, c + 1, m))
        BY <2>1, <4>2, PartGrows
      <4> QED
        BY <4>3 DEF m, long
    <3>4. long \in Seq(C) /\ Len(long) = BUFSIZE + 1
      <4>1. /\ long \in Seq(C)
            /\ Len(long) = IF c + 1 <= n + 1 THEN (n + 1) - (c + 1) + 1 ELSE 0
        BY <3>1, <3>2, SubSeqProperties
      <4> HIDE DEF long
      <4> QED
        BY <1>0, <3>1, <4>1
    <3>5. Short(t, n + 1)
      BY <3>1, FitsOnTheWay
    <3> HIDE DEF long
    <3> DEFINE p == Append(X, long)
               m == Len(X) + 1
    <3>6. p \in Seq(Seq(C)) /\ Len(p) = m /\ p[m] = long /\ Len(X) \in Nat
      BY <3>4, AppendProperties
    <3>7. \A i \in DOMAIN p : Len(p[i]) <= BUFSIZE
      BY <3>3, <3>5 DEF Short
    <3> HIDE DEF p
    <3>8. m \in DOMAIN p
      BY <3>6
    <3>9. Len(long) <= BUFSIZE
      BY <3>6, <3>7, <3>8
    <3> QED
      BY <3>4, <3>9, GrepAssumption
  <2> QED
    BY <2>2, <2>3, <2>4, <2>5
<1>3. CASE ~AtLine(t, c)
  <2>1. n = c
    <3>1. c = Len(t) \/ t[c + 1] = NewLine
      BY <1>1, <1>3 DEF Resumes
    <3>2. n # c => c + 1 \in (c + 1)..n /\ c # Len(t)
      BY <1>0
    <3> QED
      BY <3>1, <3>2
  <2>2. line = <<>>
    <3>1. c + 1 \in Int /\ c \in Int /\ c < c + 1
      BY <1>0
    <3> QED
      BY <2>1, <3>1, SubSeqEmpty
  <2> QED
    BY <1>1, <2>1, <2>2, NothingFound DEF IfFound
<1> QED
  BY <1>2, <1>3

\* An end of line ends the line.
LEMMA PassEnd ==
  ASSUME NEW C, NEW t \in Seq(C), NEW s, NEW lines, NEW n \in 1..Len(t),
         Printed(t, s, lines, n - 1), t[n] = NewLine
  PROVE  Printed(t, s, lines, n)
<1>1. SplitTo(t, NewLine, n - 1) \in Seq(Seq(C)) /\ <<>> \in Seq(C) /\ n - 1 \in 0..Len(t)
  <2>1. n - 1 \in 0..Len(t)
    OBVIOUS
  <2>2. SplitTo(t, NewLine, n - 1) \in Parts(C)
    BY <2>1, SplitSteps
  <2> QED
    BY <2>1, <2>2 DEF Parts
<1>2. SplitTo(t, NewLine, n) = Append(SplitTo(t, NewLine, n - 1), <<>>)
  <2>1. SplitTo(t, NewLine, n) = AddTo(SplitTo(t, NewLine, n - 1), t[n], NewLine)
    BY SplitSteps
  <2> QED
    BY <2>1 DEF AddTo
<1>3. FoundIn(SplitTo(t, NewLine, n), s) = FoundIn(SplitTo(t, NewLine, n - 1), s)
  <2> DEFINE p == SplitTo(t, NewLine, n - 1)
  <2>1. p \in Seq(Seq(C)) /\ <<>> \in Seq(C)
    BY <1>1
  <2> HIDE DEF p
  <2>2. FoundIn(Append(p, <<>>), s) = FoundIn(p, s)
    BY <2>1, FoundOne
  <2> QED
    BY <1>2, <2>2 DEF p
<1>4. Resumes(t, n)
  BY DEF Resumes, AtLine
<1> QED
  BY <1>3, <1>4 DEF Printed

\* The buffer holds, from i0 on, the end of what was read of the file, and what
\* was printed is what is due up to there.
Buffered(i0) ==
    /\ text \in Text /\ pos \in 0..Len(text) /\ last \in 0..BUFSIZE /\ last <= pos
    /\ i0 \in 0..last
    /\ \A i \in i0..(last - 1) : data[i] = text[pos - last + i + 1]
    /\ Printed(text, word, out, pos - last + i0)

\* What the buffer holds has no end of line.
NoEnds == \A i \in 0..(last - 1) : data[i] # NewLine

\* A chunk that is not the last one fills the buffer.
Scanning == /\ line_start = 0 \/ line_start < last
            /\ cnt = 0 => line_start = 0 /\ pos = Len(text) /\ NoEnds
            /\ cnt # 0 => pos = Len(text) \/ last = BUFSIZE

\* No string of the text is cut, and the byte behind a full buffer is not an end
\* of line before grep writes NUL there.
Clean == /\ Nul \notin ToSet(text)
         /\ beyond # NewLine \/ Len(text) <= BUFSIZE

\* The byte behind a full buffer is what it was, or NUL.
Behind == data[BUFSIZE] \in {beyond, Nul}

GrepInv ==
    /\ DOMAIN data = 0..BUFSIZE
    /\ at = "read" /\ Clean => Buffered(0) /\ last < BUFSIZE /\ NoEnds /\ Behind
    /\ at = "scan" /\ Clean => Buffered(line_start) /\ Scanning /\ Behind
    /\ GrepFindsLines

LEMMA InitGrep == GrepInit => GrepInv
<1> SUFFICES ASSUME GrepInit PROVE GrepInv
  OBVIOUS
<1>1. DOMAIN data = 0..BUFSIZE /\ at = "idle"
  BY DEF GrepInit
<1> QED
  BY <1>1 DEF GrepInv, GrepFindsLines

LEMMA OpenNextGrep == GrepInv /\ OpenNext => GrepInv'
<1> SUFFICES ASSUME GrepInv, OpenNext PROVE GrepInv'
  OBVIOUS
<1>1. /\ text' \in Text /\ pos' = 0 /\ last' = 0 /\ out' = <<>> /\ at = "next" /\ at' = "read"
      /\ word' = word /\ BUFSIZE \in Nat \ {0} /\ beyond' = data'[BUFSIZE]
      /\ DOMAIN data' = 0..BUFSIZE
  BY GrepAssumption DEF OpenNext
<1>2. text' \in Seq(ToSet(text')) /\ Len(text') \in Nat
  <2>1. text' \in Seq(ToSet(text'))
    BY <1>1, GrepAssumption
  <2> QED
    BY <2>1, LenProperties
<1>3. Printed(text', word', out', 0)
  <2>1. SplitTo(text', NewLine, 0) = <<<<>>>>
    BY <1>2, SplitSteps
  <2>2. FoundIn(<<<<>>>>, word') = <<>>
    <3>1. <<>> \in Seq(Seq({})) /\ <<>> \in Seq({}) /\ Append(<<>>, <<>>) = <<<<>>>>
      OBVIOUS
    <3>2. FoundIn(Append(<<>>, <<>>), word') = FoundIn(<<>>, word')
      BY <3>1, FoundOne
    <3>3. FoundIn(<<>>, word') = <<>>
      BY FoundSteps
    <3> QED
      BY <3>1, <3>2, <3>3
  <2> QED
    BY <1>1, <2>1, <2>2 DEF Printed, Resumes, AtLine
<1>4. NoEnds'
  BY <1>1 DEF NoEnds
<1>5. Buffered(0)'
  <2>1. 0 - 0 + 0 = 0 /\ 0 \in 0..Len(text') /\ 0 \in 0..BUFSIZE /\ 0 \in 0..0 /\ 0 <= 0
        /\ \A i \in 0..(0 - 1) : FALSE
    BY <1>1, <1>2
  <2> QED
    BY <1>1, <1>3, <2>1 DEF Buffered
<1>6. last' < BUFSIZE /\ Behind'
  BY <1>1 DEF Behind
<1> QED
  BY <1>1, <1>4, <1>5, <1>6 DEF GrepInv, GrepFindsLines

LEMMA NoMoreFilesGrep == GrepInv /\ (NoMoreFiles \/ Close) => GrepInv'
<1> SUFFICES ASSUME GrepInv, NoMoreFiles \/ Close PROVE GrepInv'
  OBVIOUS
<1>1. at \in {"next", "close"} /\ at' \in {"next", "exit"} /\ data' = data
  BY DEF NoMoreFiles, Close
<1> QED
  BY <1>1 DEF GrepInv, GrepFindsLines

LEMMA ReadChunkGrep == GrepInv /\ ReadChunk => GrepInv'
<1> SUFFICES ASSUME GrepInv, ReadChunk PROVE GrepInv'
  OBVIOUS
<1> DEFINE rest == Len(text) - pos
           n    == IF rest < BUFSIZE - last THEN rest ELSE BUFSIZE - last
<1>0. at' = "scan" /\ DOMAIN data' = 0..BUFSIZE /\ text' = text /\ beyond' = beyond
  BY DEF ReadChunk
<1> SUFFICES ASSUME Clean PROVE (Buffered(line_start) /\ Scanning /\ Behind)'
  BY <1>0 DEF GrepInv, GrepFindsLines, Clean
<1>1. Buffered(0) /\ last < BUFSIZE /\ NoEnds /\ Behind
  BY DEF GrepInv, ReadChunk
<1>2. /\ text \in Text /\ pos \in 0..Len(text) /\ last \in 0..BUFSIZE /\ last <= pos
      /\ \A i \in 0..(last - 1) : data[i] = text[pos - last + i + 1]
      /\ Printed(text, word, out, pos - last + 0)
  BY <1>1 DEF Buffered
<1>3. BUFSIZE \in Nat /\ text \in Seq(ToSet(text)) /\ Len(text) \in Nat
  <2>1. text \in Seq(ToSet(text))
    BY <1>2, GrepAssumption
  <2> QED
    BY <2>1, LenProperties, GrepAssumption
<1>4. /\ n \in Nat /\ n <= rest /\ last + n <= BUFSIZE /\ pos + n <= Len(text)
      /\ n = rest \/ last + n = BUFSIZE
      /\ n = 0 => rest = 0
  BY <1>1, <1>2, <1>3
<1>5. /\ data' = [i \in 0..BUFSIZE |->
             IF i \in last..(last + n - 1) THEN text[pos + i - last + 1] ELSE data[i]]
      /\ pos' = pos + n /\ cnt' = n /\ last' = last + n /\ line_start' = 0
      /\ word' = word /\ text' = text /\ out' = out
  BY DEF ReadChunk
<1> HIDE DEF n
<1>6. Behind'
  <2>1. BUFSIZE \in 0..BUFSIZE /\ BUFSIZE \notin last..(last + n - 1)
    BY <1>2, <1>3, <1>4
  <2>2. data'[BUFSIZE] = data[BUFSIZE]
    BY <1>5, <2>1
  <2> QED
    BY <1>0, <1>1, <2>2 DEF Behind
<1>7. ASSUME NEW i \in 0..(last' - 1) PROVE data'[i] = text'[pos' - last' + i + 1]
  <2>1. i \in 0..BUFSIZE /\ pos' - last' = pos - last
    BY <1>2, <1>3, <1>4, <1>5
  <2>2. CASE i \in last..(last + n - 1)
    <3>1. data'[i] = text[pos + i - last + 1]
      BY <1>5, <2>1, <2>2
    <3>2. pos + i - last + 1 = pos - last + i + 1
      BY <1>2, <1>3, <2>1
    <3> QED
      BY <1>5, <2>1, <3>1, <3>2
  <2>3. CASE i \notin last..(last + n - 1)
    <3>1. data'[i] = data[i]
      BY <1>5, <2>1, <2>3
    <3>2. i \in 0..(last - 1)
      BY <1>2, <1>3, <1>4, <1>5, <2>3
    <3> QED
      BY <1>2, <1>5, <2>1, <3>1, <3>2
  <2> QED
    BY <2>2, <2>3
<1>8. cnt' = 0 => NoEnds'
  <2> SUFFICES ASSUME cnt' = 0, NEW i \in 0..(last' - 1) PROVE data'[i] # NewLine
    BY DEF NoEnds
  <2>1. n = 0 /\ i \in 0..(last - 1) /\ i \in 0..BUFSIZE /\ i \notin last..(last + n - 1)
    BY <1>2, <1>3, <1>5
  <2>2. data'[i] = data[i]
    BY <1>5, <2>1
  <2> QED
    BY <1>1, <2>1, <2>2 DEF NoEnds
<1>9. Buffered(0)'
  <2>1. pos' - last' + 0 = pos - last + 0
    BY <1>2, <1>3, <1>4, <1>5
  <2>2. Printed(text', word', out', pos' - last' + 0)
    BY <1>2, <1>5, <2>1
  <2>3. /\ pos' \in 0..Len(text') /\ last' \in 0..BUFSIZE /\ last' <= pos' /\ 0 \in 0..last'
        /\ text' \in Text
    BY <1>2, <1>3, <1>4, <1>5
  <2> QED
    BY <1>7, <2>2, <2>3 DEF Buffered
<1>10. Scanning'
  <2>1. cnt' = 0 => line_start' = 0 /\ pos' = Len(text') /\ NoEnds'
    BY <1>2, <1>3, <1>4, <1>5, <1>8
  <2>2. cnt' # 0 => pos' = Len(text') \/ last' = BUFSIZE
    BY <1>2, <1>3, <1>4, <1>5
  <2> QED
    BY <1>5, <2>1, <2>2 DEF Scanning
<1> QED
  BY <1>5, <1>6, <1>9, <1>10

LEMMA KeepUnfinishedGrep == GrepInv /\ KeepUnfinished => GrepInv'
<1> SUFFICES ASSUME GrepInv, KeepUnfinished PROVE GrepInv'
  OBVIOUS
<1> DEFINE n == last - line_start
<1>0. /\ at' = "read" /\ DOMAIN data' = 0..BUFSIZE /\ text' = text /\ beyond' = beyond
      /\ last' = n /\ word' = word /\ pos' = pos /\ out' = out
  BY DEF KeepUnfinished
<1> SUFFICES ASSUME Clean PROVE (Buffered(0) /\ last < BUFSIZE /\ NoEnds /\ Behind)'
  BY <1>0 DEF GrepInv, GrepFindsLines, Clean
<1>1. Buffered(line_start) /\ Scanning /\ Unfinished /\ Behind
  BY DEF GrepInv, KeepUnfinished
<1>2. /\ text \in Text /\ pos \in 0..Len(text) /\ last \in 0..BUFSIZE /\ last <= pos
      /\ line_start \in 0..last
      /\ \A i \in line_start..(last - 1) : data[i] = text[pos - last + i + 1]
      /\ Printed(text, word, out, pos - last + line_start)
  BY <1>1 DEF Buffered
<1>3. /\ BUFSIZE \in Nat /\ Len(text) \in Nat
      /\ \A k \in 1..Len(text) : text[k] # Nul
  <2>1. text \in Seq(ToSet(text))
    BY <1>2, GrepAssumption
  <2>2. \A k \in 1..Len(text) : text[k] # Nul
    BY <2>1 DEF Clean, ToSet
  <2> QED
    BY <2>1, <2>2, LenProperties, GrepAssumption
<1>4. line_start # 0 /\ last \in Nat /\ \A j \in line_start..(last - 1) : data[j] # NewLine
  <2>1. /\ line_end = last \/ data[line_end] = NewLine
        /\ \A j \in line_start..(line_end - 1) : data[j] # NewLine
    BY <1>2, <1>3, LineEndIs
  <2>2. data[line_end] # NewLine /\ line_start # 0
    BY <1>1 DEF Unfinished
  <2> QED
    BY <1>2, <1>3, <2>1, <2>2
<1>6. n \in Nat /\ n < BUFSIZE /\ n <= last /\ pos - n = pos - last + line_start
      /\ \A i \in 0..(n - 1) : line_start + i \in line_start..(last - 1)
  BY <1>2, <1>3, <1>4
<1>5. data' = [i \in 0..BUFSIZE |-> IF i < n THEN data[line_start + i]
                                    ELSE IF i \in {n, last} THEN Nul
                                    ELSE data[i]]
  <2> DEFINE K    == {i \in 0..(n - 1) : data[line_start + i] = Nul}
             kept == Min(K \cup {n})
  <2>1. data' = [i \in 0..BUFSIZE |-> IF i < kept THEN data[line_start + i]
                                      ELSE IF i \in {kept, last} THEN Nul
                                      ELSE data[i]]
    BY DEF KeepUnfinished
  <2> HIDE DEF n
  <2>2. ASSUME NEW i \in 0..(n - 1) PROVE data[line_start + i] # Nul
    <3>1. line_start + i \in line_start..(last - 1)
      BY <1>6
    <3>2. pos - last + (line_start + i) + 1 \in 1..Len(text)
      BY <1>2, <1>3, <3>1
    <3>3. data[line_start + i] = text[pos - last + (line_start + i) + 1]
      BY <1>2, <3>1
    <3> QED
      BY <1>3, <3>2, <3>3
  <2>3. K \cup {n} = {n}
    BY <2>2
  <2>4. Min({n}) = n
    <3> DEFINE T == {n}
    <3>1. T \in SUBSET Nat /\ n \in T /\ \A y \in T : n <= y
      BY <1>6
    <3> HIDE DEF T
    <3>2. Min(T) = n
      BY <3>1, MinUnique
    <3> QED
      BY <3>2 DEF T
  <2>5. kept = n
    BY <2>3, <2>4
  <2> HIDE DEF kept
  <2> QED
    BY <2>1, <2>5
<1> HIDE DEF n
<1>7. NoEnds'
  <2> SUFFICES ASSUME NEW i \in 0..(last' - 1) PROVE data'[i] # NewLine
    BY DEF NoEnds
  <2>1. i \in 0..(n - 1) /\ i < n /\ i \in 0..BUFSIZE
    BY <1>0, <1>3, <1>6
  <2>2. data'[i] = data[line_start + i]
    BY <1>5, <2>1
  <2> QED
    BY <1>4, <1>6, <2>1, <2>2
<1>8. ASSUME NEW i \in 0..(n - 1) PROVE data'[i] = text[pos - n + i + 1]
  <2>1. i \in 0..BUFSIZE /\ i < n /\ line_start + i \in line_start..(last - 1)
    BY <1>3, <1>6
  <2>2. data'[i] = data[line_start + i]
    BY <1>5, <2>1
  <2>3. data[line_start + i] = text[pos - last + (line_start + i) + 1]
    BY <1>2, <2>1
  <2>4. pos - last + (line_start + i) + 1 = pos - n + i + 1
    BY <1>2, <1>3, <1>6, <2>1
  <2> QED
    BY <2>2, <2>3, <2>4
<1>9. Buffered(0)'
  <2>1. /\ pos' \in 0..Len(text') /\ last' \in 0..BUFSIZE /\ last' <= pos' /\ 0 \in 0..last'
        /\ text' \in Text /\ pos' - last' + 0 = pos - last + line_start
    BY <1>0, <1>2, <1>3, <1>6
  <2>2. Printed(text', word', out', pos' - last' + 0)
    BY <1>0, <1>2, <2>1
  <2>3. \A i \in 0..(last' - 1) : data'[i] = text'[pos' - last' + i + 1]
    BY <1>0, <1>8
  <2> QED
    BY <2>1, <2>2, <2>3 DEF Buffered
<1>10. Behind'
  <2>1. BUFSIZE \in 0..BUFSIZE /\ ~(BUFSIZE < n)
    BY <1>3, <1>6
  <2>2. data'[BUFSIZE] \in {Nul, data[BUFSIZE]}
    BY <1>5, <2>1
  <2> QED
    BY <1>0, <1>1, <2>2 DEF Behind
<1> QED
  BY <1>0, <1>6, <1>7, <1>9, <1>10

\* Without NUL a line is printed whole.
LEMMA WholeString ==
  ASSUME NEW C, NEW l \in Seq(C), Nul \notin C
  PROVE  StringOf(l) = l
<1> DEFINE m == Len(l)
           T == {k \in 1..m : l[k] = Nul} \cup {m + 1}
<1>1. m \in Nat /\ \A k \in 1..m : l[k] # Nul
  OBVIOUS
<1>2. StringOf(l) = SubSeq(l, 1, Min(T) - 1)
  BY DEF StringOf
<1> HIDE DEF m
<1>3. T \in SUBSET Nat /\ m + 1 \in T /\ \A y \in T : m + 1 <= y
  BY <1>1
<1> HIDE DEF T
<1>4. Min(T) = m + 1
  BY <1>3, MinUnique
<1>5. Min(T) - 1 = m /\ m \in 0..Len(l)
  BY <1>1, <1>4 DEF m
<1>6. SubSeq(l, 1, Len(l)) = l
  BY <1>5, Prefix DEF m
<1> QED
  BY <1>2, <1>5, <1>6 DEF m

LEMMA SearchLineGrep == GrepInv /\ SearchLine => GrepInv'
<1> SUFFICES ASSUME GrepInv, SearchLine PROVE GrepInv'
  OBVIOUS
<1> DEFINE e    == line_end
           ls   == line_start
           C    == ToSet(text)
           c    == pos - last + ls
           n    == pos - last + e
           line == Slice(ls, e)
<1>0. /\ at' \in {"scan", "close", "read"} /\ text' = text /\ beyond' = beyond
      /\ DOMAIN data' = 0..BUFSIZE /\ at = "scan"
  BY DEF SearchLine, GrepInv
<1> DEFINE Goal == /\ at' = "read" => (Buffered(0) /\ last < BUFSIZE /\ NoEnds /\ Behind)'
                   /\ at' = "scan" => (Buffered(line_start) /\ Scanning /\ Behind)'
                   /\ GrepFindsLines'
<1> SUFFICES ASSUME Clean PROVE Goal
  <2>1. ~Clean => GrepFindsLines'
    BY <1>0 DEF Clean, GrepFindsLines
  <2> QED
    BY <1>0, <2>1 DEF GrepInv, Clean
<1> HIDE DEF Goal
<1>1. Buffered(ls) /\ Scanning /\ ~Unfinished /\ Behind
  BY <1>0 DEF GrepInv, SearchLine
<1>2. /\ text \in Text /\ pos \in 0..Len(text) /\ last \in 0..BUFSIZE /\ last <= pos
      /\ ls \in 0..last
      /\ \A i \in ls..(last - 1) : data[i] = text[pos - last + i + 1]
      /\ Printed(text, word, out, c)
  BY <1>1 DEF Buffered
<1>3. /\ BUFSIZE \in Nat /\ BUFSIZE # 0 /\ text \in Seq(C) /\ Len(text) \in Nat /\ NewLine # Nul
      /\ last \in Nat /\ pos \in Nat
  <2>1. text \in Seq(ToSet(text))
    BY <1>2, GrepAssumption
  <2>2. BUFSIZE \in Nat /\ BUFSIZE # 0 /\ NewLine # Nul
    BY GrepAssumption
  <2>3. Len(text) \in Nat
    BY <2>1, LenProperties
  <2> QED
    BY <1>2, <2>1, <2>2, <2>3
<1>4. /\ e \in ls..last
      /\ e = last \/ data[e] = NewLine
      /\ \A j \in ls..(e - 1) : data[j] # NewLine
  BY <1>2, <1>3, LineEndIs
<1>5. /\ data' = [data EXCEPT ![e] = Nul] /\ DOMAIN data = 0..BUFSIZE
      /\ out' = IF Found(line, word) THEN Append(out, StringOf(line)) ELSE out
      /\ line_start' = e + 1
      /\ e + 1 < last => last' = last /\ at' = at
      /\ ~(e + 1 < last) => last' = 0 /\ at' = IF cnt = 0 THEN "close" ELSE "read"
      /\ word' = word /\ text' = text /\ pos' = pos /\ cnt' = cnt
  BY DEF SearchLine, GrepInv
<1>6. ~(data[e] # NewLine /\ cnt # 0 /\ ls # 0)
  BY <1>1 DEF Unfinished
<1> HIDE DEF e, ls, C
<1>7. /\ c \in 0..Len(text) /\ n \in c..Len(text) /\ n - c = e - ls /\ n - c <= BUFSIZE
      /\ c \in Nat /\ n \in Nat /\ ls \in Nat /\ e \in Nat /\ e <= last
  BY <1>2, <1>3, <1>4
<1>8. \A k \in (c + 1)..n : text[k] # NewLine
  <2> SUFFICES ASSUME NEW k \in (c + 1)..n PROVE text[k] # NewLine
    OBVIOUS
  <2> DEFINE i == ls + (k - c - 1)
  <2>1. i \in ls..(e - 1) /\ i \in ls..(last - 1) /\ pos - last + i + 1 = k
    BY <1>2, <1>3, <1>4, <1>7
  <2> HIDE DEF i
  <2> QED
    BY <1>2, <1>4, <2>1
<1>9. line = SubSeq(text, c + 1, n)
  <2> DEFINE u == SubSeq(text, c + 1, n)
             m == e - ls
  <2>1. u = [k \in 1..m |-> text[c + k]]
    <3>1. c + 1 \in Int /\ n \in Int /\ \A k \in (c + 1)..n : text[k] \in C
      BY <1>3, <1>7
    <3>2. /\ u \in Seq(C) /\ Len(u) = IF c + 1 <= n THEN n - (c + 1) + 1 ELSE 0
          /\ \A k \in 1..(n - (c + 1) + 1) : u[k] = text[(c + 1) + k - 1]
      BY <3>1, SubSeqProperties
    <3>3. m \in Nat /\ n - c = m /\ n - (c + 1) + 1 = m
      BY <1>4, <1>7
    <3> HIDE DEF u, m, c, n
    <3>4. Len(u) = m /\ u = [k \in 1..Len(u) |-> u[k]]
      BY <1>7, <3>2, <3>3
    <3>5. \A k \in 1..m : u[k] = text[c + k]
      BY <1>7, <3>2, <3>3
    <3> QED
      BY <3>4, <3>5
  <2>2. \A k \in 1..(e - ls) : data[ls + k - 1] = text[c + k]
    <3> SUFFICES ASSUME NEW k \in 1..(e - ls) PROVE data[ls + k - 1] = text[c + k]
      OBVIOUS
    <3>1. ls + k - 1 \in ls..(last - 1)
      BY <1>3, <1>7
    <3>2. pos - last + (ls + k - 1) + 1 = c + k
      BY <1>3, <1>7
    <3> QED
      BY <1>2, <3>1, <3>2
  <2> QED
    BY <2>1, <2>2 DEF Slice
<1>10. e < last => data[e] = NewLine /\ text[n + 1] = NewLine /\ n + 1 \in 1..Len(text)
  <2> SUFFICES ASSUME e < last
               PROVE  data[e] = NewLine /\ text[n + 1] = NewLine /\ n + 1 \in 1..Len(text)
    OBVIOUS
  <2>1. data[e] = NewLine /\ e \in ls..(last - 1) /\ n + 1 \in 1..Len(text)
    BY <1>2, <1>3, <1>4, <1>7
  <2> QED
    BY <1>2, <2>1
<1>11. n = Len(text) \/ text[n + 1] = NewLine \/ n - c = BUFSIZE
  <2>1. CASE e < last
    BY <1>10, <2>1
  <2>2. CASE ~(e < last)
    <3>1. e = last /\ n = pos
      BY <1>3, <1>7, <2>2
    <3>2. last = BUFSIZE /\ pos # Len(text) => data[e] # NewLine
      <4> SUFFICES ASSUME last = BUFSIZE, pos # Len(text) PROVE data[e] # NewLine
        OBVIOUS
      <4>1. beyond # NewLine
        BY <1>2, <1>3 DEF Clean
      <4> QED
        BY <1>1, <1>3, <3>1, <4>1 DEF Behind
    <3>3. pos = Len(text) \/ (ls = 0 /\ last = BUFSIZE)
      BY <1>1, <1>6, <3>2 DEF Scanning, ls
    <3> QED
      BY <1>3, <1>7, <3>1, <3>3
  <2> QED
    BY <2>1, <2>2
<1>12. Printed(text, word, out', n)
  <2>1. Printed(text, word, IfFound(out, SubSeq(text, c + 1, n), word), n)
    <3> HIDE DEF c, n
    <3> QED
      BY <1>2, <1>3, <1>7, <1>8, <1>11, SearchOne
  <2>2. out' = IfFound(out, line, word)
    <3>1. StringOf(line) = line
      <4>1. line \in Seq(C) /\ Nul \notin C
        <5>1. c + 1 \in Int /\ n \in Int /\ \A k \in (c + 1)..n : text[k] \in C
          BY <1>3, <1>7
        <5>2. SubSeq(text, c + 1, n) \in Seq(C)
          BY <5>1, SubSeqProperties
        <5> QED
          BY <1>9, <5>2 DEF Clean, C
      <4> HIDE DEF line
      <4> QED
        BY <4>1, WholeString
    <3> HIDE DEF line
    <3> QED
      BY <1>5, <3>1 DEF IfFound
  <2> QED
    BY <1>9, <2>1, <2>2
<1>13. e < last => Printed(text, word, out', n + 1)
  <2> SUFFICES ASSUME e < last PROVE Printed(text, word, out', n + 1)
    OBVIOUS
  <2> DEFINE m == n + 1
  <2>1. m \in 1..Len(text) /\ m - 1 = n /\ text[m] = NewLine
    BY <1>7, <1>10
  <2> HIDE DEF m, n
  <2>2. Printed(text, word, out', m - 1)
    BY <1>12, <2>1
  <2>3. Printed(text, word, out', m)
    BY <1>3, <2>1, <2>2, PassEnd
  <2> QED
    BY <2>3 DEF m
<1>14. Behind'
  <2>1. BUFSIZE \in 0..BUFSIZE
    BY <1>3
  <2>2. data'[BUFSIZE] \in {Nul, data[BUFSIZE]}
    BY <1>5, <2>1
  <2> QED
    BY <1>0, <1>1, <2>2 DEF Behind
<1>16. CASE e + 1 < last
  <2>1. at' = "scan" /\ last' = last
    BY <1>0, <1>5, <1>16
  <2>2. \A i \in (e + 1)..(last - 1) : data'[i] = text[pos - last + i + 1]
    <3> SUFFICES ASSUME NEW i \in (e + 1)..(last - 1) PROVE data'[i] = text[pos - last + i + 1]
      OBVIOUS
    <3>1. i # e /\ i \in ls..(last - 1) /\ i \in 0..BUFSIZE
      BY <1>2, <1>3, <1>7
    <3>2. data'[i] = data[i]
      BY <1>5, <3>1
    <3> QED
      BY <1>2, <3>1, <3>2
  <2>3. Buffered(line_start)'
    <3>1. pos - last + (e + 1) = n + 1 /\ e + 1 \in 0..last /\ e < last
      BY <1>3, <1>7, <1>16
    <3>2. Printed(text, word, out', pos - last + (e + 1))
      BY <1>13, <3>1
    <3> HIDE DEF n
    <3> QED
      BY <1>2, <1>5, <2>1, <2>2, <3>1, <3>2 DEF Buffered
  <2>4. Scanning'
    <3>1. data[e] = NewLine /\ e \in 0..(last - 1)
      BY <1>2, <1>3, <1>7, <1>10, <1>16
    <3>2. cnt # 0 /\ (pos = Len(text) \/ last = BUFSIZE)
      BY <1>1, <3>1 DEF Scanning, NoEnds
    <3> QED
      BY <1>5, <1>16, <2>1, <3>2 DEF Scanning
  <2> QED
    BY <1>14, <2>1, <2>3, <2>4 DEF Goal, GrepFindsLines
<1>17. CASE ~(e + 1 < last)
  <2>1. last' = 0 /\ at' = IF cnt = 0 THEN "close" ELSE "read"
    BY <1>5, <1>17
  <2>2. NoEnds'
    <3>1. \A i \in 0..(0 - 1) : FALSE
      OBVIOUS
    <3> QED
      BY <2>1, <3>1 DEF NoEnds
  <2>3. Printed(text, word, out', pos)
    <3>1. CASE e < last
      <4>1. n + 1 = pos
        BY <1>3, <1>7, <1>17, <3>1
      <4> QED
        BY <1>13, <3>1, <4>1
    <3>2. CASE ~(e < last)
      <4>1. n = pos
        BY <1>3, <1>7, <3>2
      <4> QED
        BY <1>12, <4>1
    <3> QED
      BY <3>1, <3>2
  <2>4. Buffered(0)'
    <3>1. pos - 0 + 0 = pos /\ 0 <= pos /\ 0 \in 0..0 /\ 0 \in 0..BUFSIZE /\ \A i \in 0..(0 - 1) : FALSE
      BY <1>3
    <3>2. Printed(text', word', out', pos' - last' + 0)
      BY <1>5, <2>1, <2>3, <3>1
    <3> QED
      BY <1>2, <1>5, <2>1, <3>1, <3>2 DEF Buffered
  <2>5. GrepFindsLines'
    <3> SUFFICES ASSUME at' = "close", LinesFit(text) PROVE out' = FoundIn(LinesOf(text), word)
      BY <1>5 DEF GrepFindsLines, LinesFit
    <3>1. cnt = 0
      BY <2>1
    <3>2. pos = Len(text)
      BY <1>1, <3>1 DEF Scanning
    <3>3. SplitTo(text, NewLine, pos) = LinesOf(text)
      BY <1>3, <3>2, SplitSteps DEF LinesOf
    <3> QED
      BY <2>3, <3>3 DEF Printed
  <2> QED
    <3>1. last' < BUFSIZE /\ at' # "scan"
      BY <1>3, <2>1
    <3> QED
      BY <1>14, <2>2, <2>4, <2>5, <3>1 DEF Goal
<1> QED
  BY <1>16, <1>17

LEMMA GrepStepInv == GrepInv /\ GrepStep => GrepInv'
BY OpenNextGrep, NoMoreFilesGrep, ReadChunkGrep, KeepUnfinishedGrep, SearchLineGrep DEF GrepStep

-----------------------------------------------------------------------------
(* The parser *)

\* Where the parser finds the command in a line.
LEMMA CommandIs ==
  ASSUME NEW arg, Len(arg) \in Nat, \A j \in 1..Len(arg) : arg[j] # NewLine
  PROVE  LET s == CommandStart(arg)
             e == CommandEnd(arg)
         IN /\ s \in 1..(Len(arg) + 1) /\ e \in s..(Len(arg) + 1)
            /\ \A j \in 1..(s - 1) : arg[j] = Space
            /\ s <= Len(arg) => arg[s] # Space
            /\ \A j \in s..(e - 1) : arg[j] # Space
            /\ e <= Len(arg) => arg[e] = Space
            /\ Command(arg) = SubSeq(arg, s, e - 1)
            /\ Argument(arg) = Without(SubSeq(arg, e, Len(arg)), Space)
<1> DEFINE s == CommandStart(arg)
           e == CommandEnd(arg)
           m == Len(arg)
           S == {j \in 1..m : arg[j] # Space} \cup {m + 1}
           E == {j \in s..m : arg[j] \in {Space, NewLine}} \cup {m + 1}
           N == {j \in (e + 1)..m : arg[j] = NewLine /\ arg[j - 1] # Space} \cup {m + 1}
<1>1. s = Min(S) /\ e = Min(E)
  BY DEF CommandStart, CommandEnd, FirstFrom
<1>2. Argument(arg) = Without(SubSeq(arg, e, Min(N) - 1), Space)
  BY DEF Argument, FirstFrom
<1>3. Command(arg) = SubSeq(arg, s, IF e <= m /\ arg[e] = NewLine THEN e ELSE e - 1)
  BY DEF Command
<1> HIDE DEF s, e, m
<1>4. m \in Nat /\ \A j \in 1..m : arg[j] # NewLine
  BY DEF m
<1>5. s \in S /\ \A j \in S : s <= j
  <2>1. S \in SUBSET Nat /\ S # {}
    BY <1>4
  <2> HIDE DEF S
  <2> QED
    BY <1>1, <2>1, MinIs
<1>6. s \in 1..(m + 1) /\ (s <= m => arg[s] # Space)
  BY <1>4, <1>5
<1>7. \A j \in 1..(s - 1) : arg[j] = Space
  <2> SUFFICES ASSUME NEW j \in 1..(s - 1), arg[j] # Space PROVE FALSE
    OBVIOUS
  <2>1. j \in 1..m /\ ~(s <= j)
    BY <1>4, <1>6
  <2> QED
    BY <1>5, <2>1
<1>8. e \in E /\ \A j \in E : e <= j
  <2>1. E \in SUBSET Nat /\ E # {}
    BY <1>4, <1>6
  <2> HIDE DEF E
  <2> QED
    BY <1>1, <2>1, MinIs
<1>9. e \in s..(m + 1) /\ (e <= m => arg[e] = Space)
  <2>1. CASE e = m + 1
    BY <1>4, <1>6, <2>1
  <2>2. CASE e # m + 1
    <3>1. e \in s..m /\ arg[e] \in {Space, NewLine}
      BY <1>8, <2>2
    <3>2. e \in 1..m
      BY <1>4, <1>6, <3>1
    <3> QED
      BY <1>4, <1>6, <3>1, <3>2
  <2> QED
    BY <2>1, <2>2
<1>10. \A j \in s..(e - 1) : arg[j] # Space
  <2> SUFFICES ASSUME NEW j \in s..(e - 1), arg[j] = Space PROVE FALSE
    OBVIOUS
  <2>1. j \in s..m /\ ~(e <= j)
    BY <1>4, <1>6, <1>9
  <2> QED
    BY <1>8, <2>1
<1>11. Min(N) = m + 1
  <2>1. \A j \in (e + 1)..m : j \in 1..m
    BY <1>4, <1>6, <1>9
  <2>2. N = {m + 1}
    BY <1>4, <2>1
  <2>3. N \in SUBSET Nat /\ N # {}
    BY <1>4, <2>2
  <2> HIDE DEF N
  <2> QED
    BY <2>2, <2>3, MinIs
<1>12. Command(arg) = SubSeq(arg, s, e - 1)
  <2>1. ~(e <= m /\ arg[e] = NewLine)
    BY <1>4, <1>6, <1>9
  <2> QED
    BY <1>3, <2>1
<1>13. Argument(arg) = Without(SubSeq(arg, e, m), Space)
  <2>1. Min(N) - 1 = m
    BY <1>4, <1>11
  <2> QED
    BY <1>2, <2>1
<1> QED
  BY <1>6, <1>7, <1>9, <1>10, <1>12, <1>13 DEF s, e, m

LEMMA WordStep ==
  ASSUME NEW C, NEW X \in Seq(Seq(C)), NEW l \in Seq(C)
  PROVE  /\ Without(X, <<>>) \in Seq(Seq(C))
         /\ Without(Append(X, l), <<>>) = Unless(Without(X, <<>>), l, <<>>)
<1> DEFINE D == Seq(C)
           e == <<>>
<1> HIDE DEF D, e
<1>1. X \in Seq(D) /\ l \in D
  BY DEF D
<1>2. Without(X, e) \in Seq(D) /\ Without(Append(X, l), e) = Unless(Without(X, e), l, e)
  BY <1>1, WithoutSteps
<1> QED
  BY <1>2 DEF D, e

\* The parts that are words.
Words(parts) == Without(parts, <<>>)

\* Spaces before the command make no word.
LEMMA NoWords ==
  ASSUME NEW C, NEW t \in Seq(C), NEW n \in 0..Len(t), \A j \in 1..n : t[j] = Space
  PROVE  \E X \in Seq(Seq(C)) : SplitTo(t, Space, n) = Append(X, <<>>) /\ Words(X) = <<>>
<1> DEFINE None(k) == \E X \in Seq(Seq(C)) : SplitTo(t, Space, k) = Append(X, <<>>) /\ Words(X) = <<>>
           W == {k \in 0..n : ~None(k)}
<1>1. n \in Nat /\ Len(t) \in Nat /\ n <= Len(t)
  OBVIOUS
<1>2. None(0)
  <2>1. <<>> \in Seq(Seq(C)) /\ Append(<<>>, <<>>) = <<<<>>>>
    OBVIOUS
  <2>2. Words(<<>>) = <<>>
    BY WithoutSteps DEF Words
  <2>3. SplitTo(t, Space, 0) = <<<<>>>>
    BY SplitSteps
  <2> QED
    BY <2>1, <2>2, <2>3
<1>3. ASSUME NEW k \in 1..n, None(k - 1) PROVE None(k)
  <2>1. PICK X \in Seq(Seq(C)) : SplitTo(t, Space, k - 1) = Append(X, <<>>) /\ Words(X) = <<>>
    BY <1>3
  <2>2. k \in 1..Len(t) /\ t[k] = Space /\ <<>> \in Seq(C)
    BY <1>1
  <2>3. SplitTo(t, Space, k) = AddTo(SplitTo(t, Space, k - 1), t[k], Space)
    BY <2>2, SplitSteps
  <2>4. SplitTo(t, Space, k) = Append(Append(X, <<>>), <<>>)
    BY <2>1, <2>2, <2>3 DEF AddTo
  <2>5. Append(X, <<>>) \in Seq(Seq(C))
    BY <2>2, AppendProperties
  <2>6. Words(Append(X, <<>>)) = <<>>
    <3>1. Without(Append(X, <<>>), <<>>) = Unless(Without(X, <<>>), <<>>, <<>>)
      BY <2>2, WordStep
    <3> QED
      BY <2>1, <3>1 DEF Words, Unless
  <2> QED
    BY <2>4, <2>5, <2>6
<1> HIDE DEF None
<1>4. W \in SUBSET (0..n) /\ (\A k \in W : ~None(k)) /\ (\A k \in 0..n : k \notin W => None(k))
  OBVIOUS
<1> HIDE DEF W
<1>5. 0 \notin W
  BY <1>2, <1>4
<1>6. W = {}
  <2> SUFFICES ASSUME W # {} PROVE FALSE
    OBVIOUS
  <2>1. PICK k \in 1..n : k \in W /\ k - 1 \in 0..n /\ k - 1 \notin W
    BY <1>1, <1>4, <1>5, First
  <2> QED
    BY <1>3, <1>4, <2>1
<1>7. None(n)
  <2>1. n \in 0..n
    BY <1>1
  <2> QED
    BY <1>4, <1>6, <2>1
<1> QED
  BY <1>7 DEF None

\* These equations too have names.
Joins(r, s, c) == Append(r \o s, c) = r \o Append(s, c)

LEMMA AppendToConcat ==
  ASSUME NEW C, NEW r \in Seq(C), NEW s \in Seq(C), NEW c \in C
  PROVE  Joins(r, s, c)
<1>1. r \o s \in Seq(C)
  BY ConcatProperties
<1>2. Append(r \o s, c) = (r \o s) \o <<c>>
  BY <1>1, AppendIsConcat
<1>3. Append(s, c) = s \o <<c>>
  BY AppendIsConcat
<1>4. <<c>> \in Seq(C)
  OBVIOUS
<1>5. (r \o s) \o <<c>> = r \o (s \o <<c>>)
  BY <1>4, ConcatAssociative
<1> QED
  BY <1>2, <1>3, <1>5 DEF Joins

\* From the end e of the command w on the words up to k are w and Y, and a word l
\* that is not finished; put together the words behind w are the text from e to k
\* without its spaces.
After(C, t, w, e, k) ==
    \E X \in Seq(Seq(C)), l \in Seq(C), Y \in Seq(Seq(C)) :
        /\ SplitTo(t, Space, k) = Append(X, l)
        /\ Words(X) = <<w>> \o Y
        /\ FlattenSeq(Y) \o l = Without(SubSeq(t, e, k), Space)
        /\ Len(FlattenSeq(Y) \o l) <= k - e

LEMMA AfterCommand ==
  ASSUME NEW C, NEW t \in Seq(C), NEW X \in Seq(Seq(C)), NEW w \in Seq(C), w # <<>>,
         NEW e \in 1..Len(t), t[e] = Space,
         SplitTo(t, Space, e - 1) = Append(X, w), Words(X) = <<>>
  PROVE  After(C, t, w, e, e)
<1> DEFINE Z == Append(X, w)
<1>1. Z \in Seq(Seq(C)) /\ <<>> \in Seq(C) /\ <<>> \in Seq(Seq(C)) /\ e \in Int
  BY AppendProperties
<1>2. SplitTo(t, Space, e) = Append(Z, <<>>)
  <2>1. SplitTo(t, Space, e) = AddTo(SplitTo(t, Space, e - 1), t[e], Space)
    BY SplitSteps
  <2> QED
    BY <2>1 DEF AddTo
<1>3. Words(Z) = <<w>> \o <<>>
  <2>1. Words(Z) = Append(<<>>, w)
    BY WordStep DEF Words, Unless
  <2>2. Append(<<>>, w) = <<w>> /\ <<w>> \o <<>> = <<w>>
    OBVIOUS
  <2> QED
    BY <2>1, <2>2
<1>4. FlattenSeq(<<>>) \o <<>> = <<>>
  <2>1. FlattenSeq(<<>>) = <<>>
    BY FlattenSteps
  <2>2. <<>> \o <<>> = <<>>
    OBVIOUS
  <2> QED
    BY <2>1, <2>2
<1>5. Without(SubSeq(t, e, e), Space) = <<>>
  <2> DEFINE c == e - 1
             u == SubSeq(t, c + 1, c)
  <2>1. c \in 0..Len(t) /\ e \in (c + 1)..Len(t) /\ c + 1 = e /\ e - 1 = c /\ c \in Int /\ c < c + 1
    OBVIOUS
  <2>2. u = <<>>
    BY <2>1, SubSeqEmpty
  <2> HIDE DEF c
  <2>3. SubSeq(t, c + 1, e) = Append(SubSeq(t, c + 1, e - 1), t[e]) /\ t[e] \in C
    BY <2>1, SubSeqGrows
  <2>4. SubSeq(t, e, e) = Append(<<>>, Space) /\ Space \in C
    BY <2>1, <2>2, <2>3
  <2>5. Without(Append(<<>>, Space), Space) = Unless(Without(<<>>, Space), Space, Space)
    BY <1>1, <2>4, WithoutSteps
  <2>6. Without(<<>>, Space) = <<>>
    BY WithoutSteps
  <2> QED
    BY <2>4, <2>5, <2>6 DEF Unless
<1>6. Len(<<>>) <= e - e
  BY <1>1
<1> HIDE DEF Z
<1> QED
  BY <1>1, <1>2, <1>3, <1>4, <1>5, <1>6 DEF After

\* The words with the last one.
Ended(Y, l) == IF l = <<>> THEN Y ELSE Append(Y, l)

\* w and Y are the words among the parts X; the words Z have the letters of Y and l.
WordsAre(X, w, Y) == Words(X) = <<w>> \o Y
AddsUp(Y, Z, l)   == FlattenSeq(Z) = FlattenSeq(Y) \o l

LEMMA EndWord ==
  ASSUME NEW C, NEW X \in Seq(Seq(C)), NEW l \in Seq(C), NEW w \in Seq(C), NEW Y \in Seq(Seq(C)),
         WordsAre(X, w, Y)
  PROVE  /\ Ended(Y, l) \in Seq(Seq(C))
         /\ WordsAre(Append(X, l), w, Ended(Y, l))
         /\ AddsUp(Y, Ended(Y, l), l)
<1>1. Words(Append(X, l)) = Unless(<<w>> \o Y, l, <<>>)
  BY WordStep DEF Words, WordsAre
<1>2. CASE l = <<>>
  <2>1. FlattenSeq(Y) \in Seq(C)
    BY FlattenSteps
  <2>2. FlattenSeq(Y) \o <<>> = FlattenSeq(Y)
    BY <2>1, ConcatEmptySeq
  <2> QED
    BY <1>1, <1>2, <2>2 DEF Ended, Unless, WordsAre, AddsUp
<1>3. CASE l # <<>>
  <2> DEFINE D == Seq(C)
             u == <<w>>
  <2>1. u \in Seq(D) /\ Y \in Seq(D) /\ l \in D
    OBVIOUS
  <2> HIDE DEF D, u
  <2>2. Joins(u, Y, l)
    BY <2>1, AppendToConcat
  <2>3. Words(Append(X, l)) = u \o Append(Y, l)
    BY <1>1, <1>3, <2>2, Zenon DEF Joins, Unless, u
  <2>4. FlattenSeq(Append(Y, l)) = FlattenSeq(Y) \o l
    BY FlattenSteps
  <2>5. Append(Y, l) \in Seq(Seq(C))
    BY <2>1 DEF D
  <2> QED
    BY <1>3, <2>3, <2>4, <2>5 DEF Ended, u, WordsAre, AddsUp
<1> QED
  BY <1>2, <1>3

LEMMA AfterStep ==
  ASSUME NEW C, NEW t \in Seq(C), NEW w \in Seq(C),
         NEW e \in 1..Len(t), NEW k \in (e + 1)..Len(t), After(C, t, w, e, k - 1)
  PROVE  After(C, t, w, e, k)
<1> DEFINE d == t[k]
           m == Without(SubSeq(t, e, k - 1), Space)
<1>1. PICK X \in Seq(Seq(C)), l \in Seq(C), Y \in Seq(Seq(C)) :
          /\ SplitTo(t, Space, k - 1) = Append(X, l)
          /\ Words(X) = <<w>> \o Y
          /\ FlattenSeq(Y) \o l = m
          /\ Len(FlattenSeq(Y) \o l) <= (k - 1) - e
  BY DEF After
<1>2. d \in C /\ k \in Int /\ e \in Int /\ k \in 1..Len(t)
  OBVIOUS
<1>3. SplitTo(t, Space, k) = AddTo(Append(X, l), d, Space)
  <2>1. SplitTo(t, Space, k) = AddTo(SplitTo(t, Space, k - 1), t[k], Space)
    BY <1>2, SplitSteps
  <2> QED
    BY <1>1, <2>1
<1>4. Without(SubSeq(t, e, k), Space) = Unless(m, d, Space)
  <2> DEFINE c == e - 1
             u == SubSeq(t, e, k - 1)
  <2>1. c \in 0..Len(t) /\ k \in (c + 1)..Len(t) /\ c + 1 = e
    OBVIOUS
  <2> HIDE DEF c
  <2>2. /\ SubSeq(t, c + 1, k) = Append(SubSeq(t, c + 1, k - 1), t[k])
        /\ SubSeq(t, c + 1, k - 1) \in Seq(C)
    BY <2>1, SubSeqGrows
  <2>3. SubSeq(t, e, k) = Append(u, d) /\ u \in Seq(C)
    BY <2>1, <2>2
  <2> HIDE DEF u, d
  <2>4. Without(Append(u, d), Space) = Unless(Without(u, Space), d, Space)
    BY <1>2, <2>3, WithoutSteps
  <2> QED
    BY <2>3, <2>4 DEF u
<1> DEFINE F == FlattenSeq(Y)
<1>5. F \in Seq(C) /\ F \o l \in Seq(C) /\ Len(F \o l) \in Nat
  <2>1. F \in Seq(C)
    BY FlattenSteps
  <2>2. F \o l \in Seq(C)
    BY <2>1, ConcatProperties
  <2> HIDE DEF F
  <2> QED
    BY <2>1, <2>2, LenProperties
<1> HIDE DEF d, m
<1>6. CASE d = Space
  <2> DEFINE Z  == Append(X, l)
             Y2 == Ended(Y, l)
  <2>1. Z \in Seq(Seq(C)) /\ <<>> \in Seq(C)
    BY AppendProperties
  <2>2. SplitTo(t, Space, k) = Append(Z, <<>>)
    BY <1>3, <1>6 DEF AddTo
  <2>3. Y2 \in Seq(Seq(C)) /\ Words(Z) = <<w>> \o Y2 /\ FlattenSeq(Y2) = F \o l
    <3>1. WordsAre(X, w, Y)
      BY <1>1 DEF WordsAre
    <3>2. Y2 \in Seq(Seq(C)) /\ WordsAre(Z, w, Y2) /\ AddsUp(Y, Y2, l)
      BY <3>1, EndWord
    <3> HIDE DEF Y2, Z
    <3> QED
      BY <3>2 DEF WordsAre, AddsUp
  <2>4. FlattenSeq(Y2) \o <<>> = F \o l
    <3> DEFINE v == F \o l
    <3>1. v \in Seq(C)
      BY <1>5
    <3> HIDE DEF v
    <3>2. v \o <<>> = v
      BY <3>1, ConcatEmptySeq
    <3> QED
      BY <2>3, <3>2 DEF v
  <2>6. Without(SubSeq(t, e, k), Space) = m
    BY <1>4, <1>6 DEF Unless
  <2>7. Len(F \o l) <= k - e
    BY <1>1, <1>2, <1>5
  <2> HIDE DEF Z, Y2
  <2> QED
    BY <1>1, <2>1, <2>2, <2>3, <2>4, <2>6, <2>7 DEF After
<1>7. CASE d # Space
  <2> DEFINE l2 == Append(l, d)
  <2>1. l2 \in Seq(C)
    BY <1>2, AppendProperties
  <2>2. SplitTo(t, Space, k) = Append(X, l2)
    <3>1. AddsOn(X, l, d, Space)
      BY <1>2, <1>7, AddOn
    <3> QED
      BY <1>3, <3>1, Zenon DEF AddsOn
  <2>3. F \o l2 = Append(F \o l, d)
    <3>1. F \in Seq(C) /\ d \in C
      BY <1>2, <1>5
    <3> HIDE DEF F
    <3>2. Joins(F, l, d)
      BY <3>1, AppendToConcat
    <3> QED
      BY <3>2, Zenon DEF Joins
  <2>4. Without(SubSeq(t, e, k), Space) = Append(m, d)
    BY <1>4, <1>7 DEF Unless
  <2>5. Len(Append(F \o l, d)) <= k - e
    <3> DEFINE v == F \o l
    <3>1. v \in Seq(C) /\ Len(v) <= (k - 1) - e /\ Len(v) \in Nat
      BY <1>1, <1>5
    <3> HIDE DEF v
    <3>2. Len(Append(v, d)) = Len(v) + 1
      BY <1>2, <3>1, AppendProperties
    <3>3. Len(Append(v, d)) <= k - e
      BY <1>2, <3>1, <3>2
    <3> QED
      BY <3>3 DEF v
  <2>6. F \o l2 = Without(SubSeq(t, e, k), Space) /\ Len(F \o l2) <= k - e
    BY <1>1, <2>3, <2>4, <2>5
  <2> HIDE DEF l2
  <2> QED
    BY <1>1, <2>1, <2>2, <2>6 DEF After
<1> QED
  BY <1>6, <1>7

LEMMA AfterAll ==
  ASSUME NEW C, NEW t \in Seq(C), NEW w \in Seq(C), NEW e \in 1..Len(t), After(C, t, w, e, e)
  PROVE  After(C, t, w, e, Len(t))
<1> DEFINE n == Len(t) - e
           W == {k \in 0..n : ~After(C, t, w, e, e + k)}
<1>1. n \in Nat /\ Len(t) \in Nat /\ e \in Nat /\ e + n = Len(t) /\ e + 0 = e
  OBVIOUS
<1> HIDE DEF n
<1>2. /\ W \in SUBSET (0..n) /\ (\A k \in W : ~After(C, t, w, e, e + k))
      /\ \A k \in 0..n : k \notin W => After(C, t, w, e, e + k)
  OBVIOUS
<1> HIDE DEF W
<1>3. 0 \notin W
  BY <1>1, <1>2
<1>4. W = {}
  <2> SUFFICES ASSUME W # {} PROVE FALSE
    OBVIOUS
  <2>1. PICK k \in 1..n : k \in W /\ k - 1 \in 0..n /\ k - 1 \notin W
    BY <1>1, <1>2, <1>3, First
  <2> DEFINE j == e + k
  <2>2. j \in (e + 1)..Len(t) /\ j - 1 = e + (k - 1)
    BY <1>1
  <2>3. After(C, t, w, e, e + (k - 1)) /\ ~After(C, t, w, e, j)
    BY <1>2, <2>1
  <2> HIDE DEF j
  <2>4. After(C, t, w, e, j - 1)
    BY <2>2, <2>3
  <2> QED
    BY <2>2, <2>3, <2>4, AfterStep
<1>5. n \in 0..n
  BY <1>1
<1> QED
  BY <1>1, <1>2, <1>4, <1>5

\* What ParsedAsWords claims, of the results of the parser.
Parsed(line, command, arg, n) ==
    LET words == WordsOf(line) IN
    /\ command = (IF words = <<>> THEN <<>> ELSE words[1])
    /\ arg = (IF words = <<>> THEN <<>> ELSE FlattenSeq(Tail(words)))
    /\ \/ Len(arg) < COMMAND_LENGTH - n - 1
       \/ Len(words) <= 1 /\ n = COMMAND_LENGTH - 1

LEMMA OneWord ==
  ASSUME NEW C, NEW w \in Seq(C), NEW Y \in Seq(Seq(C))
  PROVE  LET v == <<w>> \o Y IN v # <<>> /\ v[1] = w /\ Tail(v) = Y /\ Len(v) = Len(Y) + 1
<1> DEFINE D == Seq(C)
           u == <<w>>
           v == u \o Y
<1>1. u \in Seq(D) /\ Y \in Seq(D) /\ Len(u) = 1 /\ u[1] = w /\ Len(Y) \in Nat
  OBVIOUS
<1> HIDE DEF D, u
<1>2. /\ v \in Seq(D) /\ Len(v) = Len(u) + Len(Y)
      /\ \A i \in 1..(Len(u) + Len(Y)) : v[i] = IF i <= Len(u) THEN u[i] ELSE Y[i - Len(u)]
  BY <1>1, ConcatProperties
<1> HIDE DEF v
<1>3. v # <<>> /\ v[1] = w /\ Len(v) = Len(Y) + 1
  BY <1>1, <1>2
<1>4. /\ Tail(v) \in Seq(D) /\ Len(Tail(v)) = Len(Y)
      /\ \A i \in 1..Len(Y) : Tail(v)[i] = v[i + 1]
  BY <1>1, <1>2, <1>3, HeadTailProperties
<1>5. \A i \in 1..Len(Y) : v[i + 1] = Y[i]
  <2> SUFFICES ASSUME NEW i \in 1..Len(Y) PROVE v[i + 1] = Y[i]
    OBVIOUS
  <2>1. i + 1 \in 1..(Len(u) + Len(Y)) /\ ~(i + 1 <= Len(u)) /\ i + 1 - Len(u) = i
    BY <1>1
  <2> QED
    BY <1>2, <2>1
<1>6. Tail(v) = Y
  BY <1>1, <1>4, <1>5, SeqEqual
<1> QED
  BY <1>3, <1>6 DEF v, u

LEMMA LineParsed ==
  ASSUME NEW line \in TypedLine
  PROVE  Parsed(line, Command(line), Argument(line), CommandEnd(line) - 1)
<1> DEFINE C == ToSet(line)
           n == Len(line)
           s == CommandStart(line)
           e == CommandEnd(line)
           w == SubSeq(line, s, e - 1)
<1>1. line \in Seq(C) /\ NewLine \notin C /\ n < COMMAND_LENGTH /\ n \in Nat /\ COMMAND_LENGTH \in Nat
  <2>1. line \in Seq(ToSet(line)) /\ NewLine \notin ToSet(line) /\ Len(line) < COMMAND_LENGTH
    BY ShellAssumption
  <2>2. Len(line) \in Nat
    BY <2>1, LenProperties
  <2>3. COMMAND_LENGTH \in Nat
    BY ShellAssumption
  <2> QED
    BY <2>1, <2>2, <2>3
<1> HIDE DEF C
<1>2. \A j \in 1..n : line[j] \in C /\ line[j] # NewLine
  BY <1>1
<1>3. /\ s \in 1..(n + 1) /\ e \in s..(n + 1)
      /\ \A j \in 1..(s - 1) : line[j] = Space
      /\ s <= n => line[s] # Space
      /\ \A j \in s..(e - 1) : line[j] # Space
      /\ e <= n => line[e] = Space
      /\ Command(line) = w
      /\ Argument(line) = Without(SubSeq(line, e, n), Space)
  BY <1>1, <1>2, CommandIs
<1> HIDE DEF n, s, e
<1>4. w \in Seq(C) /\ Len(w) = e - s /\ (w = <<>> <=> e = s)
  <2>1. s \in Int /\ e - 1 \in Int /\ \A j \in s..(e - 1) : line[j] \in C
    BY <1>1, <1>2, <1>3
  <2>2. w \in Seq(C) /\ Len(w) = IF s <= e - 1 THEN (e - 1) - s + 1 ELSE 0
    BY <2>1, SubSeqProperties
  <2> HIDE DEF w
  <2>3. Len(w) = e - s
    BY <1>1, <1>3, <2>2
  <2> QED
    BY <1>1, <1>3, <2>2, <2>3, EmptySeq
<1>5. PICK X \in Seq(Seq(C)) : SplitTo(line, Space, e - 1) = Append(X, w) /\ Words(X) = <<>>
  <2> DEFINE c == s - 1
             d == e - 1
  <2>1. c \in 0..Len(line) /\ d \in c..Len(line) /\ c + 1 = s
        /\ (\A j \in 1..c : line[j] = Space) /\ \A k \in (c + 1)..d : line[k] # Space
    BY <1>1, <1>3 DEF n
  <2> HIDE DEF c, d, w
  <2>2. PICK X \in Seq(Seq(C)) : SplitTo(line, Space, c) = Append(X, <<>>) /\ Words(X) = <<>>
    BY <1>1, <2>1, NoWords
  <2>3. SplitTo(line, Space, d) = Append(X, SubSeq(line, c + 1, d))
    <3>1. \A k \in (c + 1)..d : line[k] # Space
      BY <2>1
    <3>2. line \in Seq(C) /\ c \in 0..Len(line) /\ d \in c..Len(line)
      BY <1>1, <2>1
    <3>3. SplitTo(line, Space, c) = Append(X, <<>>)
      BY <2>2
    <3> QED
      BY <3>1, <3>2, <3>3, PartGrows
  <2>4. SubSeq(line, c + 1, d) = w
    BY <2>1 DEF w, d
  <2> QED
    BY <2>2, <2>3, <2>4 DEF d
<1> HIDE DEF w
<1>6. CASE e = n + 1
  <2>1. WordsOf(line) = IF w = <<>> THEN <<>> ELSE <<w>>
    <3>1. SplitTo(line, Space, e - 1) = Split(line, Space)
      <4>1. e - 1 = Len(line)
        BY <1>1, <1>6 DEF n
      <4> QED
        BY <1>1, <4>1, SplitSteps
    <3>2. WordsOf(line) = Unless(<<>>, w, <<>>)
      BY <1>4, <1>5, <3>1, WordStep DEF WordsOf, Words
    <3>3. Append(<<>>, w) = <<w>>
      OBVIOUS
    <3> QED
      BY <3>2, <3>3 DEF Unless
  <2>2. Argument(line) = <<>>
    <3>1. e \in Int /\ n \in Int /\ n < e
      BY <1>1, <1>6
    <3>2. SubSeq(line, e, n) = <<>>
      BY <3>1, SubSeqEmpty
    <3>3. Without(<<>>, Space) = <<>>
      BY WithoutSteps
    <3> QED
      BY <1>3, <3>2, <3>3
  <2>3. FlattenSeq(Tail(<<w>>)) = <<>> /\ Len(<<w>>) = 1 /\ <<w>>[1] = w /\ <<w>> # <<>> /\ Len(<<>>) = 0
    <3>1. Tail(<<w>>) = <<>>
      OBVIOUS
    <3>2. FlattenSeq(<<>>) = <<>>
      BY FlattenSteps
    <3> QED
      BY <3>1, <3>2
  <2>4. 0 < COMMAND_LENGTH - (e - 1) - 1 \/ e - 1 = COMMAND_LENGTH - 1
    BY <1>1, <1>6
  <2> QED
    BY <1>3, <2>1, <2>2, <2>3, <2>4 DEF Parsed, e
<1>7. CASE e # n + 1
  <2>1. e \in 1..Len(line) /\ line[e] = Space /\ w # <<>> /\ e <= n
    <3>1. e \in s..n /\ e \in 1..n /\ e <= n /\ s <= n
      BY <1>1, <1>3, <1>7
    <3>2. line[e] = Space /\ line[s] # Space
      BY <1>3, <3>1
    <3> QED
      BY <1>4, <3>1, <3>2 DEF n
  <2>2. After(C, line, w, e, e)
    BY <1>1, <1>4, <1>5, <2>1, AfterCommand
  <2>3. After(C, line, w, e, n)
    BY <1>1, <1>4, <2>1, <2>2, AfterAll DEF n
  <2>4. PICK X2 \in Seq(Seq(C)), l \in Seq(C), Y \in Seq(Seq(C)) :
            /\ SplitTo(line, Space, n) = Append(X2, l)
            /\ Words(X2) = <<w>> \o Y
            /\ FlattenSeq(Y) \o l = Without(SubSeq(line, e, n), Space)
            /\ Len(FlattenSeq(Y) \o l) <= n - e
    BY <2>3 DEF After
  <2> DEFINE Y2 == Ended(Y, l)
             arg == FlattenSeq(Y) \o l
  <2>5. Argument(line) = arg
    BY <1>3, <2>4
  <2>6. Y2 \in Seq(Seq(C)) /\ Words(Append(X2, l)) = <<w>> \o Y2 /\ FlattenSeq(Y2) = arg
    <3>1. WordsAre(X2, w, Y)
      BY <2>4 DEF WordsAre
    <3>2. Y2 \in Seq(Seq(C)) /\ WordsAre(Append(X2, l), w, Y2) /\ AddsUp(Y, Y2, l)
      BY <1>4, <3>1, EndWord
    <3> HIDE DEF Y2
    <3> QED
      BY <3>2 DEF WordsAre, AddsUp
  <2>7. WordsOf(line) = <<w>> \o Y2
    <3>1. SplitTo(line, Space, n) = Split(line, Space)
      BY <1>1, SplitSteps DEF n
    <3> QED
      BY <2>4, <2>6, <3>1 DEF WordsOf, Words
  <2>8. arg \in Seq(C) /\ Len(arg) \in Nat
    <3>1. arg \in Seq(C)
      BY FlattenSteps, ConcatProperties
    <3> HIDE DEF arg
    <3> QED
      BY <3>1, LenProperties
  <2>9. Len(arg) < COMMAND_LENGTH - (e - 1) - 1
    <3>1. Len(arg) <= n - e
      BY <2>4
    <3> HIDE DEF arg
    <3> QED
      BY <1>1, <2>1, <2>8, <3>1
  <2>10. LET v == <<w>> \o Y2 IN v # <<>> /\ v[1] = w /\ Tail(v) = Y2
    BY <1>4, <2>6, OneWord
  <2> HIDE DEF Y2, arg
  <2> QED
    BY <1>3, <2>5, <2>6, <2>7, <2>9, <2>10 DEF Parsed, e
<1> QED
  BY <1>6, <1>7

LEMMA KeepGrep == GrepInv /\ UNCHANGED grep_vars => GrepInv'
BY DEF grep_vars, GrepInv, NoEnds, Buffered, Scanning, Clean, Behind, GrepFindsLines

-----------------------------------------------------------------------------
(* The shell *)

\* A command in the buffer is the line that was typed, and the parser's results
\* belong to it; grep's variables are at rest whenever grep does not run.
ShellInv ==
    /\ GrepInv
    /\ pc # "grep" => at = "idle"
    /\ pc = "command" => buf = typed /\ typed \in TypedLine \cup {<<>>}
    /\ ParsedAsWords

\* Parse makes of the line what the property says.
LEMMA ParseShell == ShellInv /\ Parse => ShellInv'
<1> SUFFICES ASSUME ShellInv, Parse PROVE ShellInv'
  OBVIOUS
<1>1. /\ pc = "command" /\ buf # <<>> /\ pc' = "execute" /\ typed' = typed /\ grep_vars' = grep_vars
      /\ buf' = Command(buf) /\ argument' = Argument(buf) /\ arg_len' = CommandEnd(buf) - 1
  BY DEF Parse
<1>2. buf = typed /\ typed \in TypedLine
  BY <1>1 DEF ShellInv
<1>3. Parsed(typed, buf', argument', arg_len')
  BY <1>1, <1>2, LineParsed
<1>4. ParsedAsWords'
  BY <1>1, <1>3 DEF ParsedAsWords, Parsed
<1>5. GrepInv'
  BY <1>1, KeepGrep DEF ShellInv
<1> QED
  BY <1>1, <1>4, <1>5 DEF ShellInv, grep_vars

LEMMA ReadShell == ShellInv /\ Reads => ShellInv'
<1> SUFFICES ASSUME ShellInv, Reads PROVE ShellInv'
  OBVIOUS
<1>1. pc' = "command" /\ grep_vars' = grep_vars /\ at = "idle"
  BY DEF Reads, ReadLine, ReadNothing
<1>2. buf' = typed' /\ typed' \in TypedLine \cup {<<>>}
  <2>1. CASE ReadNothing
    BY <2>1 DEF ReadNothing
  <2>2. CASE ReadLine
    <3>1. PICK line \in TypedLine :
              LET got == line \o <<NewLine>>
              IN buf' = SubSeq(got, 1, Len(got) - 1) /\ typed' = line
      BY <2>2 DEF ReadLine
    <3> DEFINE got == line \o <<NewLine>>
               m   == Len(line)
               D   == ToSet(line) \cup {NewLine}
    <3>2. line \in Seq(D) /\ <<NewLine>> \in Seq(D) /\ m \in Nat /\ Len(<<NewLine>>) = 1
      <4>1. line \in Seq(ToSet(line))
        BY ShellAssumption
      <4> QED
        BY <4>1
    <3>3. Len(got) = m + 1 /\ got \in Seq(D) /\ \A i \in 1..m : got[i] = line[i]
      <4>1. /\ got \in Seq(D) /\ Len(got) = m + Len(<<NewLine>>)
            /\ \A i \in 1..(m + Len(<<NewLine>>)) :
                   got[i] = IF i <= m THEN line[i] ELSE <<NewLine>>[i - m]
        BY <3>2, ConcatProperties
      <4> HIDE DEF got, D, m
      <4> QED
        BY <3>2, <4>1
    <3>4. buf' = SubSeq(got, 1, Len(got) - 1)
      BY <3>1
    <3> HIDE DEF got, D
    <3>5. Len(got) - 1 = m /\ m \in 0..Len(got)
      BY <3>2, <3>3
    <3> DEFINE u == SubSeq(got, 1, m)
    <3>6. u \in Seq(D) /\ Len(u) = m /\ \A i \in 1..m : u[i] = got[i]
      BY <3>3, <3>5, Prefix
    <3>7. buf' = u
      BY <3>4, <3>5
    <3> HIDE DEF u, m
    <3>8. \A i \in 1..m : u[i] = line[i]
      BY <3>3, <3>6
    <3>9. u = line
      BY <3>2, <3>6, <3>8, SeqEqual DEF m
    <3> QED
      BY <3>1, <3>7, <3>9
  <2> QED
    BY <2>1, <2>2 DEF Reads
<1>3. GrepInv'
  BY <1>1, KeepGrep DEF ShellInv
<1> QED
  BY <1>1, <1>2, <1>3 DEF ShellInv, ParsedAsWords, grep_vars

LEMMA RestShell ==
  ShellInv /\ (\/ EmptyLine \/ ExitShell \/ NoSuchCommand
               \/ StartProgram \/ ProgramEnds \/ Report) => ShellInv'
<1> SUFFICES ASSUME ShellInv, \/ EmptyLine \/ ExitShell \/ NoSuchCommand
                              \/ StartProgram \/ ProgramEnds \/ Report
             PROVE  ShellInv'
  OBVIOUS
<1>1. pc' \in {"prompt", "program", "report"} /\ pc # "grep" /\ grep_vars' = grep_vars
  BY DEF EmptyLine, ExitShell, NoSuchCommand, StartProgram, ProgramEnds, Report
<1>2. GrepInv'
  BY <1>1, KeepGrep DEF ShellInv
<1> QED
  BY <1>1, <1>2 DEF ShellInv, ParsedAsWords, grep_vars

LEMMA GrepShell == ShellInv /\ (StartGrep \/ GrepRuns \/ GrepExits) => ShellInv'
<1> SUFFICES ASSUME ShellInv, StartGrep \/ GrepRuns \/ GrepExits PROVE ShellInv'
  OBVIOUS
<1>1. CASE StartGrep
  <2>1. pc' = "grep" /\ at = "idle" /\ at' = "next" /\ data' = data
    BY <1>1 DEF StartGrep, Start, ShellInv
  <2>2. GrepInv'
    BY <2>1 DEF ShellInv, GrepInv, GrepFindsLines
  <2> QED
    BY <2>1, <2>2 DEF ShellInv, ParsedAsWords
<1>2. CASE GrepRuns
  <2>1. pc = "grep" /\ pc' = "grep" /\ GrepStep
    BY <1>2 DEF GrepRuns
  <2>2. GrepInv'
    BY <2>1, GrepStepInv DEF ShellInv
  <2> QED
    BY <2>1, <2>2 DEF ShellInv, ParsedAsWords
<1>3. CASE GrepExits
  <2>1. pc' = "report" /\ at' = "idle"
    BY <1>3 DEF GrepExits
  <2>4. DOMAIN data' = 0..BUFSIZE
    BY <1>3 DEF GrepExits
  <2>5. GrepInv'
    BY <2>1, <2>4 DEF GrepInv, GrepFindsLines
  <2> QED
    BY <2>1, <2>5 DEF ShellInv, ParsedAsWords
<1> QED
  BY <1>1, <1>2, <1>3

\* The whole of grep and the shell, for every text, every line, every size of the
\* buffers and every directory.
THEOREM ShellInvariant == ShellSpec => []ShellInv
<1>1. ShellInit => ShellInv
  BY InitGrep DEF ShellInit, ShellInv, ParsedAsWords, GrepInit
<1>2. ShellInv /\ [ShellNext]_shell_vars => ShellInv'
  <2>1. ShellInv /\ ShellNext => ShellInv'
    BY ParseShell, ReadShell, RestShell, GrepShell DEF ShellNext, Proceeds
  <2>2. ShellInv /\ UNCHANGED shell_vars => ShellInv'
    <3> SUFFICES ASSUME ShellInv, UNCHANGED shell_vars PROVE ShellInv'
      OBVIOUS
    <3>1. /\ grep_vars' = grep_vars /\ pc' = pc /\ typed' = typed /\ buf' = buf
          /\ argument' = argument /\ arg_len' = arg_len
      BY DEF shell_vars
    <3>2. GrepInv'
      BY <3>1, KeepGrep DEF ShellInv
    <3> QED
      BY <3>1, <3>2 DEF ShellInv, ParsedAsWords, grep_vars
  <2> QED
    BY <2>1, <2>2
<1> QED
  BY <1>1, <1>2, PTL DEF ShellSpec

\* Of every text without NUL whose lines fit in its buffer grep prints exactly the
\* lines with the word, wherever its reads cut the text and whatever the buffer held
\* before, if the byte behind it held no end of line (a text no longer than the
\* buffer does without that).
THEOREM EveryLineFound == ShellSpec => []GrepFindsLines
<1>1. ShellInv => GrepFindsLines
  BY DEF ShellInv, GrepInv
<1> QED
  BY <1>1, ShellInvariant, PTL

\* The parser makes of every line its first word and the others without the
\* spaces between them, within its arrays.
THEOREM EveryLineParsed == ShellSpec => []ParsedAsWords
<1>1. ShellInv => ParsedAsWords
  BY DEF ShellInv
<1> QED
  BY <1>1, ShellInvariant, PTL
===============================================================================
