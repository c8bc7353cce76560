----------------------------- MODULE Blink_proofs ------------------------------
(***************************************************************************)
(* Proofs about Blink, for every pool, screen, set of lengths and width of *)
(* a countdown: the slots and their pointers implement the list of         *)
(* BlinkList, and the screen shows the entries' state.  The list is what a *)
(* recursive function finds along the pointers; that it ends, and where,   *)
(* follows from a least counterexample among the natural numbers.          *)
(***************************************************************************)
EXTENDS Blink, SequenceTheorems, FiniteSetTheorems, WellFoundedInduction, TLAPS

-----------------------------------------------------------------------------
(* Least elements *)

Before == {ss \in Nat \X Nat : ss[1] < ss[2]}

LEMMA BeforeWellFounded == IsWellFoundedOn(Before, Nat)
BY NatLessThanWellFounded DEF OpToRel, Before

LEMMA Least ==
  ASSUME NEW T \in SUBSET Nat, T # {}
  PROVE  \E x \in T : \A y \in T : x <= y
<1>1. PICK x \in T : \A y \in T : <<y, x>> \notin Before
  BY WFMin, BeforeWellFounded
<1>2. x \in Nat /\ \A y \in T : y \in Nat
  OBVIOUS
<1>3. \A y \in T : ~(y < x)
  BY <1>1, <1>2, Zenon DEF Before
<1> QED
  BY <1>2, <1>3

LEMMA MinIs ==
  ASSUME NEW T \in SUBSET Nat, T # {}
  PROVE  Min(T) \in T /\ \A y \in T : Min(T) <= y
BY Least DEF Min

\* The greatest of some numbers up to n.
LEMMA MaxIs ==
  ASSUME NEW n \in Nat, NEW T \in SUBSET (0..n), T # {}
  PROVE  Max(T) \in T /\ \A y \in T : y <= Max(T)
<1> DEFINE U == {n - y : y \in T}
<1>1. U \in SUBSET Nat /\ U # {}
  <2>1. \A y \in T : n - y \in Nat
    OBVIOUS
  <2> QED
    BY <2>1
<1>2. PICK u \in U : \A v \in U : u <= v
  BY <1>1, Least
<1>3. PICK x \in T : u = n - x
  OBVIOUS
<1>4. \A y \in T : n - y \in U
  OBVIOUS
<1>5. \A y \in T : x >= y
  <2> HIDE DEF U
  <2> QED
    BY <1>2, <1>3, <1>4
<1>6. Max(T) \in T /\ \A y \in T : Max(T) >= y
  BY <1>5 DEF Max
<1>7. \A y \in T : y \in Int
  OBVIOUS
<1> QED
  BY <1>6, <1>7

-----------------------------------------------------------------------------
(* The pointers of a pool p, from slot h on, are those of the list L. *)

Chain(p, h, L) ==
    /\ L \in Seq(Slot)
    /\ \A i, j \in 1..Len(L) : L[i] = L[j] => i = j
    /\ h = IF L = <<>> THEN NULL ELSE L[1]
    /\ \A i \in 1..Len(L) : p[L[i]].next = IF i = Len(L) THEN NULL ELSE L[i + 1]
    /\ \A s \in Slot : s \notin ToSet(L) => p[s].next = NULL

Following(p, f) == f = [s \in Slot \cup {NULL} |->
                           IF s = NULL THEN <<>> ELSE <<s>> \o f[p[s].next]]

Traversal(p) == CHOOSE f : Following(p, f)

LEMMA FromIs == From = Traversal(pool) /\ From' = Traversal(pool')
BY DEF From, Traversal, Following

LEMMA SlotFacts ==
  /\ POOL_SIZE \in Nat /\ CELLS \in Nat /\ SIGN_BIT \in Nat /\ SIGN_BIT > 0
  /\ Slot \subseteq Nat /\ NULL \notin Slot
BY BlinkAssumption DEF Slot, NULL

\* There is a function that follows the pointers: from the i-th slot of the list it
\* finds the rest of the list.
LEMMA TraversalFollows ==
  ASSUME NEW p, NEW h, NEW L, Chain(p, h, L)
  PROVE  Following(p, Traversal(p))
<1> DEFINE n == Len(L)
           at(s) == CHOOSE i \in 1..n : L[i] = s
           f == [s \in Slot \cup {NULL} |->
                    IF s = NULL THEN <<>>
                    ELSE IF s \in ToSet(L) THEN SubSeq(L, at(s), n) ELSE <<s>>]
<1>1. L \in Seq(Slot) /\ n \in Nat /\ ToSet(L) = {L[i] : i \in 1..n}
  BY LenProperties DEF Chain, ToSet
<1>2. NULL \in Slot \cup {NULL} /\ f[NULL] = <<>>
  OBVIOUS
<1>3. \A i \in 1..n : L[i] \in Slot /\ L[i] \in ToSet(L) /\ at(L[i]) = i
  <2> SUFFICES ASSUME NEW i \in 1..n PROVE L[i] \in Slot /\ L[i] \in ToSet(L) /\ at(L[i]) = i
    OBVIOUS
  <2>1. L[i] \in Slot
    BY <1>1, ElementOfSeq
  <2>2. at(L[i]) \in 1..n /\ L[at(L[i])] = L[i]
    OBVIOUS
  <2> QED
    BY <1>1, <2>1, <2>2 DEF Chain
<1>4. \A i \in 1..n : f[L[i]] = SubSeq(L, i, n)
  BY <1>3, SlotFacts
<1>5. ASSUME NEW s \in Slot PROVE f[s] = <<s>> \o f[p[s].next]
  <2>1. CASE s \in ToSet(L)
    <3>1. PICK i \in 1..n : s = L[i]
      BY <1>1, <2>1
    <3>2. SubSeq(L, i, n) = <<s>> \o SubSeq(L, i + 1, n)
      BY <1>1, <3>1, SubSeqRecursiveFirst
    <3>3. CASE i = n
      <4>1. p[s].next = NULL
        BY <3>1, <3>3 DEF Chain
      <4>2. SubSeq(L, i + 1, n) = <<>>
        BY <1>1, <3>3, SubSeqEmpty
      <4> QED
        BY <1>2, <1>4, <3>1, <3>2, <4>1, <4>2
    <3>4. CASE i # n
      <4>1. p[s].next = L[i + 1] /\ i + 1 \in 1..n
        BY <1>1, <3>1, <3>4 DEF Chain
      <4> HIDE DEF f
      <4> QED
        BY <1>4, <3>1, <3>2, <4>1
    <3> QED
      BY <3>3, <3>4
  <2>2. CASE s \notin ToSet(L)
    <3>1. p[s].next = NULL
      BY <2>2 DEF Chain
    <3>2. f[s] = <<s>>
      BY <2>2, SlotFacts
    <3>3. <<s>> \o <<>> = <<s>>
      BY ConcatEmptySeq
    <3> HIDE DEF f
    <3> QED
      BY <1>2, <3>1, <3>2, <3>3
  <2> QED
    BY <2>1, <2>2
<1>6. Following(p, f)
  <2>1. f = [s \in Slot \cup {NULL} |-> f[s]]
    OBVIOUS
  <2> HIDE DEF f
  <2>2. \A s \in Slot \cup {NULL} : f[s] = IF s = NULL THEN <<>> ELSE <<s>> \o f[p[s].next]
    BY <1>2, <1>5, SlotFacts
  <2> QED
    BY <2>1, <2>2 DEF Following
<1> QED
  <2> HIDE DEF f
  <2> QED
    BY <1>6 DEF Traversal

\* What it finds from the head on is the list: the last slot from which it did not
\* find the rest would lead to one from which it does.
LEMMA TraversalIs ==
  ASSUME NEW p, NEW h, NEW L, Chain(p, h, L)
  PROVE  Traversal(p)[h] = L
<1> DEFINE n == Len(L)
           f == Traversal(p)
           wrong == {k \in 0..(n - 1) : f[L[n - k]] # SubSeq(L, n - k, n)}
<1>1. /\ L \in Seq(Slot) /\ n \in Nat
      /\ \A i \in 1..n : L[i] \in Slot
  BY LenProperties, ElementOfSeq DEF Chain
<1>2. /\ f[NULL] = <<>>
      /\ \A s \in Slot : f[s] = <<s>> \o f[p[s].next]
  <2>1. Following(p, f)
    BY TraversalFollows
  <2> HIDE DEF f
  <2> QED
    BY <2>1, SlotFacts DEF Following
<1> HIDE DEF f
<1>3. ASSUME wrong # {} PROVE FALSE
  <2>1. PICK k \in wrong : \A j \in wrong : k <= j
    <3>1. wrong \in SUBSET Nat
      BY <1>1
    <3> HIDE DEF wrong
    <3> QED
      BY <1>3, <3>1, Least
  <2>2. k \in Nat /\ k <= n - 1 /\ n - k \in 1..n /\ f[L[n - k]] # SubSeq(L, n - k, n)
    BY <1>1
  <2>3. SubSeq(L, n - k, n) = <<L[n - k]>> \o SubSeq(L, n - k + 1, n)
    BY <1>1, <2>2, SubSeqRecursiveFirst
  <2>4. f[L[n - k]] = <<L[n - k]>> \o f[p[L[n - k]].next]
    BY <1>1, <1>2, <2>2
  <2>5. CASE k = 0
    <3>1. p[L[n - k]].next = NULL
      BY <1>1, <2>2, <2>5 DEF Chain
    <3>2. SubSeq(L, n - k + 1, n) = <<>>
      BY <1>1, <2>5, SubSeqEmpty
    <3> QED
      BY <1>2, <2>2, <2>3, <2>4, <3>1, <3>2
  <2>6. CASE k # 0
    <3>1. k - 1 \in 0..(n - 1) /\ ~(k <= k - 1)
      BY <1>1, <2>2, <2>6
    <3>a. k - 1 \notin wrong
      <4> HIDE DEF wrong
      <4> QED
        BY <2>1, <3>1
    <3>2. f[L[n - (k - 1)]] = SubSeq(L, n - (k - 1), n)
      BY <3>1, <3>a
    <3>3. n - (k - 1) = n - k + 1
      BY <1>1, <2>2
    <3>4. p[L[n - k]].next = L[n - k + 1]
      BY <1>1, <2>2, <2>6 DEF Chain
    <3> QED
      BY <2>2, <2>3, <2>4, <3>2, <3>3, <3>4
  <2> QED
    BY <2>5, <2>6
<1>4. ASSUME L = <<>> PROVE f[h] = L
  BY <1>2, <1>4 DEF Chain
<1>5. ASSUME L # <<>> PROVE f[h] = L
  <2>1. n \in Nat \ {0} /\ h = L[1]
    BY <1>1, <1>5, EmptySeq DEF Chain
  <2>2. n - 1 \notin wrong
    BY <1>3
  <2>3. f[L[n - (n - 1)]] = SubSeq(L, n - (n - 1), n)
    BY <2>1, <2>2
  <2>4. n - (n - 1) = 1
    BY <2>1
  <2> QED
    BY <1>1, <2>1, <2>3, <2>4, SubSeqFull
<1> QED
  BY <1>4, <1>5 DEF f

LEMMA ListBecomes ==
  /\ \A L : Chain(pool, mp1_list_head, L) => List = L
  /\ \A L : Chain(pool', mp1_list_head', L) => List' = L
BY FromIs, TraversalIs DEF List

\* Fields other than next may change.
LEMMA ChainStays ==
  ASSUME NEW p, NEW q, NEW h, NEW L, Chain(p, h, L), \A s \in Slot : q[s].next = p[s].next
  PROVE  Chain(q, h, L)
<1>1. \A i \in 1..Len(L) : L[i] \in Slot
  BY ElementOfSeq DEF Chain
<1> QED
  BY <1>1 DEF Chain

-----------------------------------------------------------------------------
(* The invariant *)

Entry == [location : Location \cup {0}, on_char : OnChar \cup {Blank},
          off_char : OffChar \cup {Blank}, on_length : 0..SIGN_BIT, off_length : 0..SIGN_BIT,
          countdown : 0..SIGN_BIT, on : BOOLEAN, next : Slot \cup {NULL}]

Types == /\ pool \in [Slot -> Entry]
         /\ mp1_list_head \in Slot \cup {NULL}
         /\ DOMAIN shown = 0..(CELLS - 1)

\* The pointers form a list; a slot is on it or clear.
ListInv ==
    /\ Chain(pool, mp1_list_head, List)
    /\ \A s \in Listed : pool[s].location \in Location /\ pool[s].location < CELLS
    /\ \A s \in Slot : s \notin Listed => pool[s] = Free

\* Entries that share a location are not alone in drawing it.
Shared ==
    \A s, t \in Listed : s # t /\ pool[s].location = pool[t].location
                            => pool[s].location \in mixed

IInv == Types /\ ListInv /\ Shared /\ ShownIsState

\* The list in the invariant is any list of the pointers.
LEMMA ListInvFrom ==
  ASSUME NEW L,
         Chain(pool', mp1_list_head', L),
         \A s \in ToSet(L) : pool'[s].location \in Location /\ pool'[s].location < CELLS,
         \A s \in Slot : s \notin ToSet(L) => pool'[s] = Free
  PROVE  ListInv' /\ List' = L /\ Listed' = ToSet(L)
<1>1. List' = L
  BY ListBecomes
<1>2. Listed' = ToSet(L)
  BY <1>1 DEF Listed
<1> QED
  BY <1>1, <1>2 DEF ListInv

\* The slots of the list, by place.
LEMMA ListFacts ==
  ASSUME IInv
  PROVE  /\ List \in Seq(Slot) /\ Len(List) \in Nat /\ DOMAIN List = 1..Len(List)
         /\ \A i \in 1..Len(List) : List[i] \in Slot /\ List[i] \in Listed
         /\ \A i, j \in 1..Len(List) : List[i] = List[j] => i = j
         /\ \A s \in Listed : s \in Slot /\ s # NULL /\ \E i \in 1..Len(List) : List[i] = s
<1>1. List \in Seq(Slot) /\ \A i, j \in 1..Len(List) : List[i] = List[j] => i = j
  BY DEF IInv, ListInv, Chain
<1>2. Len(List) \in Nat /\ DOMAIN List = 1..Len(List)
  BY <1>1, LenProperties
<1>3. \A i \in 1..Len(List) : List[i] \in Slot
  BY <1>1, ElementOfSeq
<1>4. Listed = {List[i] : i \in 1..Len(List)}
  BY <1>2 DEF Listed, ToSet
<1> QED
  BY <1>1, <1>2, <1>3, <1>4, SlotFacts

-----------------------------------------------------------------------------
(* The mapping *)

\* What an entry is to the caller.
View(r) == [location |-> r.location, on_char |-> r.on_char, off_char |-> r.off_char,
            on_length |-> r.on_length, off_length |-> r.off_length,
            countdown |-> r.countdown, on |-> r.on]

Views == [location : Location \cup {0}, on_char : OnChar \cup {Blank},
          off_char : OffChar \cup {Blank}, on_length : 0..SIGN_BIT, off_length : 0..SIGN_BIT,
          countdown : 0..SIGN_BIT, on : BOOLEAN]

LEMMA ItemsIs ==
  /\ items = [i \in DOMAIN List |-> View(pool[List[i]])]
  /\ items' = [i \in DOMAIN List' |-> View(pool'[List'[i]])]
BY DEF items, View

LEMMA ViewType == ASSUME NEW r \in Entry PROVE View(r) \in Views
BY DEF View, Views, Entry

LEMMA ItemsType ==
  ASSUME IInv
  PROVE  /\ items \in Seq(Views) /\ Len(items) = Len(List) /\ DOMAIN items = 1..Len(List)
         /\ \A i \in 1..Len(List) : items[i] = View(pool[List[i]])
<1> DEFINE n == Len(List)
<1>1. n \in Nat /\ items = [i \in 1..n |-> View(pool[List[i]])]
  BY ListFacts, ItemsIs
<1>2. \A i \in 1..n : View(pool[List[i]]) \in Views
  <2>1. \A i \in 1..n : pool[List[i]] \in Entry
    BY ListFacts DEF IInv, Types
  <2> QED
    BY <2>1, ViewType
<1> HIDE DEF n
<1>3. items \in [1..n -> Views]
  BY <1>1, <1>2
<1>4. items \in Seq(Views)
  BY <1>1, <1>3
<1>5. Len(items) = n
  BY <1>1, <1>3, <1>4, LenProperties
<1> QED
  BY <1>1, <1>4, <1>5 DEF n

\* mp1_find_helper finds the entry that the list calls the newest.
First(loc) == SelectInSeq(List, LAMBDA s : pool[s].location = loc)

LEMMA FindIs ==
  ASSUME IInv, NEW loc \in Location
  PROVE  /\ First(loc) = Abstract!Newest(loc)
         /\ First(loc) = 0 => Find(loc) = NULL /\ \A s \in Listed : pool[s].location # loc
         /\ First(loc) # 0 => /\ First(loc) \in 1..Len(List) /\ Find(loc) = List[First(loc)]
                              /\ Find(loc) \in Listed /\ Find(loc) \in Slot /\ Find(loc) # NULL
                              /\ pool[Find(loc)].location = loc
<1> DEFINE I == {i \in 1..Len(List) : pool[List[i]].location = loc}
<1>1. First(loc) = IF I # {} THEN Min(I) ELSE 0
  BY DEF First, SelectInSeq
<1>2. Find(loc) = IF First(loc) = 0 THEN NULL ELSE List[First(loc)]
  BY DEF Find, First
<1>3. Abstract!Newest(loc) = First(loc)
  <2>1. I = {i \in 1..Len(items) : items[i].location = loc}
    BY ItemsType DEF View
  <2> DEFINE J == {i \in 1..Len(items) : items[i].location = loc}
  <2>2. Abstract!Newest(loc) = IF J # {} THEN Abstract!Min(J) ELSE 0
    BY DEF Abstract!Newest, Abstract!SelectInSeq
  <2>3. \A S : Abstract!Min(S) = Min(S)
    BY DEF Abstract!Min, Min
  <2> HIDE DEF I, J
  <2> QED
    BY <1>1, <2>1, <2>2, <2>3 DEF J
<1>4. CASE I = {}
  <2>1. First(loc) = 0
    BY <1>1, <1>4
  <2>2. \A s \in Listed : pool[s].location # loc
    BY <1>4, ListFacts
  <2> QED
    BY <1>2, <1>3, <2>1, <2>2
<1>5. CASE I # {}
  <2>1. Min(I) \in I
    BY <1>5, MinIs
  <2>2. First(loc) \in 1..Len(List) /\ First(loc) # 0 /\ pool[List[First(loc)]].location = loc
    BY <1>1, <1>5, <2>1
  <2> QED
    BY <1>2, <1>3, <2>2, ListFacts
<1> QED
  BY <1>4, <1>5

-----------------------------------------------------------------------------
(* Add *)

\* A list that repeats no slot and leaves one out is shorter than the pool.
LEMMA RoomLeft ==
  ASSUME NEW n \in Nat, NEW f \in [1..n -> Slot],
         \A i, j \in 1..n : f[i] = f[j] => i = j,
         NEW s \in Slot, \A i \in 1..n : f[i] # s
  PROVE  n < POOL_SIZE
<1>1. IsFiniteSet(1..n) /\ Cardinality(1..n) = n
  <2>1. n = n - 1 + 1
    OBVIOUS
  <2> QED
    BY FS_Interval
<1>2. IsFiniteSet(Slot) /\ Cardinality(Slot) = POOL_SIZE
  BY SlotFacts, FS_Interval DEF Slot
<1>3. IsFiniteSet(Slot \ {s}) /\ Cardinality(Slot \ {s}) = POOL_SIZE - 1
  BY <1>2, FS_RemoveElement
<1>4. f \in Injection(1..n, Slot \ {s})
  BY DEF Injection, IsInjective
<1>5. n <= POOL_SIZE - 1
  BY <1>1, <1>3, <1>4, FS_Injection
<1> QED
  BY <1>5, SlotFacts

\* mp1_malloc finds a slot that is not on the list.
LEMMA MallocIs ==
  ASSUME IInv, Malloc # NULL
  PROVE  Malloc \in Slot /\ Malloc \notin Listed
<1> DEFINE free == {s \in Slot : pool[s].location = 0}
<1>1. Malloc = IF free = {} THEN NULL ELSE Min(free)
  BY DEF Malloc
<1>2. free \in SUBSET Nat
  BY SlotFacts
<1>3. Malloc \in free
  BY <1>1, <1>2, MinIs
<1>4. \A s \in Listed : pool[s].location # 0
  BY BlinkAssumption DEF IInv, ListInv
<1> QED
  BY <1>3, <1>4

LEMMA ConsProperties ==
  ASSUME NEW S, NEW L \in Seq(S), NEW s \in S
  PROVE  /\ <<s>> \o L \in Seq(S) /\ Len(<<s>> \o L) = Len(L) + 1
         /\ (<<s>> \o L)[1] = s
         /\ \A i \in 1..Len(L) : (<<s>> \o L)[i + 1] = L[i]
         /\ \A i \in 1..(Len(L) + 1) : i # 1 => i - 1 \in 1..Len(L) /\ (<<s>> \o L)[i] = L[i - 1]
         /\ ToSet(<<s>> \o L) = {s} \cup ToSet(L)
<1> DEFINE M == <<s>> \o L
<1>1. <<s>> \in Seq(S) /\ Len(<<s>>) = 1 /\ <<s>>[1] = s /\ Len(L) \in Nat
  OBVIOUS
<1>2. /\ M \in Seq(S) /\ Len(M) = Len(L) + 1
      /\ \A i \in 1..(Len(L) + 1) : M[i] = IF i <= 1 THEN <<s>>[i] ELSE L[i - 1]
  BY <1>1, ConcatProperties
<1>3. M[1] = s /\ \A i \in 1..Len(L) : M[i + 1] = L[i]
  BY <1>1, <1>2
<1>4. \A i \in 1..(Len(L) + 1) : i # 1 => i - 1 \in 1..Len(L) /\ M[i] = L[i - 1]
  BY <1>1, <1>2
<1>5. DOMAIN M = 1..(Len(L) + 1) /\ DOMAIN L = 1..Len(L)
  BY <1>2, LenProperties
<1>6. ToSet(M) = {s} \cup ToSet(L)
  <2> HIDE DEF M
  <2>1. ASSUME NEW x \in ToSet(M) PROVE x \in {s} \cup ToSet(L)
    <3>1. PICK i \in 1..(Len(L) + 1) : x = M[i]
      BY <1>5 DEF ToSet
    <3>2. i # 1 => i - 1 \in DOMAIN L /\ x = L[i - 1]
      BY <1>4, <1>5, <3>1
    <3> QED
      BY <1>3, <3>1, <3>2 DEF ToSet
  <2>2. 1 \in DOMAIN M /\ s \in ToSet(M)
    BY <1>1, <1>3, <1>5 DEF ToSet
  <2>3. ASSUME NEW x \in ToSet(L) PROVE x \in ToSet(M)
    <3>1. PICK i \in 1..Len(L) : x = L[i]
      BY <1>5 DEF ToSet
    <3>2. i + 1 \in DOMAIN M /\ M[i + 1] = x
      BY <1>1, <1>3, <1>5, <3>1
    <3> QED
      BY <3>2 DEF ToSet
  <2> QED
    BY <2>1, <2>2, <2>3
<1> QED
  BY <1>2, <1>3, <1>4, <1>6

LEMMA AddChain ==
  ASSUME IInv, NEW s \in Slot, s \notin Listed, NEW r \in Entry,
         r.next = mp1_list_head, r.location \in Location, r.location < CELLS,
         pool' = [pool EXCEPT ![s] = r], mp1_list_head' = s
  PROVE  ListInv' /\ List' = <<s>> \o List /\ Listed' = {s} \cup Listed
<1> DEFINE L == List
           M == <<s>> \o L
           n == Len(L)
<1>1. L \in Seq(Slot) /\ n \in Nat
  BY ListFacts
<1>2. /\ M \in Seq(Slot) /\ Len(M) = n + 1 /\ M[1] = s
      /\ \A i \in 1..(n + 1) : i # 1 => i - 1 \in 1..n /\ M[i] = L[i - 1]
      /\ ToSet(M) = {s} \cup ToSet(L)
  BY <1>1, ConsProperties
<1>3. pool'[s] = r /\ \A t \in Slot : t # s => pool'[t] = pool[t]
  BY DEF IInv, Types
<1>4. \A i \in 1..n : L[i] \in Slot /\ L[i] # s
  BY ListFacts
<1>5. \A i, j \in 1..n : L[i] = L[j] => i = j
  BY ListFacts
<1>6. mp1_list_head = IF n = 0 THEN NULL ELSE L[1]
  <2>1. L = <<>> <=> n = 0
    BY <1>1, EmptySeq
  <2> QED
    BY <2>1 DEF IInv, ListInv, Chain
<1>7. \A i \in 1..n : pool[L[i]].next = IF i = n THEN NULL ELSE L[i + 1]
  BY DEF IInv, ListInv, Chain
<1>8. Listed = ToSet(L) /\ \A t \in Slot : t \notin Listed => pool[t] = Free
  BY DEF IInv, ListInv, Listed
<1> HIDE DEF M, n, L
<1>9. Chain(pool', mp1_list_head', M)
  <2>1. \A i, j \in 1..Len(M) : M[i] = M[j] => i = j
    <3> SUFFICES ASSUME NEW i \in 1..(n + 1), NEW j \in 1..(n + 1), M[i] = M[j] PROVE i = j
      BY <1>2
    <3>1. CASE i = 1
      BY <1>2, <1>4, <3>1
    <3>2. CASE j = 1
      BY <1>2, <1>4, <3>2
    <3>3. CASE i # 1 /\ j # 1
      <4>1. i - 1 = j - 1
        BY <1>2, <1>5, <3>3
      <4> QED
        BY <1>1, <4>1
    <3> QED
      BY <3>1, <3>2, <3>3
  <2>2. mp1_list_head' = IF M = <<>> THEN NULL ELSE M[1]
    BY <1>1, <1>2, EmptySeq
  <2>3. ASSUME NEW i \in 1..Len(M)
        PROVE  pool'[M[i]].next = IF i = Len(M) THEN NULL ELSE M[i + 1]
    <3>1. CASE i = 1
      <4>1. pool'[M[i]].next = IF n = 0 THEN NULL ELSE L[1]
        BY <1>2, <1>3, <1>6, <3>1
      <4>2. n # 0 => M[2] = L[1]
        BY <1>1, <1>2
      <4> QED
        BY <1>1, <1>2, <3>1, <4>1, <4>2
    <3>2. CASE i # 1
      <4>1. i - 1 \in 1..n /\ M[i] = L[i - 1] /\ i \in Int
        BY <1>1, <1>2, <3>2
      <4>2. pool'[M[i]] = pool[L[i - 1]]
        BY <1>3, <1>4, <4>1
      <4>3. pool[L[i - 1]].next = IF i - 1 = n THEN NULL ELSE L[i - 1 + 1]
        BY <1>7, <4>1
      <4>4. i # n + 1 => M[i + 1] = L[i + 1 - 1]
        BY <1>1, <1>2, <4>1
      <4> QED
        BY <1>1, <1>2, <4>1, <4>2, <4>3, <4>4
    <3> QED
      BY <3>1, <3>2
  <2>4. \A t \in Slot : t \notin ToSet(M) => pool'[t].next = NULL
    BY <1>2, <1>3, <1>8 DEF Free
  <2> QED
    BY <1>2, <2>1, <2>2, <2>3, <2>4 DEF Chain
<1>10. \A t \in ToSet(M) : pool'[t].location \in Location /\ pool'[t].location < CELLS
  <2>1. \A t \in Listed : t \in Slot /\ pool[t].location \in Location /\ pool[t].location < CELLS
    BY ListFacts DEF IInv, ListInv
  <2> QED
    BY <1>2, <1>3, <1>8, <2>1
<1>11. \A t \in Slot : t \notin ToSet(M) => pool'[t] = Free
  BY <1>2, <1>3, <1>8
<1> QED
  BY <1>2, <1>8, <1>9, <1>10, <1>11, ListInvFrom DEF M, L

LEMMA AddItems ==
  ASSUME IInv, NEW s \in Slot, s \notin Listed, NEW r \in Entry,
         pool' = [pool EXCEPT ![s] = r], List' = <<s>> \o List
  PROVE  items' = <<View(r)>> \o items /\ Len(items) < POOL_SIZE
<1> DEFINE L == List
           M == <<s>> \o L
           n == Len(L)
           new == <<View(r)>> \o items
<1>1. L \in Seq(Slot) /\ n \in Nat /\ \A i \in 1..n : L[i] \in Slot /\ L[i] # s
  BY ListFacts
<1>2. /\ M \in Seq(Slot) /\ Len(M) = n + 1 /\ M[1] = s
      /\ \A i \in 1..(n + 1) : i # 1 => i - 1 \in 1..n /\ M[i] = L[i - 1]
  BY <1>1, ConsProperties
<1>3. pool'[s] = r /\ \A t \in Slot : t # s => pool'[t] = pool[t]
  BY DEF IInv, Types
<1>4. /\ items \in Seq(Views) /\ Len(items) = n
      /\ \A i \in 1..n : items[i] = View(pool[L[i]])
  BY ItemsType
<1>5. View(r) \in Views
  BY ViewType
<1>6. /\ new \in Seq(Views) /\ Len(new) = n + 1 /\ new[1] = View(r)
      /\ \A i \in 1..(n + 1) : i # 1 => new[i] = items[i - 1]
  BY <1>4, <1>5, ConsProperties
<1>7. items' = [i \in 1..(n + 1) |-> View(pool'[M[i]])]
  BY <1>1, <1>2, ItemsIs, LenProperties
<1>8. new = [i \in 1..(n + 1) |-> new[i]]
  BY <1>1, <1>6, LenProperties
<1>9. n < POOL_SIZE
  <2>1. L \in [1..n -> Slot] /\ \A i, j \in 1..n : L[i] = L[j] => i = j
    BY <1>1, LenProperties, ListFacts
  <2> HIDE DEF L, n
  <2> QED
    BY <1>1, <2>1, RoomLeft
<1> HIDE DEF M, n, L, new
<1>10. \A i \in 1..(n + 1) : new[i] = View(pool'[M[i]])
  <2> SUFFICES ASSUME NEW i \in 1..(n + 1) PROVE new[i] = View(pool'[M[i]])
    OBVIOUS
  <2>1. CASE i = 1
    BY <1>2, <1>3, <1>6, <2>1
  <2>2. CASE i # 1
    <3>1. i - 1 \in 1..n /\ M[i] = L[i - 1] /\ new[i] = items[i - 1]
      BY <1>2, <1>6, <2>2
    <3>2. pool'[M[i]] = pool[L[i - 1]]
      BY <1>1, <1>3, <3>1
    <3> QED
      BY <1>4, <3>1, <3>2
  <2> QED
    BY <2>1, <2>2
<1>11. items' = new
  BY <1>7, <1>8, <1>10
<1> QED
  BY <1>4, <1>9, <1>11 DEF new

LEMMA LinkedIs ==
  ASSUME NEW r \in Entry, mp1_list_head \in Slot \cup {NULL}
  PROVE  /\ Linked(r) \in Entry /\ Linked(r).next = mp1_list_head
         /\ Linked(r).location = r.location /\ View(Linked(r)) = View(r)
         /\ Displayed(Linked(r)) = Displayed(r)
BY DEF Linked, Entry, View, Displayed

LEMMA AddStep == ASSUME IInv, Add PROVE IInv' /\ Abstract!Add
<1>1. PICK loc \in Location, on \in OnChar, off \in OffChar, onl \in OnLength, offl \in OffLength :
         LET s == Malloc
             r == [location |-> loc, on_char |-> on, off_char |-> off, on_length |-> onl,
                   off_length |-> offl, countdown |-> onl, on |-> TRUE, next |-> NULL]
         IN /\ loc < CELLS /\ s # NULL
            /\ pool' = [pool EXCEPT ![s] = Linked(r)]
            /\ mp1_list_head' = s
            /\ shown' = [shown EXCEPT ![loc] = on]
            /\ mixed' = IF Find(loc) = NULL THEN mixed \ {loc} ELSE mixed \cup {loc}
  BY Zenon DEF Add
<1> DEFINE s == Malloc
           added == [location |-> loc, on_char |-> on, off_char |-> off, on_length |-> onl,
                     off_length |-> offl, countdown |-> onl, on |-> TRUE, next |-> NULL]
           r == Linked(added)
<1>2. /\ loc < CELLS /\ s # NULL
      /\ pool' = [pool EXCEPT ![s] = r] /\ mp1_list_head' = s
      /\ shown' = [shown EXCEPT ![loc] = on]
      /\ mixed' = IF Find(loc) = NULL THEN mixed \ {loc} ELSE mixed \cup {loc}
  BY <1>1, Zenon
<1>3. s \in Slot /\ s \notin Listed /\ loc < CELLS
  BY <1>2, MallocIs
<1>4. added \in Entry
  <2>1. onl \in 0..SIGN_BIT /\ offl \in 0..SIGN_BIT
    BY BlinkAssumption
  <2> QED
    BY <2>1 DEF Entry
<1>5. /\ added.location = loc /\ Displayed(added) = on
      /\ View(added) = [location |-> loc, on_char |-> on, off_char |-> off, on_length |-> onl,
                        off_length |-> offl, countdown |-> onl, on |-> TRUE]
  BY DEF Displayed, View
<1> HIDE DEF added
<1>6. /\ r \in Entry /\ r.location = loc /\ r.next = mp1_list_head /\ Displayed(r) = on
      /\ View(r) = [location |-> loc, on_char |-> on, off_char |-> off, on_length |-> onl,
                    off_length |-> offl, countdown |-> onl, on |-> TRUE]
  BY <1>4, <1>5, LinkedIs DEF IInv, Types
<1> HIDE DEF r, s
<1>7. ListInv' /\ List' = <<s>> \o List /\ Listed' = {s} \cup Listed
  BY <1>2, <1>3, <1>6, AddChain
<1>8. items' = <<View(r)>> \o items /\ Len(items) < POOL_SIZE
  BY <1>2, <1>3, <1>6, <1>7, AddItems
<1>9. Types'
  BY <1>2, <1>3, <1>6 DEF IInv, Types
<1>10. /\ pool'[s] = r
       /\ \A t \in Listed : t # s /\ t \in Slot /\ pool'[t] = pool[t]
       /\ loc \in DOMAIN shown /\ shown'[loc] = on /\ \A l : l # loc => shown'[l] = shown[l]
  <2>1. loc \in 0..(CELLS - 1)
    BY <1>3, BlinkAssumption
  <2> QED
    BY <1>2, <1>3, <2>1, ListFacts DEF IInv, Types
<1>11. Shared'
  <2>1. Find(loc) = NULL => \A t \in Listed : pool[t].location # loc
    BY FindIs
  <2> SUFFICES ASSUME NEW t \in {s} \cup Listed, NEW u \in {s} \cup Listed,
                      t # u, pool'[t].location = pool'[u].location
               PROVE  pool'[t].location \in mixed'
    BY <1>7 DEF Shared
  <2>2. CASE t = s \/ u = s
    <3>1. pool'[t].location = loc /\ Find(loc) # NULL
      BY <1>6, <1>10, <2>1, <2>2
    <3> QED
      BY <1>2, <3>1
  <2>3. CASE t # s /\ u # s
    <3>1. pool[t].location \in mixed /\ pool'[t].location = pool[t].location
      BY <1>10, <2>3 DEF IInv, Shared
    <3>2. pool[t].location = loc => Find(loc) # NULL
      BY <2>1, <2>3
    <3> QED
      BY <1>2, <3>1, <3>2
  <2> QED
    BY <2>2, <2>3
<1>12. ShownIsState'
  <2> SUFFICES ASSUME NEW t \in {s} \cup Listed, pool'[t].location \notin mixed'
               PROVE  shown'[pool'[t].location] = Displayed(pool'[t])
    BY <1>7 DEF ShownIsState, Displayed
  <2>1. CASE t = s
    BY <1>6, <1>10, <2>1
  <2>2. CASE t # s
    <3>1. t \in Listed /\ pool'[t] = pool[t]
      BY <1>10, <2>2
    <3>2. pool[t].location # loc
      BY <1>2, <3>1, FindIs
    <3>3. pool[t].location \notin mixed
      BY <1>2, <3>1, <3>2
    <3>4. shown[pool[t].location] = Displayed(pool[t])
      BY <3>1, <3>3 DEF IInv, ShownIsState
    <3> QED
      BY <1>10, <3>1, <3>2, <3>4
  <2> QED
    BY <2>1, <2>2
<1>13. Abstract!Add
  <2>1. loc \in 0..(CELLS - 1)
    BY <1>3, BlinkAssumption
  <2>2. View(r) \in {i \in Abstract!Item : i.countdown = i.on_length}
    BY <1>6, <2>1 DEF Abstract!Item
  <2> HIDE DEF items
  <2> QED
    BY <1>8, <2>2 DEF Abstract!Add
<1> QED
  BY <1>7, <1>9, <1>11, <1>12, <1>13 DEF IInv

-----------------------------------------------------------------------------
(* Remove *)

LEMMA RemoveAtIs ==
  ASSUME NEW S, NEW L \in Seq(S), NEW i \in 1..Len(L)
  PROVE  LET M == SubSeq(L, 1, i - 1) \o SubSeq(L, i + 1, Len(L))
         IN /\ M \in Seq(S) /\ Len(M) = Len(L) - 1
            /\ \A j \in 1..(Len(L) - 1) : M[j] = IF j < i THEN L[j] ELSE L[j + 1]
<1> DEFINE n == Len(L)
           A == SubSeq(L, 1, i - 1)
           B == SubSeq(L, i + 1, n)
<1>1. n \in Nat /\ i \in Nat /\ 1 <= i /\ i <= n /\ \A j \in 1..n : L[j] \in S
  BY ElementOfSeq, LenProperties
<1>2. /\ A \in Seq(S) /\ Len(A) = i - 1
      /\ \A j \in 1..(i - 1) : A[j] = L[j]
  <2>1. \A j \in 1..(i - 1) : L[j] \in S
    BY <1>1
  <2>2. /\ A \in Seq(S) /\ Len(A) = (IF 1 <= i - 1 THEN i - 1 - 1 + 1 ELSE 0)
        /\ \A j \in 1..(i - 1 - 1 + 1) : A[j] = L[1 + j - 1]
    BY <1>1, <2>1, SubSeqProperties
  <2> QED
    BY <1>1, <2>2
<1>3. /\ B \in Seq(S) /\ Len(B) = n - i
      /\ \A j \in 1..(n - i) : B[j] = L[j + i]
  <2>1. \A j \in (i + 1)..n : L[j] \in S
    BY <1>1
  <2>2. /\ B \in Seq(S) /\ Len(B) = (IF i + 1 <= n THEN n - (i + 1) + 1 ELSE 0)
        /\ \A j \in 1..(n - (i + 1) + 1) : B[j] = L[i + 1 + j - 1]
    BY <1>1, <2>1, SubSeqProperties
  <2> QED
    BY <1>1, <2>2
<1> HIDE DEF A, B, n
<1>4. /\ A \o B \in Seq(S) /\ Len(A \o B) = n - 1
      /\ \A j \in 1..(n - 1) : (A \o B)[j] = IF j <= i - 1 THEN A[j] ELSE B[j - (i - 1)]
  <2>1. /\ A \o B \in Seq(S) /\ Len(A \o B) = Len(A) + Len(B)
        /\ \A j \in 1..(Len(A) + Len(B)) :
              (A \o B)[j] = IF j <= Len(A) THEN A[j] ELSE B[j - Len(A)]
    BY <1>2, <1>3, ConcatProperties
  <2>2. Len(A) + Len(B) = n - 1
    BY <1>1, <1>2, <1>3
  <2> QED
    BY <1>2, <2>1, <2>2
<1>5. \A j \in 1..(n - 1) : (A \o B)[j] = IF j < i THEN L[j] ELSE L[j + 1]
  <2> SUFFICES ASSUME NEW j \in 1..(n - 1)
               PROVE  (A \o B)[j] = IF j < i THEN L[j] ELSE L[j + 1]
    OBVIOUS
  <2>1. CASE j < i
    <3>1. j <= i - 1 /\ j \in 1..(i - 1)
      BY <1>1, <2>1
    <3> QED
      BY <1>2, <1>4, <2>1, <3>1
  <2>2. CASE ~(j < i)
    <3>1. ~(j <= i - 1) /\ j - (i - 1) \in 1..(n - i) /\ j - (i - 1) + i = j + 1
      BY <1>1, <2>2
    <3> QED
      BY <1>3, <1>4, <2>2, <3>1
  <2> QED
    BY <2>1, <2>2
<1> QED
  BY <1>4, <1>5 DEF A, B, n

\* The entry's predecessor on the list, if it has one, is what next leads to it from.
LEMMA PredecessorIs ==
  ASSUME IInv, NEW i \in 1..Len(List)
  PROVE  {p \in Listed : pool[p].next = List[i]} = IF i = 1 THEN {} ELSE {List[i - 1]}
<1> DEFINE L == List
           n == Len(L)
<1>1. /\ n \in Nat /\ i \in Nat /\ 1 <= i /\ i <= n
      /\ \A j \in 1..n : L[j] \in Slot /\ L[j] \in Listed /\ L[j] # NULL
      /\ \A j, k \in 1..n : L[j] = L[k] => j = k
  BY ListFacts, SlotFacts
<1>2. \A j \in 1..n : pool[L[j]].next = IF j = n THEN NULL ELSE L[j + 1]
  BY DEF IInv, ListInv, Chain
<1>3. \A s \in Listed : \E j \in 1..n : L[j] = s
  BY ListFacts
<1> HIDE DEF L, n
<1>4. \A j \in 1..n : pool[L[j]].next = L[i] <=> j = i - 1
  <2> SUFFICES ASSUME NEW j \in 1..n PROVE pool[L[j]].next = L[i] <=> j = i - 1
    OBVIOUS
  <2>1. CASE j = n
    BY <1>1, <1>2, <2>1
  <2>2. CASE j # n
    <3>1. j + 1 \in 1..n /\ pool[L[j]].next = L[j + 1]
      BY <1>1, <1>2, <2>2
    <3>2. L[j + 1] = L[i] <=> j + 1 = i
      BY <1>1, <3>1
    <3> QED
      BY <1>1, <3>1, <3>2
  <2> QED
    BY <2>1, <2>2
<1>5. CASE i = 1
  <2>1. \A s \in Listed : pool[s].next # L[i]
    BY <1>1, <1>3, <1>4, <1>5
  <2> QED
    BY <1>5, <2>1 DEF L
<1>6. CASE i # 1
  <2>1. i - 1 \in 1..n
    BY <1>1, <1>6
  <2>2. \A s \in Listed : pool[s].next = L[i] <=> s = L[i - 1]
    BY <1>1, <1>3, <1>4, <2>1
  <2>3. L[i - 1] \in Listed
    BY <1>1, <2>1
  <2> QED
    BY <1>6, <2>2, <2>3 DEF L
<1> QED
  BY <1>5, <1>6

Unlinking(i) ==
    /\ pool' = [p \in Slot |->
                   IF p = List[i] THEN Free
                   ELSE IF i # 1 /\ p = List[i - 1]
                        THEN [pool[p] EXCEPT !.next = pool[List[i]].next]
                   ELSE pool[p]]
    /\ mp1_list_head' = IF i = 1 THEN pool[List[i]].next ELSE mp1_list_head

LEMMA RemoveIsUnlinking ==
  ASSUME IInv, RemoveEntry
  PROVE  \E loc \in Location :
            /\ First(loc) # 0 /\ First(loc) \in 1..Len(List)
            /\ Unlinking(First(loc)) /\ UNCHANGED <<shown, mixed>>
<1>1. PICK loc \in Location :
         LET s    == Find(loc)
             prev == {p \in Listed : pool[p].next = s}
         IN /\ s # NULL
            /\ pool' = [p \in Slot |-> IF p = s THEN Free
                                       ELSE IF p \in prev THEN [pool[p] EXCEPT !.next = pool[s].next]
                                       ELSE pool[p]]
            /\ mp1_list_head' = IF mp1_list_head = s THEN pool[s].next ELSE mp1_list_head
            /\ UNCHANGED <<shown, mixed>>
  BY Zenon DEF RemoveEntry
<1> DEFINE i == First(loc)
           s == Find(loc)
           prev == {p \in Listed : pool[p].next = s}
<1>2. /\ s # NULL
      /\ pool' = [p \in Slot |-> IF p = s THEN Free
                                 ELSE IF p \in prev THEN [pool[p] EXCEPT !.next = pool[s].next]
                                 ELSE pool[p]]
      /\ mp1_list_head' = IF mp1_list_head = s THEN pool[s].next ELSE mp1_list_head
      /\ UNCHANGED <<shown, mixed>>
  BY <1>1, Zenon
<1>3. i # 0 /\ i \in 1..Len(List) /\ s = List[i]
  BY <1>2, FindIs
<1>4. prev = IF i = 1 THEN {} ELSE {List[i - 1]}
  BY <1>3, PredecessorIs
<1>5. mp1_list_head = s <=> i = 1
  <2>1. mp1_list_head = List[1] /\ 1 \in 1..Len(List)
    <3>1. List # <<>> /\ 1 \in 1..Len(List)
      BY <1>3, ListFacts, EmptySeq
    <3> QED
      BY <3>1 DEF IInv, ListInv, Chain
  <2> QED
    BY <1>3, <2>1, ListFacts
<1> HIDE DEF i, s, prev
<1>6. \A p : p \in prev <=> i # 1 /\ p = List[i - 1]
  BY <1>4
<1>7. pool' = [p \in Slot |->
                  IF p = List[i] THEN Free
                  ELSE IF i # 1 /\ p = List[i - 1]
                       THEN [pool[p] EXCEPT !.next = pool[List[i]].next]
                  ELSE pool[p]]
  BY <1>2, <1>3, <1>6
<1>8. Unlinking(i)
  BY <1>2, <1>3, <1>5, <1>7 DEF Unlinking
<1> QED
  BY <1>2, <1>3, <1>8 DEF i

LEMMA UnlinkedPool ==
  ASSUME IInv, NEW i \in 1..Len(List), Unlinking(i)
  PROVE  /\ pool' \in [Slot -> Entry] /\ pool'[List[i]] = Free
         /\ \A s \in Slot : s # List[i] =>
               /\ View(pool'[s]) = View(pool[s])
               /\ pool'[s].location = pool[s].location
               /\ Displayed(pool'[s]) = Displayed(pool[s])
               /\ pool'[s].next = IF i # 1 /\ s = List[i - 1] THEN pool[List[i]].next
                                  ELSE pool[s].next
               /\ ~(i # 1 /\ s = List[i - 1]) => pool'[s] = pool[s]
<1> DEFINE e == pool[List[i]].next
           t(s) == [pool[s] EXCEPT !.next = e]
<1>1. List[i] \in Slot /\ pool \in [Slot -> Entry]
  BY ListFacts DEF IInv, Types
<1>2. e \in Slot \cup {NULL}
  BY <1>1 DEF Entry
<1>3. Free \in Entry /\ NULL \in Slot \cup {NULL}
  BY SlotFacts DEF Free, Entry
<1> HIDE DEF e
<1>4. \A r \in Entry :
         LET u == [r EXCEPT !.next = e]
         IN /\ u \in Entry /\ View(u) = View(r) /\ u.location = r.location
            /\ Displayed(u) = Displayed(r) /\ u.next = e
  BY <1>2 DEF Entry, View, Displayed
<1>5. /\ DOMAIN pool' = Slot
      /\ pool' = [s \in Slot |-> pool'[s]]
      /\ \A s \in Slot : pool'[s] = IF s = List[i] THEN Free
                                    ELSE IF i # 1 /\ s = List[i - 1] THEN t(s) ELSE pool[s]
  BY DEF Unlinking, e
<1>6. \A s \in Slot : /\ pool[s] \in Entry /\ t(s) \in Entry /\ View(t(s)) = View(pool[s])
                      /\ t(s).location = pool[s].location
                      /\ Displayed(t(s)) = Displayed(pool[s]) /\ t(s).next = e
  BY <1>1, <1>4
<1> HIDE DEF t
<1>7. \A s \in Slot : pool'[s] \in Entry
  BY <1>3, <1>5, <1>6
<1>8. pool' \in [Slot -> Entry]
  BY <1>5, <1>7
<1> QED
  BY <1>1, <1>5, <1>6, <1>8 DEF e

LEMMA UnlinkedChain ==
  ASSUME IInv, NEW i \in 1..Len(List), Unlinking(i)
  PROVE  /\ ListInv' /\ List' = RemoveAt(List, i)
         /\ Listed' = Listed \ {List[i]}
         /\ mp1_list_head' \in Slot \cup {NULL}
<1> DEFINE L == List
           n == Len(L)
           M == RemoveAt(L, i)
<1>1. /\ L \in Seq(Slot) /\ n \in Nat /\ i \in Nat /\ 1 <= i /\ i <= n
      /\ \A j \in 1..n : L[j] \in Slot /\ L[j] \in Listed /\ L[j] # NULL
      /\ \A j, k \in 1..n : L[j] = L[k] => j = k
  BY ListFacts, SlotFacts
<1>2. /\ \A j \in 1..n : pool[L[j]].next = IF j = n THEN NULL ELSE L[j + 1]
      /\ mp1_list_head = IF L = <<>> THEN NULL ELSE L[1]
      /\ \A s \in Listed : pool[s].location \in Location /\ pool[s].location < CELLS
      /\ \A s \in Slot : s \notin Listed => pool[s] = Free
  BY DEF IInv, ListInv, Chain
<1>3. /\ M \in Seq(Slot) /\ Len(M) = n - 1
      /\ \A j \in 1..(n - 1) : M[j] = IF j < i THEN L[j] ELSE L[j + 1]
  BY <1>1, RemoveAtIs DEF RemoveAt
<1>4. /\ pool'[L[i]] = Free
      /\ \A s \in Slot : s # L[i] =>
            /\ pool'[s].location = pool[s].location
            /\ pool'[s].next = IF i # 1 /\ s = L[i - 1] THEN pool[L[i]].next ELSE pool[s].next
            /\ ~(i # 1 /\ s = L[i - 1]) => pool'[s] = pool[s]
  BY UnlinkedPool
<1>5. mp1_list_head' = IF i = 1 THEN pool[L[i]].next ELSE mp1_list_head
  BY DEF Unlinking
<1>6. \A s \in Listed : s \in Slot /\ \E j \in 1..n : L[j] = s
  BY ListFacts
<1>7. DOMAIN M = 1..(n - 1)
  BY <1>3, LenProperties
<1>8. L # <<>>
  BY <1>1, EmptySeq
<1>9. mp1_list_head' \in Slot \cup {NULL}
  <2>1. 1 \in 1..n /\ (i # n => i + 1 \in 1..n)
    BY <1>1
  <2> HIDE DEF L, n
  <2> QED
    BY <1>1, <1>2, <1>5, <1>8, <2>1
<1> HIDE DEF L, n, M
\* A place j of the shorter list is the place b(j) of the longer one.
<1> DEFINE b(j) == IF j < i THEN j ELSE j + 1
<1>10. \A j \in 1..(n - 1) : b(j) \in 1..n /\ b(j) # i /\ M[j] = L[b(j)]
  BY <1>1, <1>3
<1>11. \A j, k \in 1..(n - 1) : b(j) = b(k) => j = k
  BY <1>1
<1>12. \A k \in 1..n : k # i => \E j \in 1..(n - 1) : b(j) = k
  <2> SUFFICES ASSUME NEW k \in 1..n, k # i PROVE \E j \in 1..(n - 1) : b(j) = k
    OBVIOUS
  <2>1. CASE k < i
    <3>1. k \in 1..(n - 1) /\ b(k) = k
      BY <1>1, <2>1
    <3> QED
      BY <3>1
  <2>2. CASE ~(k < i)
    <3>1. k - 1 \in 1..(n - 1) /\ b(k - 1) = k
      BY <1>1, <2>2
    <3> QED
      BY <3>1
  <2> QED
    BY <2>1, <2>2
<1>13. \A j \in 1..(n - 1) : /\ j = n - 1 => b(j) = n \/ (i = n /\ b(j) = n - 1)
                             /\ j # n - 1 => b(j + 1) = IF b(j) = i - 1 THEN i + 1 ELSE b(j) + 1
                             /\ j # n - 1 => b(j) # n /\ (b(j) = i - 1 => i # n)
                             /\ b(j) = i - 1 => i # 1
  BY <1>1
<1>14. ToSet(M) = Listed \ {L[i]}
  <2>1. ASSUME NEW s \in ToSet(M) PROVE s \in Listed \ {L[i]}
    <3>1. PICK j \in 1..(n - 1) : s = M[j]
      BY <1>7 DEF ToSet
    <3>2. s = L[b(j)] /\ b(j) \in 1..n /\ b(j) # i
      BY <1>10, <3>1
    <3> HIDE DEF b
    <3> QED
      BY <1>1, <3>2
  <2>2. ASSUME NEW s \in Listed \ {L[i]} PROVE s \in ToSet(M)
    <3>1. PICK k \in 1..n : L[k] = s
      BY <1>6
    <3>2. k # i
      BY <3>1
    <3>3. PICK j \in 1..(n - 1) : b(j) = k
      BY <1>12, <3>2
    <3>4. M[j] = s
      BY <1>10, <3>1, <3>3
    <3> QED
      BY <1>7, <3>4 DEF ToSet
  <2> QED
    BY <2>1, <2>2
<1>15. \A j \in 1..n : j # i =>
          pool'[L[j]].next = IF j = i - 1 THEN pool[L[i]].next ELSE pool[L[j]].next
  <2> SUFFICES ASSUME NEW j \in 1..n, j # i
               PROVE  pool'[L[j]].next = IF j = i - 1 THEN pool[L[i]].next ELSE pool[L[j]].next
    OBVIOUS
  <2>1. L[j] # L[i] /\ L[j] \in Slot
    BY <1>1
  <2>2. i # 1 => (L[j] = L[i - 1] <=> j = i - 1)
    BY <1>1
  <2>3. j = i - 1 => i # 1
    BY <1>1
  <2> QED
    BY <1>4, <2>1, <2>2, <2>3
<1>16. \A j \in 1..(n - 1) : pool'[M[j]].next = IF j = n - 1 THEN NULL ELSE M[j + 1]
  <2> SUFFICES ASSUME NEW j \in 1..(n - 1)
               PROVE  pool'[M[j]].next = IF j = n - 1 THEN NULL ELSE M[j + 1]
    OBVIOUS
  <2>1. /\ b(j) \in 1..n /\ b(j) # i /\ M[j] = L[b(j)]
        /\ pool'[M[j]].next = IF b(j) = i - 1 THEN pool[L[i]].next ELSE pool[L[b(j)]].next
    BY <1>10, <1>15
  <2>2. /\ j = n - 1 => b(j) = n \/ (i = n /\ b(j) = n - 1)
        /\ j # n - 1 => b(j + 1) = IF b(j) = i - 1 THEN i + 1 ELSE b(j) + 1
        /\ j # n - 1 => b(j) # n /\ (b(j) = i - 1 => i # n)
    BY <1>13
  <2>3. j # n - 1 => M[j + 1] = L[b(j + 1)]
    <3>1. j # n - 1 => j + 1 \in 1..(n - 1)
      BY <1>1
    <3> QED
      BY <1>10, <3>1
  <2>4. i \in 1..n
    BY <1>1
  <2> HIDE DEF b
  <2>5. CASE j = n - 1
    BY <1>1, <1>2, <2>1, <2>2, <2>4, <2>5
  <2>6. CASE j # n - 1
    <3>1. CASE b(j) = i - 1
      BY <1>2, <2>1, <2>2, <2>3, <2>4, <2>6, <3>1
    <3>2. CASE b(j) # i - 1
      BY <1>2, <2>1, <2>2, <2>3, <2>4, <2>6, <3>2
    <3> QED
      BY <3>1, <3>2
  <2> QED
    BY <2>5, <2>6
<1>17. mp1_list_head' = IF M = <<>> THEN NULL ELSE M[1]
  <2>1. M = <<>> <=> n = 1
    BY <1>1, <1>3, EmptySeq
  <2>2. CASE i = 1
    <3>1. n # 1 => M[1] = L[2]
      BY <1>1, <1>3, <2>2
    <3>2. mp1_list_head' = IF n = 1 THEN NULL ELSE L[2]
      BY <1>1, <1>2, <1>5, <2>2
    <3> QED
      BY <2>1, <3>1, <3>2
  <2>3. CASE i # 1
    <3>1. n # 1 /\ M[1] = L[1]
      BY <1>1, <1>3, <2>3
    <3> QED
      BY <1>2, <1>5, <1>8, <2>1, <2>3, <3>1
  <2> QED
    BY <2>2, <2>3
<1>18. \A s \in Slot : s \notin ToSet(M) => pool'[s] = Free
  <2> SUFFICES ASSUME NEW s \in Slot, s \notin ToSet(M), s # L[i] PROVE pool'[s] = Free
    BY <1>4
  <2>1. s \notin Listed
    BY <1>14
  <2>2. i # 1 => L[i - 1] \in Listed
    BY <1>1
  <2> QED
    BY <1>2, <1>4, <2>1, <2>2
<1>19. Chain(pool', mp1_list_head', M)
  <2>1. \A j, k \in 1..Len(M) : M[j] = M[k] => j = k
    BY <1>1, <1>3, <1>10, <1>11
  <2>2. \A s \in Slot : s \notin ToSet(M) => pool'[s].next = NULL
    BY <1>18 DEF Free
  <2> QED
    BY <1>3, <1>16, <1>17, <2>1, <2>2 DEF Chain
<1>20. \A s \in ToSet(M) : pool'[s].location \in Location /\ pool'[s].location < CELLS
  BY <1>2, <1>4, <1>6, <1>14
<1>21. ListInv' /\ List' = M /\ Listed' = ToSet(M)
  BY <1>18, <1>19, <1>20, ListInvFrom
<1> QED
  BY <1>9, <1>14, <1>21 DEF M, L

LEMMA UnlinkedItems ==
  ASSUME IInv, NEW i \in 1..Len(List), Unlinking(i), List' = RemoveAt(List, i)
  PROVE  items' = Abstract!RemoveAt(items, i)
<1> DEFINE n == Len(List)
           M == RemoveAt(List, i)
           new == Abstract!RemoveAt(items, i)
<1>1. /\ List \in Seq(Slot) /\ n \in Nat /\ 1 <= i /\ i <= n /\ i \in Nat
      /\ \A j \in 1..n : List[j] \in Slot
      /\ \A j, k \in 1..n : List[j] = List[k] => j = k
  BY ListFacts
<1>2. /\ M \in Seq(Slot) /\ Len(M) = n - 1
      /\ \A j \in 1..(n - 1) : M[j] = IF j < i THEN List[j] ELSE List[j + 1]
  BY <1>1, RemoveAtIs DEF RemoveAt
<1>3. /\ items \in Seq(Views) /\ Len(items) = n
      /\ \A j \in 1..n : items[j] = View(pool[List[j]])
  BY ItemsType
<1>4. /\ new \in Seq(Views) /\ Len(new) = n - 1
      /\ \A j \in 1..(n - 1) : new[j] = IF j < i THEN items[j] ELSE items[j + 1]
  <2> HIDE DEF items
  <2> QED
    BY <1>3, RemoveAtIs DEF Abstract!RemoveAt
<1>5. items' = [j \in 1..(n - 1) |-> View(pool'[M[j]])]
  BY <1>2, ItemsIs, LenProperties
<1>6. new = [j \in 1..(n - 1) |-> new[j]]
  BY <1>4, LenProperties
<1>7. \A s \in Slot : s # List[i] => View(pool'[s]) = View(pool[s])
  BY UnlinkedPool
<1> HIDE DEF n, M, new, items
<1>8. \A j \in 1..(n - 1) : new[j] = View(pool'[M[j]])
  <2> SUFFICES ASSUME NEW j \in 1..(n - 1) PROVE new[j] = View(pool'[M[j]])
    OBVIOUS
  <2> DEFINE k == IF j < i THEN j ELSE j + 1
  <2>1. k \in 1..n /\ k # i
    BY <1>1
  <2>2. M[j] = List[k] /\ new[j] = items[k]
    BY <1>2, <1>4
  <2> HIDE DEF k
  <2>3. List[k] # List[i] /\ List[k] \in Slot
    BY <1>1, <2>1
  <2> QED
    BY <1>3, <1>7, <2>1, <2>2, <2>3
<1> QED
  BY <1>5, <1>6, <1>8 DEF new

LEMMA RemoveStep == ASSUME IInv, RemoveEntry PROVE IInv' /\ Abstract!RemoveEntry
<1>1. PICK loc \in Location : /\ First(loc) # 0 /\ First(loc) \in 1..Len(List)
                              /\ Unlinking(First(loc)) /\ UNCHANGED <<shown, mixed>>
  BY RemoveIsUnlinking
<1> DEFINE i == First(loc)
<1>2. /\ ListInv' /\ List' = RemoveAt(List, i) /\ Listed' = Listed \ {List[i]}
      /\ mp1_list_head' \in Slot \cup {NULL}
  BY <1>1, UnlinkedChain
<1>3. /\ pool' \in [Slot -> Entry]
      /\ \A s \in Listed' : /\ s \in Listed /\ pool'[s].location = pool[s].location
                            /\ Displayed(pool'[s]) = Displayed(pool[s])
  BY <1>1, <1>2, UnlinkedPool, ListFacts
<1>4. Types'
  BY <1>1, <1>2, <1>3 DEF IInv, Types
<1>5. Shared'
  BY <1>1, <1>3 DEF IInv, Shared
<1>6. ShownIsState'
  <2> SUFFICES ASSUME NEW s \in Listed', pool'[s].location \notin mixed'
               PROVE  shown'[pool'[s].location] = Displayed(pool'[s])
    BY DEF ShownIsState, Displayed
  <2> QED
    BY <1>1, <1>3 DEF IInv, ShownIsState
<1>7. Abstract!RemoveEntry
  <2>1. Abstract!Newest(loc) = i /\ i # 0
    BY <1>1, FindIs
  <2>2. items' = Abstract!RemoveAt(items, i)
    BY <1>1, <1>2, UnlinkedItems
  <2> HIDE DEF items
  <2> QED
    BY <2>1, <2>2 DEF Abstract!RemoveEntry
<1> QED
  BY <1>2, <1>4, <1>5, <1>6, <1>7 DEF IInv

-----------------------------------------------------------------------------
(* Sync *)

LEMMA CopiedIs ==
  ASSUME NEW r \in Entry, NEW q \in Entry
  PROVE  /\ Copied(r, q) \in Entry /\ Copied(r, q).next = q.next
         /\ Copied(r, q).location = q.location
         /\ View(Copied(r, q)) = Abstract!Synchronised(View(r), View(q))
<1> DEFINE t == Copied(r, q)
<1>1. /\ t \in Entry /\ t.next = q.next /\ t.location = q.location
      /\ t.on_char = q.on_char /\ t.off_char = q.off_char /\ t.on_length = r.on_length
      /\ t.off_length = r.off_length /\ t.countdown = r.countdown /\ t.on = r.on
  BY DEF Copied, Entry
<1>2. ASSUME NEW v \in Views, NEW w \in Views
      PROVE  LET u == Abstract!Synchronised(v, w)
             IN /\ u \in Views
                /\ u.location = w.location /\ u.on_char = w.on_char /\ u.off_char = w.off_char
                /\ u.on_length = v.on_length /\ u.off_length = v.off_length
                /\ u.countdown = v.countdown /\ u.on = v.on
  BY DEF Abstract!Synchronised, Views
<1> DEFINE u == Abstract!Synchronised(View(r), View(q))
<1>3. /\ u \in Views
      /\ u.location = q.location /\ u.on_char = q.on_char /\ u.off_char = q.off_char
      /\ u.on_length = r.on_length /\ u.off_length = r.off_length
      /\ u.countdown = r.countdown /\ u.on = r.on
  <2>1. View(r) \in Views /\ View(q) \in Views
    BY ViewType
  <2>2. LET w == Abstract!Synchronised(View(r), View(q))
        IN /\ w \in Views
           /\ w.location = View(q).location /\ w.on_char = View(q).on_char
           /\ w.off_char = View(q).off_char
           /\ w.on_length = View(r).on_length /\ w.off_length = View(r).off_length
           /\ w.countdown = View(r).countdown /\ w.on = View(r).on
    BY <1>2, <2>1
  <2> QED
    BY <2>2 DEF View
<1> HIDE DEF t, u
<1>4. View(t) = u
  BY <1>1, <1>3 DEF View, Views
<1> QED
  BY <1>1, <1>4 DEF t, u

\* Changes of entries in their places leave the list as it is.
LEMMA InPlace ==
  ASSUME IInv, pool' \in [Slot -> Entry], mp1_list_head' = mp1_list_head,
         \A s \in Slot : pool'[s].next = pool[s].next /\ pool'[s].location = pool[s].location,
         \A s \in Slot : s \notin Listed => pool'[s] = pool[s]
  PROVE  ListInv' /\ List' = List /\ Listed' = Listed
<1>1. Chain(pool', mp1_list_head', List)
  BY ChainStays DEF IInv, ListInv
<1>2. Listed = ToSet(List) /\ \A s \in Listed : s \in Slot
  BY ListFacts DEF Listed
<1>3. /\ \A s \in Listed : pool'[s].location \in Location /\ pool'[s].location < CELLS
      /\ \A s \in Slot : s \notin Listed => pool'[s] = Free
  BY <1>2 DEF IInv, ListInv
<1> HIDE DEF Listed, List
<1> QED
  BY <1>1, <1>2, <1>3, ListInvFrom

LEMMA SyncStep == ASSUME IInv, Sync PROVE IInv' /\ Abstract!Sync
<1>1. PICK a \in Location, b \in Location :
         LET from == Find(a)
             to   == Find(b)
         IN /\ from # NULL /\ to # NULL
            /\ pool' = [pool EXCEPT ![to] = Copied(pool[from], @)]
            /\ shown' = [shown EXCEPT ![b] = pool[to].off_char]
            /\ mixed' = mixed \cup {b}
            /\ UNCHANGED mp1_list_head
  BY Zenon DEF Sync
<1> DEFINE from == Find(a)
           to   == Find(b)
           i    == First(a)
           j    == First(b)
<1>2. /\ from # NULL /\ to # NULL
      /\ pool' = [pool EXCEPT ![to] = Copied(pool[from], @)]
      /\ shown' = [shown EXCEPT ![b] = pool[to].off_char]
      /\ mixed' = mixed \cup {b}
      /\ UNCHANGED mp1_list_head
  BY <1>1, Zenon
<1>3. /\ i # 0 /\ j # 0 /\ i \in 1..Len(List) /\ j \in 1..Len(List)
      /\ from = List[i] /\ to = List[j] /\ from \in Slot /\ to \in Slot /\ to \in Listed
      /\ pool[to].location = b
      /\ i = Abstract!Newest(a) /\ j = Abstract!Newest(b)
  BY <1>2, FindIs
<1> HIDE DEF from, to, i, j
<1>4. pool \in [Slot -> Entry] /\ pool[from] \in Entry /\ pool[to] \in Entry
  BY <1>3 DEF IInv, Types
<1> DEFINE t == Copied(pool[from], pool[to])
<1>5. /\ t \in Entry /\ t.next = pool[to].next /\ t.location = pool[to].location
      /\ View(t) = Abstract!Synchronised(View(pool[from]), View(pool[to]))
  BY <1>4, CopiedIs
<1>6. pool' = [pool EXCEPT ![to] = t]
  BY <1>2
<1> HIDE DEF t
<1>7. /\ pool' \in [Slot -> Entry] /\ pool'[to] = t
      /\ \A s \in Slot : s # to => pool'[s] = pool[s]
  BY <1>3, <1>4, <1>5, <1>6
<1>8. ListInv' /\ List' = List /\ Listed' = Listed
  <2>1. \A s \in Slot : pool'[s].next = pool[s].next /\ pool'[s].location = pool[s].location
    BY <1>5, <1>7
  <2>2. \A s \in Slot : s \notin Listed => pool'[s] = pool[s]
    BY <1>3, <1>7
  <2> QED
    BY <1>2, <1>7, <2>1, <2>2, InPlace
<1>9. /\ \A s \in Listed : s \in Slot /\ pool'[s].location = pool[s].location
      /\ \A s \in Listed : s # to => pool'[s] = pool[s]
      /\ \A l : l # b => shown'[l] = shown[l]
      /\ DOMAIN shown' = DOMAIN shown
  BY <1>2, <1>5, <1>7, ListFacts
<1>10. Types'
  BY <1>2, <1>7, <1>9 DEF IInv, Types
<1>11. Shared'
  BY <1>2, <1>8, <1>9 DEF IInv, Shared
<1>12. ShownIsState'
  <2> SUFFICES ASSUME NEW s \in Listed, pool'[s].location \notin mixed'
               PROVE  shown'[pool'[s].location] = Displayed(pool'[s])
    BY <1>8 DEF ShownIsState, Displayed
  <2>1. pool[s].location \notin mixed /\ pool[s].location # b /\ s # to
    BY <1>2, <1>3, <1>9
  <2>2. pool'[s] = pool[s] /\ shown'[pool[s].location] = shown[pool[s].location]
    BY <1>9, <2>1
  <2> QED
    BY <2>1, <2>2 DEF IInv, ShownIsState
<1>13. Abstract!Sync
  <2> DEFINE new == [items EXCEPT ![j] = Abstract!Synchronised(items[i], items[j])]
             n == Len(List)
  <2>1. /\ items \in Seq(Views) /\ DOMAIN items = 1..n
        /\ \A k \in 1..n : items[k] = View(pool[List[k]])
    BY ItemsType
  <2>2. items' = [k \in 1..n |-> View(pool'[List[k]])]
    BY <1>8, ItemsIs, ListFacts
  <2>3. \A k \in 1..n : List[k] \in Slot /\ (k # j => List[k] # to)
    BY <1>3, ListFacts
  <2>4. items[i] = View(pool[from]) /\ items[j] = View(pool[to])
    BY <1>3, <2>1
  <2> HIDE DEF items, n
  <2>5. new = [k \in 1..n |-> IF k = j THEN View(t) ELSE items[k]]
    BY <1>5, <2>1, <2>4
  <2>6. \A k \in 1..n : View(pool'[List[k]]) = IF k = j THEN View(t) ELSE items[k]
    BY <1>3, <1>7, <2>1, <2>3
  <2>7. items' = new
    BY <2>2, <2>5, <2>6
  <2> QED
    BY <1>3, <2>7 DEF Abstract!Sync
<1> QED
  BY <1>8, <1>10, <1>11, <1>12, <1>13 DEF IInv

-----------------------------------------------------------------------------
(* mp1_rtc_tasklet *)

\* Words count down as numbers do, and 0 counts as 1.
LEMMA CountdownIs ==
  ASSUME NEW c \in 0..SIGN_BIT
  PROVE  /\ c > 1 => ~Expired(Decremented(c)) /\ Decremented(c) = c - 1
         /\ ~(c > 1) => Expired(Decremented(c))
<1>1. SIGN_BIT \in Nat /\ SIGN_BIT > 0 /\ Modulus = 2 * SIGN_BIT /\ Modulus \in Nat /\ Modulus > 1
  BY SlotFacts DEF Modulus
<1>2. ASSUME c = 0 PROVE Decremented(c) = Modulus - 1
  <2>1. c + Modulus - 1 = Modulus - 1 /\ Modulus - 1 \in 0..(Modulus - 1)
    BY <1>1, <1>2
  <2> QED
    BY <1>1, <2>1 DEF Decremented
<1>3. ASSUME c > 0 PROVE Decremented(c) = c - 1
  <2>1. c + Modulus - 1 = (c - 1) + Modulus /\ c - 1 \in 0..(Modulus - 1)
    BY <1>1, <1>3
  <2> QED
    BY <1>1, <2>1 DEF Decremented
<1> QED
  BY <1>1, <1>2, <1>3 DEF Expired

\* What a tick does to an entry is what the abstract list says, and what it draws
\* is the state it leaves.
LEMMA TickedIs ==
  ASSUME NEW r \in Entry
  PROVE  /\ Ticked(r) \in Entry /\ Ticked(r).next = r.next /\ Ticked(r).location = r.location
         /\ View(Ticked(r)) = Abstract!Ticked(View(r))
         /\ Displayed(Ticked(r)) =
               IF Expired(Decremented(r.countdown)) THEN Drawn(r) ELSE Displayed(r)
<1> DEFINE c == Decremented(r.countdown)
           t == Ticked(r)
           u == Abstract!Ticked(View(r))
<1>1. r.countdown \in 0..SIGN_BIT /\ r.on_length \in 0..SIGN_BIT /\ r.off_length \in 0..SIGN_BIT
  BY DEF Entry
<1>2. /\ r.countdown > 1 => ~Expired(c) /\ c = r.countdown - 1
      /\ ~(r.countdown > 1) => Expired(c)
  BY <1>1, CountdownIs
<1> DEFINE v == View(r)
<1>3. /\ v \in Views /\ v.location = r.location /\ v.on_char = r.on_char
      /\ v.off_char = r.off_char /\ v.on_length = r.on_length
      /\ v.off_length = r.off_length /\ v.countdown = r.countdown /\ v.on = r.on
  BY ViewType DEF View
<1> HIDE DEF v
<1>4. CASE r.countdown > 1
  <2>1. t = [r EXCEPT !.countdown = c]
    BY <1>2, <1>4, Zenon DEF Ticked
  <2>2. u = [v EXCEPT !.countdown = @ - 1]
    BY <1>3, <1>4 DEF Abstract!Ticked, v
  <2> HIDE DEF c, t, u
  <2>3. c \in 0..SIGN_BIT /\ v.countdown - 1 = c
    BY <1>1, <1>2, <1>3, <1>4, SlotFacts
  <2>4. /\ t \in Entry /\ t.next = r.next /\ t.location = r.location
        /\ t.on_char = r.on_char /\ t.off_char = r.off_char /\ t.on_length = r.on_length
        /\ t.off_length = r.off_length /\ t.countdown = c /\ t.on = r.on
    BY <2>1, <2>3 DEF Entry
  <2>5. /\ u \in Views /\ u.location = r.location /\ u.on_char = r.on_char
        /\ u.off_char = r.off_char /\ u.on_length = r.on_length
        /\ u.off_length = r.off_length /\ u.countdown = c /\ u.on = r.on
    BY <1>3, <2>2, <2>3 DEF Views
  <2>6. View(t) = u
    BY <2>4, <2>5 DEF View, Views
  <2>7. Displayed(t) = Displayed(r)
    BY <2>4 DEF Displayed
  <2> QED
    BY <1>2, <1>4, <2>4, <2>6, <2>7 DEF c, t, u
<1>5. CASE ~(r.countdown > 1)
  <2> DEFINE d == IF r.on THEN r.off_length ELSE r.on_length
  <2>1. t = [r EXCEPT !.on = ~@, !.countdown = d]
    BY <1>2, <1>5, Zenon DEF Ticked
  <2>2. u = [v EXCEPT !.on = ~@, !.countdown = IF v.on THEN v.off_length ELSE v.on_length]
    BY <1>3, <1>5 DEF Abstract!Ticked, v
  <2>3. d \in 0..SIGN_BIT /\ d = IF v.on THEN v.off_length ELSE v.on_length
    BY <1>1, <1>3
  <2> HIDE DEF c, t, u, d
  <2>4. /\ t \in Entry /\ t.next = r.next /\ t.location = r.location
        /\ t.on_char = r.on_char /\ t.off_char = r.off_char /\ t.on_length = r.on_length
        /\ t.off_length = r.off_length /\ t.countdown = d /\ t.on = ~r.on
    BY <2>1, <2>3 DEF Entry
  <2>5. /\ u \in Views /\ u.location = r.location /\ u.on_char = r.on_char
        /\ u.off_char = r.off_char /\ u.on_length = r.on_length
        /\ u.off_length = r.off_length /\ u.countdown = d /\ u.on = ~r.on
    BY <1>3, <2>2, <2>3 DEF Views
  <2>6. View(t) = u
    BY <2>4, <2>5 DEF View, Views
  <2>7. Displayed(t) = Drawn(r)
    BY <2>4 DEF Displayed, Drawn
  <2> QED
    BY <1>2, <1>5, <2>4, <2>6, <2>7 DEF c, t, u
<1> QED
  BY <1>4, <1>5

Toggling(loc) == {i \in 1..Len(List) : /\ pool[List[i]].location = loc
                                       /\ Expired(Decremented(pool[List[i]].countdown))}
Sharing(loc)  == {s \in Listed : pool[s].location = loc}

LEMMA TaskletIs ==
  ASSUME IInv, Tasklet
  PROVE  /\ pool' = [s \in Slot |-> IF s \in Listed THEN Ticked(pool[s]) ELSE pool[s]]
         /\ shown' = [c \in 0..(CELLS - 1) |->
                        IF Toggling(c) = {} THEN shown[c] ELSE Drawn(pool[List[Max(Toggling(c))]])]
         /\ mixed' = {c \in mixed : Toggling(c) = {} \/ Cardinality(Sharing(c)) > 1}
         /\ mp1_list_head' = mp1_list_head
<1>1. DOMAIN List = 1..Len(List)
  BY ListFacts
<1> QED
  BY <1>1, Zenon DEF Tasklet, Toggling, Sharing, Listed

LEMMA TaskletStep == ASSUME IInv, Tasklet PROVE IInv' /\ Abstract!Tick
<1> USE TaskletIs
<1>1. \A s \in Listed : s \in Slot /\ pool[s] \in Entry
  BY ListFacts DEF IInv, Types
<1>2. /\ \A s \in Listed : /\ pool'[s] = Ticked(pool[s]) /\ Ticked(pool[s]) \in Entry
                           /\ Ticked(pool[s]).next = pool[s].next
                           /\ Ticked(pool[s]).location = pool[s].location
      /\ \A s \in Slot : s \notin Listed => pool'[s] = pool[s]
  <2>1. \A s \in Slot : pool'[s] = IF s \in Listed THEN Ticked(pool[s]) ELSE pool[s]
    OBVIOUS
  <2> QED
    BY <1>1, <2>1, TickedIs
<1>3. \A s \in Slot : pool'[s].next = pool[s].next /\ pool'[s].location = pool[s].location
  BY <1>2
<1>4. pool' \in [Slot -> Entry]
  <2>1. pool' = [s \in Slot |-> pool'[s]]
    OBVIOUS
  <2>2. \A s \in Slot : pool'[s] \in Entry
    BY <1>2 DEF IInv, Types
  <2> QED
    BY <2>1, <2>2
<1>5. ListInv' /\ List' = List /\ Listed' = Listed
  BY <1>2, <1>3, <1>4, InPlace
<1>6. Types'
  BY <1>4 DEF IInv, Types
\* Locations of several entries stay mixed.
<1>7. ASSUME NEW c \in mixed, NEW s \in Listed, NEW t \in Listed, s # t,
             pool[s].location = c, pool[t].location = c
      PROVE  c \in mixed'
  <2>1. s \in Sharing(c) /\ t \in Sharing(c)
    BY <1>7 DEF Sharing
  <2>2. IsFiniteSet(Sharing(c))
    <3>1. IsFiniteSet(Slot) /\ Sharing(c) \in SUBSET Slot
      BY <1>1, SlotFacts, FS_Interval DEF Slot, Sharing
    <3> QED
      BY <3>1, FS_Subset
  <2>3. IsFiniteSet({s, t}) /\ Cardinality({s, t}) = 2
    <3>1. IsFiniteSet({s}) /\ Cardinality({s}) = 1
      BY FS_Singleton
    <3>2. {s} \cup {t} = {s, t} /\ t \notin {s}
      BY <1>7
    <3>3. /\ IsFiniteSet({s} \cup {t})
          /\ Cardinality({s} \cup {t}) = IF t \in {s} THEN Cardinality({s})
                                         ELSE Cardinality({s}) + 1
      BY <3>1, FS_AddElement
    <3> QED
      BY <3>1, <3>2, <3>3
  <2>4. Cardinality({s, t}) <= Cardinality(Sharing(c)) /\ Cardinality(Sharing(c)) \in Nat
    BY <2>1, <2>2, FS_Subset, FS_CardinalityType
  <2> QED
    BY <2>3, <2>4
<1>8. Shared'
  BY <1>2, <1>5, <1>7 DEF IInv, Shared
\* A location that is no longer mixed has one entry, which drew it if any did.
<1>9. ShownIsState'
  <2> SUFFICES ASSUME NEW s \in Listed, pool[s].location \notin mixed'
               PROVE  shown'[pool[s].location] = Displayed(Ticked(pool[s]))
    BY <1>2, <1>5 DEF ShownIsState, Displayed
  <2> DEFINE c == pool[s].location
  <2>1. c \in 0..(CELLS - 1) /\ pool[s] \in Entry
    <3>1. c \in Location /\ c < CELLS
      BY DEF IInv, ListInv
    <3>2. c \in Nat
      BY <3>1, BlinkAssumption
    <3> HIDE DEF c
    <3> QED
      BY <1>1, <3>1, <3>2, SlotFacts
  <2>2. Displayed(Ticked(pool[s])) =
           IF Expired(Decremented(pool[s].countdown)) THEN Drawn(pool[s]) ELSE Displayed(pool[s])
    BY <2>1, TickedIs
  <2>3. \A t \in Listed : pool[t].location = c => t = s
    <3>1. CASE c \in mixed
      BY <1>7, <3>1
    <3>2. CASE c \notin mixed
      BY <3>2 DEF IInv, Shared
    <3> QED
      BY <3>1, <3>2
  <2>4. shown'[c] = IF Toggling(c) = {} THEN shown[c] ELSE Drawn(pool[List[Max(Toggling(c))]])
    BY <2>1
  <2>5. PICK i \in 1..Len(List) : List[i] = s
    BY ListFacts
  <2>6. CASE Expired(Decremented(pool[s].countdown))
    <3>1. i \in Toggling(c)
      BY <2>5, <2>6 DEF Toggling
    <3>2. Max(Toggling(c)) \in Toggling(c)
      <4>1. Len(List) \in Nat /\ Toggling(c) \in SUBSET (0..Len(List)) /\ Toggling(c) # {}
        BY <3>1, ListFacts DEF Toggling
      <4> QED
        BY <4>1, MaxIs
    <3>3. List[Max(Toggling(c))] = s
      BY <2>3, <3>2, ListFacts DEF Toggling
    <3> QED
      BY <2>2, <2>4, <2>6, <3>1, <3>3
  <2>7. CASE ~Expired(Decremented(pool[s].countdown))
    <3>1. Toggling(c) = {}
      BY <2>3, <2>7, ListFacts DEF Toggling
    <3>2. c \notin mixed
      BY <3>1
    <3>3. shown[c] = Displayed(pool[s])
      BY <3>2 DEF IInv, ShownIsState
    <3> QED
      BY <2>2, <2>4, <2>7, <3>1, <3>3
  <2> QED
    BY <2>6, <2>7
<1>10. Abstract!Tick
  <2> DEFINE n == Len(List)
  <2>1. /\ DOMAIN items = 1..n
        /\ \A k \in 1..n : items[k] = View(pool[List[k]])
    BY ItemsType
  <2>2. items' = [k \in 1..n |-> View(pool'[List[k]])]
    BY <1>5, ItemsIs, ListFacts
  <2>3. \A k \in 1..n : View(pool'[List[k]]) = Abstract!Ticked(View(pool[List[k]]))
    <3>1. \A k \in 1..n : List[k] \in Listed
      BY ListFacts
    <3> QED
      BY <1>1, <1>2, <3>1, TickedIs
  <2> HIDE DEF items, n
  <2>4. items' = [k \in DOMAIN items |-> Abstract!Ticked(items[k])]
    BY <2>1, <2>2, <2>3
  <2> QED
    BY <2>4 DEF Abstract!Tick
<1> QED
  BY <1>5, <1>6, <1>8, <1>9, <1>10 DEF IInv

-----------------------------------------------------------------------------
(* The results *)

LEMMA InitIInv == Init => IInv /\ Abstract!Init
<1> SUFFICES ASSUME Init PROVE IInv /\ Abstract!Init
  OBVIOUS
<1>1. Chain(pool, mp1_list_head, <<>>)
  BY DEF Init, Chain, Free
<1>2. List = <<>>
  BY <1>1, ListBecomes
<1>3. Listed = {} /\ DOMAIN List = {}
  BY <1>2 DEF Listed, ToSet
<1>4. Free \in Entry
  BY SlotFacts DEF Free, Entry
<1>5. Types /\ ListInv /\ Shared /\ ShownIsState
  BY <1>1, <1>2, <1>3, <1>4 DEF Init, Types, ListInv, Shared, ShownIsState
<1>6. items = <<>>
  BY <1>2, <1>3, ItemsIs
<1> QED
  BY <1>5, <1>6 DEF IInv, Abstract!Init

LEMMA StepIs == IInv /\ [Next]_vars => IInv' /\ [Abstract!Next]_items
<1> SUFFICES ASSUME IInv, [Next]_vars PROVE IInv' /\ [Abstract!Next]_items
  OBVIOUS
<1>1. CASE UNCHANGED vars
  <2>1. pool' = pool /\ mp1_list_head' = mp1_list_head /\ shown' = shown /\ mixed' = mixed
    BY <1>1 DEF vars
  <2>2. ListInv' /\ List' = List /\ Listed' = Listed
    BY <2>1, InPlace DEF IInv, Types
  <2>3. items' = items
    BY <2>1, <2>2, ItemsIs
  <2> QED
    BY <2>1, <2>2, <2>3 DEF IInv, Types, Shared, ShownIsState, Displayed
<1>2. CASE Add
  BY <1>2, AddStep DEF Abstract!Next
<1>3. CASE RemoveEntry
  BY <1>3, RemoveStep DEF Abstract!Next
<1>4. CASE Sync
  BY <1>4, SyncStep DEF Abstract!Next
<1>5. CASE Tasklet
  BY <1>5, TaskletStep DEF Abstract!Next
<1> QED
  BY <1>1, <1>2, <1>3, <1>4, <1>5 DEF Next

LEMMA InductiveInvariant == Spec => []IInv
BY InitIInv, StepIs, PTL DEF Spec

\* The pointers always form one list without repetition, which ends; the slots
\* that are not on it are clear, so that mp1_malloc finds them.
THEOREM PoolIsAList == Spec => []ListInv
<1>1. IInv => ListInv
  BY DEF IInv
<1> QED
  BY <1>1, InductiveInvariant, PTL

\* A location with one entry shows that entry's state, however entries were
\* added, removed and synchronised between the ticks.
THEOREM StateAlwaysShown == Spec => []ShownIsState
<1>1. IInv => ShownIsState
  BY DEF IInv
<1> QED
  BY <1>1, InductiveInvariant, PTL

\* The slots, the pointers and the countdowns in words implement the list that the
\* calls promise.
THEOREM BlinkImplementsList == Spec => ImplementsBlinkList
BY InitIInv, StepIs, InductiveInvariant, PTL DEF Spec, ImplementsBlinkList, Abstract!Spec
================================================================================
