----------------------------- MODULE Screen_proofs -----------------------------
(***************************************************************************)
(* Proofs about Screen, for every size of screen and of scroll-back buffer *)
(* that ScreenAssumption allows.  They are about keys that arrive between  *)
(* two characters, not inside a putc: with Interrupted the code does not   *)
(* have these properties.                                                  *)
(***************************************************************************)
EXTENDS Screen, TLAPS

Cell      == Char \cup {Blank}
ScreenRec == [x : 0..(NUM_COLS - 1), y : Int, start : 0..MaxStart, cursor : Int,
              mem : [ScreenCells -> Cell]]
LargeRec  == [x : Nat, y : Int, mem : [BufferCells -> Cell]]

-----------------------------------------------------------------------------
(* The numbers *)

LEMMA Sizes ==
  /\ NUM_ROWS \in Nat /\ NUM_ROWS > 0
  /\ NUM_COLS \in Nat /\ NUM_COLS >= NUM_ROWS
  /\ BUFFER_SIZE \in Nat /\ BUFFER_SIZE > 1
  /\ MaxStart \in Nat /\ MaxStart >= NUM_ROWS
  /\ BufferRows = MaxStart + NUM_ROWS
  /\ VIDEO_CELLS \in Nat /\ VIDEO_CELLS >= NUM_ROWS * NUM_COLS
<1>1. BUFFER_SIZE - 1 >= 1 /\ BUFFER_SIZE - 1 \in Nat
  BY ScreenAssumption
<1>2. (BUFFER_SIZE - 1) * NUM_ROWS >= 1 * NUM_ROWS
  BY <1>1, ScreenAssumption
<1>3. NUM_ROWS * BUFFER_SIZE = (BUFFER_SIZE - 1) * NUM_ROWS + NUM_ROWS
  BY ScreenAssumption
<1> QED
  BY <1>1, <1>2, <1>3, ScreenAssumption DEF MaxStart, BufferRows

LEMMA Rows ==
  ASSUME NEW a \in Int, NEW b \in Int
  PROVE  /\ NUM_COLS * a \in Int
         /\ a * NUM_COLS = NUM_COLS * a
         /\ NUM_COLS * (a + b) = NUM_COLS * a + NUM_COLS * b
         /\ NUM_COLS * (a - b) = NUM_COLS * a - NUM_COLS * b
         /\ NUM_COLS * (a + 1) = NUM_COLS * a + NUM_COLS
         /\ NUM_COLS * (a - 1) = NUM_COLS * a - NUM_COLS
         /\ a <= b => NUM_COLS * a <= NUM_COLS * b
         /\ a < b => NUM_COLS * a + NUM_COLS <= NUM_COLS * b
<1>1. NUM_COLS \in Nat
  BY Sizes
<1>2. a <= b => NUM_COLS * a <= NUM_COLS * b
  BY <1>1
<1>3. a < b => NUM_COLS * (a + 1) <= NUM_COLS * b
  BY <1>1
<1> QED
  BY <1>1, <1>2, <1>3

\* Cells are numbered row by row, and both memories hold whole rows.
LEMMA CellFacts ==
  /\ \A i : i \in ScreenCells <=> i \in Int /\ 0 <= i /\ i < NUM_COLS * NUM_ROWS
  /\ \A i : i \in BufferCells <=> i \in Int /\ 0 <= i
                                  /\ i < NUM_COLS * BufferRows + NUM_COLS * NUM_ROWS
  /\ NUM_COLS * NUM_ROWS \in Nat /\ NUM_COLS * BufferRows \in Nat
  /\ NUM_COLS * BufferRows = NUM_COLS * MaxStart + NUM_COLS * NUM_ROWS
<1>1. NUM_ROWS * NUM_COLS = NUM_COLS * NUM_ROWS /\ NUM_COLS * NUM_ROWS \in Nat
  BY Sizes
<1>2. NUM_ROWS * (BUFFER_SIZE + 1) * NUM_COLS = NUM_COLS * (NUM_ROWS * BUFFER_SIZE + NUM_ROWS)
  <2>1. NUM_ROWS * (BUFFER_SIZE + 1) = NUM_ROWS * BUFFER_SIZE + NUM_ROWS
    BY Sizes
  <2>2. NUM_ROWS * BUFFER_SIZE + NUM_ROWS \in Int
    BY Sizes
  <2>3. (NUM_ROWS * BUFFER_SIZE + NUM_ROWS) * NUM_COLS
          = NUM_COLS * (NUM_ROWS * BUFFER_SIZE + NUM_ROWS)
    BY <2>2, Rows
  <2> QED
    BY <2>1, <2>3
<1>3. BufferRows \in Nat /\ MaxStart \in Int /\ NUM_ROWS \in Int
  BY Sizes
<1>4. NUM_COLS * (BufferRows + NUM_ROWS) = NUM_COLS * BufferRows + NUM_COLS * NUM_ROWS
      /\ NUM_COLS * (MaxStart + NUM_ROWS) = NUM_COLS * MaxStart + NUM_COLS * NUM_ROWS
  BY <1>3, Rows
<1>5. NUM_COLS * BufferRows \in Nat
  BY <1>3, Sizes
<1>6. NUM_ROWS * (BUFFER_SIZE + 1) * NUM_COLS
        = NUM_COLS * BufferRows + NUM_COLS * NUM_ROWS
  BY <1>2, <1>4 DEF BufferRows
<1>7. NUM_COLS * BufferRows = NUM_COLS * MaxStart + NUM_COLS * NUM_ROWS
  BY <1>4, Sizes
<1>8. \A i : i \in ScreenCells <=> i \in Int /\ 0 <= i /\ i < NUM_COLS * NUM_ROWS
  BY <1>1 DEF ScreenCells
<1>9. \A i : i \in BufferCells <=> i \in Int /\ 0 <= i
                                  /\ i < NUM_COLS * BufferRows + NUM_COLS * NUM_ROWS
  BY <1>1, <1>5, <1>6 DEF BufferCells
<1> QED
  BY <1>1, <1>5, <1>7, <1>8, <1>9

\* Both cursors wrap at the end of a row.
LEMMA Wrap ==
  ASSUME NEW x \in Nat
  PROVE  /\ (x + 1) \div NUM_COLS \in 0..(x + 1)
         /\ (x + 1) % NUM_COLS \in 0..(NUM_COLS - 1)
         /\ x + 1 < NUM_COLS => (x + 1) \div NUM_COLS = 0 /\ (x + 1) % NUM_COLS = x + 1
         /\ x + 1 = NUM_COLS => (x + 1) \div NUM_COLS = 1 /\ (x + 1) % NUM_COLS = 0
<1>1. NUM_COLS \in Nat /\ NUM_COLS > 0
  BY Sizes
<1> QED
  BY <1>1, SMT
-----------------------------------------------------------------------------
(* The parts of putc *)

LEMMA StoreFacts ==
  ASSUME NEW D, NEW mem \in [D -> Cell], NEW i, NEW c \in Cell
  PROVE  /\ Store(mem, i, c) \in [D -> Cell]
         /\ \A j \in D : Store(mem, i, c)[j] = IF j = i THEN c ELSE mem[j]
BY DEF Store

LEMMA PrintableFacts ==
  ASSUME NEW c \in Printable
  PROVE  c = Newline \/ (c # Newline /\ c \in Cell)
BY DEF Printable, Cell

\* What Advance does to each half of putc.
LEMMA AdvanceScreen ==
  ASSUME NEW s \in ScreenRec, NEW c \in Printable
  PROVE  LET t == Advance(s, c) IN
         /\ t \in ScreenRec
         /\ t.start = s.start
         /\ c = Newline => t.y = s.y + 1 /\ t.x = 0 /\ t.mem = s.mem
         /\ c # Newline =>
               /\ t.mem = Store(s.mem, At(s.y, s.x), c)
               /\ \/ s.x + 1 < NUM_COLS /\ t.y = s.y /\ t.x = s.x + 1
                  \/ s.x + 1 = NUM_COLS /\ t.y = s.y + 1 /\ t.x = 0
<1> DEFINE t == Advance(s, c)
<1>1. /\ s.x \in Nat /\ s.x + 1 <= NUM_COLS /\ s.y \in Int /\ s.mem \in [ScreenCells -> Cell]
      /\ NUM_COLS \in Nat /\ NUM_COLS > 0
  BY Sizes DEF ScreenRec
<1>2. CASE c = Newline
  <2> DEFINE b == s.y + 1
  <2>1. t = [s EXCEPT !.y = b, !.x = 0]
    BY <1>2 DEF Advance
  <2>3. b \in Int /\ 0 \in 0..(NUM_COLS - 1)
    BY <1>1
  <2> HIDE DEF b
  <2>2. t \in ScreenRec /\ t.mem = s.mem /\ t.y = b /\ t.x = 0 /\ t.start = s.start
    BY <1>1, <2>1, <2>3 DEF ScreenRec
  <2> QED
    BY <1>2, <2>2 DEF b
<1>3. CASE c # Newline
  <2>1. t = [s EXCEPT !.mem = Store(@, At(s.y, s.x), c),
                      !.y = @ + ((s.x + 1) \div NUM_COLS), !.x = (@ + 1) % NUM_COLS]
    BY <1>3 DEF Advance
  <2>2. Store(s.mem, At(s.y, s.x), c) \in [ScreenCells -> Cell]
    BY <1>1, <1>3, PrintableFacts, StoreFacts
  <2>3. /\ (s.x + 1) % NUM_COLS \in 0..(NUM_COLS - 1)
        /\ (s.x + 1) \div NUM_COLS \in Int
        /\ \/ s.x + 1 < NUM_COLS /\ (s.x + 1) \div NUM_COLS = 0
                                 /\ (s.x + 1) % NUM_COLS = s.x + 1
           \/ s.x + 1 = NUM_COLS /\ (s.x + 1) \div NUM_COLS = 1
                                 /\ (s.x + 1) % NUM_COLS = 0
    BY <1>1, Wrap
  <2> DEFINE q == (s.x + 1) \div NUM_COLS
             r == (s.x + 1) % NUM_COLS
             m == Store(s.mem, At(s.y, s.x), c)
             b == s.y + q
  <2>4. t = [s EXCEPT !.mem = m, !.y = b, !.x = r]
    BY <2>1
  <2>5. /\ q \in Int /\ r \in 0..(NUM_COLS - 1)
        /\ \/ s.x + 1 < NUM_COLS /\ q = 0 /\ r = s.x + 1
           \/ s.x + 1 = NUM_COLS /\ q = 1 /\ r = 0
    BY <2>3
  <2> HIDE DEF q, r
  <2>6. b \in Int /\ m \in [ScreenCells -> Cell]
    BY <1>1, <2>2, <2>5
  <2> HIDE DEF b, m
  <2>7. t \in ScreenRec /\ t.mem = m /\ t.y = b /\ t.x = r /\ t.start = s.start
    BY <1>1, <2>4, <2>5, <2>6 DEF ScreenRec
  <2> QED
    BY <1>1, <1>3, <2>5, <2>7 DEF b, m
<1> QED
  BY <1>2, <1>3

LEMMA AdvanceLarge ==
  ASSUME NEW l \in LargeRec, NEW c \in Printable
  PROVE  LET t == Advance(l, c) IN
         /\ t \in LargeRec
         /\ t.x < NUM_COLS
         /\ t.y >= l.y
         /\ l.x < NUM_COLS => t.y <= l.y + 1
         /\ t.y <= l.y + l.x + 1
         /\ c = Newline => t.y = l.y + 1 /\ t.x = 0 /\ t.mem = l.mem
         /\ c # Newline => t.mem = Store(l.mem, At(l.y, l.x), c)
         /\ c # Newline /\ l.x + 1 < NUM_COLS => t.y = l.y /\ t.x = l.x + 1
         /\ c # Newline /\ l.x + 1 = NUM_COLS => t.y = l.y + 1 /\ t.x = 0
<1> DEFINE t == Advance(l, c)
<1>1. /\ l.x \in Nat /\ l.y \in Int /\ l.mem \in [BufferCells -> Cell]
      /\ NUM_COLS \in Nat /\ NUM_COLS > 0
  BY Sizes DEF LargeRec
<1>2. CASE c = Newline
  <2> DEFINE b == l.y + 1
  <2>1. t = [l EXCEPT !.y = b, !.x = 0]
    BY <1>2 DEF Advance
  <2>3. b \in Int /\ 0 \in Nat
    BY <1>1
  <2> HIDE DEF b
  <2>2. t \in LargeRec /\ t.y = b /\ t.x = 0 /\ t.mem = l.mem
    BY <1>1, <2>1, <2>3 DEF LargeRec
  <2> QED
    BY <1>1, <1>2, <2>2 DEF b
<1>3. CASE c # Newline
  <2>1. t = [l EXCEPT !.mem = Store(@, At(l.y, l.x), c),
                      !.y = @ + ((l.x + 1) \div NUM_COLS), !.x = (@ + 1) % NUM_COLS]
    BY <1>3 DEF Advance
  <2>2. Store(l.mem, At(l.y, l.x), c) \in [BufferCells -> Cell]
    BY <1>1, <1>3, PrintableFacts, StoreFacts
  <2> DEFINE q == (l.x + 1) \div NUM_COLS
             r == (l.x + 1) % NUM_COLS
             m == Store(l.mem, At(l.y, l.x), c)
             b == l.y + q
  <2>3. /\ q \in 0..(l.x + 1)
        /\ r \in 0..(NUM_COLS - 1)
        /\ l.x + 1 < NUM_COLS => q = 0 /\ r = l.x + 1
        /\ l.x + 1 = NUM_COLS => q = 1 /\ r = 0
    BY <1>1, Wrap
  <2>4. t = [l EXCEPT !.mem = m, !.y = b, !.x = r]
    BY <2>1
  <2> HIDE DEF q, r
  <2>5. b \in Int /\ r \in Nat /\ m \in [BufferCells -> Cell]
    BY <1>1, <2>2, <2>3
  <2> HIDE DEF b, m
  <2>6. t \in LargeRec /\ t.mem = m /\ t.y = b /\ t.x = r
    BY <1>1, <2>4, <2>5 DEF LargeRec
  <2> QED
    BY <1>1, <1>3, <2>3, <2>6 DEF b, m
<1> QED
  BY <1>2, <1>3

LEMMA ShiftUpFacts ==
  ASSUME NEW n \in Int, NEW mem \in [0..(n - 1) -> Cell],
         NEW k \in Nat, NEW rows \in Int, k <= rows, NUM_COLS * rows <= n
  PROVE  /\ ShiftUp(mem, k, rows) \in [0..(n - 1) -> Cell]
         /\ \A i \in 0..(n - 1) :
               /\ i < NUM_COLS * rows - NUM_COLS * k =>
                     i + NUM_COLS * k \in 0..(n - 1)
                     /\ ShiftUp(mem, k, rows)[i] = mem[i + NUM_COLS * k]
               /\ i >= NUM_COLS * rows - NUM_COLS * k /\ i < NUM_COLS * rows =>
                     ShiftUp(mem, k, rows)[i] = Blank
<1>1. /\ (rows - k) * NUM_COLS = NUM_COLS * rows - NUM_COLS * k
      /\ rows * NUM_COLS = NUM_COLS * rows
      /\ k * NUM_COLS = NUM_COLS * k
      /\ NUM_COLS * k \in Int /\ NUM_COLS * rows \in Int
  <2>1. k \in Int /\ rows - k \in Int
    OBVIOUS
  <2>2. (rows - k) * NUM_COLS = NUM_COLS * (rows - k)
    BY <2>1, Rows
  <2> QED
    BY <2>1, <2>2, Rows
<1>2. NUM_COLS * k >= 0
  BY Sizes
<1>3. \A i \in 0..(n - 1) : i < NUM_COLS * rows - NUM_COLS * k =>
          i + NUM_COLS * k \in 0..(n - 1)
  BY <1>1, <1>2
<1>4. ShiftUp(mem, k, rows) =
        [i \in 0..(n - 1) |->
            IF i < NUM_COLS * rows - NUM_COLS * k THEN mem[i + NUM_COLS * k]
            ELSE IF i < NUM_COLS * rows THEN Blank ELSE mem[i]]
  BY <1>1 DEF ShiftUp
<1>5. Blank \in Cell
  BY DEF Cell
<1>6. ShiftUp(mem, k, rows) \in [0..(n - 1) -> Cell]
  BY <1>3, <1>4, <1>5
<1> QED
  BY <1>1, <1>3, <1>4, <1>6

\* terminal_scroll when the cursor has just left the screen.
LEMMA ScrollFacts ==
  ASSUME NEW s \in ScreenRec, s.y <= NUM_ROWS, s.start < MaxStart
  PROVE  LET t == TerminalScroll(s) IN
         /\ t \in ScreenRec /\ t.start < MaxStart /\ t.x = s.x
         /\ s.y < NUM_ROWS => t = s
         /\ s.y = NUM_ROWS =>
               /\ t.y = NUM_ROWS - 1
               /\ t.start = IF s.start < MaxStart - 1 THEN s.start + 1 ELSE s.start
               /\ \A i \in ScreenCells :
                     /\ i < NUM_COLS * NUM_ROWS - NUM_COLS =>
                           i + NUM_COLS \in ScreenCells /\ t.mem[i] = s.mem[i + NUM_COLS]
                     /\ i >= NUM_COLS * NUM_ROWS - NUM_COLS => t.mem[i] = Blank
<1> DEFINE t == TerminalScroll(s)
<1>1. CASE s.y < NUM_ROWS
  <2>1. t = s
    BY <1>1 DEF TerminalScroll
  <2> QED
    BY <1>1, <2>1, Sizes DEF ScreenRec
<1>2. CASE s.y = NUM_ROWS
  <2> DEFINE m == ShiftUp(s.mem, 1, NUM_ROWS)
             b == NUM_ROWS - 1
             a == IF s.start < MaxStart - 1 THEN s.start + 1 ELSE s.start
             n == NUM_COLS * NUM_ROWS
  <2>1. s.y \in Int /\ NUM_ROWS \in Nat /\ s.y - NUM_ROWS = 0 /\ ~(s.y < NUM_ROWS)
        /\ s.start \in Nat /\ MaxStart \in Nat
    BY <1>2, Sizes DEF ScreenRec
  <2>2. t = [s EXCEPT !.mem = m, !.y = b, !.start = a]
    <3> DEFINE k == s.y - NUM_ROWS
    <3>1. t = [s EXCEPT !.mem = ShiftUp(s.mem, k + 1, NUM_ROWS), !.y = NUM_ROWS - (k + 1),
                        !.start = IF s.start < MaxStart - 1 THEN s.start + k + 1 ELSE s.start]
      BY <2>1, Zenon DEF TerminalScroll
    <3>2. k + 1 = 1 /\ s.start + k + 1 = s.start + 1
      BY <2>1
    <3> HIDE DEF k, t
    <3> QED
      BY <3>1, <3>2, Zenon
  <2>3. ScreenCells = 0..(n - 1) /\ n \in Nat
    <3>1. NUM_ROWS * NUM_COLS = n /\ n \in Nat
      BY Sizes
    <3> QED
      BY <3>1 DEF ScreenCells
  <2>4. s.mem \in [0..(n - 1) -> Cell]
    BY <2>3 DEF ScreenRec
  <2>5. NUM_COLS * 1 = NUM_COLS /\ 1 <= NUM_ROWS /\ 1 \in Nat /\ NUM_ROWS \in Int /\ n \in Int
    BY <2>3, Sizes
  <2> HIDE DEF n
  <2>6. /\ m \in [0..(n - 1) -> Cell]
        /\ \A i \in 0..(n - 1) :
               /\ i < n - NUM_COLS => i + NUM_COLS \in 0..(n - 1) /\ m[i] = s.mem[i + NUM_COLS]
               /\ i >= n - NUM_COLS /\ i < n => m[i] = Blank
    <3>1. NUM_COLS * NUM_ROWS = n /\ NUM_COLS * NUM_ROWS <= n
      BY <2>3 DEF n
    <3> QED
      BY <2>4, <2>5, <3>1, ShiftUpFacts
  <2> HIDE DEF m, b, a
  <2>7. b \in Int /\ a \in 0..MaxStart /\ a < MaxStart
    BY <2>1 DEF a, b
  <2>8. t \in ScreenRec /\ t.mem = m /\ t.y = b /\ t.start = a /\ t.x = s.x
    BY <2>2, <2>3, <2>6, <2>7 DEF ScreenRec
  <2> QED
    BY <1>2, <2>1, <2>3, <2>6, <2>7, <2>8 DEF a, b, n
<1> QED
  BY <1>1, <1>2, Sizes DEF ScreenRec

\* The buffer's half of putc never needs to scroll by more than a line.
LargePlace(l) == l.x < NUM_COLS \/ (l.y = 0 /\ l.x < MaxStart)

LEMMA SavedFacts ==
  ASSUME large \in LargeRec, large.y \in 0..(BufferRows - 1), LargePlace(large),
         NEW c \in Printable
  PROVE  /\ Saved(c) \in LargeRec
         /\ Saved(c).y \in 0..(BufferRows - 1) /\ LargePlace(Saved(c))
         /\ Advance(large, c).y < BufferRows - 1 => Saved(c) = Advance(large, c)
         /\ Advance(large, c).y >= BufferRows - 1 => Saved(c).y = BufferRows - 1
<1> DEFINE l == Advance(large, c)
           t == BufferScroll(l)
<1>1. /\ large.x \in Nat /\ large.y \in Nat /\ BufferRows \in Nat /\ BufferRows > 1
      /\ NUM_COLS \in Nat /\ MaxStart \in Nat /\ MaxStart < BufferRows
      /\ large.y <= BufferRows - 1
  BY Sizes DEF LargeRec
<1>2. l \in LargeRec /\ l.x < NUM_COLS /\ l.y >= large.y /\ l.y \in Int /\ l.x \in Nat
      /\ (large.x < NUM_COLS => l.y <= large.y + 1) /\ l.y <= large.y + large.x + 1
  BY AdvanceLarge DEF LargeRec
<1>3. l.y \in Nat /\ l.y <= BufferRows
  BY <1>1, <1>2 DEF LargePlace
<1>4. Saved(c) = t
  BY DEF Saved
<1> HIDE DEF l
<1>5. CASE l.y < BufferRows
  BY <1>1, <1>2, <1>3, <1>4, <1>5 DEF BufferScroll, LargePlace, l
<1>6. CASE l.y = BufferRows
  <2> DEFINE m == ShiftUp(l.mem, 1, BufferRows)
             b == BufferRows - 1
             n == NUM_COLS * BufferRows + NUM_COLS * NUM_ROWS
  <2>1. l.y - BufferRows = 0 /\ ~(l.y < BufferRows)
    BY <1>1, <1>6
  <2>2. t = [l EXCEPT !.mem = m, !.y = b]
    <3> DEFINE k == l.y - BufferRows
    <3>1. t = [l EXCEPT !.mem = ShiftUp(l.mem, k + 1, BufferRows),
                        !.y = BufferRows - (k + 1)]
      BY <2>1, Zenon DEF BufferScroll
    <3>2. k + 1 = 1
      BY <2>1
    <3> HIDE DEF k, t
    <3> QED
      BY <3>1, <3>2, Zenon
  <2>3. BufferCells = 0..(n - 1) /\ n \in Int /\ NUM_COLS * BufferRows <= n
    <3>1. n \in Int /\ NUM_COLS * BufferRows <= n
      BY CellFacts
    <3>2. \A i : i \in BufferCells <=> i \in Int /\ 0 <= i /\ i < n
      BY CellFacts
    <3>3. \A i : i \in 0..(n - 1) <=> i \in Int /\ 0 <= i /\ i < n
      BY <3>1
    <3>4. BufferCells = 0..(n - 1)
      <4> HIDE DEF n
      <4> QED
        BY <3>2, <3>3
    <3> QED
      BY <3>1, <3>4
  <2> HIDE DEF n
  <2>4. m \in [BufferCells -> Cell]
    <3>1. l.mem \in [0..(n - 1) -> Cell]
      BY <1>2, <2>3 DEF LargeRec
    <3>2. 1 \in Nat /\ BufferRows \in Int /\ 1 <= BufferRows
      BY <1>1
    <3> QED
      BY <2>3, <3>1, <3>2, ShiftUpFacts
  <2> HIDE DEF m, b
  <2>5. b \in Int
    BY <1>1 DEF b
  <2>6. t \in LargeRec /\ t.y = b /\ t.x = l.x
    BY <1>2, <2>2, <2>4, <2>5 DEF LargeRec
  <2> QED
    BY <1>1, <1>2, <1>4, <1>6, <2>6 DEF b, LargePlace, l
<1> QED
  BY <1>1, <1>3, <1>5, <1>6

-----------------------------------------------------------------------------
(* The screen and the buffer agree *)

\* The cursors are at the same place of the text, behind it all is blank, and
\* below the line of boot the screen is the window of the buffer.  It is said of
\* a screen s, a buffer l and a last line b of boot because a putc passes through
\* screens and buffers that are not those of a state.
Synced(s, l, b) ==
    l.y < BufferRows - 1 =>
        /\ s.x = l.x /\ s.start + s.y = l.y
        /\ \A k \in BufferCells : k >= At(l.y, l.x) => l.mem[k] = Blank
        /\ \A i \in ScreenCells : i >= At(s.y, s.x) => s.mem[i] = Blank
        /\ b >= 0 => \A i \in ScreenCells :
              s.start * NUM_COLS + i >= (b + 1) * NUM_COLS =>
                  s.mem[i] = l.mem[s.start * NUM_COLS + i]

\* Where a window's cells lie in the buffer.
LEMMA WindowCells ==
  ASSUME NEW a \in 0..MaxStart, NEW i \in ScreenCells
  PROVE  a * NUM_COLS + i \in BufferCells /\ i \in Int
<1>1. a \in Int /\ a <= MaxStart /\ MaxStart \in Int /\ 0 \in Int /\ 0 <= a
  BY Sizes
<1>2. a * NUM_COLS = NUM_COLS * a /\ NUM_COLS * a \in Int /\ NUM_COLS * a <= NUM_COLS * MaxStart
      /\ NUM_COLS * 0 <= NUM_COLS * a /\ NUM_COLS * MaxStart \in Int
  BY <1>1, Rows
<1>4. NUM_COLS * 0 = 0
  BY Sizes
<1>5. i \in Int /\ 0 <= i /\ i < NUM_COLS * NUM_ROWS
  BY CellFacts
<1> QED
  BY <1>2, <1>4, <1>5, CellFacts

LEMMA WindowAt ==
  ASSUME NEW a \in 0..MaxStart, NEW y \in Int, NEW x \in Int
  PROVE  /\ a * NUM_COLS \in Int /\ At(y, x) \in Int
         /\ At(a + y, x) = a * NUM_COLS + At(y, x)
<1>1. a \in Int
  OBVIOUS
<1>2. /\ NUM_COLS * (a + y) = NUM_COLS * a + NUM_COLS * y /\ NUM_COLS * y \in Int
      /\ a * NUM_COLS = NUM_COLS * a /\ NUM_COLS * a \in Int
  BY <1>1, Rows
<1> QED
  BY <1>2 DEF At

\* A screen that shows a window of the buffer agrees with it.
LEMMA SyncedWindow ==
  ASSUME NEW s \in ScreenRec, NEW t \in ScreenRec, NEW b \in Int,
         large \in LargeRec, Synced(s, large, b),
         t.x = s.x, t.start + t.y = s.start + s.y, t.mem = Window(t.start)
  PROVE  Synced(t, large, b)
<1> SUFFICES ASSUME large.y < BufferRows - 1 PROVE Synced(t, large, b)
  BY DEF Synced
<1>1. t.x = large.x /\ t.start + t.y = large.y
      /\ \A k \in BufferCells : k >= At(large.y, large.x) => large.mem[k] = Blank
  BY DEF Synced
<1>2. t.start \in 0..MaxStart /\ t.y \in Int /\ t.x \in Int
  BY Sizes DEF ScreenRec
<1>3. \A i \in ScreenCells : t.mem[i] = large.mem[t.start * NUM_COLS + i]
  BY DEF Window
<1>4. ASSUME NEW i \in ScreenCells, i >= At(t.y, t.x) PROVE t.mem[i] = Blank
  <2>1. t.start * NUM_COLS + i >= At(large.y, large.x) /\ t.start * NUM_COLS + i \in BufferCells
    <3>1. /\ At(t.start + t.y, t.x) = t.start * NUM_COLS + At(t.y, t.x)
          /\ t.start * NUM_COLS \in Int /\ At(t.y, t.x) \in Int /\ i \in Int
          /\ t.start * NUM_COLS + i \in BufferCells
      BY <1>2, WindowCells, WindowAt
    <3>2. At(large.y, large.x) = At(t.start + t.y, t.x)
      BY <1>1
    <3> QED
      BY <1>4, <3>1, <3>2
  <2> QED
    BY <1>1, <1>3, <2>1
<1> QED
  BY <1>1, <1>3, <1>4 DEF Synced

\* The same character in both halves.
LEMMA SyncedAdvance ==
  ASSUME NEW s \in ScreenRec, NEW l \in LargeRec, NEW b \in Int, NEW c \in Printable,
         Synced(s, l, b)
  PROVE  Synced(Advance(s, c), Advance(l, c), b)
<1> DEFINE s2 == Advance(s, c)
           l2 == Advance(l, c)
<1> SUFFICES ASSUME l2.y < BufferRows - 1 PROVE Synced(s2, l2, b)
  BY DEF Synced
<1>1. /\ s2 \in ScreenRec /\ s2.start = s.start
      /\ c = Newline => s2.y = s.y + 1 /\ s2.x = 0 /\ s2.mem = s.mem
      /\ c # Newline =>
            /\ s2.mem = Store(s.mem, At(s.y, s.x), c)
            /\ \/ s.x + 1 < NUM_COLS /\ s2.y = s.y /\ s2.x = s.x + 1
               \/ s.x + 1 = NUM_COLS /\ s2.y = s.y + 1 /\ s2.x = 0
  BY AdvanceScreen
<1>2. /\ l2 \in LargeRec /\ l2.y >= l.y
      /\ c = Newline => l2.y = l.y + 1 /\ l2.x = 0 /\ l2.mem = l.mem
      /\ c # Newline => l2.mem = Store(l.mem, At(l.y, l.x), c)
      /\ c # Newline /\ l.x + 1 < NUM_COLS => l2.y = l.y /\ l2.x = l.x + 1
      /\ c # Newline /\ l.x + 1 = NUM_COLS => l2.y = l.y + 1 /\ l2.x = 0
  BY AdvanceLarge
<1>3. /\ s.x \in Nat /\ s.x < NUM_COLS /\ s.y \in Int /\ s.start \in 0..MaxStart
      /\ s.start \in Int /\ s.mem \in [ScreenCells -> Cell]
      /\ l.x \in Nat /\ l.y \in Int /\ l.mem \in [BufferCells -> Cell] /\ l2.y \in Int
      /\ NUM_COLS \in Nat /\ BufferRows \in Int
  BY <1>2, Sizes DEF ScreenRec, LargeRec
<1> HIDE DEF s2, l2
<1>4. l.y < BufferRows - 1
  BY <1>2, <1>3
<1>5. /\ s.x = l.x /\ s.start + s.y = l.y
      /\ \A k \in BufferCells : k >= At(l.y, l.x) => l.mem[k] = Blank
      /\ \A i \in ScreenCells : i >= At(s.y, s.x) => s.mem[i] = Blank
      /\ b >= 0 => \A i \in ScreenCells :
            s.start * NUM_COLS + i >= (b + 1) * NUM_COLS =>
                s.mem[i] = l.mem[s.start * NUM_COLS + i]
  BY <1>4 DEF Synced
<1>6. s2.x = l2.x /\ s2.start + s2.y = l2.y
  BY <1>1, <1>2, <1>3, <1>5
<1> DEFINE p == At(s.y, s.x)
           P == At(l.y, l.x)
           off == s.start * NUM_COLS
<1>7. NUM_COLS * (s.y + 1) = NUM_COLS * s.y + NUM_COLS /\ NUM_COLS * s.y \in Int
      /\ NUM_COLS * (l.y + 1) = NUM_COLS * l.y + NUM_COLS /\ NUM_COLS * l.y \in Int
  BY <1>3, Rows
<1>8. /\ p \in Int /\ P \in Int
      /\ At(s2.y, s2.x) \in Int /\ At(l2.y, l2.x) \in Int
      /\ At(s2.y, s2.x) >= p /\ At(l2.y, l2.x) >= P
      /\ c # Newline => At(s2.y, s2.x) = p + 1 /\ At(l2.y, l2.x) = P + 1
  <2> DEFINE u == NUM_COLS * s.y
             v == NUM_COLS * l.y
             q == At(s2.y, s2.x)
             Q == At(l2.y, l2.x)
  <2>1. p = u + s.x /\ P = v + s.x
    BY <1>5 DEF At
  <2>2. /\ q = NUM_COLS * s2.y + s2.x
        /\ Q = NUM_COLS * l2.y + l2.x
    BY DEF At
  <2>3. /\ u \in Int /\ v \in Int /\ s.x \in Int /\ 0 <= s.x /\ s.x + 1 <= NUM_COLS
        /\ NUM_COLS \in Int
        /\ NUM_COLS * (s.y + 1) = u + NUM_COLS
        /\ NUM_COLS * (l.y + 1) = v + NUM_COLS
    BY <1>3, <1>7
  <2>4. \/ c = Newline /\ q = u + NUM_COLS + 0 /\ Q = v + NUM_COLS + 0
        \/ c # Newline /\ q = u + (s.x + 1) /\ Q = v + (s.x + 1)
        \/ c # Newline /\ s.x + 1 = NUM_COLS /\ q = u + NUM_COLS + 0 /\ Q = v + NUM_COLS + 0
    <3>1. CASE c = Newline
      <4>1. s2.y = s.y + 1 /\ s2.x = 0 /\ l2.y = l.y + 1 /\ l2.x = 0
        BY <1>1, <1>2, <3>1
      <4> HIDE DEF u, v, q, Q
      <4> QED
        BY <2>2, <2>3, <3>1, <4>1
    <3>2. CASE c # Newline /\ s.x + 1 < NUM_COLS
      <4>1. s2.y = s.y /\ s2.x = s.x + 1 /\ l2.y = l.y /\ l2.x = s.x + 1
        BY <1>1, <1>2, <1>3, <1>5, <3>2
      <4>2. q = u + (s.x + 1) /\ Q = v + (s.x + 1)
        BY <2>2, <4>1
      <4> QED
        BY <3>2, <4>2
    <3>3. CASE c # Newline /\ s.x + 1 = NUM_COLS
      <4>1. s2.y = s.y + 1 /\ s2.x = 0 /\ l2.y = l.y + 1 /\ l2.x = 0
        BY <1>1, <1>2, <1>3, <1>5, <3>3
      <4> HIDE DEF u, v, q, Q
      <4> QED
        BY <2>2, <2>3, <3>3, <4>1
    <3>4. s.x + 1 < NUM_COLS \/ s.x + 1 = NUM_COLS
      BY <2>3
    <3> QED
      BY <3>1, <3>2, <3>3, <3>4
  <2> HIDE DEF p, P, u, v, q, Q
  <2>5. p \in Int /\ P \in Int /\ q \in Int /\ Q \in Int
    BY <2>1, <2>3, <2>4
  <2>6. q >= p /\ Q >= P
    BY <2>1, <2>3, <2>4
  <2>7. c # Newline => q = p + 1 /\ Q = P + 1
    BY <2>1, <2>3, <2>4
  <2> QED
    BY <2>5, <2>6, <2>7 DEF q, Q
<1>9. \A i \in ScreenCells : off + i \in BufferCells /\ P = off + p /\ i \in Int /\ off \in Int
  <2>1. P = At(s.start + s.y, s.x)
    BY <1>5
  <2>2. s.x \in Int
    BY <1>3
  <2> QED
    <3> SUFFICES ASSUME NEW i \in ScreenCells
                 PROVE  off + i \in BufferCells /\ P = off + p /\ i \in Int /\ off \in Int
      OBVIOUS
    <3>1. /\ s.start * NUM_COLS + i \in BufferCells /\ i \in Int /\ s.start * NUM_COLS \in Int
          /\ At(s.start + s.y, s.x) = s.start * NUM_COLS + At(s.y, s.x)
      <4>1. s.start \in 0..MaxStart
        BY <1>3
      <4>2. s.y \in Int
        BY <1>3
      <4>3. i \in ScreenCells
        OBVIOUS
      <4> QED
        BY <2>2, <4>1, <4>2, <4>3, WindowCells, WindowAt
    <3> QED
      BY <2>1, <3>1
<1>10. \A k : k \in BufferCells => k \in Int
  BY CellFacts
<1> HIDE DEF p, P, off
<1>11. CASE c = Newline
  <2>1. s2.mem = s.mem /\ l2.mem = l.mem
    BY <1>1, <1>2, <1>11
  <2>2. \A k \in BufferCells : k >= At(l2.y, l2.x) => l2.mem[k] = Blank
    BY <1>5, <1>8, <1>10, <2>1 DEF P
  <2>3. \A i \in ScreenCells : i >= At(s2.y, s2.x) => s2.mem[i] = Blank
    BY <1>5, <1>8, <1>9, <2>1 DEF p
  <2> QED
    BY <1>1, <1>5, <1>6, <2>1, <2>2, <2>3 DEF Synced
<1>12. CASE c # Newline
  <2>1. c \in Cell
    BY <1>12, PrintableFacts
  <2>2. \A i \in ScreenCells : s2.mem[i] = IF i = p THEN c ELSE s.mem[i]
    BY <1>1, <1>3, <1>12, <2>1, StoreFacts DEF p
  <2>3. \A k \in BufferCells : l2.mem[k] = IF k = P THEN c ELSE l.mem[k]
    BY <1>2, <1>3, <1>12, <2>1, StoreFacts DEF P
  <2>4. \A k \in BufferCells : k >= At(l2.y, l2.x) => l2.mem[k] = Blank
    BY <1>5, <1>8, <1>10, <1>12, <2>3 DEF P
  <2>5. \A i \in ScreenCells : i >= At(s2.y, s2.x) => s2.mem[i] = Blank
    BY <1>5, <1>8, <1>9, <1>12, <2>2 DEF p
  <2>6. ASSUME NEW i \in ScreenCells, s.mem[i] = l.mem[off + i]
        PROVE  s2.mem[i] = l2.mem[off + i]
    <3>1. off + i \in BufferCells /\ (off + i = P <=> i = p)
      BY <1>8, <1>9
    <3> QED
      BY <2>2, <2>3, <2>6, <3>1
  <2> QED
    BY <1>1, <1>5, <1>6, <2>4, <2>5, <2>6 DEF Synced, off
<1> QED
  BY <1>11, <1>12

\* The screen scrolls: its window moves to the next line of the buffer.
LEMMA SyncedScroll ==
  ASSUME NEW s \in ScreenRec, NEW l \in LargeRec, NEW b \in Int,
         s.y <= NUM_ROWS, s.start < MaxStart, s.y = NUM_ROWS => s.x = 0, Synced(s, l, b)
  PROVE  Synced(TerminalScroll(s), l, b)
<1> DEFINE t == TerminalScroll(s)
<1>1. CASE s.y < NUM_ROWS
  BY <1>1, ScrollFacts
<1>2. CASE s.y = NUM_ROWS
  <2> SUFFICES ASSUME l.y < BufferRows - 1 PROVE Synced(t, l, b)
    BY DEF Synced
  <2>1. /\ s.x = l.x /\ s.start + s.y = l.y
        /\ \A k \in BufferCells : k >= At(l.y, l.x) => l.mem[k] = Blank
        /\ b >= 0 => \A i \in ScreenCells :
              s.start * NUM_COLS + i >= (b + 1) * NUM_COLS =>
                  s.mem[i] = l.mem[s.start * NUM_COLS + i]
    BY DEF Synced
  <2>2. /\ s.start \in Int /\ s.start \in 0..MaxStart /\ MaxStart \in Int /\ NUM_ROWS \in Nat
        /\ BufferRows = MaxStart + NUM_ROWS /\ s.x = 0 /\ s.y \in Int
        /\ NUM_COLS \in Nat /\ NUM_COLS > 0
    BY <1>2, Sizes DEF ScreenRec
  <2>3. s.start < MaxStart - 1
    BY <1>2, <2>1, <2>2
  <2>4. /\ t \in ScreenRec /\ t.x = s.x /\ t.y = NUM_ROWS - 1 /\ t.start = s.start + 1
        /\ \A i \in ScreenCells :
              /\ i < NUM_COLS * NUM_ROWS - NUM_COLS =>
                    i + NUM_COLS \in ScreenCells /\ t.mem[i] = s.mem[i + NUM_COLS]
              /\ i >= NUM_COLS * NUM_ROWS - NUM_COLS => t.mem[i] = Blank
    BY <1>2, <2>3, ScrollFacts
  <2> HIDE DEF t
  <2>5. t.start \in 0..MaxStart /\ t.start + t.y = l.y /\ t.y \in Int /\ t.x = 0
    BY <1>2, <2>1, <2>2, <2>4 DEF ScreenRec
  <2>6. /\ NUM_COLS * (NUM_ROWS - 1) = NUM_COLS * NUM_ROWS - NUM_COLS
        /\ NUM_COLS * (s.start + 1) = NUM_COLS * s.start + NUM_COLS
        /\ (s.start + 1) * NUM_COLS = NUM_COLS * (s.start + 1)
        /\ s.start * NUM_COLS = NUM_COLS * s.start
        /\ NUM_COLS * s.start \in Int /\ NUM_COLS * NUM_ROWS \in Int
    <3>1. s.start + 1 \in Int /\ NUM_ROWS \in Int
      BY <2>2
    <3> QED
      BY <2>2, <3>1, Rows
  <2>7. t.start * NUM_COLS = s.start * NUM_COLS + NUM_COLS /\ s.start * NUM_COLS \in Int
    BY <2>4, <2>6
  <2>8. At(t.y, t.x) = NUM_COLS * NUM_ROWS - NUM_COLS
    <3>1. At(t.y, t.x) = NUM_COLS * (NUM_ROWS - 1) + 0
      BY <2>4, <2>5 DEF At
    <3> QED
      BY <2>2, <2>6, <3>1
  <2>9. \A i \in ScreenCells : i >= At(t.y, t.x) => t.mem[i] = Blank
    BY <2>4, <2>8
  <2>10. ASSUME NEW i \in ScreenCells, b >= 0,
                t.start * NUM_COLS + i >= (b + 1) * NUM_COLS
         PROVE  t.mem[i] = l.mem[t.start * NUM_COLS + i]
    <3>1. i \in Int /\ t.start * NUM_COLS + i \in BufferCells
          /\ At(l.y, l.x) = t.start * NUM_COLS + At(t.y, t.x)
      BY <2>1, <2>4, <2>5, WindowCells, WindowAt
    <3>2. CASE i < NUM_COLS * NUM_ROWS - NUM_COLS
      <4>1. i + NUM_COLS \in ScreenCells /\ t.mem[i] = s.mem[i + NUM_COLS]
        BY <2>4, <3>2
      <4>2. s.start * NUM_COLS + (i + NUM_COLS) = t.start * NUM_COLS + i
        BY <2>2, <2>7, <3>1
      <4>3. s.mem[i + NUM_COLS] = l.mem[s.start * NUM_COLS + (i + NUM_COLS)]
        BY <2>1, <2>10, <4>1, <4>2
      <4> QED
        BY <4>1, <4>2, <4>3
    <3>3. CASE i >= NUM_COLS * NUM_ROWS - NUM_COLS
      <4>1. t.mem[i] = Blank
        BY <2>4, <3>3
      <4>2. t.start * NUM_COLS + i >= At(l.y, l.x)
        BY <2>6, <2>7, <2>8, <2>2, <3>1, <3>3
      <4> QED
        BY <2>1, <3>1, <4>1, <4>2
    <3> QED
      BY <2>2, <2>6, <3>1, <3>2, <3>3
  <2> QED
    BY <2>1, <2>4, <2>5, <2>9, <2>10 DEF Synced
<1> QED
  BY <1>1, <1>2, Sizes DEF ScreenRec

\* The chip's cursor is no part of it.
LEMMA CursorFacts ==
  ASSUME NEW s \in ScreenRec
  PROVE  /\ UpdateCursor(s) \in ScreenRec
         /\ UpdateCursor(s).x = s.x /\ UpdateCursor(s).y = s.y
         /\ UpdateCursor(s).start = s.start /\ UpdateCursor(s).mem = s.mem
         /\ UpdateCursor(s).cursor = At(s.y, s.x)
<1>1. At(s.y, s.x) \in Int
  BY Sizes, Rows DEF ScreenRec, At
<1> QED
  BY <1>1 DEF UpdateCursor, ScreenRec

LEMMA SyncedCursor ==
  ASSUME NEW s \in ScreenRec, NEW l, NEW b, Synced(s, l, b)
  PROVE  Synced(UpdateCursor(s), l, b)
BY CursorFacts DEF Synced

-----------------------------------------------------------------------------
(* The inductive invariant, for keys that arrive between two characters *)

\* A screen whose cursor is not above it, and whose window has not reached the end
\* of the buffer.
Placed(s) == s \in ScreenRec /\ s.y >= 0 /\ s.start < MaxStart

Told(s) == s.y < NUM_ROWS => s.cursor = At(s.y, s.x)

\* The line of the text that the cursor is on: however the user scrolls, it stays,
\* and it is above the last one that the window can reach.
Position ==
    /\ Placed(screen)
    /\ pc \in {"idle", "faulted"} => screen.start + screen.y <= MaxStart + NUM_ROWS - 2
    /\ pc = "advanced" => screen.y <= NUM_ROWS /\ (screen.y = NUM_ROWS => screen.x = 0)
    /\ pc \in {"scrolled", "loaded", "shown"} => screen.y < NUM_ROWS
    /\ pc = "loaded" => pos = At(screen.y, screen.x)
    /\ pc \in {"idle", "shown"} => Told(screen)

\* The buffer, with the character that only the screen has yet.
Ahead == IF pc \in {"idle", "faulted"} THEN large ELSE Advance(large, char)

IInv ==
    /\ TypeOK
    /\ LargePlace(large)
    /\ state = "running" => Position /\ (~erased => Synced(screen, Ahead, boot_line))
    /\ state = "fault" => pc = "faulted" /\ screen.y < 0
    /\ state # "hung"

LEMMA Types ==
  ASSUME TypeOK
  PROVE  /\ screen \in ScreenRec /\ large \in LargeRec /\ large.y \in 0..(BufferRows - 1)
         /\ boot_line \in Int
         /\ screen.x \in Nat /\ screen.x < NUM_COLS /\ screen.y \in Int
         /\ screen.start \in Nat /\ screen.start <= MaxStart
         /\ screen.mem \in [ScreenCells -> Cell] /\ large.mem \in [BufferCells -> Cell]
         /\ char \in Printable
<1>1. screen \in ScreenRec /\ boot_line \in Int
  BY Sizes DEF TypeOK, ScreenRec, Cell
<1>2. large \in LargeRec /\ large.y \in 0..(BufferRows - 1)
  BY Sizes DEF TypeOK, LargeRec, Cell
<1>3. char \in Printable
  BY DEF TypeOK
<1> QED
  BY <1>1, <1>2, <1>3, Sizes DEF ScreenRec, LargeRec

\* TypeOK from its parts.
LEMMA TypesOK ==
  ASSUME screen' \in ScreenRec, large' \in LargeRec, large'.y \in 0..(BufferRows - 1),
         char' \in Printable, pos' \in Int,
         pc' \in {"idle", "advanced", "scrolled", "loaded", "shown", "faulted"},
         boot_line' \in -1..(BufferRows - 1),
         erased' \in BOOLEAN, state' \in {"running", "hung", "fault"}
  PROVE  TypeOK'
<1>1. large' \in [x : Nat, y : 0..(BufferRows - 1), mem : [BufferCells -> Char \cup {Blank}]]
  BY DEF LargeRec, Cell
<1>2. screen' \in [x : 0..(NUM_COLS - 1), y : Int, start : 0..MaxStart, cursor : Int,
                   mem : [ScreenCells -> Char \cup {Blank}]]
  BY DEF ScreenRec, Cell
<1> QED
  BY <1>1, <1>2 DEF TypeOK, Printable

LEMMA PlacedFacts ==
  ASSUME NEW s, Placed(s)
  PROVE  /\ s \in ScreenRec /\ s.y \in Nat /\ s.x \in Nat /\ s.x < NUM_COLS
         /\ s.start \in Nat /\ s.start < MaxStart
         /\ At(s.y, s.x) \in Int
         /\ At(s.y, s.x) = NUM_COLS * s.y + s.x /\ NUM_COLS * s.y \in Int
BY Sizes, Rows DEF Placed, ScreenRec, At

\* The rewinding loop at the start of putc comes to an end in every state.
LEMMA RewindEnds == ASSUME IInv PROVE CanRewind
<1>1. /\ screen.y \in Int /\ screen.start \in Nat /\ MaxStart \in Nat /\ NUM_ROWS \in Nat
      /\ NUM_ROWS > 0
  BY Types, Sizes DEF IInv
<1>2. CASE state = "fault"
  BY <1>1, <1>2 DEF IInv, CanRewind
<1>3. CASE state = "running"
  <2>1. /\ screen.start < MaxStart
        /\ pc \in {"idle", "faulted"} => screen.start + screen.y <= MaxStart + NUM_ROWS - 2
        /\ pc = "advanced" => screen.y <= NUM_ROWS
        /\ pc \in {"scrolled", "loaded", "shown"} => screen.y < NUM_ROWS
        /\ pc \in {"idle", "advanced", "scrolled", "loaded", "shown", "faulted"}
    BY <1>3 DEF IInv, Position, Placed, TypeOK
  <2> QED
    BY <1>1, <2>1 DEF CanRewind
<1> QED
  BY <1>2, <1>3 DEF IInv, TypeOK

\* It leaves the cursor on the screen, and the screen in agreement.
LEMMA RewindFacts ==
  ASSUME IInv, state = "running", pc \in {"idle", "faulted"}
  PROVE  /\ Placed(Rewind)
         /\ Rewind.y < NUM_ROWS
         /\ ~erased => Synced(Rewind, large, boot_line)
<1>1. /\ screen \in ScreenRec
      /\ screen.x \in Nat /\ screen.y \in Nat /\ screen.start \in Nat
      /\ MaxStart \in Nat /\ NUM_ROWS \in Nat
      /\ screen.start + screen.y <= MaxStart + NUM_ROWS - 2
      /\ Placed(screen) /\ large \in LargeRec /\ boot_line \in Int
      /\ ~erased => Synced(screen, large, boot_line)
  BY Types, Sizes DEF IInv, Position, Placed, Ahead
<1>2. CASE screen.y < NUM_ROWS
  BY <1>1, <1>2 DEF Rewind
<1>3. CASE screen.y >= NUM_ROWS
  <2> DEFINE n == screen.y - NUM_ROWS + 1
             a == screen.start + n
             b == NUM_ROWS - 1
             w == Window(a)
  <2>1. Rewind = [screen EXCEPT !.start = a, !.y = b, !.mem = w]
    <3>1. ~(screen.y < NUM_ROWS)
      BY <1>1, <1>3
    <3>2. Rewind = [screen EXCEPT !.start = @ + n, !.y = NUM_ROWS - 1,
                                  !.mem = Window(screen.start + n)]
      BY <3>1, Zenon DEF Rewind
    <3> QED
      BY <3>2, Zenon
  <2>2. a \in 0..MaxStart /\ a < MaxStart /\ b \in Nat /\ a + b = screen.start + screen.y
    BY <1>1, <1>3, Sizes
  <2>8. b < NUM_ROWS
    BY <1>1
  <2> HIDE DEF a, b
  <2>3. w \in [ScreenCells -> Cell]
    <3>1. \A i \in ScreenCells : large.mem[a * NUM_COLS + i] \in Cell
      BY <1>1, <2>2, WindowCells DEF LargeRec
    <3> QED
      BY <3>1 DEF Window
  <2> HIDE DEF w
  <2>4. Rewind \in ScreenRec /\ Rewind.y = b /\ Rewind.start = a /\ Rewind.mem = w
        /\ Rewind.x = screen.x
    <3>1. screen \in ScreenRec
      BY <1>1
    <3>2. a \in 0..MaxStart /\ b \in Int
      BY <2>2
    <3> QED
      BY <2>1, <2>3, <3>1, <3>2 DEF ScreenRec
  <2>5. Rewind.mem = Window(Rewind.start) /\ Rewind.start + Rewind.y = screen.start + screen.y
    BY <2>2, <2>4 DEF w
  <2>7. ~erased => Synced(Rewind, large, boot_line)
    BY <1>1, <2>4, <2>5, SyncedWindow
  <2> QED
    BY <2>2, <2>4, <2>7, <2>8 DEF Placed
<1> QED
  BY <1>1, <1>2, <1>3

\* Storing a character leaves the cursor on the screen or at the start of the row
\* below it.
LEMMA AdvancePlaced ==
  ASSUME NEW s, Placed(s), s.y < NUM_ROWS, NEW c \in Printable
  PROVE  LET t == Advance(s, c) IN
         Placed(t) /\ t.y <= NUM_ROWS /\ (t.y = NUM_ROWS => t.x = 0)
<1> DEFINE t == Advance(s, c)
<1>1. /\ s \in ScreenRec /\ s.y \in Nat /\ s.start \in Nat /\ s.start < MaxStart
      /\ NUM_ROWS \in Nat
  BY PlacedFacts, Sizes
<1>2. /\ t \in ScreenRec /\ t.start = s.start
      /\ \/ t.y = s.y + 1 /\ t.x = 0
         \/ t.y = s.y
  BY <1>1, AdvanceScreen
<1> HIDE DEF t
<1>3. t.y \in Nat /\ t.y <= NUM_ROWS /\ (t.y = NUM_ROWS => t.x = 0) /\ t.start < MaxStart
  BY <1>1, <1>2
<1> QED
  BY <1>2, <1>3 DEF Placed, t

LEMMA ScrollPlaced ==
  ASSUME NEW s, Placed(s), s.y <= NUM_ROWS
  PROVE  LET t == UpdateCursor(TerminalScroll(s)) IN Placed(t) /\ t.y < NUM_ROWS /\ Told(t)
<1> DEFINE u == TerminalScroll(s)
           t == UpdateCursor(u)
<1>1. /\ s \in ScreenRec /\ s.y \in Nat /\ s.start < MaxStart
      /\ NUM_ROWS \in Nat /\ NUM_ROWS > 0
  BY PlacedFacts, Sizes
<1>2. /\ u \in ScreenRec /\ u.start < MaxStart
      /\ s.y < NUM_ROWS => u = s
      /\ s.y = NUM_ROWS => u.y = NUM_ROWS - 1
  BY <1>1, ScrollFacts
<1> HIDE DEF u
<1>3. /\ t \in ScreenRec /\ t.x = u.x /\ t.y = u.y /\ t.start = u.start
      /\ t.cursor = At(u.y, u.x)
  BY <1>2, CursorFacts
<1> HIDE DEF t
<1>4. t.y \in Nat /\ t.y < NUM_ROWS
  BY <1>1, <1>2, <1>3
<1> QED
  BY <1>2, <1>3, <1>4 DEF Placed, Told, t, u

-----------------------------------------------------------------------------
(* A program prints *)

LEMMA PrintFacts ==
  ASSUME IInv, state = "running"
  PROVE  /\ large \in LargeRec /\ LargePlace(large) /\ large.y \in 0..(BufferRows - 1)
         /\ char \in Printable /\ pos \in Int /\ erased \in BOOLEAN
         /\ boot_line \in Int /\ boot_line \in -1..(BufferRows - 1)
         /\ screen \in ScreenRec /\ Placed(screen) /\ screen.start < MaxStart
         /\ screen.y \in Int /\ screen.start \in Int
         /\ NUM_ROWS \in Nat /\ NUM_ROWS > 0 /\ MaxStart \in Nat
         /\ Position /\ (~erased => Synced(screen, Ahead, boot_line))
<1>1. screen \in ScreenRec /\ large \in LargeRec /\ boot_line \in Int /\ char \in Printable
      /\ large.y \in 0..(BufferRows - 1) /\ screen.y \in Int /\ screen.start \in Int
  BY Types DEF IInv
<1>2. pos \in Int /\ boot_line \in -1..(BufferRows - 1) /\ LargePlace(large)
  BY DEF IInv, TypeOK
<1>3. erased \in BOOLEAN
  BY DEF IInv, TypeOK
<1>4. Position /\ (~erased => Synced(screen, Ahead, boot_line))
  BY DEF IInv
<1>5. Placed(screen) /\ screen.start < MaxStart
  BY <1>4 DEF Position, Placed
<1> QED
  BY <1>1, <1>2, <1>3, <1>4, <1>5, Sizes

LEMMA PrintStoresInv ==
  ASSUME IInv, NEW c \in Printable, PrintStores(c)
  PROVE  IInv'
<1>1. /\ pc = "idle" /\ state = "running" /\ screen' = Advance(Rewind, c)
      /\ pc' = "advanced" /\ char' = c
      /\ UNCHANGED <<large, pos, boot_line, erased, state>>
  BY DEF PrintStores
<1>2. /\ large \in LargeRec /\ boot_line \in Int /\ LargePlace(large)
      /\ large.y \in 0..(BufferRows - 1)
      /\ pos \in Int /\ erased \in BOOLEAN /\ boot_line \in -1..(BufferRows - 1)
  BY <1>1, PrintFacts
<1>3. Placed(Rewind) /\ Rewind.y < NUM_ROWS /\ Rewind \in ScreenRec
      /\ (~erased => Synced(Rewind, large, boot_line))
  BY <1>1, RewindFacts DEF Placed
<1>4. Placed(screen') /\ screen'.y <= NUM_ROWS /\ (screen'.y = NUM_ROWS => screen'.x = 0)
  BY <1>1, <1>3, AdvancePlaced
<1>5. ~erased => Synced(screen', Advance(large, c), boot_line)
  BY <1>1, <1>2, <1>3, SyncedAdvance
<1>6. TypeOK'
  <2>1. screen' \in ScreenRec
    BY <1>4 DEF Placed
  <2> QED
    BY <1>1, <1>2, <2>1, TypesOK
<1>7. Position'
  BY <1>1, <1>4 DEF Position
<1>8. LargePlace(large')
  BY <1>1, <1>2
<1> QED
  BY <1>1, <1>5, <1>6, <1>7, <1>8 DEF IInv, Ahead

LEMMA PrintScrollsInv == ASSUME IInv, PrintScrolls PROVE IInv'
<1> DEFINE u == TerminalScroll(screen)
<1>1. /\ pc = "advanced" /\ state = "running"
      /\ screen' = IF screen.y < NUM_ROWS THEN screen ELSE UpdateCursor(u)
      /\ pc' = "scrolled"
      /\ state' = IF screen.y >= 2 * NUM_ROWS THEN "fault" ELSE state
      /\ UNCHANGED <<large, char, pos, boot_line, erased>>
  BY DEF PrintScrolls
<1>2. /\ large \in LargeRec /\ large.y \in 0..(BufferRows - 1)
      /\ boot_line \in Int /\ LargePlace(large)
      /\ boot_line \in -1..(BufferRows - 1)
      /\ char \in Printable /\ pos \in Int /\ erased \in BOOLEAN
      /\ screen \in ScreenRec /\ Placed(screen) /\ screen.start < MaxStart
      /\ screen.y \in Int /\ NUM_ROWS \in Nat /\ NUM_ROWS > 0
  BY <1>1, PrintFacts
<1>3. screen.y <= NUM_ROWS /\ (screen.y = NUM_ROWS => screen.x = 0)
      /\ (~erased => Synced(screen, Advance(large, char), boot_line))
  BY <1>1, PrintFacts DEF Position, Ahead
<1>4. state' = "running"
  BY <1>1, <1>2, <1>3
<1>5. Placed(screen') /\ screen'.y < NUM_ROWS
  <2>1. Placed(UpdateCursor(u)) /\ UpdateCursor(u).y < NUM_ROWS
    BY <1>2, <1>3, ScrollPlaced
  <2> QED
    BY <1>1, <1>2, <2>1
<1>6. ~erased => Synced(screen', Advance(large, char), boot_line)
  <2>1. Advance(large, char) \in LargeRec
    BY <1>2, AdvanceLarge
  <2>2. u \in ScreenRec
    BY <1>2, <1>3, ScrollFacts
  <2>3. ~erased => Synced(u, Advance(large, char), boot_line)
    BY <1>2, <1>3, <2>1, SyncedScroll
  <2> HIDE DEF u
  <2>4. ~erased => Synced(UpdateCursor(u), Advance(large, char), boot_line)
    BY <2>2, <2>3, SyncedCursor
  <2> QED
    BY <1>1, <1>3, <2>4
<1>7. TypeOK'
  <2>1. screen' \in ScreenRec
    BY <1>5 DEF Placed
  <2> QED
    BY <1>1, <1>2, <1>4, <2>1, TypesOK
<1>8. Position'
  BY <1>1, <1>5 DEF Position
<1>9. LargePlace(large')
  BY <1>1, <1>2
<1> QED
  BY <1>1, <1>4, <1>6, <1>7, <1>8, <1>9 DEF IInv, Ahead

LEMMA PrintLoadsInv == ASSUME IInv, PrintLoads PROVE IInv'
<1>1. /\ pc = "scrolled" /\ state = "running"
      /\ pos' = At(screen.y, screen.x) /\ pc' = "loaded"
      /\ UNCHANGED <<screen, large, char, boot_line, erased, state>>
  BY DEF PrintLoads
<1>2. /\ large \in LargeRec /\ LargePlace(large) /\ large.y \in 0..(BufferRows - 1)
      /\ boot_line \in -1..(BufferRows - 1)
      /\ char \in Printable /\ erased \in BOOLEAN
      /\ screen \in ScreenRec /\ Placed(screen)
  BY <1>1, PrintFacts
<1>3. screen.y < NUM_ROWS /\ (~erased => Synced(screen, Advance(large, char), boot_line))
  BY <1>1, PrintFacts DEF Position, Ahead
<1>4. pos' \in Int
  BY <1>1, <1>2, PlacedFacts
<1>5. TypeOK'
  BY <1>1, <1>2, <1>4, TypesOK
<1>6. Position'
  BY <1>1, <1>2, <1>3 DEF Position, Placed
<1> QED
  BY <1>1, <1>2, <1>3, <1>5, <1>6 DEF IInv, Ahead

LEMMA PrintShowsInv == ASSUME IInv, PrintShows PROVE IInv'
<1>1. /\ pc = "loaded" /\ state = "running"
      /\ screen' = [screen EXCEPT !.cursor = pos] /\ pos' = 0 /\ pc' = "shown"
      /\ UNCHANGED <<large, char, boot_line, erased, state>>
  BY DEF PrintShows
<1>2. /\ large \in LargeRec /\ LargePlace(large) /\ large.y \in 0..(BufferRows - 1)
      /\ boot_line \in -1..(BufferRows - 1)
      /\ char \in Printable /\ erased \in BOOLEAN
      /\ screen \in ScreenRec /\ Placed(screen)
  BY <1>1, PrintFacts
<1>3. screen.y < NUM_ROWS /\ (~erased => Synced(screen, Advance(large, char), boot_line))
      /\ pos = At(screen.y, screen.x)
  BY <1>1, PrintFacts DEF Position, Ahead
<1>4. screen' = UpdateCursor(screen)
  BY <1>1, <1>3 DEF UpdateCursor
<1>5. /\ screen' \in ScreenRec /\ screen'.x = screen.x /\ screen'.y = screen.y
      /\ screen'.start = screen.start /\ screen'.cursor = At(screen.y, screen.x)
  BY <1>2, <1>4, CursorFacts
<1>6. ~erased => Synced(screen', Advance(large, char), boot_line)
  BY <1>2, <1>3, <1>4, SyncedCursor
<1>7. TypeOK'
  BY <1>1, <1>2, <1>5, TypesOK
<1>8. Position'
  BY <1>1, <1>2, <1>3, <1>5 DEF Position, Placed, Told
<1>9. LargePlace(large')
  BY <1>1, <1>2
<1> QED
  BY <1>1, <1>6, <1>7, <1>8, <1>9 DEF IInv, Ahead

\* Once both halves are done the buffer is the one the screen agrees with.
LEMMA SyncedSaved ==
  ASSUME NEW s, NEW b, NEW c \in Printable,
         large \in LargeRec, large.y \in 0..(BufferRows - 1), LargePlace(large),
         Synced(s, Advance(large, c), b)
  PROVE  Synced(s, Saved(c), b)
<1>1. /\ Advance(large, c).y < BufferRows - 1 => Saved(c) = Advance(large, c)
      /\ Advance(large, c).y >= BufferRows - 1 => Saved(c).y = BufferRows - 1
      /\ Advance(large, c) \in LargeRec /\ BufferRows \in Int
  BY SavedFacts, AdvanceLarge, Sizes
<1>2. Advance(large, c).y \in Int
  BY <1>1 DEF LargeRec
<1>3. CASE Advance(large, c).y < BufferRows - 1
  BY <1>1, <1>3
<1>4. CASE Advance(large, c).y >= BufferRows - 1
  <2>1. ~(Saved(c).y < BufferRows - 1)
    BY <1>1, <1>4
  <2> QED
    BY <2>1 DEF Synced
<1> QED
  BY <1>1, <1>2, <1>3, <1>4

LEMMA PrintSavesInv == ASSUME IInv, PrintSaves PROVE IInv'
<1>1. /\ pc = "shown" /\ state = "running" /\ large' = Saved(char) /\ pc' = "idle"
      /\ UNCHANGED <<screen, char, pos, boot_line, erased, state>>
  BY DEF PrintSaves
<1>2. /\ large \in LargeRec /\ LargePlace(large) /\ large.y \in 0..(BufferRows - 1)
      /\ boot_line \in -1..(BufferRows - 1)
      /\ char \in Printable /\ pos \in Int /\ erased \in BOOLEAN
      /\ screen \in ScreenRec /\ Placed(screen) /\ screen.start < MaxStart
      /\ screen.y \in Int /\ screen.start \in Int /\ NUM_ROWS \in Nat /\ MaxStart \in Nat
  BY <1>1, PrintFacts
<1>3. screen.y < NUM_ROWS /\ Told(screen)
      /\ (~erased => Synced(screen, Advance(large, char), boot_line))
  BY <1>1, PrintFacts DEF Position, Ahead
<1>4. large' \in LargeRec /\ large'.y \in 0..(BufferRows - 1) /\ LargePlace(large')
  BY <1>1, <1>2, SavedFacts
<1>5. ~erased => Synced(screen, large', boot_line)
  BY <1>1, <1>2, <1>3, SyncedSaved
<1>6. TypeOK'
  BY <1>1, <1>2, <1>4, TypesOK
<1>7. screen.start + screen.y <= MaxStart + NUM_ROWS - 2
  BY <1>2, <1>3
<1>8. Position'
  BY <1>1, <1>2, <1>3, <1>7 DEF Position, Placed, Told
<1> QED
  BY <1>1, <1>4, <1>5, <1>6, <1>8 DEF IInv, Ahead

LEMMA scroll_initInv == ASSUME IInv, scroll_init PROVE IInv'
<1> DEFINE m == [i \in BufferCells |-> Blank]
<1>1. /\ state = "running" /\ pc = "idle" /\ large' = [large EXCEPT !.mem = m]
      /\ boot_line' = large.y
      /\ UNCHANGED <<screen, pc, char, pos, erased, state>>
  BY DEF scroll_init
<1>2. /\ large \in LargeRec /\ LargePlace(large) /\ large.y \in 0..(BufferRows - 1)
      /\ screen \in ScreenRec /\ char \in Printable /\ BufferRows \in Nat
      /\ screen.start \in 0..MaxStart /\ screen.y \in Int /\ screen.x \in Nat
      /\ screen.x < NUM_COLS /\ NUM_COLS \in Nat /\ pos \in Int /\ erased \in BOOLEAN
  BY <1>1, Types, Sizes, PrintFacts DEF IInv
<1>3. m \in [BufferCells -> Cell] /\ Blank \in Cell
  BY DEF Cell
<1> HIDE DEF m
<1>4. large' \in LargeRec /\ large'.y = large.y /\ large'.x = large.x /\ large'.mem = m
  BY <1>1, <1>2, <1>3 DEF LargeRec
<1>5. LargePlace(large') /\ large'.y \in 0..(BufferRows - 1)
      /\ boot_line' \in -1..(BufferRows - 1)
  BY <1>1, <1>2, <1>4 DEF LargePlace
<1>6. ASSUME ~erased PROVE Synced(screen, large', boot_line')
  <2> SUFFICES ASSUME large'.y < BufferRows - 1 PROVE Synced(screen, large', boot_line')
    BY DEF Synced
  <2>1. /\ screen.x = large.x /\ screen.start + screen.y = large.y
        /\ \A i \in ScreenCells : i >= At(screen.y, screen.x) => screen.mem[i] = Blank
    BY <1>1, <1>4, <1>6 DEF IInv, Ahead, Synced
  <2>2. \A k \in BufferCells : large'.mem[k] = Blank
    BY <1>4 DEF m
  <2>3. ASSUME NEW i \in ScreenCells,
               screen.start * NUM_COLS + i >= (boot_line' + 1) * NUM_COLS
        PROVE  screen.mem[i] = large'.mem[screen.start * NUM_COLS + i]
    <3>1. screen.start * NUM_COLS + i \in BufferCells /\ i \in Int
      BY <1>2, WindowCells
    <3>2. /\ (large.y + 1) * NUM_COLS = NUM_COLS * (large.y + 1)
          /\ NUM_COLS * (large.y + 1) = NUM_COLS * large.y + NUM_COLS
          /\ NUM_COLS * (screen.start + screen.y)
               = NUM_COLS * screen.start + NUM_COLS * screen.y
          /\ screen.start * NUM_COLS = NUM_COLS * screen.start
          /\ NUM_COLS * screen.start \in Int /\ NUM_COLS * screen.y \in Int
      <4>1. large.y \in Int /\ screen.start \in Int /\ large.y + 1 \in Int
        BY <1>2
      <4> QED
        BY <1>2, <4>1, Rows
    <3>3. At(screen.y, screen.x) = NUM_COLS * screen.y + screen.x
      BY DEF At
    <3>4. NUM_COLS * screen.start + i >= NUM_COLS * screen.start + NUM_COLS * screen.y + NUM_COLS
      BY <1>1, <2>1, <2>3, <3>2
    <3>5. i >= At(screen.y, screen.x)
      BY <1>2, <3>1, <3>2, <3>3, <3>4
    <3> QED
      BY <2>1, <2>2, <3>1, <3>5
  <2> QED
    BY <1>4, <2>1, <2>2, <2>3 DEF Synced
<1>7. TypeOK'
  BY <1>1, <1>2, <1>4, <1>5, TypesOK
<1>8. Position'
  <2>1. Position
    BY <1>1 DEF IInv
  <2> QED
    BY <1>1, <2>1 DEF Position, Placed, Told
<1> QED
  BY <1>1, <1>5, <1>6, <1>7, <1>8 DEF IInv, Ahead

-----------------------------------------------------------------------------
(* Keys *)

LEMMA KeyFacts ==
  ASSUME IInv, ~Interrupted, Key
  PROVE  /\ pc = "idle" /\ state = "running" /\ boot_line >= 0 /\ pos \in Int
         /\ screen \in ScreenRec /\ large \in LargeRec /\ large.y \in 0..(BufferRows - 1)
         /\ LargePlace(large) /\ Placed(screen) /\ char \in Printable
         /\ boot_line \in -1..(BufferRows - 1) /\ boot_line \in Int
         /\ screen.x \in Nat /\ screen.x < NUM_COLS /\ screen.y \in Nat
         /\ screen.start \in Nat /\ screen.start < MaxStart /\ screen.start \in 0..MaxStart
         /\ screen.start + screen.y <= MaxStart + NUM_ROWS - 2
         /\ MaxStart \in Nat /\ NUM_ROWS \in Nat /\ NUM_ROWS > 0 /\ NUM_COLS \in Nat
         /\ BufferRows \in Nat /\ erased \in BOOLEAN
         /\ ~erased => Synced(screen, large, boot_line)
<1>1. pc = "idle" /\ state = "running" /\ boot_line >= 0
  BY DEF Key
<1>2. /\ screen.x \in Nat /\ screen.x < NUM_COLS /\ screen.y \in Int
      /\ screen.start \in Nat /\ screen.start <= MaxStart
  BY Types DEF IInv
<1>3. /\ Placed(screen) /\ screen.y >= 0 /\ screen.start < MaxStart
      /\ screen.start + screen.y <= MaxStart + NUM_ROWS - 2
      /\ ~erased => Synced(screen, large, boot_line)
  BY <1>1 DEF IInv, Position, Placed, Ahead
<1> QED
  BY <1>1, <1>2, <1>3, PrintFacts, Sizes

\* A handler that runs between two characters leaves the invariant if it leaves the
\* screen and the buffer in order.
LEMMA KeyKeeps ==
  ASSUME IInv, state = "running", UNCHANGED <<char, boot_line>>,
         pc' \in {"idle", "faulted"}, pos' \in Int, state' = "running",
         large' \in LargeRec, large'.y \in 0..(BufferRows - 1), LargePlace(large'),
         Placed(screen'), pc' = "idle" => Told(screen'),
         screen'.start + screen'.y <= MaxStart + NUM_ROWS - 2,
         erased' \in BOOLEAN,
         ~erased' => Synced(screen', large', boot_line)
  PROVE  IInv'
<1>1. char \in Printable /\ boot_line \in -1..(BufferRows - 1)
  BY PrintFacts
<1>2. screen' \in ScreenRec
  BY DEF Placed
<1>3. TypeOK'
  BY <1>1, <1>2, TypesOK
<1>4. Position'
  BY DEF Position
<1> QED
  BY <1>3, <1>4 DEF IInv, Ahead

LEMMA HandlerPrintsInv ==
  ASSUME IInv, state = "running", pc \in {"idle", "faulted"},
         NEW c \in Printable, HandlerPrints(c), pc' \in {"idle", "faulted"}
  PROVE  IInv'
<1> DEFINE a == Advance(Rewind, c)
           u == TerminalScroll(a)
<1>1. /\ screen' = UpdateCursor(u) /\ large' = Saved(c)
      /\ UNCHANGED <<char, pos, boot_line, erased, state>>
  BY RewindEnds DEF HandlerPrints, Echoed
<1>2. /\ large \in LargeRec /\ large.y \in 0..(BufferRows - 1) /\ pos \in Int
      /\ LargePlace(large) /\ boot_line \in Int /\ erased \in BOOLEAN
      /\ NUM_ROWS \in Nat /\ MaxStart \in Nat
  BY PrintFacts
<1>3. Placed(Rewind) /\ Rewind.y < NUM_ROWS /\ Rewind \in ScreenRec
      /\ (~erased => Synced(Rewind, large, boot_line))
  BY RewindFacts DEF Placed
<1>5. Placed(a) /\ a.y <= NUM_ROWS /\ (a.y = NUM_ROWS => a.x = 0)
  BY <1>3, AdvancePlaced
<1>6. Placed(screen') /\ screen'.y < NUM_ROWS /\ Told(screen')
  BY <1>1, <1>5, ScrollPlaced
<1>7. large' \in LargeRec /\ large'.y \in 0..(BufferRows - 1) /\ LargePlace(large')
  BY <1>1, <1>2, SavedFacts
<1>8. ~erased => Synced(screen', large', boot_line)
  <2>1. Advance(large, c) \in LargeRec /\ a \in ScreenRec /\ a.start < MaxStart
    BY <1>2, <1>5, AdvanceLarge DEF Placed
  <2>2. ~erased => Synced(a, Advance(large, c), boot_line)
    BY <1>2, <1>3, SyncedAdvance
  <2>3. u \in ScreenRec
    BY <1>5, <2>1, ScrollFacts
  <2>4. ~erased => Synced(u, Advance(large, c), boot_line)
    BY <1>2, <1>5, <2>1, <2>2, SyncedScroll
  <2>5. ~erased => Synced(UpdateCursor(u), Advance(large, c), boot_line)
    BY <2>3, <2>4, SyncedCursor
  <2> QED
    BY <1>1, <1>2, <2>5, SyncedSaved
<1>9. screen'.start + screen'.y <= MaxStart + NUM_ROWS - 2
  <2>1. screen'.start \in Int /\ screen'.start < MaxStart /\ screen'.y \in Int
    BY <1>6, PlacedFacts
  <2> QED
    BY <1>2, <1>6, <2>1
<1> HIDE DEF a, u
<1> QED
  BY <1>1, <1>2, <1>6, <1>7, <1>8, <1>9, KeyKeeps

LEMMA TypeKeyInv ==
  ASSUME IInv, ~Interrupted, NEW c \in Printable, TypeKey(c)
  PROVE  IInv'
<1>1. state = "running" /\ pc = "idle" /\ pc' = "idle"
  BY DEF TypeKey, Key
<1> QED
  BY <1>1, HandlerPrintsInv DEF TypeKey

LEMMA FaultPrintsInv ==
  ASSUME IInv, NEW c \in Printable, FaultPrints(c)
  PROVE  IInv'
<1>1. state = "running" /\ pc = "faulted" /\ pc' \in {"idle", "faulted"}
  BY DEF FaultPrints
<1> QED
  BY <1>1, HandlerPrintsInv DEF FaultPrints

\* The cursor goes back by one place, above the screen only from its first.
LEMMA ErasedFacts ==
  ASSUME IInv, ~Interrupted, Key
  PROVE  LET s == Erased(screen) IN
         /\ s \in ScreenRec /\ s.start = screen.start
         /\ s.y \in Int /\ s.y <= screen.y
<1> DEFINE s == Erased(screen)
           a == screen.x - 1
           b == screen.y - 1
           d == NUM_COLS - 1
<1>1. /\ screen \in ScreenRec /\ screen.x \in Nat /\ screen.x < NUM_COLS /\ screen.y \in Nat
      /\ NUM_COLS \in Nat
  BY KeyFacts
<1>2. \/ screen.x # 0 /\ s = [screen EXCEPT !.x = a]
      \/ s = [screen EXCEPT !.y = b, !.x = d]
  BY Zenon DEF Erased
<1>3. /\ screen.x # 0 => a \in 0..(NUM_COLS - 1)
      /\ b \in Int /\ b <= screen.y /\ d \in 0..(NUM_COLS - 1)
  BY <1>1
<1> HIDE DEF a, b, d, s
<1>4. CASE screen.x # 0 /\ s = [screen EXCEPT !.x = a]
  <2>1. s \in ScreenRec /\ s.start = screen.start /\ s.y = screen.y
    BY <1>1, <1>3, <1>4 DEF ScreenRec
  <2> QED
    BY <1>1, <2>1 DEF s
<1>5. CASE s = [screen EXCEPT !.y = b, !.x = d]
  <2>1. s \in ScreenRec /\ s.start = screen.start /\ s.y = b
    BY <1>1, <1>3, <1>5 DEF ScreenRec
  <2> QED
    BY <1>3, <2>1 DEF s
<1> QED
  BY <1>2, <1>4, <1>5

LEMMA BackspaceInv ==
  ASSUME IInv, ~Interrupted, Backspace
  PROVE  IInv'
<1>1. Key
  BY DEF Backspace
<1>2. /\ state = "running" /\ pc = "idle" /\ screen \in ScreenRec /\ large \in LargeRec
      /\ pos \in Int /\ char \in Printable /\ boot_line \in -1..(BufferRows - 1)
      /\ large.y \in 0..(BufferRows - 1) /\ LargePlace(large) /\ Placed(screen)
      /\ screen.start + screen.y <= MaxStart + NUM_ROWS - 2
      /\ screen.start \in Nat /\ screen.y \in Nat /\ screen.x \in Nat
      /\ screen.start < MaxStart /\ NUM_COLS \in Nat
      /\ MaxStart \in Nat /\ NUM_ROWS \in Nat /\ erased \in BOOLEAN
      /\ ~erased => Synced(screen, large, boot_line)
  BY <1>1, KeyFacts
<1>3. PICK back \in BOOLEAN :
        LET s == IF back THEN Erased(screen) ELSE screen IN
        /\ erased' = (erased \/ back)
        /\ IF At(s.y, s.x) \in 0..(VIDEO_CELLS - 1)
           THEN /\ screen' = UpdateCursor([s EXCEPT !.mem = Store(@, At(s.y, s.x), Blank)])
                /\ UNCHANGED <<pc, pos, state>>
           ELSE /\ screen' = s
                /\ pc' = "faulted" /\ pos' = 0
                /\ state' = IF s.y < 0 THEN "fault" ELSE state
  BY DEF Backspace
<1>4. UNCHANGED <<large, char, boot_line>>
  BY DEF Backspace
<1> DEFINE s == IF back THEN Erased(screen) ELSE screen
           v == At(s.y, s.x)
           m == Store(s.mem, v, Blank)
           t == [s EXCEPT !.mem = m]
<1>5. /\ erased' = (erased \/ back)
      /\ v \in 0..(VIDEO_CELLS - 1) => screen' = UpdateCursor(t) /\ UNCHANGED <<pc, pos, state>>
      /\ v \notin 0..(VIDEO_CELLS - 1) =>
            /\ screen' = s /\ pc' = "faulted" /\ pos' = 0
            /\ state' = IF s.y < 0 THEN "fault" ELSE state
  BY <1>3
<1>6. back \in BOOLEAN /\ (~back => s = screen)
      /\ s \in ScreenRec /\ s.start = screen.start /\ s.y \in Int /\ s.y <= screen.y
  BY <1>1, <1>2, <1>3, ErasedFacts
<1>7. s.x \in Nat /\ s.x < NUM_COLS /\ v = NUM_COLS * s.y + s.x /\ v \in Int
      /\ (s.y < 0 => v < 0)
  <2>4. v = NUM_COLS * s.y + s.x
    BY DEF At
  <2> HIDE DEF s, v
  <2>1. s.x \in Nat /\ s.x < NUM_COLS
    BY <1>6, Sizes DEF ScreenRec
  <2>5. s.y \in Int /\ 0 \in Int
    BY <1>6
  <2>2. NUM_COLS * s.y \in Int /\ (s.y < 0 => NUM_COLS * s.y + NUM_COLS <= NUM_COLS * 0)
    BY <2>5, Rows
  <2>3. NUM_COLS * 0 = 0
    BY <1>2
  <2> QED
    BY <1>2, <2>1, <2>2, <2>3, <2>4
<1>8. m \in [ScreenCells -> Cell] /\ \A i \in ScreenCells :
          m[i] = IF i = v THEN Blank ELSE s.mem[i]
  <2>1. s.mem \in [ScreenCells -> Cell] /\ Blank \in Cell
    BY <1>6 DEF ScreenRec, Cell
  <2> QED
    BY <2>1, StoreFacts
<1>9. v = At(s.y, s.x)
  OBVIOUS
<1> HIDE DEF m, s, v
<1>10. t \in ScreenRec /\ t.x = s.x /\ t.y = s.y /\ t.start = s.start /\ t.mem = m
  BY <1>6, <1>8 DEF ScreenRec
<1> HIDE DEF t
<1>11. ASSUME ~erased'
       PROVE  Synced(s, large, boot_line) /\ Synced(t, large, boot_line)
  <2>1. ~erased /\ s = screen /\ Synced(screen, large, boot_line)
    <3>1. ~erased /\ ~back
      BY <1>2, <1>5, <1>6, <1>11
    <3> QED
      BY <1>2, <1>6, <3>1
  <2> SUFFICES ASSUME large.y < BufferRows - 1 PROVE Synced(t, large, boot_line)
    BY <2>1 DEF Synced
  <2>2. \A i \in ScreenCells : i >= v => screen.mem[i] = Blank
    BY <1>9, <2>1 DEF Synced
  <2>3. \A i \in ScreenCells : m[i] = screen.mem[i]
    BY <1>7, <1>8, <2>1, <2>2
  <2> QED
    BY <1>10, <2>1, <2>3 DEF Synced
<1>12. erased' \in BOOLEAN
  BY <1>5
<1>13. s.start + s.y <= MaxStart + NUM_ROWS - 2
  BY <1>2, <1>6
<1>14. CASE v \in 0..(VIDEO_CELLS - 1)
  <2>1. s.y >= 0 /\ Placed(t)
    <3>1. s.y >= 0
      BY <1>6, <1>7, <1>14, Sizes
    <3> QED
      BY <1>2, <1>6, <1>10, <3>1 DEF Placed
  <2>2. screen' = UpdateCursor(t) /\ UNCHANGED <<pc, pos, state>>
    BY <1>5, <1>14
  <2>3. /\ screen' \in ScreenRec /\ screen'.x = t.x /\ screen'.y = t.y
        /\ screen'.start = t.start /\ Told(screen')
    BY <1>10, <2>2, CursorFacts DEF Told
  <2>4. Placed(screen')
    BY <2>1, <2>3 DEF Placed
  <2>5. ~erased' => Synced(screen', large, boot_line)
    BY <1>10, <1>11, <2>2, SyncedCursor
  <2>6. screen'.start + screen'.y <= MaxStart + NUM_ROWS - 2
    BY <1>10, <1>13, <2>3
  <2>7. pc' = "idle" /\ pos' \in Int /\ state' = "running"
    BY <1>2, <2>2
  <2> QED
    BY <1>2, <1>4, <1>12, <2>3, <2>4, <2>5, <2>6, <2>7, KeyKeeps
<1>15. CASE v \notin 0..(VIDEO_CELLS - 1)
  <2>1. screen' = s /\ pc' = "faulted" /\ pos' = 0
        /\ state' = IF s.y < 0 THEN "fault" ELSE state
    BY <1>5, <1>15
  <2>2. CASE s.y < 0
    <3>1. state' = "fault" /\ screen'.y < 0 /\ screen' \in ScreenRec /\ pos' \in Int
      BY <1>6, <2>1, <2>2
    <3>2. TypeOK'
      BY <1>2, <1>4, <1>12, <2>1, <3>1, TypesOK
    <3>3. LargePlace(large')
      BY <1>2, <1>4
    <3> QED
      BY <2>1, <3>1, <3>2, <3>3 DEF IInv
  <2>3. CASE ~(s.y < 0)
    <3>1. Placed(screen') /\ state' = "running" /\ pos' \in Int
      BY <1>2, <1>6, <2>1, <2>3 DEF Placed
    <3>2. ~erased' => Synced(screen', large, boot_line)
      BY <1>11, <2>1
    <3>3. screen'.start + screen'.y <= MaxStart + NUM_ROWS - 2
      BY <1>13, <2>1
    <3>4. pc' \in {"idle", "faulted"} /\ pc' # "idle"
      BY <2>1
    <3> QED
      BY <1>2, <1>4, <1>12, <3>1, <3>2, <3>3, <3>4, KeyKeeps
  <2> QED
    BY <2>2, <2>3
<1> QED
  BY <1>14, <1>15

LEMMA clearInv ==
  ASSUME IInv, ~Interrupted, clear
  PROVE  IInv'
<1> DEFINE m == [i \in ScreenCells |-> Blank]
           s == [screen EXCEPT !.x = 0, !.y = 0, !.mem = m]
           q == [i \in BufferCells |->
                    IF i - screen.start * NUM_COLS \in ScreenCells THEN Blank ELSE large.mem[i]]
<1>1. /\ Key /\ screen' = UpdateCursor(s)
      /\ large' = [x |-> screen.start, y |-> 0, mem |-> q]
      /\ erased' = (erased \/ screen.start # 0 \/ large.y >= NUM_ROWS)
      /\ UNCHANGED <<pc, char, pos, boot_line, state>>
  BY DEF clear
<1>2. /\ state = "running" /\ screen \in ScreenRec /\ large \in LargeRec
      /\ large.y \in 0..(BufferRows - 1) /\ large.y \in Int /\ large.x \in Nat
      /\ large.mem \in [BufferCells -> Cell]
      /\ screen.start \in Nat /\ screen.start < MaxStart /\ screen.start \in 0..MaxStart
      /\ screen.x \in Nat /\ screen.x < NUM_COLS /\ NUM_COLS \in Nat
      /\ MaxStart \in Nat /\ NUM_ROWS \in Nat /\ NUM_ROWS > 0 /\ MaxStart >= NUM_ROWS
      /\ BufferRows = MaxStart + NUM_ROWS /\ erased \in BOOLEAN
      /\ ~erased => Synced(screen, large, boot_line)
  BY <1>1, KeyFacts, Sizes DEF LargeRec
<1>3. m \in [ScreenCells -> Cell] /\ q \in [BufferCells -> Cell]
      /\ 0 \in 0..(NUM_COLS - 1) /\ 0 \in Int
  <2>1. Blank \in Cell
    BY DEF Cell
  <2>2. q \in [BufferCells -> Cell]
    BY <1>2, <2>1
  <2>3. NUM_COLS > 0
    BY <1>2
  <2> QED
    BY <1>2, <2>1, <2>2, <2>3
<1> HIDE DEF m, q
<1>4. s \in ScreenRec /\ s.x = 0 /\ s.y = 0 /\ s.start = screen.start /\ s.mem = m
  BY <1>2, <1>3 DEF ScreenRec
<1> HIDE DEF s
<1>5. /\ screen' \in ScreenRec /\ screen'.x = 0 /\ screen'.y = 0
      /\ screen'.start = screen.start /\ screen'.mem = m /\ Told(screen')
  BY <1>1, <1>4, CursorFacts DEF Told
<1>7. Placed(screen')
  BY <1>2, <1>5 DEF Placed
<1>8. large' \in LargeRec /\ large'.y = 0 /\ large'.x = screen.start /\ large'.mem = q
  BY <1>1, <1>2, <1>3 DEF LargeRec
<1>9. ASSUME ~erased' PROVE Synced(screen', large', boot_line)
  <2>1. ~erased /\ screen.start = 0 /\ large.y < NUM_ROWS /\ Synced(screen, large, boot_line)
    <3>1. ~erased /\ ~(screen.start # 0) /\ ~(large.y >= NUM_ROWS)
      BY <1>1, <1>9
    <3> QED
      BY <1>2, <3>1
  <2>2. /\ screen.x = large.x
        /\ \A k \in BufferCells : k >= At(large.y, large.x) => large.mem[k] = Blank
    <3>1. large.y < BufferRows - 1
      BY <1>2, <2>1
    <3> QED
      BY <2>1, <3>1 DEF Synced
  <2>3. ASSUME NEW k \in BufferCells PROVE q[k] = Blank
    <3>1. k \in Int /\ 0 <= k
      BY CellFacts
    <3>2. k - screen.start * NUM_COLS = k
      BY <1>2, <2>1, <3>1
    <3>3. CASE k \in ScreenCells
      BY <3>2, <3>3 DEF q
    <3>4. CASE k \notin ScreenCells
      <4>1. k >= NUM_COLS * NUM_ROWS
        BY <3>1, <3>4, CellFacts
      <4>2. NUM_COLS * large.y + NUM_COLS <= NUM_COLS * NUM_ROWS
            /\ NUM_COLS * large.y \in Int /\ NUM_COLS * NUM_ROWS \in Int
        <5>1. NUM_ROWS \in Int
          BY <1>2
        <5> QED
          BY <1>2, <2>1, <5>1, Rows
      <4>3. At(large.y, large.x) = NUM_COLS * large.y + large.x
        BY DEF At
      <4>4. k >= At(large.y, large.x)
        BY <1>2, <2>2, <3>1, <4>1, <4>2, <4>3
      <4>5. large.mem[k] = Blank
        BY <2>2, <4>4
      <4> QED
        BY <3>2, <4>5 DEF q
    <3> QED
      BY <3>3, <3>4
  <2>4. \A i \in ScreenCells : m[i] = Blank
    BY DEF m
  <2>5. ASSUME NEW i \in ScreenCells PROVE q[screen.start * NUM_COLS + i] = Blank
    BY <1>2, <2>3, WindowCells
  <2>6. screen'.start + screen'.y = large'.y /\ screen'.x = large'.x
    BY <1>5, <1>8, <2>1
  <2> QED
    BY <1>5, <1>8, <2>3, <2>4, <2>5, <2>6 DEF Synced
<1>10. /\ LargePlace(large') /\ large'.y \in 0..(BufferRows - 1)
       /\ screen'.start + screen'.y <= MaxStart + NUM_ROWS - 2
  <2>1. LargePlace(large')
    BY <1>2, <1>8 DEF LargePlace
  <2>2. large'.y \in 0..(BufferRows - 1)
    BY <1>1, <1>2, <1>8
  <2>3. screen'.start + screen'.y <= MaxStart + NUM_ROWS - 2
    BY <1>2, <1>5
  <2> QED
    BY <2>1, <2>2, <2>3
<1>11. erased' \in BOOLEAN /\ state' = "running"
  BY <1>1, <1>2
<1>12. pc' = "idle" /\ pos' \in Int
  BY <1>1, KeyFacts
<1> QED
  BY <1>1, <1>5, <1>7, <1>8, <1>9, <1>10, <1>11, <1>12, KeyKeeps

\* The window moves and the cursor keeps its place in the text.
LEMMA ScrollKeeps ==
  ASSUME IInv, ~Interrupted, Key, NEW d \in {-1, 1}, NEW s,
         s = [screen EXCEPT !.start = @ + d, !.y = @ - d, !.mem = Window(screen.start + d)],
         screen.start + d \in 0..MaxStart, d = 1 => screen.y >= NUM_ROWS
  PROVE  /\ s \in ScreenRec /\ Placed(s)
         /\ s.start + s.y <= MaxStart + NUM_ROWS - 2
         /\ ~erased => Synced(s, large, boot_line)
<1> DEFINE a == screen.start + d
           b == screen.y - d
           w == Window(a)
<1>1. /\ screen \in ScreenRec /\ large \in LargeRec /\ boot_line \in Int
      /\ screen.start \in Nat /\ screen.start < MaxStart
      /\ screen.y \in Nat /\ screen.x \in Nat
      /\ screen.start + screen.y <= MaxStart + NUM_ROWS - 2
      /\ MaxStart \in Nat /\ NUM_ROWS \in Nat /\ NUM_ROWS > 0 /\ NUM_COLS \in Nat
      /\ ~erased => Synced(screen, large, boot_line)
  BY KeyFacts
<1>2. s = [screen EXCEPT !.start = a, !.y = b, !.mem = w]
  OBVIOUS
<1>3. a \in 0..MaxStart /\ a < MaxStart /\ b \in Int /\ b >= 0
      /\ a + b = screen.start + screen.y /\ d \in Int
  BY <1>1
<1> HIDE DEF a, b
<1>4. w \in [ScreenCells -> Cell]
  <2>1. \A i \in ScreenCells : large.mem[a * NUM_COLS + i] \in Cell
    BY <1>1, <1>3, WindowCells DEF LargeRec
  <2> QED
    BY <2>1 DEF Window
<1> HIDE DEF w
<1>5. s \in ScreenRec /\ s.start = a /\ s.y = b /\ s.x = screen.x /\ s.mem = w
  <2>1. screen \in ScreenRec
    BY <1>1
  <2> QED
    BY <1>2, <1>3, <1>4, <2>1 DEF ScreenRec
<1>6. s.mem = Window(s.start) /\ s.start + s.y = screen.start + screen.y
  BY <1>3, <1>5 DEF w
<1>7. ~erased => Synced(s, large, boot_line)
  BY <1>1, <1>5, <1>6, SyncedWindow
<1> QED
  BY <1>1, <1>3, <1>5, <1>6, <1>7 DEF Placed

LEMMA ScrollInv ==
  ASSUME IInv, ~Interrupted, Key, NEW s, s \in ScreenRec, Placed(s),
         s.start + s.y <= MaxStart + NUM_ROWS - 2,
         ~erased => Synced(s, large, boot_line),
         (screen' = s /\ ~(s.y < NUM_ROWS)) \/ screen' = UpdateCursor(s),
         UNCHANGED <<large, pc, char, pos, boot_line, erased, state>>
  PROVE  IInv'
<1>1. /\ state = "running" /\ large \in LargeRec /\ large.y \in 0..(BufferRows - 1)
      /\ LargePlace(large) /\ erased \in BOOLEAN /\ pc = "idle" /\ pos \in Int
  BY KeyFacts
<1>2. /\ screen'.x = s.x /\ screen'.y = s.y /\ screen'.start = s.start
      /\ screen' \in ScreenRec /\ Told(screen')
  BY CursorFacts DEF Told
<1>3. Placed(screen')
  BY <1>2 DEF Placed
<1>4. ~erased => Synced(screen', large, boot_line)
  BY SyncedCursor
<1> QED
  BY <1>1, <1>2, <1>3, <1>4, KeyKeeps

LEMMA scroll_upInv ==
  ASSUME IInv, ~Interrupted, scroll_up
  PROVE  IInv'
<1> DEFINE s == [screen EXCEPT !.start = @ - 1, !.y = @ + 1, !.mem = Window(screen.start - 1)]
<1>1. /\ Key /\ screen.start # 0
      /\ (screen' = s /\ ~(s.y < NUM_COLS)) \/ screen' = UpdateCursor(s)
      /\ UNCHANGED <<large, pc, char, pos, boot_line, erased, state>>
  BY DEF scroll_up
<1>2. screen.start \in Nat /\ screen.start < MaxStart /\ screen.y \in Nat /\ MaxStart \in Nat
  BY <1>1, KeyFacts
<1>3. screen.start - 1 = screen.start + (-1) /\ screen.y + 1 = screen.y - (-1)
      /\ screen.start + (-1) \in 0..MaxStart
  BY <1>1, <1>2
<1>4. s = [screen EXCEPT !.start = @ + (-1), !.y = @ - (-1), !.mem = Window(screen.start + (-1))]
  BY <1>3, Zenon
<1> HIDE DEF s
<1>5. -1 \in {-1, 1} /\ ~(-1 = 1)
  OBVIOUS
<1>6. /\ s \in ScreenRec /\ Placed(s) /\ s.start + s.y <= MaxStart + NUM_ROWS - 2
      /\ ~erased => Synced(s, large, boot_line)
  BY <1>1, <1>3, <1>4, <1>5, ScrollKeeps
<1>7. ~(s.y < NUM_COLS) => ~(s.y < NUM_ROWS)
  BY <1>6, Sizes DEF ScreenRec
<1> QED
  BY <1>1, <1>6, <1>7, ScrollInv

LEMMA scroll_downInv ==
  ASSUME IInv, ~Interrupted, scroll_down
  PROVE  IInv'
<1> DEFINE s == [screen EXCEPT !.start = @ + 1, !.y = @ - 1, !.mem = Window(screen.start + 1)]
<1>1. /\ Key /\ screen.y >= NUM_ROWS
      /\ screen' = UpdateCursor(s)
      /\ UNCHANGED <<large, pc, char, pos, boot_line, erased, state>>
  BY DEF scroll_down
<1>2. screen.start + 1 \in 0..MaxStart /\ 1 \in {-1, 1}
  BY <1>1, KeyFacts
<1>3. /\ s \in ScreenRec /\ Placed(s) /\ s.start + s.y <= MaxStart + NUM_ROWS - 2
      /\ ~erased => Synced(s, large, boot_line)
  BY <1>1, <1>2, ScrollKeeps
<1> HIDE DEF s
<1> QED
  BY <1>1, <1>3, ScrollInv

-----------------------------------------------------------------------------
(* The results for keys that arrive between two characters *)

LEMMA InitIInv == Init => IInv
<1> SUFFICES ASSUME Init PROVE IInv
  OBVIOUS
<1> DEFINE m == [i \in ScreenCells |-> Blank]
           q == [i \in BufferCells |-> Blank]
<1>1. /\ screen = [x |-> 0, y |-> 0, start |-> 0, cursor |-> 0, mem |-> m]
      /\ large = [x |-> 0, y |-> 0, mem |-> q]
      /\ pc = "idle" /\ char = Newline /\ pos = 0 /\ boot_line = -1
      /\ erased = FALSE /\ state = "running"
  BY DEF Init
<1>2. /\ NUM_COLS \in Nat /\ NUM_COLS > 0 /\ MaxStart \in Nat /\ MaxStart > 0
      /\ NUM_ROWS \in Nat /\ NUM_ROWS > 0 /\ BufferRows = MaxStart + NUM_ROWS
  BY Sizes
<1>3. m \in [ScreenCells -> Cell] /\ q \in [BufferCells -> Cell]
  BY DEF Cell
<1>4. /\ \A i \in ScreenCells : m[i] = Blank
      /\ \A i \in BufferCells : q[i] = Blank
  OBVIOUS
<1> HIDE DEF m, q
<1>5. screen \in ScreenRec /\ large \in LargeRec
  BY <1>1, <1>2, <1>3 DEF ScreenRec, LargeRec
<1>6. TypeOK
  <2>1. /\ large.y \in 0..(BufferRows - 1)
        /\ boot_line \in -1..(BufferRows - 1) /\ char \in Printable
    BY <1>1, <1>2 DEF Printable
  <2> QED
    BY <1>1, <1>5, <2>1 DEF TypeOK, ScreenRec, LargeRec, Cell
<1>7. At(screen.y, screen.x) = 0
  BY <1>1, <1>2 DEF At
<1>8. Position
  BY <1>1, <1>2, <1>5, <1>7 DEF Position, Placed, Told
<1>10. LargePlace(large)
  BY <1>1, <1>2 DEF LargePlace
<1>9. Synced(screen, large, boot_line)
  BY <1>1, <1>4 DEF Synced
<1> QED
  BY <1>1, <1>6, <1>8, <1>9, <1>10 DEF IInv, Ahead

LEMMA NextIInv == ASSUME ~Interrupted PROVE IInv /\ [Next]_vars => IInv'
<1> SUFFICES ASSUME IInv, [Next]_vars PROVE IInv'
  OBVIOUS
<1>1. CASE UNCHANGED vars
  BY <1>1 DEF vars, IInv, TypeOK, Position, Placed, Told, Synced, Ahead, LargePlace, Advance
<1>2. CASE Next
  BY <1>2, PrintStoresInv, PrintScrollsInv, PrintLoadsInv, PrintShowsInv, PrintSavesInv,
     scroll_initInv, TypeKeyInv, FaultPrintsInv, BackspaceInv, clearInv, scroll_upInv,
     scroll_downInv DEF Next
<1> QED
  BY <1>1, <1>2

LEMMA InductiveInvariant == ASSUME ~Interrupted PROVE Spec => []IInv
BY InitIInv, NextIInv, PTL DEF Spec

\* The cursors, the window and the characters hold values of their kind: the window
\* stays inside the buffer and the buffer's cursor in its rows.
THEOREM TypeCorrect == ASSUME ~Interrupted PROVE Spec => []TypeOK
<1>1. IInv => TypeOK
  BY DEF IInv
<1> QED
  BY <1>1, InductiveInvariant, PTL

\* The loop at the start of putc always ends, because the cursor's line of the text
\* is never below the last window of the buffer.
THEOREM PutcAlwaysReturns == ASSUME ~Interrupted PROVE Spec => []PutcReturns
<1>1. IInv => PutcReturns
  BY RewindEnds DEF PutcReturns
<1> QED
  BY <1>1, InductiveInvariant, PTL

\* So the keyboard handler, which echoes with putc, never hangs: what the run
\* screen_hang refutes for keys inside a putc holds for all others.
THEOREM HandlerAlwaysReturns == ASSUME ~Interrupted PROVE Spec => []HandlerReturns
<1>1. IInv => HandlerReturns
  BY DEF IInv, HandlerReturns
<1> QED
  BY <1>1, InductiveInvariant, PTL

\* No character is stored outside the screen or the buffer.
THEOREM StoresStayInside == ASSUME ~Interrupted PROVE Spec => []StoresInside
<1>1. ASSUME IInv PROVE StoresInside
  <2>1. /\ large.x \in Nat /\ large.y \in Nat /\ large.y <= BufferRows - 1
        /\ LargePlace(large) /\ BufferRows \in Nat /\ MaxStart \in Nat
        /\ NUM_COLS \in Nat /\ NUM_COLS > 0 /\ NUM_COLS >= NUM_ROWS /\ NUM_ROWS \in Nat
        /\ BufferRows = MaxStart + NUM_ROWS /\ NUM_ROWS > 0
        /\ screen.x \in Nat /\ screen.x < NUM_COLS
        /\ state = "running" => screen.y \in Nat
    BY <1>1, Types, Sizes DEF IInv, Position, Placed, LargeRec
  <2>2. At(large.y, large.x) < BufferRows * NUM_COLS
    <3>1. /\ At(large.y, large.x) = NUM_COLS * large.y + large.x
          /\ BufferRows * NUM_COLS = NUM_COLS * BufferRows
          /\ NUM_COLS * large.y \in Int /\ NUM_COLS * BufferRows \in Int
          /\ large.y < BufferRows => NUM_COLS * large.y + NUM_COLS <= NUM_COLS * BufferRows
      <4>1. large.y \in Int /\ BufferRows \in Int
        BY <2>1
      <4> QED
        BY <4>1, Rows DEF At
    <3>2. CASE large.x < NUM_COLS
      BY <2>1, <3>1, <3>2
    <3>3. CASE large.y = 0 /\ large.x < MaxStart
      <4>1. NUM_COLS * 0 = 0 /\ NUM_COLS * BufferRows >= 1 * BufferRows
        BY <2>1
      <4> QED
        BY <2>1, <3>1, <3>3, <4>1
    <3> QED
      BY <2>1, <3>2, <3>3 DEF LargePlace
  <2>3. ASSUME state = "running", screen.y < NUM_ROWS PROVE At(screen.y, screen.x) \in ScreenCells
    <3>1. /\ At(screen.y, screen.x) = NUM_COLS * screen.y + screen.x
          /\ NUM_COLS * screen.y \in Int /\ NUM_COLS * NUM_ROWS \in Int
          /\ NUM_COLS * screen.y + NUM_COLS <= NUM_COLS * NUM_ROWS
          /\ NUM_COLS * 0 <= NUM_COLS * screen.y /\ NUM_COLS * 0 = 0
      <4>1. screen.y \in Int /\ NUM_ROWS \in Int /\ 0 \in Int /\ 0 <= screen.y
        BY <2>1, <2>3
      <4>2. NUM_COLS * 0 = 0
        BY <2>1
      <4> QED
        BY <2>3, <4>1, <4>2, Rows DEF At
    <3> QED
      BY <2>1, <2>3, <3>1, CellFacts
  <2> QED
    BY <2>2, <2>3 DEF StoresInside
<1> QED
  BY <1>1, InductiveInvariant, PTL

\* What is scrolled back to is what was printed: until something is erased and the
\* buffer is full, the screen is the window of the buffer, for every interleaving of
\* printing, typing and scrolling.
THEOREM ScrollBackIsFaithful == ASSUME ~Interrupted PROVE Spec => []ScrollBackFaithful
<1>1. IInv => ScrollBackFaithful
  BY DEF IInv, TypeOK, ScrollBackFaithful, Synced, Ahead
<1> QED
  BY <1>1, InductiveInvariant, PTL

\* The blinking cursor is where the next character appears, whatever is printed,
\* typed, erased and scrolled, unless a key arrives inside a program's putc.
THEOREM CursorAlwaysShown == ASSUME ~Interrupted PROVE Spec => []CursorShown
<1>1. IInv => CursorShown
  BY DEF IInv, Position, Told, CursorShown
<1> QED
  BY <1>1, InductiveInvariant, PTL
===============================================================================
