----------------------------- MODULE CpnosProofs -----------------------------
(***************************************************************************)
(* The CP/NOS station: its console output and its start from the server.   *)
(*                                                                         *)
(* For every size of the screen and every input: the cursor stays on the   *)
(* screen and its updates are not lost (CursorKept), the interrupt handler *)
(* shows no torn position (NeverTorn), and the console implements the      *)
(* terminal (Screen).                                                      *)
(*                                                                         *)
(* The block moves are recursive functions.  That they have the closed     *)
(* forms Shifted and Raised is shown by induction on the bytes moved, from *)
(* the least natural number for which it fails; the closed form is also    *)
(* the witness that the recursive function exists.                         *)
(*                                                                         *)
(* For every set of files, builds and records, and every size of a record, *)
(* an extent and the memory below the BIOS: the station starts one whole   *)
(* version of CPNOS.IMG, and the server's files and its cache stay in      *)
(* step.                                                                   *)
(***************************************************************************)
EXTENDS CpnosConsole, NetbootServer, DataTheorems

-------------------------------------------------------------------------------
(***************************************************************************)
(* Block moves.                                                            *)
(***************************************************************************)

Col == 0 .. SCRN_COLS - 1
Row == 0 .. SCRN_ROWS - 1
Memory == [0 .. Cells - 1 -> 0 .. 255]
RowsOf(m) == [y \in Row |-> [x \in Col |-> m[CELL(x, y)]]]

\* The screen is not empty.
LEMMA ScreenSizes == SCRN_COLS \in Nat /\ SCRN_COLS > 0 /\ SCRN_ROWS \in Nat /\ SCRN_ROWS > 0 /\ Cells \in Nat
BY ConsoleAssumption DEF Cells

\* A block of n bytes moved from src down to dst, and up from one ending at src to
\* one ending at dst.
Shifted(m, dst, src, n) ==
    [c \in 0 .. Cells - 1 |-> IF dst <= c /\ c < dst + n THEN m[c + (src - dst)] ELSE m[c]]

\* The upward copy of a block to lower addresses (LDIR), byte by byte, moves the block
\* as a whole although source and destination overlap.
LEMMA LdirMoves ==
  ASSUME NEW m \in Memory,
         NEW dst \in Nat, NEW src \in Nat, NEW n \in Nat, dst < src, src + n <= Cells
  PROVE  Ldir(m, dst, src, n) = Shifted(m, dst, src, n)
<1> DEFINE Step(b, i) == [b EXCEPT ![dst + i - 1] = b[src + i - 1]]
           Eq(f) == f = [i \in 0 .. n |-> IF i = 0 THEN m ELSE Step(f[i - 1], i)]
           F == CHOOSE f : Eq(f)
           g == [i \in 0 .. n |-> Shifted(m, dst, src, i)]
<1> USE ScreenSizes DEF Memory
<1>1. ASSUME NEW i \in 0 .. n, i > 0
      PROVE  Step(Shifted(m, dst, src, i - 1), i) = Shifted(m, dst, src, i)
   <2> DEFINE b == Shifted(m, dst, src, i - 1)
   <2>1. src + i - 1 \in 0 .. Cells - 1 /\ dst + i - 1 \in 0 .. Cells - 1 BY <1>1
   <2>2. b[src + i - 1] = m[src + i - 1] BY <2>1, <1>1 DEF Shifted
   <2>3. b = [c \in 0 .. Cells - 1 |-> IF dst <= c /\ c < dst + i - 1 THEN m[c + (src - dst)] ELSE m[c]]
      BY <1>1 DEF Shifted
   <2> HIDE DEF b
   <2>4. Step(b, i) = [c \in 0 .. Cells - 1 |-> IF c = dst + i - 1 THEN m[src + i - 1]
                          ELSE IF dst <= c /\ c < dst + i - 1 THEN m[c + (src - dst)] ELSE m[c]]
      BY <2>1, <2>2, <2>3, <1>1
   <2>5. Shifted(m, dst, src, i) = [c \in 0 .. Cells - 1 |-> IF c = dst + i - 1 THEN m[src + i - 1]
                          ELSE IF dst <= c /\ c < dst + i - 1 THEN m[c + (src - dst)] ELSE m[c]]
      <3>1. ASSUME NEW c \in 0 .. Cells - 1
            PROVE  (IF dst <= c /\ c < dst + i THEN m[c + (src - dst)] ELSE m[c])
                   = (IF c = dst + i - 1 THEN m[src + i - 1]
                          ELSE IF dst <= c /\ c < dst + i - 1 THEN m[c + (src - dst)] ELSE m[c])
         BY <1>1
      <3> QED BY <3>1 DEF Shifted
   <2> QED BY <2>4, <2>5 DEF b
<1>2. Shifted(m, dst, src, 0) = m
   BY DEF Shifted
<1>3. Eq(g)
   BY <1>1, <1>2
<1>4. Eq(F)
   <2> HIDE DEF Eq
   <2> QED BY <1>3
<1>5. F = g
   <2> DEFINE S == {i \in 0 .. n : F[i] = Shifted(m, dst, src, i)}
   <2> HIDE DEF F
   <2>1. 0 \in S BY <1>4, <1>2
   <2>2. ASSUME NEW i \in 0 .. n, i > 0, i - 1 \in S PROVE i \in S
      <3>1. i - 1 \in 0 .. n /\ F[i - 1] = Shifted(m, dst, src, i - 1) BY <2>2
      <3>2. F[i] = Step(F[i - 1], i)
         <4> HIDE DEF Step
         <4> QED BY <1>4, <2>2
      <3>3. F[i] = Shifted(m, dst, src, i) BY <3>1, <3>2, <1>1, <2>2
      <3> QED BY <3>3
   <2>3. ASSUME NEW i \in 0 .. n PROVE i \in S
      <3>1. \A j \in 0 .. i : j > 0 /\ j - 1 \in S => j \in S
        BY <2>2
      <3> HIDE DEF S
      <3> QED BY <3>1, <2>1, UpTo
   <2> QED BY <2>3, <1>4
<1>6. Ldir(m, dst, src, n) = F[n]
   BY DEF Ldir
<1> HIDE DEF F
<1>7. g[n] = Shifted(m, dst, src, n) OBVIOUS
<1> QED BY <1>5, <1>6, <1>7

Raised(m, dst, src, n) ==
    [c \in 0 .. Cells - 1 |-> IF dst - n < c /\ c <= dst THEN m[c - (dst - src)] ELSE m[c]]

\* The downward copy of a block to higher addresses (LDDR) does so too.
LEMMA LddrMoves ==
  ASSUME NEW m \in Memory,
         NEW dst \in Nat, NEW src \in Nat, NEW n \in Nat, src < dst, dst < Cells, n <= src + 1
  PROVE  Lddr(m, dst, src, n) = Raised(m, dst, src, n)
<1> DEFINE Step(b, i) == [b EXCEPT ![dst - i + 1] = b[src - i + 1]]
           Eq(f) == f = [i \in 0 .. n |-> IF i = 0 THEN m ELSE Step(f[i - 1], i)]
           F == CHOOSE f : Eq(f)
           g == [i \in 0 .. n |-> Raised(m, dst, src, i)]
<1> USE ScreenSizes DEF Memory
<1>1. ASSUME NEW i \in 0 .. n, i > 0
      PROVE  Step(Raised(m, dst, src, i - 1), i) = Raised(m, dst, src, i)
   <2> DEFINE b == Raised(m, dst, src, i - 1)
   <2>1. src - i + 1 \in 0 .. Cells - 1 /\ dst - i + 1 \in 0 .. Cells - 1 BY <1>1
   <2>2. b[src - i + 1] = m[src - i + 1] BY <2>1, <1>1 DEF Raised
   <2>3. b = [c \in 0 .. Cells - 1 |-> IF dst - i + 1 < c /\ c <= dst THEN m[c - (dst - src)] ELSE m[c]]
      BY <1>1 DEF Raised
   <2> HIDE DEF b
   <2>4. Step(b, i) = [c \in 0 .. Cells - 1 |-> IF c = dst - i + 1 THEN m[src - i + 1]
                          ELSE IF dst - i + 1 < c /\ c <= dst THEN m[c - (dst - src)] ELSE m[c]]
      BY <2>1, <2>2, <2>3, <1>1
   <2>5. Raised(m, dst, src, i) = [c \in 0 .. Cells - 1 |-> IF c = dst - i + 1 THEN m[src - i + 1]
                          ELSE IF dst - i + 1 < c /\ c <= dst THEN m[c - (dst - src)] ELSE m[c]]
      <3>1. ASSUME NEW c \in 0 .. Cells - 1
            PROVE  (IF dst - i < c /\ c <= dst THEN m[c - (dst - src)] ELSE m[c])
                   = (IF c = dst - i + 1 THEN m[src - i + 1]
                          ELSE IF dst - i + 1 < c /\ c <= dst THEN m[c - (dst - src)] ELSE m[c])
         BY <1>1
      <3> QED BY <3>1 DEF Raised
   <2> QED BY <2>4, <2>5 DEF b
<1>2. Raised(m, dst, src, 0) = m
   BY DEF Raised
<1>3. Eq(g)
   BY <1>1, <1>2
<1>4. Eq(F)
   <2> HIDE DEF Eq
   <2> QED BY <1>3
<1>5. F = g
   <2> DEFINE S == {i \in 0 .. n : F[i] = Raised(m, dst, src, i)}
   <2> HIDE DEF F
   <2>1. 0 \in S BY <1>4, <1>2
   <2>2. ASSUME NEW i \in 0 .. n, i > 0, i - 1 \in S PROVE i \in S
      <3>1. i - 1 \in 0 .. n /\ F[i - 1] = Raised(m, dst, src, i - 1) BY <2>2
      <3>2. F[i] = Step(F[i - 1], i)
         <4> HIDE DEF Step
         <4> QED BY <1>4, <2>2
      <3>3. F[i] = Raised(m, dst, src, i) BY <3>1, <3>2, <1>1, <2>2
      <3> QED BY <3>3
   <2>3. ASSUME NEW i \in 0 .. n PROVE i \in S
      <3>1. \A j \in 0 .. i : j > 0 /\ j - 1 \in S => j \in S
        BY <2>2
      <3> HIDE DEF S
      <3> QED BY <3>1, <2>1, UpTo
   <2> QED BY <2>3, <1>4
<1>6. Lddr(m, dst, src, n) = F[n]
   BY DEF Lddr
<1> HIDE DEF F
<1>7. g[n] = Raised(m, dst, src, n) OBVIOUS
<1> QED BY <1>5, <1>6, <1>7


-------------------------------------------------------------------------------
(***************************************************************************)
(* Cells and rows.                                                         *)
(***************************************************************************)

\* The cell of a place on the screen is in display memory, a row further on is
\* SCRN_COLS cells further on.
LEMMA CellAt ==
  ASSUME NEW x \in Col, NEW y \in Row
  PROVE  /\ CELL(x, y) \in 0 .. Cells - 1
         /\ CELL(x, y + 1) = CELL(x, y) + SCRN_COLS
         /\ CELL(0, y) + x = CELL(x, y)
<1> USE ScreenSizes DEF Col, Row
<1>1. y + 1 <= SCRN_ROWS /\ (y + 1) * SCRN_COLS = y * SCRN_COLS + SCRN_COLS /\ y * SCRN_COLS \in Nat
   BY Mult
<1>2. y * SCRN_COLS + SCRN_COLS <= SCRN_COLS * SCRN_ROWS
   <2>1. (y + 1) * SCRN_COLS <= SCRN_ROWS * SCRN_COLS BY <1>1, Mult
   <2> QED BY <2>1, <1>1
<1>3. CELL(x, y) \in 0 .. Cells - 1
   BY <1>1, <1>2 DEF CELL, Cells
<1>6. CELL(x, y + 1) = CELL(x, y) + SCRN_COLS /\ CELL(0, y) + x = CELL(x, y)
   BY <1>1 DEF CELL
<1> QED BY <1>3, <1>6

\* Cells before the start of a row are those of the rows above it.
LEMMA CellOrder ==
  ASSUME NEW x \in Col, NEW y \in Row, NEW b \in 0 .. SCRN_ROWS
  PROVE  /\ CELL(0, b) \in Nat
         /\ y < b => CELL(x, y) < CELL(0, b)
         /\ b <= y => CELL(0, b) <= CELL(x, y)
<1> USE ScreenSizes DEF Col, Row
<1>1. y + 1 <= SCRN_ROWS /\ (y + 1) * SCRN_COLS = y * SCRN_COLS + SCRN_COLS /\ y * SCRN_COLS \in Nat
   BY Mult
<1>2. b * SCRN_COLS \in Nat BY Mult
<1>4. ASSUME y < b PROVE CELL(x, y) < CELL(0, b)
   <2>1. (y + 1) * SCRN_COLS <= b * SCRN_COLS BY <1>4, Mult
   <2> QED BY <2>1, <1>1 DEF CELL
<1>5. ASSUME b <= y PROVE CELL(0, b) <= CELL(x, y)
   <2>1. b * SCRN_COLS <= y * SCRN_COLS BY <1>5, Mult
   <2> QED BY <2>1, <1>2, <1>1 DEF CELL
<1> QED BY <1>2, <1>4, <1>5 DEF CELL

\* The start of the last row and the end of the memory.
LEMMA CellBase ==
  /\ CELL(0, SCRN_ROWS) = Cells /\ CELL(0, 0) = 0
  /\ CELL(0, SCRN_ROWS - 1) = (SCRN_ROWS - 1) * SCRN_COLS
  /\ CELL(0, SCRN_ROWS - 1) \in Nat
  /\ CELL(0, SCRN_ROWS - 1) + SCRN_COLS = Cells
  /\ \A y \in Row : CELL(0, y) \in Nat /\ CELL(0, y + 1) = CELL(0, y) + SCRN_COLS
<1>1. 0 \in Col /\ SCRN_ROWS - 1 \in Row BY ScreenSizes DEF Col, Row
<1>2. CELL(0, SCRN_ROWS) = Cells /\ CELL(0, 0) = 0 /\ CELL(0, SCRN_ROWS - 1) = (SCRN_ROWS - 1) * SCRN_COLS
   BY ScreenSizes DEF CELL, Cells
<1>3. \A y \in Row : CELL(0, y) \in Nat /\ CELL(0, y + 1) = CELL(0, y) + SCRN_COLS
   BY <1>1, CellAt, ScreenSizes
<1>4. (SCRN_ROWS - 1) + 1 = SCRN_ROWS BY ScreenSizes
<1> QED BY <1>1, <1>2, <1>3, <1>4

\* scroll_up moves rows up by one.
LEMMA ScrollRows ==
  ASSUME NEW m \in Memory
  PROVE LET m2 == Memset(Ldir(m, 0, SCRN_COLS, (SCRN_ROWS - 1) * SCRN_COLS), CELL(0, SCRN_ROWS - 1), SCRN_COLS) IN
    m2 \in Memory /\ RowsOf(m2) = Screen!Scrolled(RowsOf(m))
<1> DEFINE top == CELL(0, SCRN_ROWS - 1)
           m1 == Shifted(m, 0, SCRN_COLS, top)
           m2 == Memset(m1, top, SCRN_COLS)
<1>1. (SCRN_ROWS - 1) * SCRN_COLS = top /\ top \in Nat /\ SCRN_COLS + top = Cells BY CellBase, ScreenSizes
<1>2. Ldir(m, 0, SCRN_COLS, (SCRN_ROWS - 1) * SCRN_COLS) = m1
   <2> HIDE DEF top
   <2> QED BY <1>1, ScreenSizes, LdirMoves
<1>3. m1 \in Memory BY <1>1, ScreenSizes DEF Shifted, Memory
<1>4. m2 \in Memory
   <2> HIDE DEF m1, top
   <2> QED BY <1>3 DEF Memset, Memory, Blank
<1>5. ASSUME NEW x \in Col, NEW y \in Row
      PROVE  m2[CELL(x, y)] = IF y = SCRN_ROWS - 1 THEN Blank ELSE m[CELL(x, y + 1)]
   <2>1. CELL(x, y) \in 0 .. Cells - 1 /\ CELL(x, y + 1) = CELL(x, y) + SCRN_COLS
         /\ (y = SCRN_ROWS - 1 => top <= CELL(x, y)) /\ (y # SCRN_ROWS - 1 => CELL(x, y) < top)
      <3>1. SCRN_ROWS - 1 \in 0 .. SCRN_ROWS /\ y <= SCRN_ROWS - 1 /\ y \in Nat BY ScreenSizes DEF Row
      <3>2. (y < SCRN_ROWS - 1 => CELL(x, y) < top) /\ (SCRN_ROWS - 1 <= y => top <= CELL(x, y))
         BY <3>1, CellOrder
      <3>3. CELL(x, y) \in 0 .. Cells - 1 /\ CELL(x, y + 1) = CELL(x, y) + SCRN_COLS BY CellAt
      <3> QED BY <3>1, <3>2, <3>3, ScreenSizes
   <2> HIDE DEF top
   <2>2. m1[CELL(x, y)] = IF CELL(x, y) < top THEN m[CELL(x, y) + SCRN_COLS] ELSE m[CELL(x, y)]
      <3>1. m1[CELL(x, y)] = IF 0 <= CELL(x, y) /\ CELL(x, y) < 0 + top
                             THEN m[CELL(x, y) + (SCRN_COLS - 0)] ELSE m[CELL(x, y)]
         BY <2>1 DEF Shifted
      <3> QED BY <3>1, <2>1, <1>1, ScreenSizes
   <2> HIDE DEF m1
   <2>3. m2[CELL(x, y)] = IF CELL(x, y) >= top /\ CELL(x, y) < top + SCRN_COLS THEN Blank ELSE m1[CELL(x, y)]
      BY <2>1, <1>3 DEF Memset, Memory
   <2> QED BY <2>1, <2>2, <2>3, <1>1, ScreenSizes DEF Row
<1>6. RowsOf(m2) = Screen!Scrolled(RowsOf(m))
   <2> HIDE DEF m2
   <2>1. ASSUME NEW y \in Row PROVE RowsOf(m2)[y] = Screen!Scrolled(RowsOf(m))[y]
      <3> USE DEF RowsOf, Screen!Scrolled, Screen!BlankRow, Row, Col, Screen!Row, Screen!Col, Blank, Screen!Blank
      <3>1. CASE y = SCRN_ROWS - 1
         <4>1. \A x \in Col : m2[CELL(x, y)] = Blank BY <1>5, <3>1
         <4> QED BY <3>1, <4>1
      <3>2. CASE y # SCRN_ROWS - 1
         <4>1. \A x \in Col : m2[CELL(x, y)] = m[CELL(x, y + 1)] BY <1>5, <3>2
         <4>2. y + 1 \in Row BY <3>2, ScreenSizes
         <4> QED BY <3>2, <4>1, <4>2
      <3> QED BY <3>1, <3>2
   <2> QED BY <2>1 DEF RowsOf, Screen!Scrolled, Row, Screen!Row
<1> QED BY <1>2, <1>4, <1>6

\* Cells are in the order of rows, then of columns.
LEMMA CellCompare ==
  ASSUME NEW x \in Col, NEW y \in Row, NEW a \in Col, NEW b \in Row
  PROVE  CELL(x, y) >= CELL(a, b) <=> y > b \/ (y = b /\ x >= a)
<1>1. /\ x \in Nat /\ y \in Nat /\ a \in Nat /\ b \in Nat /\ y \in 0 .. SCRN_ROWS /\ b \in 0 .. SCRN_ROWS
      /\ CELL(x, y) \in Int /\ CELL(a, b) \in Int
   BY CellAt, ScreenSizes DEF Col, Row
<1>2. CELL(x, y) = CELL(0, y) + x /\ CELL(a, b) = CELL(0, b) + a BY CellAt
<1>3. CELL(0, y) \in Nat /\ CELL(0, b) \in Nat BY <1>1, CellOrder
<1>4. CASE y > b
   <2>1. CELL(a, b) < CELL(0, y) BY <1>1, <1>4, CellOrder
   <2> QED BY <2>1, <1>1, <1>2, <1>3, <1>4
<1>5. CASE y < b
   <2>1. CELL(x, y) < CELL(0, b) BY <1>1, <1>5, CellOrder
   <2> QED BY <2>1, <1>1, <1>2, <1>3, <1>5
<1>6. CASE y = b
   BY <1>1, <1>2, <1>3, <1>6
<1> QED BY <1>1, <1>4, <1>5, <1>6

\* What a filled block holds.
LEMMA MemsetAt ==
  ASSUME NEW m \in Memory, NEW at, NEW n
  PROVE  /\ Memset(m, at, n) \in Memory
         /\ \A c \in 0 .. Cells - 1 :
               Memset(m, at, n)[c] = IF c >= at /\ c < at + n THEN Blank ELSE m[c]
BY DEF Memset, Memory, Blank

\* What a block moved down holds.
LEMMA ShiftedAt ==
  ASSUME NEW m \in Memory, NEW dst \in Nat, NEW src \in Nat, NEW n \in Nat, dst < src, src + n <= Cells
  PROVE  /\ Shifted(m, dst, src, n) \in Memory
         /\ \A c \in 0 .. Cells - 1 :
               Shifted(m, dst, src, n)[c] = IF dst <= c /\ c < dst + n THEN m[c + (src - dst)] ELSE m[c]
<1>1. ASSUME NEW c \in 0 .. Cells - 1
      PROVE  (IF dst <= c /\ c < dst + n THEN m[c + (src - dst)] ELSE m[c]) \in 0 .. 255
   <2>1. dst <= c /\ c < dst + n => c + (src - dst) \in 0 .. Cells - 1 BY ScreenSizes
   <2> QED BY <2>1 DEF Memory
<1> QED BY <1>1 DEF Shifted, Memory

\* What a block moved up holds.
LEMMA RaisedAt ==
  ASSUME NEW m \in Memory, NEW dst \in Nat, NEW src \in Nat, NEW n \in Nat,
         src < dst, dst < Cells, n <= src + 1
  PROVE  /\ Raised(m, dst, src, n) \in Memory
         /\ \A c \in 0 .. Cells - 1 :
               Raised(m, dst, src, n)[c] = IF dst - n < c /\ c <= dst THEN m[c - (dst - src)] ELSE m[c]
<1>1. ASSUME NEW c \in 0 .. Cells - 1
      PROVE  (IF dst - n < c /\ c <= dst THEN m[c - (dst - src)] ELSE m[c]) \in 0 .. 255
   <2>1. dst - n < c /\ c <= dst => c - (dst - src) \in 0 .. Cells - 1 BY ScreenSizes
   <2> QED BY <2>1 DEF Memory
<1> QED BY <1>1 DEF Raised, Memory

\* Screens with the same cells are equal.
LEMMA RowsEqual ==
  ASSUME NEW m, NEW r, r = [y \in Row |-> r[y]], \A y \in Row : r[y] = [x \in Col |-> r[y][x]],
         \A y \in Row : \A x \in Col : m[CELL(x, y)] = r[y][x]
  PROVE  RowsOf(m) = r
<1>1. \A y \in Row : RowsOf(m)[y] = r[y] BY DEF RowsOf
<1> QED BY <1>1 DEF RowsOf

\* Erasing from a cell up to the end of a row.
LEMMA EraseRows ==
  ASSUME NEW m \in Memory, NEW a \in Col, NEW b \in Row, NEW last \in Row, b <= last
  PROVE  LET e == Memset(m, CELL(a, b), CELL(0, last + 1) - CELL(a, b))
         IN  e \in Memory /\ RowsOf(e) = Screen!Erased(RowsOf(m), <<a, b>>, last)
<1> DEFINE e == Memset(m, CELL(a, b), CELL(0, last + 1) - CELL(a, b))
           r == Screen!Erased(RowsOf(m), <<a, b>>, last)
<1>1. e \in Memory BY MemsetAt
<1>2. /\ last + 1 \in 0 .. SCRN_ROWS /\ last \in Nat /\ a \in Nat /\ b \in Nat
   BY ScreenSizes DEF Row, Col
<1>3. CELL(a, b) \in Nat /\ CELL(0, last + 1) \in Nat BY <1>2, CellAt, CellOrder, ScreenSizes
<1>4. ASSUME NEW y \in Row, NEW x \in Col PROVE e[CELL(x, y)] = r[y][x]
   <2>1. CELL(x, y) \in 0 .. Cells - 1 /\ CELL(x, y) \in Nat /\ y \in Nat BY CellAt, ScreenSizes DEF Row
   <2>2. CELL(x, y) < CELL(0, last + 1) <=> y <= last
      <3>1. (y < last + 1 => CELL(x, y) < CELL(0, last + 1)) /\ (last + 1 <= y => CELL(0, last + 1) <= CELL(x, y))
         BY <1>2, CellOrder
      <3> QED BY <3>1, <2>1, <1>2, <1>3
   <2>3. CELL(x, y) >= CELL(a, b) <=> y > b \/ (y = b /\ x >= a) BY CellCompare
   <2>4. e[CELL(x, y)] = IF CELL(x, y) >= CELL(a, b) /\ CELL(x, y) < CELL(a, b) + (CELL(0, last + 1) - CELL(a, b))
                         THEN Blank ELSE m[CELL(x, y)]
      BY <2>1, MemsetAt
   <2>5. CELL(a, b) + (CELL(0, last + 1) - CELL(a, b)) = CELL(0, last + 1) BY <1>3
   <2>6. r[y][x] = IF y <= last /\ (y > b \/ (y = b /\ x >= a)) THEN Blank ELSE m[CELL(x, y)]
      BY DEF Screen!Erased, RowsOf, Row, Col, Screen!Row, Screen!Col, Blank, Screen!Blank
   <2> QED BY <2>2, <2>3, <2>4, <2>5, <2>6
<1>5. r = [y \in Row |-> r[y]] /\ \A y \in Row : r[y] = [x \in Col |-> r[y][x]]
   BY DEF Screen!Erased, Row, Col, Screen!Row, Screen!Col
<1> HIDE DEF e, r
<1>6. RowsOf(e) = r BY <1>4, <1>5, RowsEqual
<1> QED BY <1>1, <1>6 DEF e, r

\* delete_line moves the rows below the cursor up by one.
LEMMA DeleteRows ==
  ASSUME NEW m \in Memory, NEW b \in Row
  PROVE  LET e == Memset(IF b + 1 < SCRN_ROWS
                         THEN Ldir(m, CELL(0, b), CELL(0, b + 1), (SCRN_ROWS - 1 - b) * SCRN_COLS) ELSE m,
                         CELL(0, SCRN_ROWS - 1), SCRN_COLS)
         IN  e \in Memory /\ RowsOf(e) = Screen!Deleted(RowsOf(m), b)
<1> DEFINE m1 == IF b + 1 < SCRN_ROWS
                 THEN Ldir(m, CELL(0, b), CELL(0, b + 1), (SCRN_ROWS - 1 - b) * SCRN_COLS) ELSE m
           top == CELL(0, SCRN_ROWS - 1)
           n == (SCRN_ROWS - 1 - b) * SCRN_COLS
           e == Memset(m1, top, SCRN_COLS)
           r == Screen!Deleted(RowsOf(m), b)
<1>1. /\ b \in Nat /\ b <= SCRN_ROWS - 1 /\ SCRN_ROWS - 1 \in 0 .. SCRN_ROWS /\ SCRN_ROWS - 1 \in Row
      /\ 0 \in Col /\ b \in 0 .. SCRN_ROWS
   BY ScreenSizes DEF Row, Col
<1>2. /\ CELL(0, b) \in Nat /\ CELL(0, b + 1) = CELL(0, b) + SCRN_COLS
      /\ top \in Nat /\ top + SCRN_COLS = Cells
   BY <1>1, CellBase
<1>3. n = top - CELL(0, b) /\ n \in Nat
   <2>1. SCRN_ROWS - 1 - b \in Nat BY <1>1, ScreenSizes
   <2>2. n = top - CELL(0, b) BY <1>1, ScreenSizes DEF CELL
   <2> QED BY <2>1, <2>2, Mult, ScreenSizes
<1>4. /\ m1 \in Memory
      /\ \A c \in 0 .. Cells - 1 : m1[c] = IF CELL(0, b) <= c /\ c < top THEN m[c + SCRN_COLS] ELSE m[c]
   <2>1. CASE b + 1 < SCRN_ROWS
      <3> HIDE DEF n, top
      <3>1. m1 = Ldir(m, CELL(0, b), CELL(0, b) + SCRN_COLS, n) BY <2>1, <1>2 DEF n
      <3>2. CELL(0, b) + SCRN_COLS \in Nat /\ CELL(0, b) < CELL(0, b) + SCRN_COLS
            /\ CELL(0, b) + SCRN_COLS + n <= Cells
         BY <1>2, <1>3, ScreenSizes
      <3>3. m1 = Shifted(m, CELL(0, b), CELL(0, b) + SCRN_COLS, n) BY <3>1, <3>2, <1>2, <1>3, LdirMoves
      <3> DEFINE a == CELL(0, b)
                 src == a + SCRN_COLS
      <3>4. a \in Nat /\ src \in Nat /\ a < src /\ src + n <= Cells /\ m1 = Shifted(m, a, src, n)
         BY <3>3, <3>2, <1>2
      <3>5. a + n = top /\ src - a = SCRN_COLS BY <1>2, <1>3, ScreenSizes
      <3> HIDE DEF m1, a, src
      <3>6. /\ m1 \in Memory
            /\ \A c \in 0 .. Cells - 1 : m1[c] = IF a <= c /\ c < a + n THEN m[c + (src - a)] ELSE m[c]
         BY <3>4, <1>3, ShiftedAt
      <3> QED BY <3>5, <3>6 DEF a
   <2>2. CASE ~(b + 1 < SCRN_ROWS)
      <3>1. b = SCRN_ROWS - 1 BY <2>2, <1>1, ScreenSizes
      <3>2. CELL(0, b) = top /\ m1 = m BY <3>1, <2>2
      <3> QED BY <3>2, <1>2
   <2> QED BY <2>1, <2>2
<1> HIDE DEF m1
<1>5. e \in Memory BY <1>4, MemsetAt
<1>6. ASSUME NEW y \in Row, NEW x \in Col PROVE e[CELL(x, y)] = r[y][x]
   <2>1. CELL(x, y) \in 0 .. Cells - 1 /\ CELL(x, y) \in Nat /\ y \in Nat /\ y <= SCRN_ROWS - 1
         /\ CELL(x, y + 1) = CELL(x, y) + SCRN_COLS
      BY CellAt, ScreenSizes DEF Row
   <2>2. CELL(x, y) < top <=> y < SCRN_ROWS - 1
      <3>1. (y < SCRN_ROWS - 1 => CELL(x, y) < top) /\ (SCRN_ROWS - 1 <= y => top <= CELL(x, y))
         BY <1>1, CellOrder
      <3> QED BY <3>1, <2>1, <1>2, ScreenSizes
   <2>3. CELL(x, y) >= CELL(0, b) <=> y >= b
      <3>1. CELL(x, y) >= CELL(0, b) <=> y > b \/ (y = b /\ x >= 0) BY <1>1, CellCompare
      <3> QED BY <3>1, <1>1, <2>1 DEF Col
   <2>4. e[CELL(x, y)] = IF CELL(x, y) >= top /\ CELL(x, y) < top + SCRN_COLS THEN Blank ELSE m1[CELL(x, y)]
      BY <2>1, <1>4, MemsetAt
   <2>5. m1[CELL(x, y)] = IF CELL(0, b) <= CELL(x, y) /\ CELL(x, y) < top
                          THEN m[CELL(x, y + 1)] ELSE m[CELL(x, y)]
      BY <2>1, <1>4
   <2>6. r[y][x] = IF y < b THEN m[CELL(x, y)] ELSE IF y = SCRN_ROWS - 1 THEN Blank ELSE m[CELL(x, y + 1)]
      <3>1. y # SCRN_ROWS - 1 => y + 1 \in Row BY ScreenSizes DEF Row
      <3> QED BY <3>1 DEF Screen!Deleted, Screen!BlankRow, RowsOf, Row, Col, Screen!Row, Screen!Col, Blank, Screen!Blank
   <2> HIDE DEF top, e, r
   <2> QED BY <2>1, <2>2, <2>3, <2>4, <2>5, <2>6, <1>1, <1>2, ScreenSizes
<1>7. r = [y \in Row |-> r[y]] /\ \A y \in Row : r[y] = [x \in Col |-> r[y][x]]
   <2>1. ASSUME NEW y \in Row PROVE r[y] = [x \in Col |-> r[y][x]]
      <3>1. y # SCRN_ROWS - 1 => y + 1 \in Row BY ScreenSizes DEF Row
      <3> QED BY <3>1 DEF Screen!Deleted, Screen!BlankRow, RowsOf, Row, Col, Screen!Row, Screen!Col
   <2>2. r = [y \in Row |-> r[y]] BY DEF Screen!Deleted, Row, Screen!Row
   <2> HIDE DEF r
   <2> QED BY <2>1, <2>2
<1> HIDE DEF e, r
<1>8. RowsOf(e) = r BY <1>6, <1>7, RowsEqual
<1> QED BY <1>5, <1>8 DEF e, r, m1

\* insert_line moves the rows from the cursor on down by one.
LEMMA InsertRows ==
  ASSUME NEW m \in Memory, NEW b \in Row
  PROVE  LET e == Memset(IF b + 1 < SCRN_ROWS
                         THEN Lddr(m, CELL(SCRN_COLS - 1, SCRN_ROWS - 1), CELL(SCRN_COLS - 1, SCRN_ROWS - 2),
                                   (SCRN_ROWS - 1 - b) * SCRN_COLS) ELSE m,
                         CELL(0, b), SCRN_COLS)
         IN  e \in Memory /\ RowsOf(e) = Screen!Inserted(RowsOf(m), b)
<1> DEFINE n == (SCRN_ROWS - 1 - b) * SCRN_COLS
           dst == CELL(SCRN_COLS - 1, SCRN_ROWS - 1)
           src == CELL(SCRN_COLS - 1, SCRN_ROWS - 2)
           m1 == IF b + 1 < SCRN_ROWS THEN Lddr(m, dst, src, n) ELSE m
           top == CELL(0, SCRN_ROWS - 1)
           low == CELL(0, b)
           e == Memset(m1, low, SCRN_COLS)
           r == Screen!Inserted(RowsOf(m), b)
<1>1. /\ b \in Nat /\ b <= SCRN_ROWS - 1 /\ SCRN_ROWS - 1 \in 0 .. SCRN_ROWS /\ SCRN_ROWS - 1 \in Row
      /\ 0 \in Col /\ b \in 0 .. SCRN_ROWS /\ b + 1 \in 0 .. SCRN_ROWS /\ SCRN_COLS - 1 \in Col
   BY ScreenSizes DEF Row, Col
<1>2. /\ low \in Nat /\ CELL(0, b + 1) = low + SCRN_COLS
      /\ top \in Nat /\ top + SCRN_COLS = Cells
   BY <1>1, CellBase
<1>3. n = top - low /\ n \in Nat
   <2>1. SCRN_ROWS - 1 - b \in Nat BY <1>1, ScreenSizes
   <2>2. n = top - low BY <1>1, ScreenSizes DEF CELL
   <2> QED BY <2>1, <2>2, Mult, ScreenSizes
<1>4. /\ m1 \in Memory
      /\ \A c \in 0 .. Cells - 1 : m1[c] = IF low + SCRN_COLS <= c THEN m[c - SCRN_COLS] ELSE m[c]
   <2>1. CASE b + 1 < SCRN_ROWS
      <3>1. dst = top + SCRN_COLS - 1
         <4>1. top + (SCRN_COLS - 1) = dst BY <1>1, CellAt
         <4> QED BY <4>1, <1>2, ScreenSizes
      <3>2. src = dst - SCRN_COLS
         <4>1. SCRN_ROWS - 2 \in Row /\ (SCRN_ROWS - 2) + 1 = SCRN_ROWS - 1 BY <2>1, <1>1, ScreenSizes DEF Row
         <4>2. CELL(SCRN_COLS - 1, (SCRN_ROWS - 2) + 1) = src + SCRN_COLS /\ src \in 0 .. Cells - 1
            BY <4>1, <1>1, CellAt
         <4> QED BY <4>1, <4>2, ScreenSizes
      <3>3. dst \in Nat /\ src \in Nat /\ src < dst /\ dst < Cells /\ n <= src + 1
         <4>1. src \in 0 .. Cells - 1
            <5>1. SCRN_ROWS - 2 \in Row BY <2>1, <1>1, ScreenSizes DEF Row
            <5> QED BY <5>1, <1>1, CellAt
         <4> HIDE DEF n, top, src, dst, low
         <4> QED BY <4>1, <3>1, <3>2, <1>2, <1>3, ScreenSizes
      <3>4. dst - n = low + SCRN_COLS - 1 /\ dst - src = SCRN_COLS /\ Cells - 1 = dst
         <4> HIDE DEF n, top, src, dst, low
         <4> QED BY <3>1, <3>2, <3>3, <1>2, <1>3, ScreenSizes
      <3> HIDE DEF n, top, src, dst
      <3>5. m1 = Raised(m, dst, src, n) BY <3>3, <1>3, <2>1, LddrMoves
      <3> HIDE DEF m1, low
      <3>6. /\ m1 \in Memory
            /\ \A c \in 0 .. Cells - 1 : m1[c] = IF dst - n < c /\ c <= dst THEN m[c - (dst - src)] ELSE m[c]
         BY <3>3, <3>5, <1>3, RaisedAt
      <3>7. \A c \in 0 .. Cells - 1 : dst - n < c /\ c <= dst <=> low + SCRN_COLS <= c
         BY <3>3, <3>4, <1>2, ScreenSizes
      <3> QED BY <3>4, <3>6, <3>7
   <2>2. CASE ~(b + 1 < SCRN_ROWS)
      <3>1. b = SCRN_ROWS - 1 BY <2>2, <1>1, ScreenSizes
      <3>2. low = top /\ m1 = m BY <3>1, <2>2
      <3> HIDE DEF low, top, m1
      <3> QED BY <3>2, <1>2, ScreenSizes
   <2> QED BY <2>1, <2>2
<1> HIDE DEF m1
<1>5. e \in Memory BY <1>4, MemsetAt
<1>6. ASSUME NEW y \in Row, NEW x \in Col PROVE e[CELL(x, y)] = r[y][x]
   <2>1. CELL(x, y) \in 0 .. Cells - 1 /\ CELL(x, y) \in Nat /\ y \in Nat
      BY CellAt, ScreenSizes DEF Row
   <2>2. CELL(x, y) < low + SCRN_COLS <=> y <= b
      <3>1. (y < b + 1 => CELL(x, y) < CELL(0, b + 1)) /\ (b + 1 <= y => CELL(0, b + 1) <= CELL(x, y))
         BY <1>1, CellOrder
      <3> HIDE DEF low
      <3> QED BY <3>1, <2>1, <1>1, <1>2, ScreenSizes
   <2>3. CELL(x, y) >= low <=> y >= b
      <3>1. CELL(x, y) >= CELL(0, b) <=> y > b \/ (y = b /\ x >= 0) BY <1>1, CellCompare
      <3> QED BY <3>1, <1>1, <2>1 DEF Col
   <2>4. e[CELL(x, y)] = IF CELL(x, y) >= low /\ CELL(x, y) < low + SCRN_COLS THEN Blank ELSE m1[CELL(x, y)]
      BY <2>1, <1>4, MemsetAt
   <2>5. m1[CELL(x, y)] = IF low + SCRN_COLS <= CELL(x, y)
                          THEN m[CELL(x, y) - SCRN_COLS] ELSE m[CELL(x, y)]
      BY <2>1, <1>4
   <2>6. y > b => y - 1 \in Row /\ CELL(x, y) - SCRN_COLS = CELL(x, y - 1)
      <3>1. ASSUME y > b PROVE y - 1 \in Row /\ (y - 1) + 1 = y BY <3>1, <1>1, <2>1, ScreenSizes DEF Row
      <3>2. ASSUME y > b PROVE CELL(x, (y - 1) + 1) = CELL(x, y - 1) + SCRN_COLS /\ CELL(x, y - 1) \in 0 .. Cells - 1
         BY <3>1, <3>2, CellAt
      <3> QED BY <3>1, <3>2, ScreenSizes
   <2>7. r[y][x] = IF y < b THEN m[CELL(x, y)] ELSE IF y = b THEN Blank ELSE m[CELL(x, y - 1)]
      BY <2>6, <1>1, <2>1 DEF Screen!Inserted, Screen!BlankRow, RowsOf, Row, Col, Screen!Row, Screen!Col, Blank, Screen!Blank
   <2> HIDE DEF low, e, r
   <2> QED BY <2>1, <2>2, <2>3, <2>4, <2>5, <2>6, <2>7, <1>1, <1>2, ScreenSizes
<1>7. r = [y \in Row |-> r[y]] /\ \A y \in Row : r[y] = [x \in Col |-> r[y][x]]
   <2>1. ASSUME NEW y \in Row PROVE r[y] = [x \in Col |-> r[y][x]]
      <3>1. y > b => y - 1 \in Row BY <1>1, ScreenSizes DEF Row
      <3>2. r[y] = IF y < b THEN RowsOf(m)[y] ELSE IF y = b THEN Screen!BlankRow ELSE RowsOf(m)[y - 1]
         BY DEF Screen!Inserted, Row, Screen!Row
      <3>3. y < b \/ y = b \/ y > b BY <1>1 DEF Row
      <3> HIDE DEF r
      <3>4. \E z \in Row : r[y] = RowsOf(m)[z] \/ r[y] = Screen!BlankRow BY <3>1, <3>2, <3>3, <1>1
      <3> QED BY <3>4 DEF Screen!BlankRow, RowsOf, Col, Screen!Col
   <2>2. r = [y \in Row |-> r[y]] BY DEF Screen!Inserted, Row, Screen!Row
   <2> HIDE DEF r
   <2> QED BY <2>1, <2>2
<1> HIDE DEF e, r
<1>8. RowsOf(e) = r BY <1>6, <1>7, RowsEqual
<1> QED BY <1>5, <1>8 DEF e, r, m1
-------------------------------------------------------------------------------
(***************************************************************************)
(* The stores left to make.                                                *)
(***************************************************************************)

\* No stores left.
LEMMA AfterNone ==
  ASSUME NEW name, NEW now
  PROVE  After(name, now, <<>>) = now
BY DEF After

\* The last store of a list decides.
LEMMA AfterAppend ==
  ASSUME NEW E, NEW q \in Seq(E), NEW e \in E, NEW name, NEW now
  PROVE  After(name, now, Append(q, e)) = IF e[1] = name THEN e[2] ELSE After(name, now, q)
<1> DEFINE n == Len(q)
           at == {i \in DOMAIN q : q[i][1] = name}
           a == Append(q, e)
           bt == {i \in DOMAIN a : a[i][1] = name}
<1>1. n \in Nat /\ DOMAIN q = 1 .. n /\ DOMAIN a = 1 .. n + 1 /\ a[n + 1] = e /\ \A i \in 1 .. n : a[i] = q[i]
   OBVIOUS
<1> HIDE DEF n, a
<1>2. CASE e[1] = name
   <2>1. n + 1 \in bt /\ bt \in SUBSET Nat /\ \A i \in bt : i <= n + 1 BY <1>1, <1>2
   <2>2. Max(bt) = n + 1
      <3> HIDE DEF bt
      <3> QED BY <2>1, <1>1, MaxIs
   <2>3. bt # {} BY <2>1
   <2>4. After(name, now, a) = a[Max(bt)][2] BY <2>3 DEF After
   <2> QED BY <1>1, <1>2, <2>2, <2>4 DEF a
<1>3. CASE e[1] # name
   <2>1. bt = at BY <1>1, <1>3
   <2>2. CASE at = {}
      BY <1>3, <2>1, <2>2 DEF After, a
   <2>3. CASE at # {}
      <3>1. Max(at) \in 1 .. n
         <4>1. at \in SUBSET (1 .. n) /\ at \in SUBSET (0 .. n) BY <1>1
         <4> HIDE DEF at
         <4> QED BY <4>1, <2>3, <1>1, MaxExists
      <3>2. After(name, now, a) = a[Max(at)][2] BY <2>1, <2>3 DEF After
      <3>3. After(name, now, q) = q[Max(at)][2] BY <2>3 DEF After
      <3> HIDE DEF at, bt
      <3> QED BY <3>1, <3>2, <3>3, <1>1, <1>3 DEF a
   <2> QED BY <2>2, <2>3
<1> QED BY <1>2, <1>3

\* A store that is made is one less to come.
LEMMA AfterStore ==
  ASSUME NEW E, NEW q \in Seq(E), q # <<>>, NEW name, NEW now
  PROVE  After(name, IF Head(q)[1] = name THEN Head(q)[2] ELSE now, Tail(q)) = After(name, now, q)
<1> DEFINE n == Len(q)
           t == Tail(q)
           v == IF Head(q)[1] = name THEN Head(q)[2] ELSE now
           at == {i \in DOMAIN q : q[i][1] = name}
           bt == {i \in DOMAIN t : t[i][1] = name}
<1>1. n \in Nat \ {0} /\ DOMAIN q = 1 .. n /\ DOMAIN t = 1 .. n - 1 /\ Head(q) = q[1]
      /\ \A i \in 1 .. n - 1 : t[i] = q[i + 1]
   OBVIOUS
<1> HIDE DEF n, t
<1>2. CASE bt = {}
   <2>1. \A i \in 1 .. n : i # 1 => q[i][1] # name
      <3>1. ASSUME NEW i \in 1 .. n, i # 1, q[i][1] = name PROVE FALSE
         <4>1. i - 1 \in 1 .. n - 1 BY <3>1, <1>1
         <4>2. t[i - 1] = q[(i - 1) + 1] /\ (i - 1) + 1 = i BY <4>1, <1>1
         <4>3. i - 1 \in bt BY <4>1, <4>2, <3>1, <1>1
         <4> QED BY <4>3, <1>2
      <3> QED BY <3>1
   <2>2. After(name, v, t) = v BY <1>2 DEF After
   <2>3. CASE q[1][1] = name
      <3>1. 1 \in at /\ at \in SUBSET Nat /\ \A i \in at : i <= 1 BY <1>1, <2>1, <2>3
      <3>2. at # {} BY <3>1
      <3>3. Max(at) = 1
         <4> HIDE DEF at
         <4> QED BY <3>1, MaxIs
      <3>4. After(name, now, q) = q[Max(at)][2] BY <3>2 DEF After
      <3> QED BY <3>3, <3>4, <2>2, <2>3, <1>1 DEF t
   <2>4. CASE q[1][1] # name
      <3>1. at = {} BY <1>1, <2>1, <2>4
      <3>2. After(name, now, q) = now BY <3>1 DEF After
      <3> QED BY <3>2, <2>2, <2>4, <1>1 DEF t
   <2> QED BY <2>3, <2>4
<1>3. CASE bt # {}
   <2> DEFINE k == Max(bt)
   <2>1. k \in bt /\ (\A i \in bt : i <= k)
      <3>1. n - 1 \in Nat /\ bt \in SUBSET (0 .. n - 1) BY <1>1
      <3> HIDE DEF bt
      <3> QED BY <3>1, <1>3, MaxExists
   <2> HIDE DEF k
   <2>2. k \in 1 .. n - 1 /\ q[k + 1][1] = name BY <2>1, <1>1
   <2>3. k + 1 \in at /\ at \in SUBSET Nat BY <2>2, <1>1
   <2>4. ASSUME NEW i \in at PROVE i <= k + 1
      <3>1. CASE i = 1 BY <3>1, <2>2, <1>1
      <3>2. CASE i # 1
         <4>1. i - 1 \in 1 .. n - 1 BY <3>2, <2>4, <1>1
         <4>2. t[i - 1] = q[(i - 1) + 1] /\ (i - 1) + 1 = i BY <4>1, <1>1
         <4>3. i - 1 \in bt BY <4>1, <4>2, <1>1
         <4>4. i - 1 <= k BY <4>3, <2>1
         <4> QED BY <4>1, <4>4, <2>2, <1>1
      <3> QED BY <3>1, <3>2
   <2>5. Max(at) = k + 1
      <3> HIDE DEF at
      <3> QED BY <2>3, <2>4, MaxIs
   <2>6. at # {} BY <2>3
   <2>7. After(name, now, q) = q[k + 1][2]
      <3>1. After(name, now, q) = q[Max(at)][2] BY <2>6 DEF After
      <3> QED BY <3>1, <2>5
   <2>8. After(name, v, t) = t[k][2] BY <1>3 DEF After, k
   <2>9. t[k] = q[k + 1] BY <2>2, <1>1
   <2> QED BY <2>7, <2>8, <2>9 DEF t
<1> QED BY <1>2, <1>3
-------------------------------------------------------------------------------
(***************************************************************************)
(* Steps to the right.                                                     *)
(***************************************************************************)

\* How far the screen has scrolled when the cursor has come to row q, and the rows
\* then.
Over(q) == IF q < SCRN_ROWS THEN 0 ELSE q - (SCRN_ROWS - 1)
Lifted(r, o) == [y \in Row |-> IF y + o < SCRN_ROWS THEN r[y + o] ELSE Screen!BlankRow]
Arrived(r, q, k) == [rows |-> Lifted(r, Over(q)), pos |-> <<k, q - Over(q)>>]

\* Steps to the right, in terms of the row and column where they end.
LEMMA RightIs ==
  ASSUME NEW r, NEW x, NEW y, NEW n, NEW q \in Nat, NEW k \in Col,
         y * SCRN_COLS + x + n = q * SCRN_COLS + k
  PROVE  Screen!Right(r, <<x, y>>, n) = Arrived(r, q, k)
<1> DEFINE c == q * SCRN_COLS + k
<1>1. c \div SCRN_COLS = q /\ c % SCRN_COLS = k BY DivMod, ScreenSizes DEF Col
<1>2. <<x, y>>[2] * SCRN_COLS + <<x, y>>[1] + n = c OBVIOUS
<1> HIDE DEF c
<1> QED BY <1>1, <1>2 DEF Screen!Right, Arrived, Lifted, Over, Row, Screen!Row

\* They end on the screen.
LEMMA Arrives ==
  ASSUME NEW r, NEW q \in Nat, NEW k \in Col
  PROVE  /\ Arrived(r, q, k).rows = Lifted(r, Over(q)) /\ Arrived(r, q, k).pos = <<k, q - Over(q)>>
         /\ Over(q) \in Nat /\ q - Over(q) \in Row
BY ScreenSizes DEF Arrived, Over, Row

\* Scrolling twice.
LEMMA LiftTwice ==
  ASSUME NEW r, NEW o \in Nat, NEW p \in Nat
  PROVE  Lifted(Lifted(r, o), p) = Lifted(r, o + p)
<1>1. ASSUME NEW y \in Row PROVE Lifted(Lifted(r, o), p)[y] = Lifted(r, o + p)[y]
   <2>1. CASE y + p < SCRN_ROWS
      <3>1. y + p \in Row BY <2>1, ScreenSizes DEF Row
      <3>2. Lifted(Lifted(r, o), p)[y] = Lifted(r, o)[y + p] BY <2>1 DEF Lifted
      <3>3. Lifted(r, o)[y + p] = IF (y + p) + o < SCRN_ROWS THEN r[(y + p) + o] ELSE Screen!BlankRow
         BY <3>1 DEF Lifted
      <3>4. (y + p) + o = y + (o + p) BY DEF Row
      <3> QED BY <3>2, <3>3, <3>4 DEF Lifted
   <2>2. CASE ~(y + p < SCRN_ROWS)
      <3>1. ~(y + (o + p) < SCRN_ROWS) BY <2>2, ScreenSizes DEF Row
      <3> QED BY <2>2, <3>1 DEF Lifted
   <2> QED BY <2>1, <2>2
<1> QED BY <1>1 DEF Lifted

\* A step to the right after n of them.
LEMMA RightTwice ==
  ASSUME NEW r, NEW x \in Col, NEW y \in Row, NEW n \in Nat
  PROVE  LET a == Screen!Right(r, <<x, y>>, n) IN
         /\ Screen!Right(a.rows, a.pos, 1) = Screen!Right(r, <<x, y>>, n + 1)
         /\ a.pos \in Col \X Row
<1> DEFINE a == Screen!Right(r, <<x, y>>, n)
<1>1. y * SCRN_COLS + x + n \in Nat BY ScreenSizes DEF Col, Row
<1>2. PICK q \in Nat, k \in Col : y * SCRN_COLS + x + n = q * SCRN_COLS + k
   <2>1. SCRN_COLS \in Nat \ {0} BY ScreenSizes
   <2> DEFINE c == y * SCRN_COLS + x + n
   <2> HIDE DEF c
   <2>2. \E q \in Nat : \E k \in 0 .. SCRN_COLS - 1 : c = q * SCRN_COLS + k BY <1>1, <2>1, Divided DEF c
   <2> QED BY <2>2 DEF Col, c
<1>3. a = Arrived(r, q, k) BY <1>2, RightIs
<1>4. a.rows = Lifted(r, Over(q)) /\ a.pos = <<k, q - Over(q)>> /\ Over(q) \in Nat /\ q - Over(q) \in Row
   BY <1>3, Arrives
<1> HIDE DEF a
<1>5. ASSUME k + 1 < SCRN_COLS
      PROVE  Screen!Right(a.rows, a.pos, 1) = Screen!Right(r, <<x, y>>, n + 1)
   <2>1. k + 1 \in Col BY <1>5, ScreenSizes DEF Col
   <2>2. Screen!Right(r, <<x, y>>, n + 1) = Arrived(r, q, k + 1)
      <3>1. y * SCRN_COLS + x + (n + 1) = q * SCRN_COLS + (k + 1) BY <1>1, <1>2, ScreenSizes DEF Col, Row
      <3> QED BY <3>1, <2>1, RightIs
   <2>3. Screen!Right(a.rows, a.pos, 1) = Arrived(a.rows, q - Over(q), k + 1)
      <3>1. (q - Over(q)) * SCRN_COLS + k + 1 = (q - Over(q)) * SCRN_COLS + (k + 1)
         BY <1>4, ScreenSizes DEF Col, Row
      <3>2. q - Over(q) \in Nat BY <1>4 DEF Row
      <3> QED BY <3>1, <3>2, <2>1, <1>4, RightIs
   <2>4. Over(q - Over(q)) = 0 /\ Over(q) + 0 = Over(q) BY <1>4, ScreenSizes DEF Over, Row
   <2>5. Lifted(a.rows, 0) = Lifted(r, Over(q)) BY <1>4, <2>4, LiftTwice
   <2>6. (q - Over(q)) - 0 = q - Over(q) BY <1>4 DEF Row
   <2> QED BY <2>2, <2>3, <2>4, <2>5, <2>6, <1>4 DEF Arrived
<1>6. ASSUME k + 1 = SCRN_COLS
      PROVE  Screen!Right(a.rows, a.pos, 1) = Screen!Right(r, <<x, y>>, n + 1)
   <2>1. 0 \in Col /\ q + 1 \in Nat BY ScreenSizes DEF Col
   <2>2. Screen!Right(r, <<x, y>>, n + 1) = Arrived(r, q + 1, 0)
      <3>1. y * SCRN_COLS + x + (n + 1) = (q + 1) * SCRN_COLS + 0 BY <1>1, <1>2, <1>6, ScreenSizes DEF Col, Row
      <3> QED BY <3>1, <2>1, RightIs
   <2>3. Screen!Right(a.rows, a.pos, 1) = Arrived(a.rows, q - Over(q) + 1, 0)
      <3>1. (q - Over(q)) * SCRN_COLS + k + 1 = (q - Over(q) + 1) * SCRN_COLS + 0
         BY <1>4, <1>6, ScreenSizes DEF Col, Row
      <3>2. q - Over(q) + 1 \in Nat BY <1>4 DEF Row
      <3> QED BY <3>1, <3>2, <2>1, <1>4, RightIs
   <2>4. /\ Over(q) + Over(q - Over(q) + 1) = Over(q + 1) /\ Over(q - Over(q) + 1) \in Nat
         /\ (q - Over(q) + 1) - Over(q - Over(q) + 1) = (q + 1) - Over(q + 1)
      BY <1>4, ScreenSizes DEF Over, Row
   <2>5. Lifted(a.rows, Over(q - Over(q) + 1)) = Lifted(r, Over(q + 1)) BY <1>4, <2>4, LiftTwice
   <2> QED BY <2>2, <2>3, <2>4, <2>5 DEF Arrived
<1>7. k + 1 < SCRN_COLS \/ k + 1 = SCRN_COLS BY ScreenSizes DEF Col
<1>8. a.pos \in Col \X Row BY <1>4
<1> QED BY <1>5, <1>6, <1>7, <1>8 DEF a

-------------------------------------------------------------------------------
(***************************************************************************)
(* The operations of impl_conout.                                          *)
(***************************************************************************)

\* The stores to the cursor, the record of a state impl_conout is in, and that the
\* stores made so far lead from the cursor <<u, v>> to the record's.
CursorStore == ({"curx"} \X (0 .. SCRN_COLS)) \cup ({"cury"} \X Row)
Scr == [m : Memory, x : 0 .. SCRN_COLS, y : Row, stores : Seq(CursorStore)]
Tracked(s, u, v) == s \in Scr /\ After("curx", u, s.stores) = s.x /\ After("cury", v, s.stores) = s.y
\* The cursor is on the screen; the terminal shows rows r and cursor p.
OnScreen(s, u, v) == Tracked(s, u, v) /\ s.x \in Col
Shows(s, r, p) == RowsOf(s.m) = r /\ <<s.x, s.y>> = p

\* The edges of the screen are on it.
LEMMA Corners == 0 \in Col /\ 0 \in Row /\ SCRN_COLS - 1 \in Col /\ SCRN_ROWS - 1 \in Row /\ Col \subseteq 0 .. SCRN_COLS
BY ScreenSizes DEF Col, Row

\* A store of curx keeps the record in step with the stores.
LEMMA SetXTracked ==
  ASSUME NEW u, NEW v, NEW s, Tracked(s, u, v), NEW a \in 0 .. SCRN_COLS
  PROVE  Tracked(SetX(s, a), u, v) /\ SetX(s, a).x = a /\ SetX(s, a).y = s.y /\ SetX(s, a).m = s.m
<1>1. <<"curx", a>> \in CursorStore BY DEF CursorStore
<1>2. s \in Scr /\ s.stores \in Seq(CursorStore) BY DEF Tracked, Scr
<1>3. /\ SetX(s, a) \in Scr /\ SetX(s, a).x = a /\ SetX(s, a).y = s.y /\ SetX(s, a).m = s.m
      /\ SetX(s, a).stores = Append(s.stores, <<"curx", a>>)
   <2> DEFINE q == Append(s.stores, <<"curx", a>>)
   <2>1. q \in Seq(CursorStore) BY <1>1, <1>2
   <2>2. SetX(s, a) = [s EXCEPT !.x = a, !.stores = q] BY <1>2 DEF SetX, Scr
   <2> HIDE DEF q
   <2>3. SetX(s, a) \in Scr /\ SetX(s, a).stores = q /\ SetX(s, a).m = s.m
         /\ SetX(s, a).x = a /\ SetX(s, a).y = s.y
      BY <2>1, <2>2, <1>2 DEF Scr
   <2> QED BY <2>3 DEF q
<1>4. After("curx", u, Append(s.stores, <<"curx", a>>)) = a
   <2>1. <<"curx", a>>[1] = "curx" /\ <<"curx", a>>[2] = a OBVIOUS
   <2> QED BY <2>1, <1>1, <1>2, AfterAppend
<1>5. After("cury", v, Append(s.stores, <<"curx", a>>)) = After("cury", v, s.stores)
   <2>1. <<"curx", a>>[1] # "cury" OBVIOUS
   <2> QED BY <2>1, <1>1, <1>2, AfterAppend
<1> QED BY <1>3, <1>4, <1>5 DEF Tracked

\* So does a store of cury.
LEMMA SetYTracked ==
  ASSUME NEW u, NEW v, NEW s, Tracked(s, u, v), NEW a \in Row
  PROVE  Tracked(SetY(s, a), u, v) /\ SetY(s, a).y = a /\ SetY(s, a).x = s.x /\ SetY(s, a).m = s.m
<1>1. <<"cury", a>> \in CursorStore BY DEF CursorStore
<1>2. s \in Scr /\ s.stores \in Seq(CursorStore) BY DEF Tracked, Scr
<1>3. /\ SetY(s, a) \in Scr /\ SetY(s, a).y = a /\ SetY(s, a).x = s.x /\ SetY(s, a).m = s.m
      /\ SetY(s, a).stores = Append(s.stores, <<"cury", a>>)
   <2> DEFINE q == Append(s.stores, <<"cury", a>>)
   <2>1. q \in Seq(CursorStore) BY <1>1, <1>2
   <2>2. SetY(s, a) = [s EXCEPT !.y = a, !.stores = q] BY <1>2 DEF SetY, Scr
   <2> HIDE DEF q
   <2>3. SetY(s, a) \in Scr /\ SetY(s, a).stores = q /\ SetY(s, a).m = s.m
         /\ SetY(s, a).x = s.x /\ SetY(s, a).y = a
      BY <2>1, <2>2, <1>2 DEF Scr
   <2> QED BY <2>3 DEF q
<1>4. After("cury", v, Append(s.stores, <<"cury", a>>)) = a
   <2>1. <<"cury", a>>[1] = "cury" /\ <<"cury", a>>[2] = a OBVIOUS
   <2> QED BY <2>1, <1>1, <1>2, AfterAppend
<1>5. After("curx", u, Append(s.stores, <<"cury", a>>)) = After("curx", u, s.stores)
   <2>1. <<"cury", a>>[1] # "curx" OBVIOUS
   <2> QED BY <2>1, <1>1, <1>2, AfterAppend
<1> QED BY <1>3, <1>4, <1>5 DEF Tracked

\* So does a change of display memory.
LEMMA MemoryTracked ==
  ASSUME NEW u, NEW v, NEW s, Tracked(s, u, v), NEW m \in Memory
  PROVE  LET t == [s EXCEPT !.m = m]
         IN  Tracked(t, u, v) /\ t.m = m /\ t.x = s.x /\ t.y = s.y
BY DEF Tracked, Scr

\* The fields of the record.
LEMMA Fields ==
  ASSUME NEW u, NEW v, NEW s, Tracked(s, u, v)
  PROVE  s.m \in Memory /\ s.x \in 0 .. SCRN_COLS /\ s.y \in Row
BY DEF Tracked, Scr

\* cursor_down goes down by one or scrolls.
LEMMA DownRight ==
  ASSUME NEW u, NEW v, NEW s, Tracked(s, u, v)
  PROVE  LET t == cursor_down(s) IN
         /\ Tracked(t, u, v) /\ t.x = s.x
         /\ IF s.y < SCRN_ROWS - 1 THEN t.m = s.m /\ t.y = s.y + 1
            ELSE t.y = s.y /\ RowsOf(t.m) = Screen!Scrolled(RowsOf(s.m))
<1> DEFINE t == cursor_down(s)
<1>1. s.m \in Memory /\ s.y \in Row BY Fields
<1>2. CASE s.y < SCRN_ROWS - 1
   <2>1. s.y + 1 \in Row /\ s.y + 1 < SCRN_ROWS BY <1>1, <1>2, ScreenSizes DEF Row
   <2>2. t = SetY(s, s.y + 1) BY <2>1 DEF cursor_down
   <2> QED BY <1>2, <2>1, <2>2, SetYTracked
<1>3. CASE ~(s.y < SCRN_ROWS - 1)
   <2>1. ~(s.y + 1 < SCRN_ROWS) BY <1>1, <1>3, ScreenSizes DEF Row
   <2> DEFINE e == Memset(Ldir(s.m, 0, SCRN_COLS, (SCRN_ROWS - 1) * SCRN_COLS), CELL(0, SCRN_ROWS - 1), SCRN_COLS)
   <2>2. t = [s EXCEPT !.m = e] BY <2>1 DEF cursor_down, scroll_up
   <2>3. e \in Memory /\ RowsOf(e) = Screen!Scrolled(RowsOf(s.m)) BY <1>1, ScrollRows
   <2> HIDE DEF e
   <2>4. Tracked(t, u, v) /\ t.m = e /\ t.x = s.x /\ t.y = s.y BY <2>2, <2>3, MemoryTracked
   <2> HIDE DEF t
   <2> QED BY <2>3, <2>4, <1>3 DEF t
<1> QED BY <1>2, <1>3

\* cursor_right is one step to the right.
LEMMA RightRight ==
  ASSUME NEW u, NEW v, NEW s, OnScreen(s, u, v)
  PROVE  LET t == cursor_right(s)
             a == Screen!Right(RowsOf(s.m), <<s.x, s.y>>, 1)
         IN  OnScreen(t, u, v) /\ Shows(t, a.rows, a.pos)
<1> DEFINE t == cursor_right(s)
           r == RowsOf(s.m)
           a == Screen!Right(r, <<s.x, s.y>>, 1)
           t1 == SetX(s, s.x + 1)
           t2 == SetX(t1, 0)
<1>1. s.m \in Memory /\ s.x \in Col /\ s.y \in Row /\ Tracked(s, u, v) BY Fields DEF OnScreen
<1>2. Tracked(t1, u, v) /\ t1.x = s.x + 1 /\ t1.y = s.y /\ t1.m = s.m
   <2>1. s.x + 1 \in 0 .. SCRN_COLS BY <1>1, ScreenSizes DEF Col
   <2> QED BY <2>1, <1>1, SetXTracked
<1>3. CASE s.x + 1 < SCRN_COLS
   <2>1. t = t1 BY <1>2, <1>3 DEF cursor_right
   <2>2. s.x + 1 \in Col /\ s.y \in Nat BY <1>1, <1>3, ScreenSizes DEF Col, Row
   <2>3. a = Arrived(r, s.y, s.x + 1)
      <3>1. s.y * SCRN_COLS + s.x + 1 = s.y * SCRN_COLS + (s.x + 1) BY <1>1, ScreenSizes DEF Col, Row
      <3> QED BY <3>1, <2>2, RightIs
   <2>4. Over(s.y) = 0 /\ s.y - 0 = s.y BY <1>1, ScreenSizes DEF Over, Row
   <2>5. Lifted(r, 0) = r BY ScreenSizes DEF Lifted, RowsOf, Row
   <2>6. a.rows = r /\ a.pos = <<s.x + 1, s.y>> BY <2>3, <2>4, <2>5 DEF Arrived
   <2> HIDE DEF a, t, t1, r
   <2>7. OnScreen(t, u, v) BY <2>1, <2>2, <1>2 DEF OnScreen
   <2>8. Shows(t, a.rows, a.pos) BY <2>1, <2>6, <1>2 DEF Shows, r
   <2> QED BY <2>7, <2>8 DEF a, t, r
<1>4. CASE ~(s.x + 1 < SCRN_COLS)
   <2>1. t = cursor_down(t2) BY <1>2, <1>4 DEF cursor_right
   <2>2. Tracked(t2, u, v) /\ t2.x = 0 /\ t2.y = s.y /\ t2.m = s.m BY <1>2, SetXTracked, ScreenSizes
   <2>3. a = Arrived(r, s.y + 1, 0)
      <3>1. s.x + 1 = SCRN_COLS BY <1>1, <1>4, ScreenSizes DEF Col
      <3>2. s.y * SCRN_COLS + s.x + 1 = (s.y + 1) * SCRN_COLS + 0 BY <3>1, <1>1, ScreenSizes DEF Col, Row
      <3>3. s.y + 1 \in Nat BY <1>1, ScreenSizes DEF Row
      <3> QED BY <3>2, <3>3, Corners, RightIs
   <2> HIDE DEF t2
   <2>4. /\ Tracked(t, u, v) /\ t.x = 0
         /\ IF s.y < SCRN_ROWS - 1 THEN t.m = s.m /\ t.y = s.y + 1
            ELSE t.y = s.y /\ RowsOf(t.m) = Screen!Scrolled(RowsOf(s.m))
      BY <2>1, <2>2, DownRight
   <2>5. CASE s.y < SCRN_ROWS - 1
      <3>1. Over(s.y + 1) = 0 /\ (s.y + 1) - 0 = s.y + 1 BY <2>5, <1>1, ScreenSizes DEF Over, Row
      <3>2. Lifted(r, 0) = r BY ScreenSizes DEF Lifted, RowsOf, Row
      <3>3. a.rows = r /\ a.pos = <<0, s.y + 1>> BY <2>3, <3>1, <3>2 DEF Arrived
      <3> HIDE DEF a, t, r
      <3>4. OnScreen(t, u, v) BY <2>4, Corners DEF OnScreen
      <3>5. Shows(t, a.rows, a.pos) BY <2>4, <2>5, <3>3 DEF Shows, r
      <3> QED BY <3>4, <3>5 DEF a, t, r
   <2>6. CASE ~(s.y < SCRN_ROWS - 1)
      <3>1. Over(s.y + 1) = 1 /\ (s.y + 1) - 1 = s.y BY <2>6, <1>1, ScreenSizes DEF Over, Row
      <3>2. Lifted(r, 1) = Screen!Scrolled(r)
         <4>1. \A y \in Row : y + 1 < SCRN_ROWS <=> y # SCRN_ROWS - 1 BY ScreenSizes DEF Row
         <4> HIDE DEF r
         <4> QED BY <4>1 DEF Lifted, Screen!Scrolled, Screen!Row, Row
      <3>3. a.rows = Screen!Scrolled(r) /\ a.pos = <<0, s.y>> BY <2>3, <3>1, <3>2 DEF Arrived
      <3> HIDE DEF a, t, r
      <3>4. OnScreen(t, u, v) BY <2>4, Corners DEF OnScreen
      <3>5. Shows(t, a.rows, a.pos) BY <2>4, <2>6, <3>3 DEF Shows, r
      <3> QED BY <3>4, <3>5 DEF a, t, r
   <2> QED BY <2>5, <2>6
<1> QED BY <1>3, <1>4

\* cursor_up goes up by one, round the top.
LEMMA UpRight ==
  ASSUME NEW u, NEW v, NEW s, Tracked(s, u, v)
  PROVE  LET t == cursor_up(s) IN Tracked(t, u, v) /\ t.x = s.x /\ t.m = s.m /\ t.y = (s.y - 1) % SCRN_ROWS
<1> DEFINE b == IF s.y # 0 THEN s.y - 1 ELSE SCRN_ROWS - 1
<1>1. s.y \in Row BY Fields
<1>2. b \in Row BY <1>1, ScreenSizes DEF Row
<1>3. b = (s.y - 1) % SCRN_ROWS
   <2>1. CASE s.y # 0
      <3>1. s.y - 1 \in 0 .. SCRN_ROWS - 1 BY <1>1, <2>1, ScreenSizes DEF Row
      <3> QED BY <3>1, <2>1, ScreenSizes
   <2>2. CASE s.y = 0
      <3>1. (0 - 1) % SCRN_ROWS = SCRN_ROWS - 1 BY ScreenSizes
      <3> QED BY <2>2, <3>1
   <2> QED BY <2>1, <2>2
<1>4. cursor_up(s) = SetY(s, b) BY DEF cursor_up
<1> HIDE DEF b
<1> QED BY <1>2, <1>3, <1>4, SetYTracked

\* cursor_left goes back by one, round the edges.
LEMMA LeftRight ==
  ASSUME NEW u, NEW v, NEW s, OnScreen(s, u, v)
  PROVE  LET t == cursor_left(s)
         IN  OnScreen(t, u, v) /\ Shows(t, RowsOf(s.m), Screen!Left(<<s.x, s.y>>))
<1> DEFINE t == cursor_left(s)
<1>1. s.x \in Col /\ s.y \in Row /\ Tracked(s, u, v) BY Fields DEF OnScreen
<1>2. CASE s.x # 0
   <2>1. s.x - 1 \in Col /\ s.x > 0 BY <1>1, <1>2, ScreenSizes DEF Col
   <2>2. t = SetX(s, s.x - 1) BY <1>2 DEF cursor_left
   <2>3. Tracked(t, u, v) /\ t.x = s.x - 1 /\ t.y = s.y /\ t.m = s.m
      <3>1. s.x - 1 \in 0 .. SCRN_COLS BY <2>1, Corners
      <3> QED BY <3>1, <2>2, <1>1, SetXTracked
   <2> HIDE DEF t
   <2> QED BY <2>1, <2>3 DEF OnScreen, Shows, Screen!Left, t
<1>3. CASE s.x = 0
   <2> DEFINE t1 == SetX(s, SCRN_COLS - 1)
   <2>1. t = cursor_up(t1) BY <1>3 DEF cursor_left
   <2>2. Tracked(t1, u, v) /\ t1.x = SCRN_COLS - 1 /\ t1.y = s.y /\ t1.m = s.m
      <3>1. SCRN_COLS - 1 \in 0 .. SCRN_COLS BY Corners
      <3> QED BY <3>1, <1>1, SetXTracked
   <2> HIDE DEF t1
   <2>3. Tracked(t, u, v) /\ t.x = SCRN_COLS - 1 /\ t.m = s.m /\ t.y = (s.y - 1) % SCRN_ROWS
      BY <2>1, <2>2, UpRight
   <2> DEFINE z == (s.y - 1) % SCRN_ROWS
   <2>4. Screen!Left(<<s.x, s.y>>) = <<SCRN_COLS - 1, z>> BY <1>3 DEF Screen!Left
   <2> HIDE DEF t, z
   <2>5. OnScreen(t, u, v) /\ Shows(t, RowsOf(s.m), Screen!Left(<<s.x, s.y>>))
      BY <2>3, <2>4, Corners DEF OnScreen, Shows, z
   <2> QED BY <2>5 DEF t
<1> QED BY <1>2, <1>3

\* home leaves the picture and goes to the first cell.
LEMMA HomeRight ==
  ASSUME NEW u, NEW v, NEW s, Tracked(s, u, v)
  PROVE  LET t == home(s) IN OnScreen(t, u, v) /\ Shows(t, RowsOf(s.m), <<0, 0>>)
<1> DEFINE t1 == SetX(s, 0)
<1>1. Tracked(t1, u, v) /\ t1.x = 0 /\ t1.m = s.m BY Corners, SetXTracked
<1>2. home(s) = SetY(t1, 0) BY DEF home
<1> HIDE DEF t1
<1>3. Tracked(home(s), u, v) /\ home(s).x = 0 /\ home(s).y = 0 /\ home(s).m = s.m
   BY <1>1, <1>2, Corners, SetYTracked
<1> QED BY <1>3, Corners DEF OnScreen, Shows

\* tab is four steps to the right.
LEMMA TabRight ==
  ASSUME NEW u, NEW v, NEW s, OnScreen(s, u, v)
  PROVE  LET t == tab(s)
             a == Screen!Right(RowsOf(s.m), <<s.x, s.y>>, 4)
         IN  OnScreen(t, u, v) /\ Shows(t, a.rows, a.pos)
<1> DEFINE r == RowsOf(s.m)
           a(n) == Screen!Right(r, <<s.x, s.y>>, n)
           t1 == cursor_right(s)
           t2 == cursor_right(t1)
           t3 == cursor_right(t2)
           t4 == cursor_right(t3)
           Is(t, n) == OnScreen(t, u, v) /\ Shows(t, a(n).rows, a(n).pos)
<1>1. s.x \in Col /\ s.y \in Row BY Fields DEF OnScreen
<1>2. ASSUME NEW t, NEW n \in Nat, Is(t, n) PROVE Is(cursor_right(t), n + 1)
   <2>1. OnScreen(t, u, v) /\ RowsOf(t.m) = a(n).rows /\ <<t.x, t.y>> = a(n).pos BY <1>2 DEF Shows
   <2> DEFINE b == Screen!Right(RowsOf(t.m), <<t.x, t.y>>, 1)
   <2>2. OnScreen(cursor_right(t), u, v) /\ Shows(cursor_right(t), b.rows, b.pos) BY <2>1, RightRight
   <2>3. b = a(n + 1) BY <2>1, <1>1, RightTwice
   <2> QED BY <2>2, <2>3
<1>3. Is(t1, 1) BY RightRight
<1> HIDE DEF Is
<1>4. Is(t2, 2) BY <1>2, <1>3
<1>5. Is(t3, 3) BY <1>2, <1>4
<1>6. Is(t4, 4) BY <1>2, <1>5
<1>7. tab(s) = t4 BY DEF tab
<1> QED BY <1>6, <1>7 DEF Is

\* clear_screen leaves blanks only.
LEMMA ClearRight ==
  ASSUME NEW u, NEW v, NEW s, Tracked(s, u, v)
  PROVE  LET t == clear_screen(s)
         IN  OnScreen(t, u, v) /\ Shows(t, [y \in Row |-> Screen!BlankRow], <<0, 0>>)
<1> DEFINE e == Memset(s.m, 0, Cells)
           t1 == [s EXCEPT !.m = e]
<1>1. s.m \in Memory BY Fields
<1>2. e \in Memory /\ \A c \in 0 .. Cells - 1 : e[c] = IF c >= 0 /\ c < 0 + Cells THEN Blank ELSE s.m[c]
   BY <1>1, MemsetAt
<1>3. \A c \in 0 .. Cells - 1 : e[c] = Blank BY <1>2, ScreenSizes
<1>4. RowsOf(e) = [y \in Row |-> Screen!BlankRow]
   <2>1. \A y \in Row, x \in Col : e[CELL(x, y)] = Screen!Blank BY <1>3, CellAt DEF Blank, Screen!Blank
   <2> HIDE DEF e
   <2> QED BY <2>1 DEF RowsOf, Screen!BlankRow, Screen!Col, Col
<1> HIDE DEF e
<1>5. Tracked(t1, u, v) /\ t1.m = e BY <1>2, MemoryTracked
<1>6. clear_screen(s) = home(t1) BY DEF clear_screen, e
<1> HIDE DEF t1
<1> QED BY <1>4, <1>5, <1>6, HomeRight

\* An operation that changes the memory only.
LEMMA MemoryOnly ==
  ASSUME NEW u, NEW v, NEW s, OnScreen(s, u, v), NEW e \in Memory, NEW r, RowsOf(e) = r
  PROVE  LET t == [s EXCEPT !.m = e] IN OnScreen(t, u, v) /\ Shows(t, r, <<s.x, s.y>>)
<1> DEFINE t == [s EXCEPT !.m = e]
<1>1. Tracked(t, u, v) /\ t.m = e /\ t.x = s.x /\ t.y = s.y BY MemoryTracked DEF OnScreen
<1> HIDE DEF t
<1>2. OnScreen(t, u, v) /\ Shows(t, r, <<s.x, s.y>>) BY <1>1 DEF OnScreen, Shows
<1> QED BY <1>2 DEF t

\* erase_to_eol and erase_to_eos erase what they should.
LEMMA EraseRight ==
  ASSUME NEW u, NEW v, NEW s, OnScreen(s, u, v)
  PROVE  LET l == erase_to_eol(s)
             a == erase_to_eos(s)
         IN  /\ OnScreen(l, u, v) /\ Shows(l, Screen!Erased(RowsOf(s.m), <<s.x, s.y>>, s.y), <<s.x, s.y>>)
             /\ OnScreen(a, u, v)
             /\ Shows(a, Screen!Erased(RowsOf(s.m), <<s.x, s.y>>, SCRN_ROWS - 1), <<s.x, s.y>>)
<1>1. s.m \in Memory /\ s.x \in Col /\ s.y \in Row BY Fields DEF OnScreen
<1>2. /\ CELL(0, s.y) + s.x = CELL(s.x, s.y) /\ CELL(0, s.y + 1) = CELL(0, s.y) + SCRN_COLS
      /\ CELL(0, s.y) \in Nat /\ s.x \in Nat
   BY <1>1, CellAt, CellBase DEF Col
<1>3. SCRN_COLS - s.x = CELL(0, s.y + 1) - CELL(s.x, s.y) BY <1>2, ScreenSizes
<1>4. Cells = CELL(0, (SCRN_ROWS - 1) + 1)
   <2>1. (SCRN_ROWS - 1) + 1 = SCRN_ROWS BY ScreenSizes
   <2> QED BY <2>1, CellBase
<1> DEFINE e == Memset(s.m, CELL(s.x, s.y), CELL(0, s.y + 1) - CELL(s.x, s.y))
           f == Memset(s.m, CELL(s.x, s.y), CELL(0, (SCRN_ROWS - 1) + 1) - CELL(s.x, s.y))
<1>5. erase_to_eol(s) = [s EXCEPT !.m = e] /\ erase_to_eos(s) = [s EXCEPT !.m = f]
   BY <1>3, <1>4 DEF erase_to_eol, erase_to_eos
<1>6. e \in Memory /\ RowsOf(e) = Screen!Erased(RowsOf(s.m), <<s.x, s.y>>, s.y)
   <2>1. s.y <= s.y BY <1>1, ScreenSizes DEF Row
   <2> QED BY <1>1, <2>1, EraseRows
<1>7. f \in Memory /\ RowsOf(f) = Screen!Erased(RowsOf(s.m), <<s.x, s.y>>, SCRN_ROWS - 1)
   <2>1. s.y <= SCRN_ROWS - 1 BY <1>1, ScreenSizes DEF Row
   <2> QED BY <1>1, <2>1, Corners, EraseRows
<1> HIDE DEF e, f
<1> QED BY <1>5, <1>6, <1>7, MemoryOnly

\* insert_line and delete_line move whole rows.
LEMMA LinesRight ==
  ASSUME NEW u, NEW v, NEW s, OnScreen(s, u, v)
  PROVE  LET i == insert_line(s)
             d == delete_line(s)
         IN  /\ OnScreen(i, u, v) /\ Shows(i, Screen!Inserted(RowsOf(s.m), s.y), <<s.x, s.y>>)
             /\ OnScreen(d, u, v) /\ Shows(d, Screen!Deleted(RowsOf(s.m), s.y), <<s.x, s.y>>)
<1>1. s.m \in Memory /\ s.y \in Row BY Fields DEF OnScreen
<1> DEFINE e == Memset(IF s.y + 1 < SCRN_ROWS
                       THEN Lddr(s.m, CELL(SCRN_COLS - 1, SCRN_ROWS - 1), CELL(SCRN_COLS - 1, SCRN_ROWS - 2),
                                 (SCRN_ROWS - 1 - s.y) * SCRN_COLS) ELSE s.m,
                       CELL(0, s.y), SCRN_COLS)
           f == Memset(IF s.y + 1 < SCRN_ROWS
                       THEN Ldir(s.m, CELL(0, s.y), CELL(0, s.y + 1), (SCRN_ROWS - 1 - s.y) * SCRN_COLS) ELSE s.m,
                       CELL(0, SCRN_ROWS - 1), SCRN_COLS)
<1>2. insert_line(s) = [s EXCEPT !.m = e] /\ delete_line(s) = [s EXCEPT !.m = f]
   BY DEF insert_line, delete_line
<1>3. e \in Memory /\ RowsOf(e) = Screen!Inserted(RowsOf(s.m), s.y) BY <1>1, InsertRows
<1>4. f \in Memory /\ RowsOf(f) = Screen!Deleted(RowsOf(s.m), s.y) BY <1>1, DeleteRows
<1> HIDE DEF e, f
<1> QED BY <1>2, <1>3, <1>4, MemoryOnly

\* print puts the character under the cursor and steps to the right.
LEMMA PrintRight ==
  ASSUME NEW u, NEW v, NEW s, OnScreen(s, u, v), NEW c \in 0 .. 255
  PROVE  LET t == print(c, s)
             a == Screen!Right([RowsOf(s.m) EXCEPT ![s.y][s.x] = c], <<s.x, s.y>>, 1)
         IN  OnScreen(t, u, v) /\ Shows(t, a.rows, a.pos)
<1>1. s \in Scr /\ s.m \in Memory /\ s.x \in Col /\ s.y \in Row BY Fields DEF OnScreen, Tracked
<1> DEFINE e == [s.m EXCEPT ![CELL(s.x, s.y)] = c]
           r == [RowsOf(s.m) EXCEPT ![s.y][s.x] = c]
           t1 == [s EXCEPT !.m = e]
<1>2. e \in Memory BY <1>1 DEF Memory
<1>3. RowsOf(e) = r
   <2>1. ASSUME NEW y \in Row, NEW x \in Col
         PROVE  e[CELL(x, y)] = IF y = s.y /\ x = s.x THEN c ELSE s.m[CELL(x, y)]
      <3>1. CELL(x, y) \in 0 .. Cells - 1 /\ CELL(s.x, s.y) \in 0 .. Cells - 1 BY <1>1, CellAt
      <3>2. CELL(x, y) = CELL(s.x, s.y) => y = s.y /\ x = s.x
         <4>1. /\ CELL(x, y) >= CELL(s.x, s.y) <=> y > s.y \/ (y = s.y /\ x >= s.x)
               /\ CELL(s.x, s.y) >= CELL(x, y) <=> s.y > y \/ (s.y = y /\ s.x >= x)
            BY <1>1, CellCompare
         <4>2. x \in Int /\ y \in Int /\ s.x \in Int /\ s.y \in Int BY <1>1 DEF Row, Col
         <4> QED BY <4>1, <4>2, <3>1, ScreenSizes
      <3> QED BY <3>1, <3>2, <1>1 DEF Memory
   <2>2. ASSUME NEW y \in Row, NEW x \in Col
         PROVE  r[y][x] = IF y = s.y /\ x = s.x THEN c ELSE s.m[CELL(x, y)]
      BY <1>1 DEF RowsOf
   <2>3. r = [y \in Row |-> r[y]] /\ \A y \in Row : r[y] = [x \in Col |-> r[y][x]]
      BY <1>1 DEF RowsOf
   <2> HIDE DEF e, r
   <2> QED BY <2>1, <2>2, <2>3, RowsEqual
<1>4. t1 = [s EXCEPT !.m[CELL(s.x, s.y)] = c] BY <1>1 DEF Scr
<1> HIDE DEF e, r
<1>5. OnScreen(t1, u, v) /\ RowsOf(t1.m) = r /\ t1.x = s.x /\ t1.y = s.y
   <2>1. Tracked(t1, u, v) /\ t1.m = e /\ t1.x = s.x /\ t1.y = s.y BY <1>2, MemoryTracked DEF OnScreen
   <2> QED BY <2>1, <1>1, <1>3 DEF OnScreen
<1>6. print(c, s) = cursor_right(t1) BY <1>4 DEF print
<1> HIDE DEF t1
<1> QED BY <1>5, <1>6, RightRight DEF r

\* Every byte outside an address has the effect it has on a terminal (impl_conout,
\* specc), and leaves the cursor on the screen.
LEMMA CodeRight ==
  ASSUME NEW u, NEW v, NEW s, OnScreen(s, u, v), NEW c \in 0 .. 255
  PROVE  LET t == IF c < 32 THEN specc(c, s) ELSE print(c, s)
             a == Screen!Effect(c, RowsOf(s.m), <<s.x, s.y>>)
         IN  OnScreen(t, u, v) /\ Shows(t, a.rows, a.pos)
<1> DEFINE r == RowsOf(s.m)
           p == <<s.x, s.y>>
           t == IF c < 32 THEN specc(c, s) ELSE print(c, s)
           a == Screen!Effect(c, r, p)
           Fine == OnScreen(t, u, v) /\ Shows(t, a.rows, a.pos)
<1>0. p[1] = s.x /\ p[2] = s.y OBVIOUS
<1>x. Tracked(s, u, v) /\ s.x \in Col /\ s.y \in Row BY Fields DEF OnScreen
<1>y. ASSUME NEW w, NEW z PROVE Screen!At(w, z).rows = w /\ Screen!At(w, z).pos = z
   BY DEF Screen!At
<1> HIDE DEF r, p
<1>1. CASE c = 1
   <2>1. t = insert_line(s) /\ a = Screen!At(Screen!Inserted(r, p[2]), p)
      BY <1>1 DEF specc, Screen!Effect
   <2> QED BY <2>1, <1>0, <1>y, LinesRight DEF r, p
<1>2. CASE c = 2
   <2>1. t = delete_line(s) /\ a = Screen!At(Screen!Deleted(r, p[2]), p)
      BY <1>2 DEF specc, Screen!Effect
   <2> QED BY <2>1, <1>0, <1>y, LinesRight DEF r, p
<1>3. CASE c \in {5, 8}
   <2>1. t = cursor_left(s) /\ a = Screen!At(r, Screen!Left(p))
      BY <1>3 DEF specc, Screen!Effect
   <2> QED BY <2>1, <1>y, LeftRight DEF r, p
<1>4. CASE c \in {6, 29}
   <2>1. t = home(s) /\ a = Screen!At(r, <<0, 0>>)
      BY <1>4 DEF specc, Screen!Effect
   <2> QED BY <2>1, <1>x, <1>y, HomeRight DEF r, p
<1>5. CASE c = 9
   <2>1. t = tab(s) /\ a = Screen!Right(r, p, 4)
      BY <1>5 DEF specc, Screen!Effect
   <2> QED BY <2>1, TabRight DEF r, p
<1>6. CASE c = 10
   <2> DEFINE d == cursor_down(s)
   <2>1. t = SetX(d, 0) /\ a = Screen!NewLine(r, p)
      BY <1>6 DEF specc, Screen!Effect
   <2>2. /\ Tracked(d, u, v) /\ d.x = s.x
         /\ IF s.y < SCRN_ROWS - 1 THEN d.m = s.m /\ d.y = s.y + 1
            ELSE d.y = s.y /\ RowsOf(d.m) = Screen!Scrolled(RowsOf(s.m))
      BY <1>x, DownRight
   <2> HIDE DEF d
   <2>3. Tracked(t, u, v) /\ t.x = 0 /\ t.y = d.y /\ t.m = d.m
      <3>1. 0 \in 0 .. SCRN_COLS BY ScreenSizes
      <3> QED BY <3>1, <2>1, <2>2, SetXTracked
   <2> HIDE DEF t, a
   <2>4. OnScreen(t, u, v) BY <2>3, Corners DEF OnScreen
   <2>5. CASE s.y < SCRN_ROWS - 1
      <3>1. a = Screen!At(r, <<0, s.y + 1>>) BY <2>1, <2>5, <1>0 DEF Screen!NewLine
      <3>2. Shows(t, a.rows, a.pos) BY <3>1, <1>y, <2>2, <2>3, <2>5 DEF Shows, r
      <3> QED BY <2>4, <3>2 DEF t, a, r, p
   <2>6. CASE ~(s.y < SCRN_ROWS - 1)
      <3>1. a = Screen!At(Screen!Scrolled(r), <<0, s.y>>) BY <2>1, <2>6, <1>0 DEF Screen!NewLine
      <3>2. Shows(t, a.rows, a.pos) BY <3>1, <1>y, <2>2, <2>3, <2>6 DEF Shows, r
      <3> QED BY <2>4, <3>2 DEF t, a, r, p
   <2> QED BY <2>5, <2>6
<1>7. CASE c = 12
   <2>1. t = clear_screen(s) /\ a = Screen!At([y \in Row |-> Screen!BlankRow], <<0, 0>>)
      BY <1>7 DEF specc, Screen!Effect, Row, Screen!Row
   <2> QED BY <2>1, <1>x, <1>y, ClearRight DEF r, p
<1>8. CASE c = 13
   <2>1. t = SetX(s, 0) /\ a = Screen!At(r, <<0, s.y>>)
      BY <1>8, <1>0 DEF specc, Screen!Effect
   <2>2. Tracked(t, u, v) /\ t.x = 0 /\ t.y = s.y /\ t.m = s.m
      <3>1. 0 \in 0 .. SCRN_COLS BY ScreenSizes
      <3> QED BY <3>1, <2>1, <1>x, SetXTracked
   <2> HIDE DEF t, a
   <2>3. OnScreen(t, u, v) /\ Shows(t, a.rows, a.pos) BY <2>1, <2>2, <1>y, Corners DEF OnScreen, Shows, r
   <2> QED BY <2>3 DEF t, a, r, p
<1>9. CASE c = 24
   <2>1. t = cursor_right(s) /\ a = Screen!Right(r, p, 1)
      BY <1>9 DEF specc, Screen!Effect
   <2> QED BY <2>1, RightRight DEF r, p
<1>10. CASE c = 26
   <2> DEFINE z == (s.y - 1) % SCRN_ROWS
   <2>1. t = cursor_up(s) /\ a = Screen!At(r, <<s.x, z>>)
      BY <1>10, <1>0 DEF specc, Screen!Effect
   <2>2. Tracked(t, u, v) /\ t.x = s.x /\ t.m = s.m /\ t.y = z
      BY <2>1, <1>x, UpRight
   <2> HIDE DEF t, a, z
   <2>3. OnScreen(t, u, v) /\ Shows(t, a.rows, a.pos) BY <2>1, <2>2, <1>x, <1>y DEF OnScreen, Shows, r
   <2> QED BY <2>3 DEF t, a, r, p
<1>11. CASE c = 30
   <2>1. t = erase_to_eol(s) /\ a = Screen!At(Screen!Erased(r, p, p[2]), p)
      BY <1>11 DEF specc, Screen!Effect
   <2> QED BY <2>1, <1>0, <1>y, EraseRight DEF r, p
<1>12. CASE c = 31
   <2>1. t = erase_to_eos(s) /\ a = Screen!At(Screen!Erased(r, p, SCRN_ROWS - 1), p)
      BY <1>12 DEF specc, Screen!Effect
   <2> QED BY <2>1, <1>y, EraseRight DEF r, p
<1>13. CASE c >= 32
   <2>1. t = print(c, s) /\ a = Screen!Right([r EXCEPT ![p[2]][p[1]] = c], p, 1)
      BY <1>13 DEF Screen!Effect
   <2> QED BY <2>1, <1>0, PrintRight DEF r, p
<1>14. CASE c < 32 /\ c \notin {1, 2, 5, 8, 6, 29, 9, 10, 12, 13, 24, 26, 30, 31}
   <2>1. t = s /\ a = Screen!At(r, p)
      BY <1>14 DEF specc, Screen!Effect
   <2> QED BY <2>1, <1>y DEF Shows, r, p
<1> QED BY <1>1, <1>2, <1>3, <1>4, <1>5, <1>6, <1>7, <1>8, <1>9, <1>10, <1>11, <1>12, <1>13, <1>14

-------------------------------------------------------------------------------
(***************************************************************************)
(* The invariant and the theorems.                                         *)
(***************************************************************************)

Item == CursorStore \cup {<<"cur_dirty", 1>>}

\* The mark is the last of the stores, and stays off until it is made, when it
\* was off before the byte.
MarkIsLast ==
    /\ todo \in Seq(Item)
    /\ \A i \in 1 .. Len(todo) : todo[i][1] = "cur_dirty" <=> i = Len(todo)
    /\ todo # <<>> /\ ~from[3] => ~cur_dirty

ConsoleInv == ConsoleTypeOK /\ MarkIsLast /\ CursorShown

\* Cold boot leaves a cleared terminal.
LEMMA InitRight == ConsoleInit => ConsoleInv /\ Screen!Init
<1> SUFFICES ASSUME ConsoleInit PROVE ConsoleInv /\ Screen!Init OBVIOUS
<1>1. display \in Memory BY DEF ConsoleInit, Memory, Blank
<1>2. Cursor = <<0, 0>> BY AfterNone DEF ConsoleInit, Cursor
<1>3. ConsoleTypeOK
   <2>1. 0 \in Col /\ 0 \in Row /\ 0 \in 0 .. SCRN_COLS BY Corners
   <2>2. Cursor \in Col \X Row /\ crt \in (0 .. SCRN_COLS) \X Row BY <1>2, <2>1 DEF ConsoleInit
   <2>3. curx \in 0 .. SCRN_COLS /\ cury \in Row /\ xflg \in 0 .. 2 /\ xy_first \in 0 .. 255
      BY <2>1 DEF ConsoleInit
   <2>4. cur_dirty \in BOOLEAN BY DEF ConsoleInit
   <2> QED BY <1>1, <2>2, <2>3, <2>4 DEF ConsoleTypeOK, Memory, Col, Row
<1>4. MarkIsLast BY DEF ConsoleInit, MarkIsLast
<1>5. CursorShown BY DEF ConsoleInit, CursorShown
<1>6. RowsOf(display) = [y \in Row |-> Screen!BlankRow]
   <2>1. \A y \in Row, x \in Col : display[CELL(x, y)] = Blank BY CellAt DEF ConsoleInit
   <2> QED BY <2>1 DEF RowsOf, Screen!BlankRow, Screen!Col, Col, Blank, Screen!Blank
<1>7. Screen!Init BY <1>2, <1>6 DEF Screen!Init, RowsOf, Row, Col, Screen!Row, ConsoleInit
<1> QED BY <1>3, <1>4, <1>5, <1>7 DEF ConsoleInv

\* The state impl_conout starts from.
LEMMA ConsoleStarts ==
  ASSUME ConsoleInv, todo = <<>>
  PROVE  /\ OnScreen(State, curx, cury) /\ Cursor = <<curx, cury>>
         /\ State.m = display /\ State.x = curx /\ State.y = cury
<1>1. Cursor = <<curx, cury>> BY AfterNone DEF Cursor
<1>2. display \in Memory /\ curx \in Col /\ cury \in Row
   BY <1>1 DEF ConsoleInv, ConsoleTypeOK, Memory, Col, Row
<1>3. State \in Scr BY <1>2, Corners DEF State, Scr
<1>4. State.m = display /\ State.x = curx /\ State.y = cury /\ State.stores = <<>> BY DEF State
<1> QED BY <1>1, <1>2, <1>3, <1>4, AfterNone DEF OnScreen, Tracked

\* What is left to store for a byte leads to the cursor it means.
LEMMA DoesRight ==
  ASSUME NEW s, OnScreen(s, curx, cury), Does(s), curx' = curx, cury' = cury
  PROVE  /\ display' = s.m /\ s.m \in Memory /\ Cursor' = <<s.x, s.y>> /\ s.x \in Col /\ s.y \in Row
         /\ todo' \in Seq(Item) /\ todo' # <<>>
         /\ \A i \in 1 .. Len(todo') : todo'[i][1] = "cur_dirty" <=> i = Len(todo')
<1> DEFINE e == <<"cur_dirty", 1>>
<1>1. s.stores \in Seq(CursorStore) /\ s.m \in Memory /\ s.x \in Col /\ s.y \in Row
   BY DEF OnScreen, Tracked, Scr
<1>2. s.stores \in Seq(Item) /\ e \in Item BY <1>1 DEF Item
<1>3. todo' = Append(s.stores, e) /\ display' = s.m BY DEF Does, MarkedDirty
<1>4. todo' \in Seq(Item) /\ todo' # <<>> BY <1>2, <1>3
<1>5. e[1] = "cur_dirty" /\ e[1] # "curx" /\ e[1] # "cury" OBVIOUS
<1>6. After("curx", curx, Append(s.stores, e)) = s.x /\ After("cury", cury, Append(s.stores, e)) = s.y
   <2> HIDE DEF e
   <2>1. /\ After("curx", curx, Append(s.stores, e)) = After("curx", curx, s.stores)
         /\ After("cury", cury, Append(s.stores, e)) = After("cury", cury, s.stores)
      BY <1>2, <1>5, AfterAppend
   <2> QED BY <2>1 DEF OnScreen, Tracked
<1>7. Cursor' = <<s.x, s.y>>
   <2> HIDE DEF e
   <2> QED BY <1>3, <1>6 DEF Cursor
<1>8. ASSUME NEW i \in 1 .. Len(todo') PROVE todo'[i][1] = "cur_dirty" <=> i = Len(todo')
   <2>1. CASE i = Len(todo') BY <2>1, <1>1, <1>3, <1>5
   <2>2. CASE i # Len(todo')
      <3>1. i \in 1 .. Len(s.stores) /\ todo'[i] = s.stores[i] BY <2>2, <1>1, <1>3
      <3>2. s.stores[i] \in CursorStore BY <3>1, <1>1
      <3>3. s.stores[i][1] # "cur_dirty" BY <3>2 DEF CursorStore
      <3> QED BY <2>2, <3>1, <3>3
   <2> QED BY <2>1, <2>2
<1> QED BY <1>1, <1>3, <1>4, <1>7, <1>8

\* A call of impl_conout is a step of the terminal.
LEMMA ConoutRight ==
  ASSUME ConsoleInv, NEW c \in Input, Conout(c)
  PROVE  ConsoleInv' /\ Screen!Next
<1>1. /\ OnScreen(State, curx, cury) /\ Cursor = <<curx, cury>>
      /\ State.m = display /\ State.x = curx /\ State.y = cury
   BY ConsoleStarts DEF Conout
<1>2. c \in 0 .. 255 BY ConsoleAssumption
<1>3. curx' = curx /\ cury' = cury /\ cur_dirty' = cur_dirty /\ crt' = crt /\ from' = <<curx, cury, cur_dirty>>
   BY DEF Conout
<1>4. Tracked(State, curx, cury) BY <1>1 DEF OnScreen
<1>5. \E s : /\ OnScreen(s, curx, cury) /\ Does(s)
             /\ xflg' \in 0 .. 2 /\ xy_first' \in 0 .. 255
             /\ \/ /\ xflg = 0 /\ <<xflg', xy_first'>> = IF c = 6 THEN <<2, xy_first>> ELSE <<xflg, xy_first>>
                   /\ Shows(s, Screen!Effect(c, RowsOf(display), <<curx, cury>>).rows,
                               Screen!Effect(c, RowsOf(display), <<curx, cury>>).pos)
                \/ /\ xflg = 2 /\ xflg' = 1 /\ xy_first' = Coordinate(c)
                   /\ Shows(s, RowsOf(display), <<curx, cury>>)
                \/ /\ xflg = 1 /\ xflg' = 0 /\ xy_first' = Clamp(xy_first, SCRN_COLS)
                   /\ Shows(s, RowsOf(display), <<Clamp(xy_first, SCRN_COLS), Clamp(Coordinate(c), SCRN_ROWS)>>)
   <2>0. Coordinate(c) \in 0 .. 255 /\ xflg \in 0 .. 2 /\ xy_first \in 0 .. 255
      <3>1. Coordinate(c) \in 0 .. 255
         <4>1. c % 128 \in Int BY <1>2
         <4> QED BY <4>1 DEF Coordinate
      <3> QED BY <3>1 DEF ConsoleInv, ConsoleTypeOK
   <2>1. CASE xflg = 0
      <3> DEFINE t == IF c < 32 THEN specc(c, State) ELSE print(c, State)
                 a == Screen!Effect(c, RowsOf(display), <<curx, cury>>)
      <3>1. OnScreen(t, curx, cury) /\ Shows(t, a.rows, a.pos) BY <1>1, <1>2, CodeRight
      <3>2. Does(t) /\ xy_first' = xy_first /\ xflg' = IF c = 6 THEN 2 ELSE 0
         BY <2>1 DEF Conout, XyStep
      <3> HIDE DEF t, a
      <3> QED BY <3>1, <3>2, <2>0, <2>1 DEF a
   <2>2. CASE xflg = 2
      <3>1. Does(State) /\ xy_first' = Coordinate(c) /\ xflg' = 1 BY <2>2 DEF Conout, XyStep
      <3>2. Shows(State, RowsOf(display), <<curx, cury>>) BY <1>1 DEF Shows
      <3> QED BY <3>1, <3>2, <2>0, <2>2, <1>1
   <2>3. CASE xflg = 1
      <3> DEFINE x == Clamp(xy_first, SCRN_COLS)
                 y == Clamp(Coordinate(c), SCRN_ROWS)
                 t1 == SetX(State, x)
                 t == SetY(t1, y)
      <3>1. Does(t) /\ xy_first' = x /\ xflg' = 0 BY <2>3 DEF Conout, XyStep
      <3>2. x \in Col /\ y \in Row /\ x \in 0 .. SCRN_COLS /\ x \in 0 .. 255 BY <2>0, ScreenSizes DEF Clamp, Col, Row
      <3> HIDE DEF x, y
      <3>3. Tracked(t1, curx, cury) /\ t1.x = x /\ t1.m = display BY <3>2, <1>1, <1>4, SetXTracked
      <3> HIDE DEF t1
      <3>4. Tracked(t, curx, cury) /\ t.x = x /\ t.y = y /\ t.m = display BY <3>2, <3>3, SetYTracked
      <3> HIDE DEF t
      <3>5. OnScreen(t, curx, cury) /\ Shows(t, RowsOf(display), <<x, y>>) BY <3>2, <3>4 DEF OnScreen, Shows
      <3> QED BY <3>1, <3>2, <3>5, <2>3 DEF x, y
   <2> QED BY <2>0, <2>1, <2>2, <2>3
<1>6. PICK s : /\ OnScreen(s, curx, cury) /\ Does(s)
             /\ xflg' \in 0 .. 2 /\ xy_first' \in 0 .. 255
             /\ \/ /\ xflg = 0 /\ <<xflg', xy_first'>> = IF c = 6 THEN <<2, xy_first>> ELSE <<xflg, xy_first>>
                   /\ Shows(s, Screen!Effect(c, RowsOf(display), <<curx, cury>>).rows,
                               Screen!Effect(c, RowsOf(display), <<curx, cury>>).pos)
                \/ /\ xflg = 2 /\ xflg' = 1 /\ xy_first' = Coordinate(c)
                   /\ Shows(s, RowsOf(display), <<curx, cury>>)
                \/ /\ xflg = 1 /\ xflg' = 0 /\ xy_first' = Clamp(xy_first, SCRN_COLS)
                   /\ Shows(s, RowsOf(display), <<Clamp(xy_first, SCRN_COLS), Clamp(Coordinate(c), SCRN_ROWS)>>)
   BY <1>5
<1>7. /\ display' = s.m /\ s.m \in Memory /\ Cursor' = <<s.x, s.y>> /\ s.x \in Col /\ s.y \in Row
      /\ todo' \in Seq(Item) /\ todo' # <<>>
      /\ \A i \in 1 .. Len(todo') : todo'[i][1] = "cur_dirty" <=> i = Len(todo')
   BY <1>3, <1>6, DoesRight
<1>8. ConsoleTypeOK'
   BY <1>3, <1>6, <1>7 DEF ConsoleInv, ConsoleTypeOK, Memory, Col, Row, Cells
<1>9. MarkIsLast'
   BY <1>3, <1>7 DEF MarkIsLast
<1>10. CursorShown'
   BY <1>7 DEF CursorShown
<1>11. RowsOf(display') = RowsOf(s.m) BY <1>7
<1>12. Screen!Address(c) \/ Screen!Character(c)
   <2>1. CASE xflg = 0
      <3>1. /\ <<xflg', xy_first'>> = IF c = 6 THEN <<2, xy_first>> ELSE <<xflg, xy_first>>
            /\ RowsOf(display') = Screen!Effect(c, RowsOf(display), Cursor).rows
            /\ Cursor' = Screen!Effect(c, RowsOf(display), Cursor).pos
         BY <2>1, <1>1, <1>6, <1>7, <1>11 DEF Shows
      <3>2. Screen!Character(c)
         BY <2>1, <3>1 DEF Screen!Character, RowsOf, Row, Col
      <3> QED BY <3>2
   <2>2. CASE xflg = 2
      <3>1. RowsOf(display') = RowsOf(display) /\ Cursor' = Cursor /\ xflg' = 1 /\ xy_first' = Coordinate(c)
         BY <2>2, <1>1, <1>6, <1>7, <1>11 DEF Shows
      <3>2. Screen!Address(c)
         BY <2>2, <3>1 DEF Screen!Address, RowsOf, Row, Col, Coordinate
      <3> QED BY <3>2
   <2>3. CASE xflg = 1
      <3>1. /\ RowsOf(display') = RowsOf(display) /\ xflg' = 0 /\ xy_first' = Clamp(xy_first, SCRN_COLS)
            /\ Cursor' = <<Clamp(xy_first, SCRN_COLS), Clamp(Coordinate(c), SCRN_ROWS)>>
         BY <2>3, <1>1, <1>6, <1>7, <1>11 DEF Shows
      <3>2. Screen!Address(c)
         BY <2>3, <3>1 DEF Screen!Address, Screen!Coord, RowsOf, Row, Col, Coordinate, Clamp
      <3> QED BY <3>2
   <2> QED BY <2>1, <2>2, <2>3 DEF ConsoleInv, ConsoleTypeOK
<1> QED BY <1>8, <1>9, <1>10, <1>12 DEF ConsoleInv, Screen!Next

\* A store to memory is none: the cursor it leads to stays the same.
LEMMA StoreRight ==
  ASSUME ConsoleInv, Store
  PROVE  ConsoleInv' /\ Cursor' = Cursor
<1> DEFINE h == Head(todo)
<1>1. todo \in Seq(Item) /\ todo # <<>> BY DEF Store, ConsoleInv, MarkIsLast
<1>2. h \in Item /\ todo' = Tail(todo) /\ todo' \in Seq(Item) BY <1>1 DEF Store
<1>3. /\ curx' = IF h[1] = "curx" THEN h[2] ELSE curx
      /\ cury' = IF h[1] = "cury" THEN h[2] ELSE cury
      /\ (cur_dirty' <=> cur_dirty \/ h[1] = "cur_dirty") /\ cur_dirty' \in BOOLEAN
   BY DEF Store
<1>4. Cursor' = Cursor
   <2>1. After("curx", curx', Tail(todo)) = After("curx", curx, todo) BY <1>1, <1>3, AfterStore
   <2>2. After("cury", cury', Tail(todo)) = After("cury", cury, todo) BY <1>1, <1>3, AfterStore
   <2> QED BY <1>2, <2>1, <2>2 DEF Cursor
<1>5. curx' \in 0 .. SCRN_COLS /\ cury' \in Row
   <2>1. curx \in 0 .. SCRN_COLS /\ cury \in Row BY DEF ConsoleInv, ConsoleTypeOK, Row
   <2> HIDE DEF h
   <2>2. h[1] = "curx" => h[2] \in 0 .. SCRN_COLS BY <1>2 DEF Item, CursorStore
   <2>3. h[1] = "cury" => h[2] \in Row BY <1>2 DEF Item, CursorStore
   <2> QED BY <2>1, <2>2, <2>3, <1>3
<1>6. ConsoleTypeOK'
   <2> HIDE DEF h
   <2> QED BY <1>3, <1>4, <1>5 DEF ConsoleInv, ConsoleTypeOK, Store, Row, Cells
<1>7. /\ Len(todo) \in Nat \ {0} /\ Len(todo') = Len(todo) - 1 /\ h = todo[1]
      /\ \A i \in 1 .. Len(todo') : todo'[i] = todo[i + 1]
   BY <1>1, <1>2
<1>8. h[1] = "cur_dirty" <=> todo' = <<>>
   <2>1. todo[1][1] = "cur_dirty" <=> 1 = Len(todo) BY <1>7 DEF ConsoleInv, MarkIsLast
   <2>2. todo' = <<>> <=> Len(todo') = 0
      <3>1. ASSUME NEW q \in Seq(Item) PROVE q = <<>> <=> Len(q) = 0 OBVIOUS
      <3>2. todo' \in Seq(Item) BY <1>2
      <3> QED BY <3>1, <3>2
   <2> QED BY <2>1, <2>2, <1>7
<1>9. MarkIsLast'
   <2>1. ASSUME NEW i \in 1 .. Len(todo') PROVE todo'[i][1] = "cur_dirty" <=> i = Len(todo')
      <3>1. i + 1 \in 1 .. Len(todo) /\ todo'[i] = todo[i + 1] /\ (i = Len(todo') <=> i + 1 = Len(todo)) BY <1>7
      <3> QED BY <3>1 DEF ConsoleInv, MarkIsLast
   <2>2. ASSUME todo' # <<>>, ~from'[3] PROVE ~cur_dirty'
      <3>1. from' = from BY DEF Store
      <3> QED BY <3>1, <2>2, <1>1, <1>3, <1>8 DEF ConsoleInv, MarkIsLast
   <2> QED BY <2>1, <2>2, <1>2 DEF MarkIsLast
<1>10. CursorShown'
   BY <1>3, <1>8 DEF CursorShown
<1> QED BY <1>4, <1>6, <1>9, <1>10 DEF ConsoleInv

\* The handler is none either, and shows the cursor after the byte if it shows one.
LEMMA IsrRight ==
  ASSUME ConsoleInv, isr_crt
  PROVE  /\ ConsoleInv' /\ Cursor' = Cursor
         /\ ~from[3] => crt' = Cursor
<1>1. /\ curx' = curx /\ cury' = cury /\ todo' = todo /\ from' = from /\ crt' = <<curx, cury>>
      /\ display' = display /\ xflg' = xflg /\ xy_first' = xy_first /\ cur_dirty' \in BOOLEAN /\ ~cur_dirty'
   BY DEF isr_crt
<1>2. Cursor' = Cursor BY <1>1 DEF Cursor
<1>3. ConsoleTypeOK' BY <1>1, <1>2 DEF ConsoleInv, ConsoleTypeOK, Cells
<1>4. MarkIsLast' BY <1>1 DEF ConsoleInv, MarkIsLast
<1>5. CursorShown' BY <1>1 DEF CursorShown
<1>6. ASSUME ~from[3] PROVE crt' = Cursor
   <2>1. todo = <<>> BY <1>6 DEF ConsoleInv, MarkIsLast, isr_crt
   <2> QED BY <2>1, <1>1, AfterNone DEF Cursor
<1> QED BY <1>2, <1>3, <1>4, <1>5, <1>6 DEF ConsoleInv

\* Every step keeps the invariant, is a step of the terminal or none, and tears no
\* pair.
LEMMA NextRight ==
  ASSUME ConsoleInv, [ConsoleNext]_consoleVars
  PROVE  /\ ConsoleInv'
         /\ [Screen!Next]_(Screen!vars)
         /\ (crt' # crt /\ ~from[3]) => crt' \in {<<from[1], from[2]>>, Cursor}
<1>1. ASSUME NEW c \in Input, Conout(c) PROVE ConsoleInv' /\ Screen!Next /\ crt' = crt
   BY <1>1, ConoutRight DEF Conout
<1>2. ASSUME Store PROVE ConsoleInv' /\ UNCHANGED Screen!vars /\ crt' = crt
   <2>1. ConsoleInv' /\ Cursor' = Cursor BY <1>2, StoreRight
   <2>2. display' = display /\ xflg' = xflg /\ xy_first' = xy_first /\ crt' = crt BY <1>2 DEF Store
   <2> QED BY <2>1, <2>2 DEF Screen!vars, CELL
<1>3. ASSUME isr_crt PROVE ConsoleInv' /\ UNCHANGED Screen!vars /\ (~from[3] => crt' = Cursor)
   <2>1. ConsoleInv' /\ Cursor' = Cursor /\ (~from[3] => crt' = Cursor) BY <1>3, IsrRight
   <2>2. display' = display /\ xflg' = xflg /\ xy_first' = xy_first BY <1>3 DEF isr_crt
   <2> QED BY <2>1, <2>2 DEF Screen!vars, CELL
<1>4. ASSUME UNCHANGED consoleVars PROVE ConsoleInv' /\ UNCHANGED Screen!vars /\ crt' = crt
   <2>1. /\ curx' = curx /\ cury' = cury /\ todo' = todo /\ from' = from /\ crt' = crt /\ cur_dirty' = cur_dirty
         /\ display' = display /\ xflg' = xflg /\ xy_first' = xy_first
      BY <1>4 DEF consoleVars
   <2>2. Cursor' = Cursor BY <2>1 DEF Cursor
   <2>3. ConsoleInv' BY <2>1, <2>2 DEF ConsoleInv, ConsoleTypeOK, MarkIsLast, CursorShown, Cells
   <2> QED BY <2>1, <2>2, <2>3 DEF Screen!vars, CELL
<1> QED BY <1>1, <1>2, <1>3, <1>4 DEF ConsoleNext

\* The cursor stays on the screen, whatever bytes and coordinates impl_conout is
\* called with and whenever isr_crt runs, and no update of it is lost.
THEOREM CursorSafe == ConsoleSpec => []CursorKept
<1>1. ConsoleInit => ConsoleInv BY InitRight
<1>2. ConsoleInv /\ [ConsoleNext]_consoleVars => ConsoleInv' BY NextRight
<1>3. ConsoleInv => CursorKept BY DEF ConsoleInv, CursorKept
<1> QED BY <1>1, <1>2, <1>3, PTL DEF ConsoleSpec

\* isr_crt never shows a column of one position with a row of another ("never a torn
\* pair", isr.c), if the mark of the byte before had been taken off.
THEOREM NotTorn == ConsoleSpec => NeverTorn
<1>1. ConsoleInit => ConsoleInv BY InitRight
<1>2. ConsoleInv /\ [ConsoleNext]_consoleVars => ConsoleInv' BY NextRight
<1>3. ConsoleInv /\ [ConsoleNext]_consoleVars
      => [(crt' # crt /\ ~from[3]) => crt' \in {<<from[1], from[2]>>, Cursor}]_consoleVars
   BY NextRight
<1> QED BY <1>1, <1>2, <1>3, PTL DEF ConsoleSpec, NeverTorn

\* The console of CP/NOS is the terminal of the module Terminal, for every size of
\* screen: the block moves of display memory move rows as wholes although they overlap,
\* wrapping and addressing agree, and no interrupt between two stores shows.
THEOREM IsTerminal == ConsoleSpec => ImplementsTerminal
<1>1. ConsoleInit => ConsoleInv /\ Screen!Init BY InitRight
<1>2. ConsoleInv /\ [ConsoleNext]_consoleVars => ConsoleInv' /\ [Screen!Next]_(Screen!vars) BY NextRight
<1> QED BY <1>1, <1>2, PTL DEF ConsoleSpec, ImplementsTerminal, Screen!Spec

------------------------------------------------------------------------------
(* The netboot server and the station's start *)

\* The fields of the FCB; the name stays open.
FcbIs == fcb \in [name : {fcb.name}, ex : Nat, cr : 0 .. RecPerExt - 1]

\* While the image is read, _OPEN_FILES has what CPNOS.IMG was at its open, and
\* the records read so far are its first ones.
Reading ==
    /\ stage \in {"login", "open"} => image = <<>>
    /\ stage \in {"read", "close"} =>
        /\ IMG \in DOMAIN cache /\ cache[IMG] = opened
        /\ Key(fcb.name) = IMG /\ Position = Len(image)
        /\ Len(image) <= Limit /\ Len(image) <= Records(opened)
        /\ image = [r \in 1 .. Len(image) |-> ReadAt(opened, r - 1)]
        /\ Len(image) \in Nat
        /\ stage = "close" => Len(image) = Records(opened)

\* What is cached is the contents of a file that is there.
CachedKnown == \A k \in DOMAIN cache : Known(k)

\* The inductive invariant.
NetbootInv == NetbootTypeOK /\ FcbIs /\ Reading /\ CachedKnown /\ CacheCoherent

\* What the constants are.
LEMMA ImageSizes ==
  /\ RecSize \in Nat /\ RecSize > 0 /\ RecPerExt \in Nat /\ RecPerExt > 0
  /\ Limit \in Nat /\ MaxRec \in Nat
BY RecSizeAssumption, NetbootAssumption

\* The end of a file is where its last record ends.
LEMMA EndOfFile ==
  ASSUME NEW c \in Seq(Nat), NEW rec \in Nat
  PROVE  /\ Records(c) \in Nat
         /\ ReadAt(c, rec) = <<>> <=> rec >= Records(c)
<1> DEFINE lo == rec * RecSize
           hi == (rec + 1) * RecSize
           m == Min({Len(c), hi})
           d == SubSeq(c, lo + 1, m)
<1>1. Len(c) \in Nat /\ lo \in Nat /\ hi = lo + RecSize /\ hi \in Nat BY ImageSizes
<1>2. m = IF Len(c) <= hi THEN Len(c) ELSE hi BY <1>1, MinOfTwo
<1>3. PICK a \in Nat, k \in 0 .. RecSize - 1 : Len(c) + RecSize - 1 = a * RecSize + k
  <2>1. Len(c) + RecSize - 1 \in Nat /\ RecSize \in Nat \ {0} BY <1>1, ImageSizes
  <2> QED BY <2>1, Divided
<1>4. Records(c) = a
  <2>1. (a * RecSize + k) \div RecSize = a BY ImageSizes, DivMod
  <2> QED BY <1>3, <2>1 DEF Records
<1>5. rec >= a <=> lo >= Len(c)
  <2>1. CASE rec >= a
    <3>1. a * RecSize <= rec * RecSize BY <2>1, ImageSizes, Mult
    <3>2. a * RecSize \in Nat BY ImageSizes
    <3>3. Len(c) <= a * RecSize BY <1>1, <1>3, <3>2, ImageSizes
    <3> QED BY <2>1, <3>1, <3>2, <3>3, <1>1
  <2>2. CASE rec + 1 <= a
    <3>1. hi <= a * RecSize BY <2>2, ImageSizes, Mult
    <3>2. a * RecSize \in Nat BY ImageSizes
    <3>3. lo + RecSize <= a * RecSize BY <3>1, <1>1
    <3>4. a * RecSize <= Len(c) + RecSize - 1 BY <1>1, <1>3, <3>2, ImageSizes
    <3> HIDE DEF lo, hi
    <3>5. lo < Len(c) BY <3>2, <3>3, <3>4, <1>1, ImageSizes
    <3> QED BY <2>2, <3>5, <1>1
  <2> QED BY <2>1, <2>2
<1>6. d = <<>> <=> lo >= Len(c)
  <2> HIDE DEF lo, hi, m
  <2>1. m \in Nat /\ m <= Len(c) /\ (lo >= Len(c) <=> lo + 1 > m)
    BY <1>1, <1>2, ImageSizes
  <2>2. Len(d) = IF lo + 1 <= m THEN m - lo ELSE 0
    BY <2>1, <1>1
  <2>3. d \in Seq(Nat) BY <2>1, <1>1
  <2> HIDE DEF d
  <2> QED BY <2>1, <2>2, <2>3, <1>1
<1>7. ReadAt(c, rec) = IF d = <<>> THEN d ELSE d \o [i \in 1 .. RecSize - Len(d) |-> EOFCHAR]
  BY DEF ReadAt
<1>8. d # <<>> => d \o [i \in 1 .. RecSize - Len(d) |-> EOFCHAR] # <<>>
  <2> HIDE DEF lo, hi, m
  <2>1. m \in Nat /\ m <= Len(c) BY <1>1, <1>2, ImageSizes
  <2>2. d \in Seq(Nat) /\ Len(d) <= RecSize
    <3>1. Len(d) = IF lo + 1 <= m THEN m - lo ELSE 0 BY <2>1, <1>1
    <3> QED BY <3>1, <2>1, <1>1, <1>2, ImageSizes
  <2> HIDE DEF d
  <2>3. RecSize - Len(d) \in Nat BY <2>2, ImageSizes
  <2>4. [i \in 1 .. RecSize - Len(d) |-> EOFCHAR] \in Seq(Nat) BY <2>3 DEF EOFCHAR
  <2> QED BY <2>2, <2>4
<1> HIDE DEF d, lo
<1> QED BY <1>4, <1>5, <1>6, <1>7, <1>8

\* A write leaves a sequence of bytes.
LEMMA WriteAtType ==
  ASSUME NEW c \in Seq(Nat), NEW rec \in Nat, NEW s \in Sectors
  PROVE  WriteAt(c, rec, s) \in Seq(Nat)
<1> DEFINE off == rec * RecSize
           n == Max({Len(c), off + RecSize})
           x(i) == IF i \in off + 1 .. off + RecSize THEN s[i - off] ELSE IF i <= Len(c) THEN c[i] ELSE 0
<1>1. off \in Nat /\ Len(c) \in Nat /\ off + RecSize \in Nat BY ImageSizes
<1>2. s \in Seq(Nat) /\ Len(s) = RecSize BY NetbootAssumption
<1> HIDE DEF off
<1>3. n \in Nat BY <1>1, MaxOfTwo
<1>4. ASSUME NEW i \in 1 .. n PROVE x(i) \in Nat
  <2> HIDE DEF n
  <2>1. CASE i \in off + 1 .. off + RecSize
    <3>1. i - off \in 1 .. RecSize BY <2>1, <1>1, ImageSizes
    <3> QED BY <3>1, <2>1, <1>2
  <2>2. CASE i \notin off + 1 .. off + RecSize
    <3>1. i <= Len(c) => i \in 1 .. Len(c) BY <1>1, <1>3
    <3> QED BY <3>1, <2>2
  <2> QED BY <2>1, <2>2
<1>5. WriteAt(c, rec, s) = [i \in 1 .. n |-> x(i)] BY DEF WriteAt, off
<1> HIDE DEF n, x
<1> QED BY <1>3, <1>4, <1>5

-----------------------------------------------------------------------------
(* Tables *)

\* A table of the server: names to bytes.
IsTable(f) == \A k \in DOMAIN f : f[k] \in Seq(Nat)
Tables == IsTable(disk) /\ IsTable(writes) /\ IsTable(cache)

\* g is f with c for k; f without k; f with the name k changed to j.
IsPut(g, f, k, c) ==
    /\ DOMAIN g = DOMAIN f \cup {k} /\ g[k] = c
    /\ \A i \in DOMAIN f : i # k => g[i] = f[i]
    /\ IsTable(f) /\ c \in Seq(Nat) => IsTable(g)
IsDrop(g, f, k) ==
    /\ DOMAIN g = DOMAIN f \ {k}
    /\ \A i \in DOMAIN f \ {k} : g[i] = f[i]
    /\ IsTable(f) => IsTable(g)
IsMove(g, f, k, j) ==
    /\ k \notin DOMAIN f => g = f
    /\ k \in DOMAIN f => DOMAIN g = (DOMAIN f \ {k}) \cup {j} /\ g[j] = f[k]
    /\ \A i \in DOMAIN f \ {k, j} : i \in DOMAIN g /\ g[i] = f[i]
    /\ IsTable(f) => IsTable(g)

\* A table with an entry put in is what IsPut says.
LEMMA Puts == ASSUME NEW f, NEW k, NEW c PROVE IsPut(Put(f, k, c), f, k, c)
BY DEF Put, IsTable, IsPut

\* The same of a table without a key.
LEMMA Drops == ASSUME NEW f, NEW k PROVE IsDrop(Drop(f, k), f, k)
BY DEF Drop, Restrict, IsTable, IsDrop

\* The same of a table with a key renamed.
LEMMA Moves == ASSUME NEW f, NEW k, NEW j, k # j PROVE IsMove(Move(f, k, j), f, k, j)
<1>1. CASE k \notin DOMAIN f
  BY <1>1 DEF Move, Has, IsMove
<1>2. CASE k \in DOMAIN f
  <2> DEFINE g == Drop(f, k)
             h == Put(g, j, f[k])
  <2>1. Move(f, k, j) = h BY <1>2 DEF Move, Has
  <2>2. IsDrop(g, f, k) /\ IsPut(h, g, j, f[k]) BY Drops, Puts
  <2>3. IsTable(f) => f[k] \in Seq(Nat) BY <1>2 DEF IsTable
  <2> HIDE DEF g, h
  <2> QED BY <1>2, <2>1, <2>2, <2>3 DEF IsDrop, IsPut, IsMove
<1> QED BY <1>1, <1>2

\* What a file reads as is bytes.
LEMMA ContentType == ASSUME Tables, NEW k, Known(k) PROVE FileContent(k) \in Seq(Nat)
BY DEF Tables, IsTable, Known, FileContent, Has

\* The server's files: what is cached is a file that is there, and what it reads
\* as unless it is marked stale.
Kept == Tables /\ CachedKnown /\ CacheCoherent

\* It is enough to look at what is cached after the step.
LEMMA KeptIf ==
  ASSUME Tables', \A i \in DOMAIN cache' : Known(i)' /\ (i \in stale' \/ cache'[i] = FileContent(i)')
  PROVE  Kept'
BY DEF Kept, CachedKnown, CacheCoherent

\* What is known of a cached file.
LEMMA Cached ==
  ASSUME Kept, NEW i \in DOMAIN cache
  PROVE  Known(i) /\ (i \in stale \/ cache[i] = FileContent(i))
BY DEF Kept, CachedKnown, CacheCoherent

\* Files read as before when neither place they are kept in changes.
LEMMA SameFiles ==
  ASSUME UNCHANGED <<disk, writes>>
  PROVE  \A i : (Known(i)' <=> Known(i)) /\ FileContent(i)' = FileContent(i)
BY DEF Known, FileContent, Has

\* Nothing changes.
LEMMA SameKeeps == ASSUME Kept, UNCHANGED <<disk, writes, cache, stale>> PROVE Kept'
BY DEF Kept, Tables, IsTable, CachedKnown, CacheCoherent, Known, FileContent, Has

\* Opening a file caches what it reads as.
LEMMA OpenKeeps ==
  ASSUME Kept, NEW n, OpenOk(n), UNCHANGED <<disk, writes>>
  PROVE  Kept'
<1> DEFINE k == Key(n)
<1>1. Known(k) /\ cache' = Put(cache, k, FileContent(k)) /\ stale' = stale \ {k} BY DEF OpenOk
<1>2. \A i : (Known(i)' <=> Known(i)) /\ FileContent(i)' = FileContent(i) BY SameFiles
<1>3. FileContent(k) \in Seq(Nat) BY <1>1, ContentType DEF Kept
<1> HIDE DEF k
<1>4. IsPut(cache', cache, k, FileContent(k)) BY <1>1, Puts
<1>5. Tables' BY <1>3, <1>4 DEF Kept, Tables, IsPut
<1>6. ASSUME NEW i \in DOMAIN cache' PROVE Known(i)' /\ (i \in stale' \/ cache'[i] = FileContent(i)')
  <2>1. CASE i = k BY <1>1, <1>2, <1>4, <2>1 DEF IsPut
  <2>2. CASE i # k
    <3>1. i \in DOMAIN cache /\ cache'[i] = cache[i] BY <1>4, <2>2 DEF IsPut
    <3> QED BY <1>1, <1>2, <2>2, <3>1, Cached
  <2> QED BY <2>1, <2>2
<1> QED BY <1>5, <1>6, KeptIf

\* Closing one forgets it.
LEMMA CloseKeeps ==
  ASSUME Kept, CloseFile, UNCHANGED <<disk, writes>>
  PROVE  Kept'
<1> DEFINE k == Key(fcb.name)
<1>1. cache' = Drop(cache, k) /\ stale' = stale \ {k} BY DEF CloseFile
<1>2. \A i : (Known(i)' <=> Known(i)) /\ FileContent(i)' = FileContent(i) BY SameFiles
<1> HIDE DEF k
<1>3. IsDrop(cache', cache, k) BY <1>1, Drops
<1>4. Tables' BY <1>3 DEF Kept, Tables, IsDrop
<1>5. ASSUME NEW i \in DOMAIN cache' PROVE Known(i)' /\ (i \in stale' \/ cache'[i] = FileContent(i)')
  <2>1. i \in DOMAIN cache /\ i # k /\ cache'[i] = cache[i] BY <1>3 DEF IsDrop
  <2> QED BY <1>1, <1>2, <2>1, Cached
<1> QED BY <1>4, <1>5, KeptIf

\* A build puts another image in the host's file, behind the cache.
LEMMA RebuildKeeps == ASSUME Kept, build \in Nat \ {0}, Rebuild PROVE Kept'
<1> DEFINE b == Builds[build + 1]
<1>1. /\ disk' = Put(disk, IMG, b) /\ writes' = writes /\ cache' = cache
      /\ stale' = IF Has(cache, IMG) THEN stale \cup {IMG} ELSE stale
      /\ build < Len(Builds)
  BY DEF Rebuild
<1>2. b \in Seq(Nat) BY <1>1, NetbootAssumption
<1> HIDE DEF b
<1>3. IsPut(disk', disk, IMG, b) BY <1>1, Puts
<1>4. Tables' BY <1>1, <1>2, <1>3 DEF Kept, Tables, IsPut
<1>5. ASSUME NEW i \in DOMAIN cache' PROVE Known(i)' /\ (i \in stale' \/ cache'[i] = FileContent(i)')
  <2>1. i \in DOMAIN cache /\ Known(i) /\ (i \in stale \/ cache[i] = FileContent(i)) BY <1>1, Cached
  <2>2. CASE i = IMG BY <1>1, <1>3, <2>1, <2>2 DEF Known, Has, IsPut
  <2>3. CASE i # IMG
    <3>1. (i \in DOMAIN disk' <=> i \in DOMAIN disk) /\ (i \in DOMAIN disk => disk'[i] = disk[i])
      BY <1>3, <2>3 DEF IsPut
    <3>2. Known(i)' /\ FileContent(i)' = FileContent(i) BY <1>1, <2>1, <3>1 DEF Known, FileContent, Has
    <3> QED BY <1>1, <2>1, <3>2
  <2> QED BY <2>2, <2>3
<1> QED BY <1>4, <1>5, KeptIf

\* A file in memory gets other contents, and the cache follows or the key is stale.
LEMMA WriteKeeps ==
  ASSUME Kept, NEW k, NEW c \in Seq(Nat), writes' = Put(writes, k, c), disk' = disk,
         \/ cache' = Put(cache, k, c) /\ stale' = stale \ {k}
         \/ cache' = cache /\ stale' = IF Has(cache, k) THEN stale \cup {k} ELSE stale
  PROVE  Kept'
<1>1. IsPut(writes', writes, k, c) BY Puts
<1>2. Known(k)' /\ FileContent(k)' = c BY <1>1 DEF Known, FileContent, Has, IsPut
<1>3. ASSUME NEW i, i # k, Known(i) PROVE Known(i)' /\ FileContent(i)' = FileContent(i)
  <2>1. (i \in DOMAIN writes' <=> i \in DOMAIN writes) /\ (i \in DOMAIN writes => writes'[i] = writes[i])
    BY <1>1, <1>3 DEF IsPut
  <2> QED BY <1>3, <2>1 DEF Known, FileContent, Has
<1>4. ASSUME NEW i, i \in DOMAIN cache, i # k, cache'[i] = cache[i], i \in stale => i \in stale'
      PROVE  Known(i)' /\ (i \in stale' \/ cache'[i] = FileContent(i)')
  BY <1>3, <1>4, Cached
<1>5. CASE cache' = Put(cache, k, c) /\ stale' = stale \ {k}
  <2>1. IsPut(cache', cache, k, c) BY <1>5, Puts
  <2>2. Tables' BY <1>1, <2>1 DEF Kept, Tables, IsPut
  <2>3. ASSUME NEW i \in DOMAIN cache' PROVE Known(i)' /\ (i \in stale' \/ cache'[i] = FileContent(i)')
    <3>1. CASE i = k BY <1>2, <2>1, <3>1 DEF IsPut
    <3>2. CASE i # k BY <1>4, <1>5, <2>1, <3>2 DEF IsPut
    <3> QED BY <3>1, <3>2
  <2> QED BY <2>2, <2>3, KeptIf
<1>6. CASE cache' = cache /\ stale' = IF Has(cache, k) THEN stale \cup {k} ELSE stale
  <2>1. Tables' BY <1>1, <1>6 DEF Kept, Tables, IsPut
  <2>2. ASSUME NEW i \in DOMAIN cache' PROVE Known(i)' /\ (i \in stale' \/ cache'[i] = FileContent(i)')
    <3>1. CASE i = k BY <1>2, <1>6, <3>1 DEF Has
    <3>2. CASE i # k BY <1>4, <1>6, <3>2
    <3> QED BY <3>1, <3>2
  <2> QED BY <2>1, <2>2, KeptIf
<1> QED BY <1>5, <1>6

\* Deleting a file in memory forgets what was cached of it.
LEMMA DeleteKeeps ==
  ASSUME Kept, NEW k, writes' = Drop(writes, k), disk' = disk, Uncache(k)
  PROVE  Kept'
<1>0. cache' = Drop(cache, k) /\ stale' = stale \ {k} BY DEF Uncache
<1>1. IsDrop(cache', cache, k) /\ IsDrop(writes', writes, k) BY <1>0, Drops
<1>2. Tables' BY <1>1 DEF Kept, Tables, IsDrop
<1>3. ASSUME NEW i, i # k, Known(i) PROVE Known(i)' /\ FileContent(i)' = FileContent(i)
  <2>1. (i \in DOMAIN writes' <=> i \in DOMAIN writes) /\ (i \in DOMAIN writes => writes'[i] = writes[i])
    BY <1>1, <1>3 DEF IsDrop
  <2> QED BY <1>3, <2>1 DEF Known, FileContent, Has
<1>4. ASSUME NEW i \in DOMAIN cache' PROVE Known(i)' /\ (i \in stale' \/ cache'[i] = FileContent(i)')
  <2>1. i \in DOMAIN cache /\ i # k /\ cache'[i] = cache[i] BY <1>1 DEF IsDrop
  <2> QED BY <1>0, <1>3, <2>1, Cached
<1> QED BY <1>2, <1>4, KeptIf

\* After a rename that is not refused every file reads as before, the renamed one
\* under its new name.
LEMMA Renamed ==
  ASSUME NEW k, NEW j, Known(k), ~Known(j), writes' = Move(writes, k, j), disk' = Move(disk, k, j)
  PROVE  /\ k # j /\ Known(j)' /\ FileContent(j)' = FileContent(k)
         /\ \A i : Known(i) /\ i # k => i # j /\ Known(i)' /\ FileContent(i)' = FileContent(i)
<1>1. k # j /\ j \notin DOMAIN writes /\ j \notin DOMAIN disk /\ (k \in DOMAIN writes \/ k \in DOMAIN disk)
  BY DEF Known, Has
<1>2. IsMove(writes', writes, k, j) /\ IsMove(disk', disk, k, j) BY <1>1, Moves
<1>3. Known(j)' /\ FileContent(j)' = FileContent(k)
  BY <1>1, <1>2 DEF Known, FileContent, Has, IsMove
<1>4. ASSUME NEW i, Known(i), i # k PROVE i # j /\ Known(i)' /\ FileContent(i)' = FileContent(i)
  <2>1. i # j BY <1>4
  <2>2. /\ i \in DOMAIN writes => i \in DOMAIN writes' /\ writes'[i] = writes[i]
        /\ i \notin DOMAIN writes => i \notin DOMAIN writes'
        /\ i \in DOMAIN disk => i \in DOMAIN disk' /\ disk'[i] = disk[i]
    BY <1>2, <1>4, <2>1 DEF IsMove
  <2> QED BY <1>4, <2>1, <2>2 DEF Known, FileContent, Has
<1> QED BY <1>1, <1>3, <1>4

\* A rename takes what was cached along.
LEMMA RenameKeeps ==
  ASSUME Kept, NEW k, NEW j, Known(k), ~Known(j),
         writes' = Move(writes, k, j), disk' = Move(disk, k, j), cache' = Move(cache, k, j),
         stale' = IF k \in stale THEN (stale \ {k}) \cup {j} ELSE stale
  PROVE  Kept'
<1>1. /\ k # j /\ Known(j)' /\ FileContent(j)' = FileContent(k)
      /\ \A i : Known(i) /\ i # k => i # j /\ Known(i)' /\ FileContent(i)' = FileContent(i)
  BY Renamed
<1>2. IsMove(writes', writes, k, j) /\ IsMove(disk', disk, k, j) /\ IsMove(cache', cache, k, j)
  BY <1>1, Moves
<1>3. Tables' BY <1>2 DEF Kept, Tables, IsMove
<1>4. j \notin DOMAIN cache BY Cached
<1>5. ASSUME NEW i \in DOMAIN cache' PROVE Known(i)' /\ (i \in stale' \/ cache'[i] = FileContent(i)')
  <2>1. CASE i = j
    <3>1. k \in DOMAIN cache /\ cache'[j] = cache[k] BY <1>2, <1>4, <2>1 DEF IsMove
    <3>2. k \in stale \/ cache[k] = FileContent(k) BY <3>1, Cached
    <3> QED BY <1>1, <2>1, <3>1, <3>2
  <2>2. CASE i # j
    <3>1. i \in DOMAIN cache /\ i # k BY <1>2, <1>4, <1>1, <2>2 DEF IsMove
    <3>2. cache'[i] = cache[i] BY <1>2, <2>2, <3>1 DEF IsMove
    <3>3. Known(i) /\ (i \in stale \/ cache[i] = FileContent(i)) BY <3>1, Cached
    <3> QED BY <1>1, <2>2, <3>1, <3>2, <3>3
  <2> QED BY <2>1, <2>2
<1> QED BY <1>3, <1>5, KeptIf

-----------------------------------------------------------------------------
(* The station *)

\* The rest of the types.
Rest ==
    /\ stage \in {"unused", "off", "login", "open", "read", "close", "running", "halted"}
    /\ rc \in {0, 1, 255} /\ build \in 1 .. Len(Builds)

\* The parts of the invariant.
LEMMA Parts == NetbootInv <=> Kept /\ FcbIs /\ Reading /\ Rest
BY DEF NetbootInv, Kept, NetbootTypeOK, Tables, IsTable, FcbIs, Rest

\* The record after the one the FCB names.
LEMMA Advances ==
  ASSUME FcbIs, Advance
  PROVE  FcbIs' /\ fcb'.name = fcb.name /\ Position' = Position + 1 /\ Position \in Nat
<1>1. fcb.ex \in Nat /\ fcb.cr \in Nat /\ fcb.cr < RecPerExt BY ImageSizes DEF FcbIs
<1>2. fcb.ex * RecPerExt \in Nat /\ (fcb.ex + 1) * RecPerExt = fcb.ex * RecPerExt + RecPerExt
  BY <1>1, ImageSizes, Mult
<1>3. CASE fcb.cr + 1 < RecPerExt
  <2>1. fcb' = [fcb EXCEPT !.cr = @ + 1] BY <1>3 DEF Advance
  <2>2. /\ fcb'.name = fcb.name /\ fcb'.ex = fcb.ex /\ fcb'.cr = fcb.cr + 1
        /\ fcb' \in [name : {fcb'.name}, ex : Nat, cr : 0 .. RecPerExt - 1]
    BY <1>1, <1>3, <2>1, ImageSizes DEF FcbIs
  <2> QED BY <1>1, <1>2, <2>2 DEF Position, FcbIs
<1>4. CASE ~(fcb.cr + 1 < RecPerExt)
  <2>1. fcb' = [fcb EXCEPT !.cr = 0, !.ex = @ + 1] BY <1>4 DEF Advance
  <2>0. fcb = [name |-> fcb.name, ex |-> fcb.ex, cr |-> fcb.cr] BY DEF FcbIs
  <2>a. fcb' = [name |-> fcb.name, ex |-> fcb.ex + 1, cr |-> 0] BY <2>0, <2>1
  <2>2. /\ fcb'.name = fcb.name /\ fcb'.ex = fcb.ex + 1 /\ fcb'.cr = 0
        /\ fcb' \in [name : {fcb'.name}, ex : Nat, cr : 0 .. RecPerExt - 1]
    BY <1>1, <2>a, ImageSizes
  <2>3. fcb.cr + 1 = RecPerExt BY <1>1, <1>4, ImageSizes
  <2>4. Position' = (fcb.ex + 1) * RecPerExt BY <2>2, <1>2, ImageSizes DEF Position
  <2> QED BY <1>1, <1>2, <2>2, <2>3, <2>4, ImageSizes DEF Position, FcbIs
<1> QED BY <1>3, <1>4

\* The FCB of an answer to open and make.
LEMMA Opens ==
  ASSUME NEW n, Opened(n)
  PROVE  FcbIs' /\ Key(fcb'.name) = Key(n) /\ Position' = 0
<1>1. fcb' = [name |-> <<Key(n), FALSE>>, ex |-> 0, cr |-> 0] BY DEF Opened
<1> QED BY <1>1, ImageSizes DEF FcbIs, Position, Key

\* Outside the read loop nothing is said of the image.
LEMMA NotReading ==
  ASSUME stage' \notin {"login", "open", "read", "close"}
  PROVE  Reading'
BY DEF Reading

\* One record more, or the end of the file.
LEMMA BootReadKeeps == ASSUME Kept, FcbIs, Reading, Rest, BootRead PROVE FcbIs' /\ Reading' /\ Rest'
<1>1. /\ stage = "read" /\ cache' = cache /\ opened' = opened /\ build' = build
      /\ IMG \in DOMAIN cache /\ cache[IMG] = opened /\ Key(fcb.name) = IMG /\ Position = Len(image)
      /\ Len(image) <= Limit /\ Len(image) <= Records(opened) /\ Len(image) \in Nat
      /\ image = [r \in 1 .. Len(image) |-> ReadAt(opened, r - 1)]
  BY DEF BootRead, Reading, files
<1>2. opened \in Seq(Nat) BY <1>1 DEF Kept, Tables, IsTable
<1>3. Sector = ReadAt(opened, Len(image)) BY <1>1 DEF Sector
<1>4. Records(opened) \in Nat /\ (Sector = <<>> <=> Len(image) >= Records(opened)) BY <1>1, <1>2, <1>3, EndOfFile
<1>5. CASE Sector = <<>>
  <2>1. rc' = 1 /\ stage' = "close" /\ image' = image /\ fcb' = fcb BY <1>5 DEF BootRead
  <2>2. Len(image) = Records(opened) BY <1>1, <1>4, <1>5
  <2>3. Position' = Position BY <2>1 DEF Position
  <2> QED BY <1>1, <2>1, <2>2, <2>3 DEF Reading, Rest, FcbIs
<1>6. CASE Sector # <<>>
  <2>1. /\ rc' = 0 /\ Advance /\ image' = Append(image, Sector)
        /\ stage' = IF Len(image') > Limit THEN "halted" ELSE "read"
    BY <1>6 DEF BootRead
  <2>2. FcbIs' /\ fcb'.name = fcb.name /\ Position' = Position + 1 BY <2>1, Advances
  <2> DEFINE n == Len(image)
             S == {ReadAt(opened, r - 1) : r \in 1 .. n + 1}
  <2>3. image \in Seq(S) /\ Sector \in S
    <3>1. n \in Nat /\ n + 1 \in 1 .. n + 1 /\ (n + 1) - 1 = n BY <1>1
    <3>2. Sector \in S BY <1>3, <3>1
    <3>3. image = [r \in 1 .. n |-> ReadAt(opened, r - 1)] BY <1>1
    <3>4. \A r \in 1 .. n : ReadAt(opened, r - 1) \in S BY <3>1
    <3> HIDE DEF S, n
    <3>5. image \in [1 .. n -> S] BY <3>3, <3>4
    <3> QED BY <3>1, <3>2, <3>5
  <2>4. /\ Len(image') = n + 1 /\ image' \in Seq(S) /\ image'[n + 1] = Sector
        /\ \A r \in 1 .. n : image'[r] = image[r]
    <3> HIDE DEF S
    <3> QED BY <2>1, <2>3
  <2>5. \A r \in 1 .. n + 1 : image'[r] = ReadAt(opened, r - 1)
    <3> SUFFICES ASSUME NEW r \in 1 .. n + 1 PROVE image'[r] = ReadAt(opened, r - 1) OBVIOUS
    <3>1. CASE r = n + 1
      <4>1. r - 1 = n BY <1>1, <3>1
      <4> QED BY <1>3, <2>4, <3>1, <4>1
    <3>2. CASE r \in 1 .. n BY <1>1, <2>4, <3>2
    <3> QED BY <1>1, <3>1, <3>2
  <2>6. image' = [r \in 1 .. n + 1 |-> ReadAt(opened, r - 1)]
    <3> HIDE DEF S, n
    <3>1. n \in Nat BY <1>1 DEF n
    <3>2. image' = [r \in 1 .. n + 1 |-> image'[r]] BY <2>4, <3>1
    <3> QED BY <2>5, <3>2
  <2>7. n + 1 <= Records(opened) BY <1>1, <1>4, <1>6
  <2> HIDE DEF S
  <2>8. stage' = "read" => Len(image') <= Limit BY <1>1, <2>1, <2>4, ImageSizes
  <2>9. stage' \in {"read", "halted"} BY <2>1
  <2>10. Reading' BY <1>1, <2>2, <2>4, <2>6, <2>7, <2>8, <2>9 DEF Reading, Key
  <2> QED BY <1>1, <2>1, <2>2, <2>9, <2>10 DEF Rest
<1> QED BY <1>5, <1>6

\* The image is opened and none of it is read.
LEMMA BootOpenKeeps ==
  ASSUME Kept, FcbIs, Reading, Rest, BootOpen
  PROVE  FcbIs' /\ Reading' /\ Rest'
<1>0. stage = "open" /\ image' = image /\ build' = build /\ UNCHANGED <<disk, writes>> BY DEF BootOpen, files
<1>1. CASE ~Known(IMG)
  <2>1. rc' = 255 /\ stage' = "halted" /\ fcb' = fcb BY <1>1 DEF BootOpen
  <2> QED BY <1>0, <2>1, NotReading DEF Rest, FcbIs
<1>2. CASE Known(IMG)
  <2>1. OpenOk(BootName) /\ stage' = "read" /\ opened' = FileContent(IMG) BY <1>2 DEF BootOpen
  <2>2. Key(BootName) = IMG BY DEF Key, BootName
  <2>3. /\ cache' = Put(cache, IMG, opened') /\ Opened(BootName) /\ rc' = 0
    BY <2>1, <2>2 DEF OpenOk
  <2>4. IMG \in DOMAIN cache' /\ cache'[IMG] = opened'
    <3>1. IsPut(cache', cache, IMG, opened') BY <2>3, Puts
    <3> QED BY <3>1 DEF IsPut
  <2>5. FcbIs' /\ Key(fcb'.name) = IMG /\ Position' = 0 BY <2>2, <2>3, Opens
  <2>6. opened' \in Seq(Nat) BY <1>2, <2>1, ContentType DEF Kept
  <2>7. Records(opened') \in Nat BY <2>6, EndOfFile
  <2>8. image' = <<>> BY <1>0 DEF Reading
  <2>9. <<>> = [r \in 1 .. 0 |-> ReadAt(opened', r - 1)] OBVIOUS
  <2>10. Len(image') = 0 BY <2>8
  <2>11. Reading' BY <2>1, <2>4, <2>5, <2>7, <2>8, <2>9, <2>10, ImageSizes DEF Reading
  <2> QED BY <1>0, <2>1, <2>3, <2>5, <2>11 DEF Rest
<1> QED BY <1>1, <1>2

\* A rebuild disturbs neither the cached image nor what was read of it.
LEMMA RebuildApart ==
  ASSUME FcbIs, Reading, Rest, Rebuild
  PROVE  FcbIs' /\ Reading' /\ Rest'
<1>1. UNCHANGED <<cache, stage, image, opened, fcb, rc>> BY DEF Rebuild, boot
<1>2. build' = build + 1 /\ build < Len(Builds) /\ build \in 1 .. Len(Builds) BY DEF Rebuild, Rest
<1>3. Len(Builds) \in Nat BY NetbootAssumption
<1>4. build' \in 1 .. Len(Builds) BY <1>2, <1>3
<1>5. Position' = Position BY <1>1 DEF Position
<1> QED BY <1>1, <1>4, <1>5 DEF FcbIs, Reading, Rest

\* Every step of the boot keeps the invariant.
LEMMA BootKeeps == ASSUME NetbootInv, Boot \/ SessionEnds \/ Rebuild PROVE NetbootInv'
<1>0. Kept /\ FcbIs /\ Reading /\ Rest BY Parts
<1> SUFFICES Kept' /\ FcbIs' /\ Reading' /\ Rest'
  <2>1. NetbootInv' <=> Kept' /\ FcbIs' /\ Reading' /\ Rest' BY Parts, PTL
  <2> QED BY <2>1
<1>1. CASE PowerOn
  <2>1. /\ stage' = "login" /\ image' = <<>> /\ fcb' = [name |-> BootName, ex |-> 0, cr |-> 0]
        /\ UNCHANGED <<disk, writes, build, cache, stale, rc>>
    BY <1>1 DEF PowerOn, files
  <2>2. Kept' BY <1>0, <2>1, SameKeeps
  <2>3. FcbIs' BY <2>1, ImageSizes DEF FcbIs
  <2> QED BY <1>0, <2>1, <2>2, <2>3 DEF Reading, Rest
<1>2. CASE Login
  <2>1. /\ stage = "login" /\ stage' = "open" /\ rc' = 0
        /\ UNCHANGED <<disk, writes, build, cache, stale, fcb, image>>
    BY <1>2 DEF Login, files
  <2>2. Kept' BY <1>0, <2>1, SameKeeps
  <2> QED BY <1>0, <2>1, <2>2 DEF Reading, Rest, FcbIs
<1>3. CASE BootOpen
  <2>1. UNCHANGED <<disk, writes>> BY <1>3 DEF BootOpen, files
  <2>2. CASE Known(IMG)
    <3>1. OpenOk(BootName) BY <1>3, <2>2 DEF BootOpen
    <3> QED BY <1>0, <1>3, <2>1, <3>1, OpenKeeps, BootOpenKeeps
  <2>3. CASE ~Known(IMG)
    <3>1. UNCHANGED <<cache, stale>> BY <1>3, <2>3 DEF BootOpen
    <3> QED BY <1>0, <1>3, <2>1, <3>1, SameKeeps, BootOpenKeeps
  <2> QED BY <2>2, <2>3
<1>4. CASE BootRead
  <2>1. UNCHANGED <<disk, writes, cache, stale>> BY <1>4 DEF BootRead, files
  <2> QED BY <1>0, <1>4, <2>1, SameKeeps, BootReadKeeps
<1>5. CASE BootClose
  <2>1. CloseFile /\ rc' = 0 /\ stage' = "running" /\ UNCHANGED <<disk, writes, build, fcb>>
    BY <1>5 DEF BootClose, files
  <2>2. Kept' BY <1>0, <2>1, CloseKeeps
  <2> QED BY <1>0, <2>1, <2>2, NotReading DEF Rest, FcbIs
<1>6. CASE SessionEnds
  <2>1. stage' = "halted" /\ UNCHANGED <<disk, writes, build, cache, stale, fcb, rc>>
    BY <1>6 DEF SessionEnds, files
  <2>2. Kept' BY <1>0, <2>1, SameKeeps
  <2> QED BY <1>0, <2>1, <2>2, NotReading DEF Rest, FcbIs
<1>7. CASE Rebuild
  <2>1. build \in Nat \ {0}
    <3>1. Len(Builds) \in Nat BY NetbootAssumption
    <3> QED BY <1>0, <3>1 DEF Rest
  <2> QED BY <1>0, <1>7, <2>1, RebuildKeeps, RebuildApart
<1> QED BY <1>1, <1>2, <1>3, <1>4, <1>5, <1>6, <1>7 DEF Boot
-----------------------------------------------------------------------------
(* Programs *)

\* A call leaves the boot alone: what it owes is the files, the FCB and an answer.
LEMMA CallKeeps ==
  ASSUME NetbootInv, Program, Kept', FcbIs', rc' \in {0, 1, 255}
  PROVE  NetbootInv'
<1>1. stage' = "running" /\ build' = build BY DEF Program, boot
<1>2. Reading' BY <1>1, NotReading
<1>3. Rest' BY <1>1, Parts DEF Rest
<1>4. NetbootInv' <=> Kept' /\ FcbIs' /\ Reading' /\ Rest' BY Parts, PTL
<1> QED BY <1>2, <1>3, <1>4

\* A refused call changes nothing.
LEMMA RefusedKeeps == ASSUME NetbootInv, Program, Refused PROVE NetbootInv'
<1>1. UNCHANGED <<disk, writes, cache, fcb, stale>> /\ rc' = 255 BY DEF Refused
<1>2. Kept' /\ FcbIs' BY <1>1, Parts, SameKeeps DEF FcbIs
<1> QED BY <1>1, <1>2, CallKeeps

\* The files stay as they are, and the FCB advances at most.
LEMMA ReaderKeeps ==
  ASSUME NetbootInv, Program, UNCHANGED <<disk, writes, cache, stale>>, fcb' = fcb \/ Advance, rc' \in {0, 1, 255}
  PROVE  NetbootInv'
<1>1. Kept' BY Parts, SameKeeps
<1>2. FcbIs' BY Parts, Advances DEF FcbIs
<1> QED BY <1>1, <1>2, CallKeeps

\* fn 15.
LEMMA OpenStep == ASSUME NetbootInv, NEW n, Open(n) PROVE NetbootInv'
<1>0. Program /\ Kept BY Parts DEF Open
<1>1. CASE Known(Key(n))
  <2>1. OpenOk(n) /\ UNCHANGED <<disk, writes>> BY <1>1 DEF Open
  <2>2. Opened(n) /\ rc' = 0 BY <2>1 DEF OpenOk
  <2> QED BY <1>0, <2>1, <2>2, OpenKeeps, Opens, CallKeeps
<1>2. CASE ~Known(Key(n)) BY <1>0, <1>2, RefusedKeeps DEF Open
<1> QED BY <1>1, <1>2

\* fn 22.
LEMMA MakeStep == ASSUME NetbootInv, NEW n, MakeFile(n) PROVE NetbootInv'
<1>0. Program /\ Kept BY Parts DEF MakeFile
<1>1. CASE ~Has(disk, Key(n))
  <2>1. /\ writes' = Put(writes, Key(n), <<>>) /\ cache' = Put(cache, Key(n), <<>>)
        /\ stale' = stale \ {Key(n)} /\ Opened(n) /\ rc' = 0 /\ disk' = disk
    BY <1>1 DEF MakeFile
  <2>2. <<>> \in Seq(Nat) OBVIOUS
  <2>3. Kept' BY <1>0, <2>1, <2>2, WriteKeeps
  <2> QED BY <1>0, <2>1, <2>3, Opens, CallKeeps
<1>2. CASE Has(disk, Key(n)) BY <1>0, <1>2, RefusedKeeps DEF MakeFile
<1> QED BY <1>1, <1>2

\* fn 21: the record goes to the file in memory and the cache follows.
LEMMA WriteSeqStep == ASSUME NetbootInv, NEW data \in Sectors, WriteSeq(data) PROVE NetbootInv'
<1> DEFINE k == Key(fcb.name)
           c == WriteAt(writes[k], Position, data)
<1>0. Program /\ Kept /\ FcbIs BY Parts DEF WriteSeq
<1>1. CASE Has(writes, k)
  <2>1. writes' = Put(writes, k, c) /\ RefreshCache(k) /\ Advance /\ rc' = 0 /\ disk' = disk
    BY <1>1 DEF WriteSeq
  <2>2. FcbIs' /\ Position \in Nat BY <1>0, <2>1, Advances
  <2>3. writes[k] \in Seq(Nat) BY <1>0, <1>1 DEF Kept, Tables, IsTable, Has
  <2>4. c \in Seq(Nat) BY <2>2, <2>3, WriteAtType
  <2> HIDE DEF c, k
  <2>5. writes'[k] = c
    <3>1. IsPut(writes', writes, k, c) BY <2>1, Puts
    <3> QED BY <3>1 DEF IsPut
  <2>6. cache' = Put(cache, k, c) /\ stale' = stale \ {k} BY <2>1, <2>5 DEF RefreshCache
  <2>7. Kept' BY <1>0, <2>1, <2>4, <2>6, WriteKeeps
  <2> QED BY <1>0, <2>1, <2>2, <2>7, CallKeeps
<1>2. CASE ~Has(writes, k) BY <1>0, <1>2, RefusedKeeps DEF WriteSeq
<1> QED BY <1>1, <1>2

\* fn 34: the record goes to the file in memory, behind the cache.
LEMMA WriteRandStep == ASSUME NetbootInv, NEW rec \in Nat, NEW data \in Sectors, WriteRand(rec, data) PROVE NetbootInv'
<1> DEFINE k == Key(fcb.name)
           c == WriteAt(FileContent(k), rec, data)
<1>0. Program /\ Kept /\ FcbIs BY Parts DEF WriteRand
<1>1. CASE Known(k)
  <2>1. /\ writes' = Put(writes, k, c) /\ rc' = 0 /\ UNCHANGED <<disk, cache, fcb>>
        /\ stale' = IF Has(cache, k) THEN stale \cup {k} ELSE stale
    BY <1>1 DEF WriteRand
  <2>2. c \in Seq(Nat)
    <3>1. FileContent(k) \in Seq(Nat) BY <1>0, <1>1, ContentType DEF Kept
    <3> QED BY <3>1, WriteAtType
  <2> HIDE DEF c, k
  <2>3. Kept' BY <1>0, <2>1, <2>2, WriteKeeps
  <2> QED BY <1>0, <2>1, <2>3, CallKeeps DEF FcbIs
<1>2. CASE ~Known(k) BY <1>0, <1>2, RefusedKeeps DEF WriteRand
<1> QED BY <1>1, <1>2

\* fn 19.
LEMMA DeleteStep == ASSUME NetbootInv, NEW n, Delete(n) PROVE NetbootInv'
<1>0. Program /\ Kept /\ FcbIs BY Parts DEF Delete
<1>1. CASE Has(writes, Key(n))
  <2>1. writes' = Drop(writes, Key(n)) /\ Uncache(Key(n)) /\ rc' = 0 /\ UNCHANGED <<disk, fcb>>
    BY <1>1 DEF Delete
  <2>2. Kept' BY <1>0, <2>1, DeleteKeeps
  <2> QED BY <1>0, <2>1, <2>2, CallKeeps DEF FcbIs
<1>2. CASE ~Has(writes, Key(n)) BY <1>0, <1>2, RefusedKeeps DEF Delete
<1> QED BY <1>1, <1>2

\* fn 23.
LEMMA RenameStep == ASSUME NetbootInv, NEW n, NEW m, Rename(n, m) PROVE NetbootInv'
<1>0. Program /\ Kept /\ FcbIs BY Parts DEF Rename
<1>1. CASE Known(Key(n)) /\ ~Known(Key(m))
  <2>1. /\ writes' = Move(writes, Key(n), Key(m)) /\ cache' = Move(cache, Key(n), Key(m))
        /\ disk' = Move(disk, Key(n), Key(m)) /\ rc' = 0 /\ fcb' = fcb
        /\ stale' = IF Key(n) \in stale THEN (stale \ {Key(n)}) \cup {Key(m)} ELSE stale
    BY <1>1 DEF Rename, Taken
  <2>2. Kept' BY <1>0, <1>1, <2>1, RenameKeeps
  <2> QED BY <1>0, <2>1, <2>2, CallKeeps DEF FcbIs
<1>2. CASE ~Known(Key(n)) \/ Known(Key(m)) BY <1>0, <1>2, RefusedKeeps DEF Rename, Taken
<1> QED BY <1>1, <1>2

\* fn 16.
LEMMA CloseStep == ASSUME NetbootInv, Close PROVE NetbootInv'
<1>1. Program /\ Kept /\ FcbIs /\ UNCHANGED <<disk, writes, fcb>> /\ CloseFile /\ rc' = 0
  BY Parts DEF Close
<1> QED BY <1>1, CloseKeeps, CallKeeps DEF FcbIs

\* Every call keeps the invariant.
LEMMA CallsKeep == ASSUME NetbootInv, Call PROVE NetbootInv'
<1>1. CASE \E n \in Names : Open(n) \/ MakeFile(n) \/ Delete(n)
  BY <1>1, OpenStep, MakeStep, DeleteStep
<1>2. CASE \E k, j \in Keys : Rename(<<k, FALSE>>, <<j, FALSE>>)
  BY <1>2, RenameStep
<1>3. CASE ReadSeq
  <2>1. Program /\ UNCHANGED <<disk, writes, cache, stale>> /\ (fcb' = fcb \/ Advance) /\ rc' \in {0, 1, 255}
    BY <1>3 DEF ReadSeq
  <2> QED BY <2>1, ReaderKeeps
<1>4. CASE Close BY <1>4, CloseStep
<1>5. CASE SearchNext \/ SearchFirst(Keys)
  <2>1. Program /\ UNCHANGED <<disk, writes, cache, fcb, stale>> /\ rc' \in {0, 255}
    BY <1>5 DEF SearchNext, SearchFirst, SearchReply
  <2> QED BY <2>1, ReaderKeeps
<1>6. CASE OnlyAnswers
  <2>1. Program /\ UNCHANGED <<disk, writes, cache, fcb, stale>> /\ rc' = 0 BY <1>6 DEF OnlyAnswers
  <2> QED BY <2>1, ReaderKeeps
<1>7. CASE \E data \in Sectors : WriteSeq(data) BY <1>7, WriteSeqStep
<1>8. CASE \E rec \in 0 .. MaxRec - 1 : ReadRand(rec)
  <2>1. PICK rec \in 0 .. MaxRec - 1 : ReadRand(rec) BY <1>8
  <2>2. Program /\ UNCHANGED <<disk, writes, cache, fcb, stale>> /\ rc' \in {0, 1, 255} BY <2>1 DEF ReadRand
  <2> QED BY <2>2, ReaderKeeps
<1>9. CASE \E rec \in 0 .. MaxRec - 1 : \E data \in Sectors : WriteRand(rec, data)
  <2>1. \A rec \in 0 .. MaxRec - 1 : rec \in Nat BY ImageSizes
  <2> QED BY <1>9, <2>1, WriteRandStep
<1> QED BY <1>1, <1>2, <1>3, <1>4, <1>5, <1>6, <1>7, <1>8, <1>9 DEF Call

\* The server starts with the host's files and nothing in memory.
LEMMA NetbootStarts == ASSUME NetbootInit PROVE NetbootInv
<1>1. /\ disk = Put(HostFiles, IMG, Builds[1]) /\ build = 1 /\ writes = <<>> /\ cache = <<>>
      /\ stage = "off" /\ rc = 0 /\ fcb = [name |-> BootName, ex |-> 0, cr |-> 0]
  BY DEF NetbootInit, NetbootStart
<1>2. 1 \in 1 .. Len(Builds) /\ Builds[1] \in Seq(Nat) BY NetbootAssumption
<1>3. IsTable(HostFiles) BY NetbootAssumption DEF IsTable
<1>4. IsPut(disk, HostFiles, IMG, Builds[1]) BY <1>1, Puts
<1>5. IsTable(disk) BY <1>2, <1>3, <1>4 DEF IsPut
<1>6. DOMAIN writes = {} /\ DOMAIN cache = {} BY <1>1
<1>7. Kept BY <1>5, <1>6 DEF Kept, Tables, IsTable, CachedKnown, CacheCoherent
<1>8. FcbIs BY <1>1, ImageSizes DEF FcbIs
<1>9. Reading /\ Rest BY <1>1, <1>2 DEF Reading, Rest
<1> QED BY <1>7, <1>8, <1>9, Parts

\* No step at all.
LEMMA Stutters == ASSUME NetbootInv, UNCHANGED netbootVars PROVE NetbootInv'
BY DEF NetbootInv, NetbootTypeOK, FcbIs, Reading, CachedKnown, CacheCoherent, Known, FileContent, Has,
   Position, netbootVars

\* The invariant is inductive.
LEMMA StepKeeps == NetbootInv /\ [NetbootNext]_netbootVars => NetbootInv'
BY BootKeeps, CallsKeep, Stutters DEF NetbootNext

\* It holds of every behaviour.
LEMMA Invariant == NetbootSpec => []NetbootInv
<1>1. NetbootInit => NetbootInv BY NetbootStarts
<1> QED BY <1>1, StepKeeps, PTL DEF NetbootSpec

\* The station starts a whole version of CPNOS.IMG that fits, the one it opened, whatever
\* is built while it reads.
THEOREM OneVersion == NetbootSpec => []WholeImage
<1>1. NetbootInv => WholeImage BY DEF NetbootInv, Reading, WholeImage
<1> QED BY <1>1, Invariant, PTL

\* The places the server keeps files in stay in step, and a rename loses none of them.
THEOREM ServerFiles == NetbootSpec => FilesKept
<1> DEFINE A == files' # files /\ rc' = 0 =>
          \A k, j \in Keys : Rename(<<k, FALSE>>, <<j, FALSE>>) =>
             \A i \in {i \in Keys \cup {IMG} : Known(i)} :
                LET i2 == IF i = k THEN j ELSE i
                IN  Known(i2)' /\ FileContent(i2)' = FileContent(i)
<1>1. NetbootInv => NetbootTypeOK /\ CacheCoherent BY DEF NetbootInv
<1>2. A
  <2> SUFFICES ASSUME rc' = 0, NEW k \in Keys, NEW j \in Keys, Rename(<<k, FALSE>>, <<j, FALSE>>),
                      NEW i, Known(i)
               PROVE  LET i2 == IF i = k THEN j ELSE i
                      IN  Known(i2)' /\ FileContent(i2)' = FileContent(i)
    OBVIOUS
  <2>1. Known(k) /\ ~Known(j) /\ writes' = Move(writes, k, j) /\ disk' = Move(disk, k, j)
    BY DEF Rename, Key, Taken, Refused
  <2>2. /\ k # j /\ Known(j)' /\ FileContent(j)' = FileContent(k)
        /\ \A h : Known(h) /\ h # k => h # j /\ Known(h)' /\ FileContent(h)' = FileContent(h)
    BY <2>1, Renamed
  <2>3. CASE i = k BY <2>2, <2>3
  <2>4. CASE i # k BY <2>2, <2>4
  <2> QED BY <2>3, <2>4
<1>3. [][A]_netbootVars BY <1>2, PTL
<1>4. RenameKeepsFiles BY <1>3 DEF RenameKeepsFiles
<1> QED BY <1>1, <1>4, Invariant, PTL DEF FilesKept
==============================================================================
