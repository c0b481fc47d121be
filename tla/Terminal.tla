------------------------------- MODULE Terminal -------------------------------
(***************************************************************************)
(* What the RC700 console promises: a screen of rows, a cursor, and the    *)
(* effect of each byte sent to it.  Rows move as wholes, and a byte acts   *)
(* at once.                                                                *)
(***************************************************************************)
EXTENDS Integers

CONSTANTS COLS, ROWS, Input

Blank == 32     \* ASCII space

VARIABLES
    rows,       \* [row -> [column -> character]]
    pos,        \* the cursor: <<column, row>>
    args        \* coordinates still expected after ctrl-F, and the first of them

vars == <<rows, pos, args>>

Row == 0 .. ROWS - 1
Col == 0 .. COLS - 1
BlankRow == [x \in Col |-> Blank]

Scrolled(r) == [y \in Row |-> IF y = ROWS - 1 THEN BlankRow ELSE r[y + 1]]
Inserted(r, at) ==
    [y \in Row |-> IF y < at THEN r[y] ELSE IF y = at THEN BlankRow ELSE r[y - 1]]
Deleted(r, at) ==
    [y \in Row |-> IF y < at THEN r[y] ELSE IF y = ROWS - 1 THEN BlankRow ELSE r[y + 1]]
\* The screen from cell <<x, y>> on, up to the end of row last, erased.
Erased(r, p, last) ==
    [y \in Row |-> [x \in Col |->
        IF y <= last /\ (y > p[2] \/ (y = p[2] /\ x >= p[1])) THEN Blank ELSE r[y][x]]]

\* A screen and cursor after n steps to the right, wrapping and scrolling.
Right(r, p, n) ==
    LET cell == p[2] * COLS + p[1] + n
        over == IF cell \div COLS < ROWS THEN 0 ELSE cell \div COLS - (ROWS - 1)
    IN  [rows |-> [y \in Row |-> IF y + over < ROWS THEN r[y + over] ELSE BlankRow],
         pos  |-> <<cell % COLS, cell \div COLS - over>>]

Left(p) ==
    IF p[1] > 0 THEN <<p[1] - 1, p[2]>> ELSE <<COLS - 1, (p[2] - 1) % ROWS>>

At(r, p) == [rows |-> r, pos |-> p]

NewLine(r, p) ==
    IF p[2] < ROWS - 1 THEN At(r, <<0, p[2] + 1>>) ELSE At(Scrolled(r), <<0, p[2]>>)

\* What a character or a control code makes of a screen and its cursor.
Effect(c, r, p) ==
    CASE c = 1  -> At(Inserted(r, p[2]), p)
      [] c = 2  -> At(Deleted(r, p[2]), p)
      [] c \in {5, 8} -> At(r, Left(p))
      [] c \in {6, 29} -> At(r, <<0, 0>>)
      [] c = 9  -> Right(r, p, 4)
      [] c = 10 -> NewLine(r, p)
      [] c = 12 -> At([y \in Row |-> BlankRow], <<0, 0>>)
      [] c = 13 -> At(r, <<0, p[2]>>)
      [] c = 24 -> Right(r, p, 1)
      [] c = 26 -> At(r, <<p[1], (p[2] - 1) % ROWS>>)
      [] c = 30 -> At(Erased(r, p, p[2]), p)
      [] c = 31 -> At(Erased(r, p, ROWS - 1), p)
      [] c >= 32 -> Right([r EXCEPT ![p[2]][p[1]] = c], p, 1)
      [] OTHER -> At(r, p)

Coord(c, limit) ==
    LET v == ((c % 128) - 32) % 256 IN IF v < limit THEN v ELSE 0

\* A byte that is a coordinate.
Address(c) ==
    /\ args[1] > 0
    /\ \/ /\ args[1] = 2
          /\ args' = <<1, ((c % 128) - 32) % 256>>
          /\ UNCHANGED <<rows, pos>>
       \/ /\ args[1] = 1
          /\ pos' = <<IF args[2] < COLS THEN args[2] ELSE 0, Coord(c, ROWS)>>
          /\ args' = <<0, IF args[2] < COLS THEN args[2] ELSE 0>>
          /\ UNCHANGED rows

\* A byte that is a character or a control code.
Character(c) ==
    /\ args[1] = 0
    /\ args' = IF c = 6 THEN <<2, args[2]>> ELSE args
    /\ rows' = Effect(c, rows, pos).rows
    /\ pos' = Effect(c, rows, pos).pos

Init ==
    /\ rows = [y \in Row |-> BlankRow]
    /\ pos = <<0, 0>>
    /\ args = <<0, 0>>

Next == \E c \in Input : Address(c) \/ Character(c)

Spec == Init /\ [][Next]_vars
=============================================================================
