----------------------------- MODULE CpnosConsole -----------------------------
(***************************************************************************)
(* The console output of the CP/NOS ROM: impl_conout (cpnos-rom/           *)
(* resident.c) interprets a byte, moves blocks of display memory and       *)
(* stores the new cursor position; the display refresh interrupt (isr_crt, *)
(* cpnos-rom/isr.c) copies the position to the 8275 CRT controller when    *)
(* cur_dirty says so.  The handler may run between any two stores to curx, *)
(* cury and cur_dirty: they are the list todo, worked off one by one.      *)
(* Display memory is not looked at by the handler, and changes at once.    *)
(***************************************************************************)
EXTENDS Integers, Sequences, FiniteSetsExt

CONSTANTS
    SCRN_COLS, SCRN_ROWS,
    Input            \* the bytes sent to the console

ASSUME ConsoleAssumption ==
    /\ SCRN_COLS \in Nat \ {0} /\ SCRN_ROWS \in Nat \ {0}
    /\ Input \subseteq 0 .. 255

VARIABLES
    display,         \* the display memory, from DISPLAY_ADDR on
    curx, cury, cur_dirty,
    xflg, xy_first,
    todo,            \* the stores impl_conout has still to make
    from,            \* the cursor and cur_dirty before this byte
    crt              \* the cursor position the 8275 shows

consoleVars == <<display, curx, cury, cur_dirty, xflg, xy_first, todo, from, crt>>

Cells == SCRN_COLS * SCRN_ROWS
Blank == 32
CELL(x, y) == y * SCRN_COLS + x

\* The value a variable has once the stores in the list are made, and the cursor
\* once the stores left are.
After(name, now, stores) ==
    LET at == {i \in DOMAIN stores : stores[i][1] = name}
    IN  IF at = {} THEN now ELSE stores[Max(at)][2]

Cursor == <<After("curx", curx, todo), After("cury", cury, todo)>>

\* Between two bytes the cursor is on the screen, whatever coordinates have been
\* sent: impl_conout then writes to *CELL(curx, cury), and the erase and line
\* operations compute their lengths from it.
ConsoleTypeOK ==
    /\ display \in [0 .. Cells - 1 -> 0 .. 255]
    /\ Cursor \in (0 .. SCRN_COLS - 1) \X (0 .. SCRN_ROWS - 1)
    /\ curx \in 0 .. SCRN_COLS /\ cury \in 0 .. SCRN_ROWS - 1
    /\ cur_dirty \in BOOLEAN
    /\ xflg \in 0 .. 2 /\ xy_first \in 0 .. 255
    /\ crt \in (0 .. SCRN_COLS) \X (0 .. SCRN_ROWS - 1)

(***************************************************************************)
(* Block moves, byte by byte as the processor makes them.                  *)
(***************************************************************************)

\* memcpy (LDIR) upwards from dst and src, and LDDR downwards.
Ldir(m, dst, src, n) ==
    LET moved[i \in 0 .. n] ==
          IF i = 0 THEN m
          ELSE LET before == moved[i - 1]
               IN  [before EXCEPT ![dst + i - 1] = before[src + i - 1]]
    IN  moved[n]

Lddr(m, dst, src, n) ==
    LET moved[i \in 0 .. n] ==
          IF i = 0 THEN m
          ELSE LET before == moved[i - 1]
               IN  [before EXCEPT ![dst - i + 1] = before[src - i + 1]]
    IN  moved[n]

Memset(m, at, n) == [c \in DOMAIN m |-> IF c >= at /\ c < at + n THEN Blank ELSE m[c]]

(***************************************************************************)
(* The effect of a byte, on a record of the display memory m, the cursor   *)
(* x and y, and the stores made so far.                                    *)
(***************************************************************************)

SetX(s, v) == [s EXCEPT !.x = v, !.stores = Append(@, <<"curx", v>>)]
SetY(s, v) == [s EXCEPT !.y = v, !.stores = Append(@, <<"cury", v>>)]

scroll_up(s) ==
    [s EXCEPT !.m = Memset(Ldir(@, 0, SCRN_COLS, (SCRN_ROWS - 1) * SCRN_COLS),
                           CELL(0, SCRN_ROWS - 1), SCRN_COLS)]

cursor_down(s) == IF s.y + 1 < SCRN_ROWS THEN SetY(s, s.y + 1) ELSE scroll_up(s)

cursor_right(s) ==
    LET t == SetX(s, s.x + 1) IN
    IF t.x < SCRN_COLS THEN t ELSE cursor_down(SetX(t, 0))

cursor_up(s) == SetY(s, IF s.y # 0 THEN s.y - 1 ELSE SCRN_ROWS - 1)
cursor_left(s) == IF s.x # 0 THEN SetX(s, s.x - 1) ELSE cursor_up(SetX(s, SCRN_COLS - 1))

home(s) == SetY(SetX(s, 0), 0)
tab(s) == cursor_right(cursor_right(cursor_right(cursor_right(s))))
clear_screen(s) == home([s EXCEPT !.m = Memset(@, 0, Cells)])
erase_to_eol(s) == [s EXCEPT !.m = Memset(@, CELL(s.x, s.y), SCRN_COLS - s.x)]

erase_to_eos(s) == [s EXCEPT !.m = Memset(@, CELL(s.x, s.y), Cells - CELL(s.x, s.y))]

delete_line(s) ==
    [s EXCEPT !.m =
        Memset(IF s.y + 1 < SCRN_ROWS
               THEN Ldir(@, CELL(0, s.y), CELL(0, s.y + 1), (SCRN_ROWS - 1 - s.y) * SCRN_COLS)
               ELSE @,
               CELL(0, SCRN_ROWS - 1), SCRN_COLS)]

\* Bug: the overlapping rows are copied upwards.
insert_line_Ldir(s) ==
    [s EXCEPT !.m =
        Memset(IF s.y + 1 < SCRN_ROWS
               THEN Ldir(@, CELL(0, s.y + 1), CELL(0, s.y), (SCRN_ROWS - 1 - s.y) * SCRN_COLS)
               ELSE @,
               CELL(0, s.y), SCRN_COLS)]

insert_line(s) ==
    [s EXCEPT !.m =
        Memset(IF s.y + 1 < SCRN_ROWS
               THEN Lddr(@, CELL(SCRN_COLS - 1, SCRN_ROWS - 1), CELL(SCRN_COLS - 1, SCRN_ROWS - 2),
                         (SCRN_ROWS - 1 - s.y) * SCRN_COLS)
               ELSE @,
               CELL(0, s.y), SCRN_COLS)]

\* Coordinates out of range count as 0.
Clamp(v, limit) == IF v < limit THEN v ELSE 0

Coordinate(c) == ((c % 128) - 32) % 256

\* The control codes (specc), and CR and LF, which impl_conout takes itself.
specc(c, s) ==
    CASE c = 1  -> insert_line(s)
      [] c = 2  -> delete_line(s)
      [] c \in {5, 8} -> cursor_left(s)
      [] c \in {6, 29} -> home(s)
      [] c = 9  -> tab(s)
      [] c = 10 -> SetX(cursor_down(s), 0)
      [] c = 12 -> clear_screen(s)
      [] c = 13 -> SetX(s, 0)
      [] c = 24 -> cursor_right(s)
      [] c = 26 -> cursor_up(s)
      [] c = 30 -> erase_to_eol(s)
      [] c = 31 -> erase_to_eos(s)
      [] OTHER  -> s

print(c, s) == cursor_right([s EXCEPT !.m[CELL(s.x, s.y)] = c])

State == [m |-> display, x |-> curx, y |-> cury, stores |-> <<>>]

\* Bug: the mark is set before the position is stored.
MarkedDirty_First(stores) == <<<<"cur_dirty", 1>>>> \o stores

MarkedDirty(stores) == Append(stores, <<"cur_dirty", 1>>)

Does(s) == display' = s.m /\ todo' = MarkedDirty(s.stores)

\* xy_step: the two bytes after ctrl-F.
XyStep(c) ==
    /\ xflg # 0
    /\ xflg' = xflg - 1
    /\ \/ /\ xflg = 2
          /\ xy_first' = Coordinate(c)
          /\ Does(State)
       \/ /\ xflg = 1
          /\ xy_first' = Clamp(xy_first, SCRN_COLS)
          /\ Does(SetY(SetX(State, xy_first'), Clamp(Coordinate(c), SCRN_ROWS)))

\* impl_conout is called with byte c.
Conout(c) ==
    /\ todo = <<>>
    /\ from' = <<curx, cury, cur_dirty>>
    /\ \/ XyStep(c)
       \/ /\ xflg = 0
          /\ xflg' = IF c = 6 THEN 2 ELSE 0
          /\ Does(IF c < 32 THEN specc(c, State) ELSE print(c, State))
          /\ UNCHANGED xy_first
    /\ UNCHANGED <<curx, cury, cur_dirty, crt>>

\* The next store reaches memory.
Store ==
    /\ todo # <<>>
    /\ LET s == Head(todo) IN
       /\ curx' = IF s[1] = "curx" THEN s[2] ELSE curx
       /\ cury' = IF s[1] = "cury" THEN s[2] ELSE cury
       /\ cur_dirty' = (cur_dirty \/ s[1] = "cur_dirty")
    /\ todo' = Tail(todo)
    /\ UNCHANGED <<display, xflg, xy_first, from, crt>>

\* isr_crt, the deferred cursor update; the rest of it refreshes the picture.
isr_crt ==
    /\ cur_dirty
    /\ cur_dirty' = FALSE
    /\ crt' = <<curx, cury>>
    /\ UNCHANGED <<display, curx, cury, xflg, xy_first, todo, from>>

\* After cold boot: the screen is clear.
ConsoleInit ==
    /\ display = [c \in 0 .. Cells - 1 |-> Blank]
    /\ curx = 0 /\ cury = 0 /\ cur_dirty = FALSE
    /\ xflg = 0 /\ xy_first = 0
    /\ todo = <<>>
    /\ from = <<0, 0, FALSE>> /\ crt = <<0, 0>>

ConsoleNext == (\E c \in Input : Conout(c)) \/ Store \/ isr_crt

ConsoleSpec == ConsoleInit /\ [][ConsoleNext]_consoleVars

-----------------------------------------------------------------------------
Screen == INSTANCE Terminal WITH
            COLS <- SCRN_COLS, ROWS <- SCRN_ROWS,
            rows <- [y \in 0 .. SCRN_ROWS - 1 |-> [x \in 0 .. SCRN_COLS - 1 |-> display[CELL(x, y)]]],
            pos <- Cursor,
            args <- <<xflg, xy_first>>

\* Byte for byte the console does what a terminal of rows does: the overlapping
\* block moves of scroll, insert line and delete line move whole rows, erasing
\* stops where it should, and wrapping and addressing put the cursor right.
ImplementsTerminal == Screen!Spec

\* No cursor update is lost: when impl_conout is done and the mark is off, the
\* CRT controller shows the position of the cursor.
CursorShown == (todo = <<>> /\ ~cur_dirty) => crt = <<curx, cury>>

\* The handler shows the cursor where it was before a byte or where it is after
\* it, "never a torn pair" (isr.c:117-118), if the mark of the byte before had
\* been taken off when this byte began.
NeverTorn ==
    [][(crt' # crt /\ ~from[3]) => crt' \in {<<from[1], from[2]>>, Cursor}]_consoleVars

\* The cursor is on the screen and on display (impl_conout, isr_crt).
CursorKept == ConsoleTypeOK /\ CursorShown
=============================================================================
