---------------------------- MODULE ScreenProofs ----------------------------
(***************************************************************************)
(* What is proved of Screen for every size of the terminal, the input line *)
(* and the counter.                                                        *)
(***************************************************************************)
EXTENDS Screen, FiniteSetTheorems, TLAPS

-----------------------------------------------------------------------------
(* The invariant.                                                          *)

\* Nothing stands to the right of the cursor or below it: a new line may leave what is
\* there on the screen and blank it in the shadow buffer only.
RestBlank ==
    \A r \in Rows, c \in Cols :
        r > row \/ (r = row /\ c >= col) => shadow[r][c][1] = " "

\* From the moment dashboard_init has forced the next update, an update that finds
\* nothing changed leaves the right digits on the screen.
CountersKept ==
    shell \notin {"boot", "drawn"} /\ last # -1 =>
      \A x \in LEFT .. LEFT + FieldWidth - 1 :
         cells[STATS_ROW][x] = IF x \in DOMAIN Number(LEFT, last)
                               THEN Number(LEFT, last)[x] ELSE Blank

ScreenInv == TypeOK /\ RestBlank /\ TerminalShown /\ LineShown /\ BordersStand /\ CountersKept

\* The cells of a screen, the state of the terminal, and its part of the screen.
Grid == [Ys -> [Xs -> Cell]]
Buffer == [Rows -> [Cols -> Cell]]
Terminal == [cells : Grid, shadow : Buffer, row : Rows, col : Cols]
Inside(y, x) == y - TOP \in Rows /\ x - LEFT \in Cols

\* The screen shows the shadow buffer, without the cursor and with it; nothing is below
\* the cursor, nothing beyond it; t differs from s inside the terminal only.
Synced(s) == \A r \in Rows, c \in Cols : s.cells[TOP + r][LEFT + c] = s.shadow[r][c]
Shown(s) ==
    \A r \in Rows, c \in Cols :
        IF r = s.row /\ c = s.col THEN s.cells[TOP + r][LEFT + c][1] = s.shadow[r][c][1]
        ELSE s.cells[TOP + r][LEFT + c] = s.shadow[r][c]
Below(s) == \A r \in Rows, c \in Cols : r > s.row => s.shadow[r][c][1] = " "
Beyond(s) == \A c \in Cols : c >= s.col => s.shadow[s.row][c][1] = " "
Elsewhere(s, t) ==
    \A y \in Ys, x \in Xs : ~ Inside(y, x) => t.cells[y][x] = s.cells[y][x]

-----------------------------------------------------------------------------
(* Cells.                                                                  *)

LEMMA Sizes ==
    /\ TTY_ROWS \in Nat \ {0} /\ TTY_COLS \in Nat \ {0} /\ TabStop \in Nat \ {0}
    /\ PROMPT_LEN \in Nat /\ MAX_CMD \in Nat \ {0} /\ PROMPT_LEN + MAX_CMD <= TTY_COLS
    /\ FieldWidth \in Nat /\ 1 <= FieldWidth /\ FieldWidth <= TTY_COLS
    /\ Xs = 0 .. TTY_COLS + 1 /\ Ys = 0 .. TTY_ROWS + 4
    /\ Rows = 0 .. TTY_ROWS - 1 /\ Cols = 0 .. TTY_COLS - 1
    /\ INPUT_ROW = TTY_ROWS + 1 /\ STATS_ROW = TTY_ROWS + 3 /\ LEFT = 1 /\ TOP = 1
    /\ Walls = {0, TTY_COLS + 1} /\ VGA_WIDTH - 1 = TTY_COLS + 1
    /\ VGA_HEIGHT - 1 = TTY_ROWS + 4
BY ScreenConstants
   DEF Xs, Ys, Rows, Cols, INPUT_ROW, STATS_ROW, LEFT, TOP, Walls, VGA_WIDTH, VGA_HEIGHT

\* The cells in use.
LEMMA Cells ==
    /\ Blank \in Cell /\ Border \in Cell /\ <<" ", "none">> \in Cell
    /\ <<" ", "other">> \in Cell /\ <<" ", "cursor">> \in Cell
    /\ <<">", "accent">> \in Cell /\ <<"x", "value">> \in Cell
    /\ \A c \in {"x", " ", "m"},
          a \in {"default", "other", "white", "light green", "none", "green"} : <<c, a>> \in Cell
    /\ \A d \in {"0", "1"} : <<d, "value">> \in Cell
    /\ \A p \in Cell : /\ p[1] \in Characters /\ p[2] \in Attributes /\ p = <<p[1], p[2]>>
                       /\ <<p[1], "cursor">> \in Cell /\ <<" ", p[2]>> \in Cell
                       /\ p[1] = " " => <<" ", p[2]>> = p
<1>1. /\ Blank \in Cell /\ Border \in Cell /\ <<" ", "none">> \in Cell
      /\ <<" ", "other">> \in Cell /\ <<" ", "cursor">> \in Cell
      /\ <<">", "accent">> \in Cell /\ <<"x", "value">> \in Cell
  BY DEF Cell, Blank, Border, Characters, Attributes
<1>2. ASSUME NEW c \in {"x", " ", "m"},
             NEW a \in {"default", "other", "white", "light green", "none", "green"}
      PROVE  <<c, a>> \in Cell
  BY DEF Cell, Characters, Attributes
<1>3. \A d \in {"0", "1"} : <<d, "value">> \in Cell
  BY DEF Cell, Characters, Attributes
<1>4. ASSUME NEW p \in Cell
      PROVE  /\ p[1] \in Characters /\ p[2] \in Attributes /\ p = <<p[1], p[2]>>
             /\ <<p[1], "cursor">> \in Cell /\ <<" ", p[2]>> \in Cell
             /\ p[1] = " " => <<" ", p[2]>> = p
  <2>1. p[1] \in Characters /\ p[2] \in Attributes /\ p = <<p[1], p[2]>>
    BY DEF Cell
  <2>2. " " \in Characters /\ "cursor" \in Attributes
    BY DEF Characters, Attributes
  <2>3. <<p[1], "cursor">> \in Cell /\ <<" ", p[2]>> \in Cell
    BY <2>1, <2>2 DEF Cell
  <2> QED
    BY <2>1, <2>3
<1> QED
  BY <1>1, <1>2, <1>3, <1>4

\* Where the terminal lies on the screen.
LEMMA Places ==
    /\ \A r \in Rows, c \in Cols :
          /\ TOP + r \in Ys /\ LEFT + c \in Xs /\ Inside(TOP + r, LEFT + c)
          /\ (TOP + r) - TOP = r /\ (LEFT + c) - LEFT = c
    /\ \A y \in Ys, x \in Xs :
          Inside(y, x) => /\ y - TOP \in Rows /\ x - LEFT \in Cols
                          /\ TOP + (y - TOP) = y /\ LEFT + (x - LEFT) = x
BY Sizes DEF Inside

LEMMA WriteIs ==
    ASSUME NEW cs \in Grid, NEW v \in Ys, NEW given,
           \A x \in DOMAIN given : given[x] \in Cell
    PROVE  /\ Write(cs, v, given) \in Grid
           /\ \A y \in Ys, x \in Xs :
                 Write(cs, v, given)[y][x] =
                    IF y = v /\ x \in DOMAIN given THEN given[x] ELSE cs[y][x]
<1> DEFINE line == Over(given, cs[v])
<1>1. cs[v] \in [Xs -> Cell]
  BY DEF Grid
<1>2. line \in [Xs -> Cell]
  BY <1>1 DEF Over
<1>3. \A x \in Xs : line[x] = IF x \in DOMAIN given THEN given[x] ELSE cs[v][x]
  BY <1>1 DEF Over
<1> HIDE DEF line
<1>4. Write(cs, v, given) = [cs EXCEPT ![v] = line]
  BY DEF Write, line
<1> QED
  BY <1>2, <1>3, <1>4 DEF Grid

LEMMA FilledIs ==
    ASSUME NEW cs \in Grid, NEW v \in Ys, NEW a, NEW w, NEW cell \in Cell
    PROVE  /\ Write(cs, v, Filled(a, w, cell)) \in Grid
           /\ \A y \in Ys, x \in Xs :
                 Write(cs, v, Filled(a, w, cell))[y][x] =
                    IF y = v /\ x \in a .. a + w - 1 THEN cell ELSE cs[y][x]
<1> DEFINE given == Filled(a, w, cell)
<1>1. /\ DOMAIN given = a .. a + w - 1 /\ (\A x \in a .. a + w - 1 : given[x] = cell)
  BY DEF Filled
<1> HIDE DEF given
<1>2. /\ Write(cs, v, given) \in Grid
      /\ \A y \in Ys, x \in Xs :
            Write(cs, v, given)[y][x] =
               IF y = v /\ x \in DOMAIN given THEN given[x] ELSE cs[y][x]
  <2>1. \A x \in DOMAIN given : given[x] \in Cell
    BY <1>1
  <2> QED
    BY <2>1, WriteIs
<1> QED
  BY <1>1, <1>2 DEF given

-----------------------------------------------------------------------------
(* The terminal.                                                           *)

\* A change of one part of the terminal leaves the others.
LEMMA Changed ==
    ASSUME NEW s \in Terminal
    PROVE  /\ s.cells \in Grid /\ s.shadow \in Buffer /\ s.row \in Rows /\ s.col \in Cols
           /\ \A g \in Grid :
                 /\ [s EXCEPT !.cells = g] \in Terminal
                 /\ [s EXCEPT !.cells = g].cells = g
                 /\ [s EXCEPT !.cells = g].shadow = s.shadow
                 /\ [s EXCEPT !.cells = g].row = s.row
                 /\ [s EXCEPT !.cells = g].col = s.col
           /\ \A b \in Buffer :
                 /\ [s EXCEPT !.shadow = b] \in Terminal
                 /\ [s EXCEPT !.shadow = b].cells = s.cells
                 /\ [s EXCEPT !.shadow = b].shadow = b
                 /\ [s EXCEPT !.shadow = b].row = s.row
                 /\ [s EXCEPT !.shadow = b].col = s.col
           /\ \A r \in Rows :
                 /\ [s EXCEPT !.row = r] \in Terminal
                 /\ [s EXCEPT !.row = r].cells = s.cells
                 /\ [s EXCEPT !.row = r].shadow = s.shadow
                 /\ [s EXCEPT !.row = r].row = r
                 /\ [s EXCEPT !.row = r].col = s.col
           /\ \A c \in Cols :
                 /\ [s EXCEPT !.col = c] \in Terminal
                 /\ [s EXCEPT !.col = c].cells = s.cells
                 /\ [s EXCEPT !.col = c].shadow = s.shadow
                 /\ [s EXCEPT !.col = c].row = s.row
                 /\ [s EXCEPT !.col = c].col = c
BY DEF Terminal

\* tty_flush_all makes the screen show the shadow buffer.
LEMMA FlushIs ==
    ASSUME NEW s \in Terminal, NEW t, t = Flush(s)
    PROVE  /\ t \in Terminal /\ Synced(t) /\ Elsewhere(s, t)
           /\ t.shadow = s.shadow /\ t.row = s.row /\ t.col = s.col
<1> DEFINE g == [y \in Ys |-> [x \in Xs |->
                    IF y - TOP \in Rows /\ x - LEFT \in Cols
                    THEN s.shadow[y - TOP][x - LEFT] ELSE s.cells[y][x]]]
<1>1. t = [s EXCEPT !.cells = g]
  BY DEF Flush
<1>a. s.cells \in Grid /\ s.shadow \in Buffer
  BY Changed
<1>2. \A y \in Ys, x \in Xs :
         g[y][x] = IF Inside(y, x) THEN s.shadow[y - TOP][x - LEFT] ELSE s.cells[y][x]
  BY DEF Inside
<1>3. g \in Grid
  <2>1. \A y \in Ys, x \in Xs : y - TOP \in Rows /\ x - LEFT \in Cols
                                  => s.shadow[y - TOP][x - LEFT] \in Cell
    BY <1>a DEF Buffer
  <2>2. \A y \in Ys, x \in Xs : s.cells[y][x] \in Cell
    BY <1>a DEF Grid
  <2> QED
    BY <2>1, <2>2 DEF Grid
<1> HIDE DEF g
<1>4. /\ t \in Terminal /\ t.cells = g /\ t.shadow = s.shadow /\ t.row = s.row
      /\ t.col = s.col
  BY <1>1, <1>3, Changed
<1>5. Synced(t)
  BY <1>2, <1>4, Places DEF Synced
<1>6. Elsewhere(s, t)
  BY <1>2, <1>4 DEF Elsewhere
<1> QED
  BY <1>4, <1>5, <1>6

\* tty_clear and tty_scroll.
LEMMA BlankLine ==
    ASSUME style \in {"default", "other"}
    PROVE  Blanks \in [Cols -> Cell] /\ \A c \in Cols : Blanks[c][1] = " "
<1>1. <<" ", style>> \in Cell
  BY Cells
<1> QED
  BY <1>1 DEF Blanks

LEMMA ClearIs ==
    ASSUME NEW s \in Terminal, style \in {"default", "other"}, NEW t, t = Clear(s)
    PROVE  /\ t \in Terminal /\ Synced(t) /\ Elsewhere(s, t) /\ Below(t) /\ Beyond(t)
<1> DEFINE b == [r \in Rows |-> Blanks]
           u == [[[s EXCEPT !.shadow = b] EXCEPT !.row = 0] EXCEPT !.col = 0]
<1>1. b \in Buffer /\ 0 \in Rows /\ 0 \in Cols
  <2>1. b \in Buffer
    BY BlankLine DEF Buffer
  <2>2. 0 \in Rows /\ 0 \in Cols
    BY Sizes
  <2> QED
    BY <2>1, <2>2
<1>2. \A r \in Rows, c \in Cols : b[r][c][1] = " "
  BY BlankLine
<1>3. t = Flush(u)
  BY DEF Clear
<1> HIDE DEF b
<1>4. u \in Terminal /\ u.cells = s.cells /\ u.shadow = b
  <2> DEFINE v == [s EXCEPT !.shadow = b]
             w == [v EXCEPT !.row = 0]
  <2>1. v \in Terminal /\ v.cells = s.cells /\ v.shadow = b
    BY <1>1, Changed
  <2>2. w \in Terminal /\ w.cells = s.cells /\ w.shadow = b
    <3> HIDE DEF v
    <3> QED
      BY <1>1, <2>1, Changed
  <2> HIDE DEF w
  <2> QED
    BY <1>1, <2>2, Changed DEF w, v
<1> HIDE DEF u
<1>5. /\ t \in Terminal /\ Synced(t) /\ Elsewhere(u, t) /\ t.shadow = b
  BY <1>3, <1>4, FlushIs
<1>6. t.row \in Rows
  BY <1>5, Changed
<1> QED
  BY <1>2, <1>4, <1>5, <1>6 DEF Elsewhere, Below, Beyond

LEMMA ScrollIs ==
    ASSUME NEW s \in Terminal, style \in {"default", "other"}, NEW t, t = Scroll(s)
    PROVE  /\ t \in Terminal /\ Synced(t) /\ Elsewhere(s, t) /\ Below(t) /\ Beyond(t)
<1> DEFINE b == [r \in Rows |-> IF r < TTY_ROWS - 1 THEN s.shadow[r + 1] ELSE Blanks]
           v == [s EXCEPT !.row = TTY_ROWS - 1]
           u == [v EXCEPT !.shadow = b]
<1>1. b \in Buffer /\ TTY_ROWS - 1 \in Rows
  <2>1. \A r \in Rows : r < TTY_ROWS - 1 => r + 1 \in Rows
    BY Sizes
  <2>2. s.shadow \in Buffer
    BY Changed
  <2>3. Blanks \in [Cols -> Cell]
    BY BlankLine
  <2>4. b \in Buffer
    BY <2>1, <2>2, <2>3 DEF Buffer
  <2>5. TTY_ROWS - 1 \in Rows
    BY Sizes
  <2> QED
    BY <2>4, <2>5
<1>2. \A c \in Cols : b[TTY_ROWS - 1][c][1] = " "
  <2>1. b[TTY_ROWS - 1] = Blanks
    BY <1>1, Sizes
  <2> QED
    BY <2>1, BlankLine
<1>3. t = Flush(u)
  BY DEF Scroll
<1> HIDE DEF b
<1>4. v \in Terminal /\ v.cells = s.cells /\ v.row = TTY_ROWS - 1
  BY <1>1, Changed
<1> HIDE DEF v
<1>5. u \in Terminal /\ u.cells = s.cells /\ u.shadow = b /\ u.row = TTY_ROWS - 1
  BY <1>1, <1>4, Changed
<1> HIDE DEF u
<1>6. /\ t \in Terminal /\ Synced(t) /\ Elsewhere(u, t) /\ t.shadow = b
      /\ t.row = TTY_ROWS - 1
  BY <1>3, <1>5, FlushIs
<1>7. \A r \in Rows : ~ (r > TTY_ROWS - 1)
  BY Sizes
<1> QED
  BY <1>2, <1>5, <1>6, <1>7 DEF Elsewhere, Below, Beyond

\* The next line is free, or the terminal scrolls.
LEMMA DownIs ==
    ASSUME NEW s \in Terminal, style \in {"default", "other"}, Synced(s), Below(s),
           NEW t, t = Down(s)
    PROVE  /\ t \in Terminal /\ Synced(t) /\ Elsewhere(s, t) /\ Below(t) /\ Beyond(t)
<1> DEFINE u == [s EXCEPT !.col = 0]
<1>a. s.row \in Rows /\ s.row \in Nat /\ 0 \in Cols
  BY Changed, Sizes
<1>1. /\ u \in Terminal /\ u.cells = s.cells /\ u.shadow = s.shadow /\ u.row = s.row
  BY <1>a, Changed
<1>2. CASE s.row + 1 >= TTY_ROWS
  <2>1. t = Scroll(u)
    BY <1>2 DEF Down
  <2> HIDE DEF u
  <2>2. /\ t \in Terminal /\ Synced(t) /\ Elsewhere(u, t) /\ Below(t) /\ Beyond(t)
    BY <1>1, <2>1, ScrollIs
  <2> QED
    BY <1>1, <2>2 DEF Elsewhere
<1>3. CASE ~ (s.row + 1 >= TTY_ROWS)
  <2>1. t = [u EXCEPT !.row = u.row + 1]
    BY <1>3 DEF Down
  <2>2. s.row + 1 \in Rows /\ \A r \in Rows : r > s.row + 1 => r > s.row
    BY <1>a, <1>3, Sizes
  <2>3. s.row + 1 > s.row
    BY <1>a
  <2> HIDE DEF u
  <2>4. /\ t \in Terminal /\ t.cells = s.cells /\ t.shadow = s.shadow
        /\ t.row = s.row + 1
    BY <1>1, <2>1, <2>2, Changed
  <2>5. Synced(t) /\ Elsewhere(s, t)
    BY <2>4 DEF Synced, Elsewhere
  <2>6. Below(t) /\ Beyond(t)
    BY <2>2, <2>3, <2>4 DEF Below, Beyond
  <2> QED
    BY <2>4, <2>5, <2>6
<1> QED
  BY <1>2, <1>3

\* What tty_putchar blanks in the shadow buffer for a new line was blank.
LEMMA NewLineIs ==
    ASSUME NEW s \in Terminal, style \in {"default", "other"},
           Synced(s), Below(s), Beyond(s), NEW t, t = NewLine(s)
    PROVE  /\ t \in Terminal /\ Synced(t) /\ Elsewhere(s, t) /\ Below(t) /\ Beyond(t)
<1> DEFINE old == s.shadow[s.row]
           line == [c \in DOMAIN old |-> IF c >= s.col THEN <<" ", old[c][2]>> ELSE old[c]]
           b == [s.shadow EXCEPT ![s.row] = line]
           u == [s EXCEPT !.shadow = b]
<1>a. s.shadow \in Buffer /\ s.row \in Rows
  BY Changed
<1>1. old \in [Cols -> Cell]
  BY <1>a DEF Buffer
<1>2. \A c \in Cols : c >= s.col => old[c][1] = " "
  BY DEF Beyond
<1>3. t = Down(u)
  BY DEF NewLine
<1> HIDE DEF old
<1>4. line \in [Cols -> Cell] /\ \A c \in Cols : line[c] = old[c]
  <2>1. \A c \in Cols : line[c] = old[c]
    <3> SUFFICES ASSUME NEW c \in Cols PROVE line[c] = old[c]
      OBVIOUS
    <3>1. old[c] \in Cell
      BY <1>1
    <3>2. c >= s.col => <<" ", old[c][2]>> = old[c]
      BY <1>2, <3>1, Cells
    <3> QED
      BY <1>1, <3>2
  <2> QED
    BY <1>1, <2>1
<1> HIDE DEF line
<1>5. b \in Buffer /\ \A r \in Rows, c \in Cols : b[r][c] = s.shadow[r][c]
  BY <1>a, <1>4 DEF Buffer, old
<1> HIDE DEF b
<1>6. u \in Terminal /\ u.cells = s.cells /\ u.shadow = b /\ u.row = s.row
  BY <1>5, Changed
<1> HIDE DEF u
<1>7. Synced(u) /\ Below(u)
  <2>1. \A r \in Rows, c \in Cols : u.shadow[r][c] = s.shadow[r][c]
    BY <1>5, <1>6
  <2>2. Synced(u)
    BY <2>1, <1>6 DEF Synced
  <2>3. Below(u)
    BY <2>1, <1>6 DEF Below
  <2> QED
    BY <2>2, <2>3
<1>8. /\ t \in Terminal /\ Synced(t) /\ Elsewhere(u, t) /\ Below(t) /\ Beyond(t)
  BY <1>3, <1>6, <1>7, DownIs
<1> QED
  BY <1>6, <1>8 DEF Elsewhere

\* Cells of the current line change on the screen and in the shadow buffer.
LEMMA BothIs ==
    ASSUME NEW s \in Terminal, Synced(s), NEW a \in Cols, NEW w \in Nat,
           a + w <= TTY_COLS, NEW cell \in Cell, NEW t, t = Both(s, a, w, cell)
    PROVE  /\ t \in Terminal /\ Synced(t) /\ Elsewhere(s, t)
           /\ t.row = s.row /\ t.col = s.col
           /\ \A r \in Rows, c \in Cols :
                 t.shadow[r][c] = IF r = s.row /\ c \in a .. a + w - 1 THEN cell
                                  ELSE s.shadow[r][c]
<1> DEFINE given == Filled(a, w, cell)
           line == Over(given, s.shadow[s.row])
           b == [s.shadow EXCEPT ![s.row] = line]
           g == Write(s.cells, TOP + s.row, Filled(LEFT + a, w, cell))
           u == [s EXCEPT !.shadow = b]
<1>a. s.shadow \in Buffer /\ s.row \in Rows /\ s.cells \in Grid /\ TOP + s.row \in Ys
  BY Changed, Places
<1>1. t = [u EXCEPT !.cells = g]
  BY DEF Both
<1>2. /\ line \in [Cols -> Cell]
      /\ \A c \in Cols : line[c] = IF c \in a .. a + w - 1 THEN cell ELSE s.shadow[s.row][c]
  <2>1. s.shadow[s.row] \in [Cols -> Cell]
    BY <1>a DEF Buffer
  <2>2. DOMAIN given = a .. a + w - 1 /\ (\A x \in a .. a + w - 1 : given[x] = cell)
    BY DEF Filled
  <2> HIDE DEF given
  <2> QED
    BY <2>1, <2>2 DEF Over
<1> HIDE DEF line
<1>3. /\ b \in Buffer
      /\ \A r \in Rows, c \in Cols :
            b[r][c] = IF r = s.row /\ c \in a .. a + w - 1 THEN cell ELSE s.shadow[r][c]
  BY <1>a, <1>2 DEF Buffer
<1>4. /\ g \in Grid
      /\ \A y \in Ys, x \in Xs :
            g[y][x] = IF y = TOP + s.row /\ x \in LEFT + a .. LEFT + a + w - 1 THEN cell
                      ELSE s.cells[y][x]
  BY <1>a, FilledIs
<1> HIDE DEF b, g
<1>5. /\ u \in Terminal /\ u.cells = s.cells /\ u.shadow = b /\ u.row = s.row
      /\ u.col = s.col
  BY <1>3, Changed
<1> HIDE DEF u
<1>6. /\ t \in Terminal /\ t.cells = g /\ t.shadow = b /\ t.row = s.row /\ t.col = s.col
  BY <1>1, <1>4, <1>5, Changed
<1>7. \A r \in Rows, c \in Cols :
         /\ TOP + r \in Ys /\ LEFT + c \in Xs
         /\ TOP + r = TOP + s.row <=> r = s.row
         /\ LEFT + c \in LEFT + a .. LEFT + a + w - 1 <=> c \in a .. a + w - 1
  BY <1>a, Sizes
<1>8. Synced(t)
  BY <1>3, <1>4, <1>6, <1>7 DEF Synced
<1>9. \A y \in Ys, x \in Xs :
         y = TOP + s.row /\ x \in LEFT + a .. LEFT + a + w - 1 => Inside(y, x)
  BY <1>a, Sizes DEF Inside
<1>10. Elsewhere(s, t)
  BY <1>4, <1>6, <1>9 DEF Elsewhere
<1> QED
  BY <1>3, <1>6, <1>8, <1>10
\* A tab blanks up to the next stop, or to the last column.
LEMMA TabIs ==
    ASSUME NEW s \in Terminal, style \in {"default", "other"},
           Synced(s), Below(s), Beyond(s), NEW t, t = Tab(s)
    PROVE  /\ t \in Terminal /\ Synced(t) /\ Elsewhere(s, t) /\ Below(t) /\ Beyond(t)
<1> DEFINE stop == (s.col \div TabStop + 1) * TabStop
           next == IF stop >= TTY_COLS THEN TTY_COLS - 1 ELSE stop
           cell == <<" ", style>>
           u == Both(s, s.col, next - s.col, cell)
<1>a. s.row \in Rows /\ s.col \in Cols
  BY Changed
<1>b. cell \in Cell
  BY Cells
<1>c. cell[1] = " "
  OBVIOUS
<1>3. t = [u EXCEPT !.col = next]
  BY DEF Tab
<1> HIDE DEF cell, u
<1>1. s.col \in Nat /\ s.col <= TTY_COLS - 1 /\ TabStop \in Nat \ {0} /\ TTY_COLS \in Nat
  BY <1>a, Sizes
<1>2. stop \in Nat /\ stop > s.col
  <2> DEFINE q == s.col \div TabStop
             k == s.col % TabStop
  <2>1. q \in Nat /\ k \in 0 .. TabStop - 1 /\ s.col = TabStop * q + k
    BY <1>1
  <2>2. stop = TabStop * q + TabStop
    <3> HIDE DEF q
    <3>1. q \in Nat
      BY <2>1
    <3>2. (q + 1) * TabStop = TabStop * q + TabStop
      BY <3>1, <1>1
    <3> QED
      BY <3>2 DEF q
  <2>3. TabStop * q \in Nat
    BY <2>1, <1>1
  <2> HIDE DEF q, k, stop
  <2> QED
    BY <2>1, <2>2, <2>3, <1>1
<1> HIDE DEF stop
<1>4. next \in Nat /\ next >= s.col /\ next <= TTY_COLS - 1
  BY <1>1, <1>2
<1> HIDE DEF next
<1>5. next \in Cols /\ next - s.col \in Nat /\ s.col + (next - s.col) <= TTY_COLS
  BY <1>1, <1>4, Sizes
<1>6. /\ u \in Terminal /\ Synced(u) /\ Elsewhere(s, u)
      /\ u.row = s.row /\ u.col = s.col
      /\ \A r \in Rows, c \in Cols :
            u.shadow[r][c] = IF r = s.row /\ c \in s.col .. s.col + (next - s.col) - 1
                             THEN cell ELSE s.shadow[r][c]
  BY <1>a, <1>b, <1>5, BothIs DEF u
<1>7. /\ t \in Terminal /\ t.cells = u.cells /\ t.shadow = u.shadow
      /\ t.row = s.row /\ t.col = next
  BY <1>3, <1>5, <1>6, Changed
<1>8. Synced(t) /\ Elsewhere(s, t)
  BY <1>6, <1>7 DEF Synced, Elsewhere
<1>9. Below(t)
  <2>1. \A r \in Rows : r > s.row => r # s.row
    BY <1>a, Sizes
  <2>2. \A r \in Rows, c \in Cols : r # s.row => t.shadow[r][c] = s.shadow[r][c]
    BY <1>6, <1>7
  <2> QED
    BY <1>7, <2>1, <2>2 DEF Below
<1>10. Beyond(t)
  <2>1. \A c \in Cols : c >= next => c >= s.col
    BY <1>1, <1>4, Sizes
  <2>2. \A c \in Cols : t.shadow[s.row][c] = cell \/ t.shadow[s.row][c] = s.shadow[s.row][c]
    BY <1>a, <1>6, <1>7
  <2> QED
    BY <1>7, <1>c, <2>1, <2>2 DEF Beyond
<1> QED
  BY <1>7, <1>8, <1>9, <1>10

\* A character goes where the cursor is; after the last column the next line begins.
LEMMA PrintedIs ==
    ASSUME NEW s \in Terminal, style \in {"default", "other"},
           Synced(s), Below(s), Beyond(s), NEW t, t = Printed(s, "x")
    PROVE  /\ t \in Terminal /\ Synced(t) /\ Elsewhere(s, t) /\ Below(t) /\ Beyond(t)
<1> DEFINE cell == <<"x", style>>
           u == Both(s, s.col, 1, cell)
<1>a. s.row \in Rows /\ s.col \in Cols
  BY Changed
<1>b. cell \in Cell
  BY Cells
<1>3. t = IF s.col + 1 >= TTY_COLS THEN Down(u) ELSE [u EXCEPT !.col = u.col + 1]
  BY DEF Printed
<1> HIDE DEF cell, u
<1>1. s.col \in Nat /\ s.col + 1 <= TTY_COLS
  BY <1>a, Sizes
<1>2. /\ u \in Terminal /\ Synced(u) /\ Elsewhere(s, u)
      /\ u.row = s.row /\ u.col = s.col
      /\ \A r \in Rows, c \in Cols :
            u.shadow[r][c] = IF r = s.row /\ c \in s.col .. s.col + 1 - 1
                             THEN cell ELSE s.shadow[r][c]
  <2>1. 1 \in Nat
    OBVIOUS
  <2> QED
    BY <1>a, <1>b, <1>1, <2>1, BothIs DEF u
<1>e. /\ u \in Terminal /\ Synced(u) /\ Elsewhere(s, u)
      /\ u.row = s.row /\ u.col = s.col
  BY <1>2
<1>4. Below(u)
  <2>1. \A r \in Rows : r > s.row => r # s.row
    BY <1>a, Sizes
  <2>2. \A r \in Rows, c \in Cols : r # s.row => u.shadow[r][c] = s.shadow[r][c]
    BY <1>2
  <2> QED
    BY <1>e, <2>1, <2>2 DEF Below
<1>5. CASE s.col + 1 >= TTY_COLS
  <2>1. /\ t \in Terminal /\ Synced(t) /\ Elsewhere(u, t) /\ Below(t) /\ Beyond(t)
    BY <1>e, <1>3, <1>4, <1>5, DownIs
  <2> QED
    BY <1>e, <2>1 DEF Elsewhere
<1>6. CASE ~ (s.col + 1 >= TTY_COLS)
  <2>1. s.col + 1 \in Cols
    BY <1>1, <1>6, Sizes
  <2>2. /\ t \in Terminal /\ t.cells = u.cells /\ t.shadow = u.shadow
        /\ t.row = s.row /\ t.col = s.col + 1
    <3>1. t = [u EXCEPT !.col = s.col + 1]
      BY <1>e, <1>3, <1>6
    <3> DEFINE next == s.col + 1
    <3>2. next \in Cols /\ u \in Terminal
      BY <1>e, <2>1
    <3>4. t = [u EXCEPT !.col = next]
      BY <3>1
    <3> HIDE DEF next
    <3>3. t \in Terminal /\ t.cells = u.cells /\ t.shadow = u.shadow
          /\ t.row = u.row /\ t.col = next
      <4>1. /\ [u EXCEPT !.col = next] \in Terminal
            /\ [u EXCEPT !.col = next].cells = u.cells
            /\ [u EXCEPT !.col = next].shadow = u.shadow
            /\ [u EXCEPT !.col = next].row = u.row
            /\ [u EXCEPT !.col = next].col = next
        BY <3>2, Changed
      <4> QED
        BY <4>1, <3>4
    <3> QED
      BY <1>e, <3>3 DEF next
  <2>3. Synced(t) /\ Elsewhere(s, t) /\ Below(t)
    <3>1. Synced(t)
      BY <1>e, <2>2 DEF Synced
    <3>2. Elsewhere(s, t)
      BY <1>e, <2>2 DEF Elsewhere
    <3>3. Below(t)
      BY <1>e, <1>4, <2>2 DEF Below
    <3> QED
      BY <3>1, <3>2, <3>3
  <2>4. \A c \in Cols : c >= s.col + 1 => c >= s.col /\ c \notin s.col .. s.col + 1 - 1
    BY <1>1, Sizes
  <2>5. \A c \in Cols : c >= s.col + 1 => u.shadow[s.row][c] = s.shadow[s.row][c]
    BY <1>2, <1>a, <2>4
  <2>6. Beyond(t)
    BY <2>2, <2>4, <2>5 DEF Beyond
  <2> QED
    BY <2>2, <2>3, <2>6
<1> QED
  BY <1>5, <1>6
\* The cell the cursor is in changes on the screen.
LEMMA AtCursorIs ==
    ASSUME NEW s \in Terminal, NEW cell \in Cell, NEW t, t = AtCursor(s, cell)
    PROVE  /\ t \in Terminal /\ Elsewhere(s, t)
           /\ t.shadow = s.shadow /\ t.row = s.row /\ t.col = s.col
           /\ \A r \in Rows, c \in Cols :
                 t.cells[TOP + r][LEFT + c] = IF r = s.row /\ c = s.col THEN cell
                                              ELSE s.cells[TOP + r][LEFT + c]
<1> DEFINE v == TOP + s.row
           a == LEFT + s.col
           g == Write(s.cells, v, Filled(a, 1, cell))
<1>a. s.cells \in Grid /\ s.row \in Rows /\ s.col \in Cols
  BY Changed
<1>1. t = [s EXCEPT !.cells = g]
  BY DEF AtCursor
<1>2. v \in Ys /\ a \in Xs /\ Inside(v, a)
  BY <1>a, Places
<1>3. \A r \in Rows, c \in Cols :
         /\ TOP + r \in Ys /\ LEFT + c \in Xs
         /\ TOP + r = v <=> r = s.row
         /\ LEFT + c = a <=> c = s.col
  BY <1>a, Sizes
<1>4. \A x \in Xs : x \in a .. a + 1 - 1 <=> x = a
  BY <1>a, Sizes
<1> HIDE DEF v, a
<1>5. /\ g \in Grid
      /\ \A y \in Ys, x \in Xs :
            g[y][x] = IF y = v /\ x = a THEN cell ELSE s.cells[y][x]
  <2>1. /\ g \in Grid
        /\ \A y \in Ys, x \in Xs :
              g[y][x] = IF y = v /\ x \in a .. a + 1 - 1 THEN cell ELSE s.cells[y][x]
    BY <1>a, <1>2, FilledIs
  <2> HIDE DEF g
  <2> QED
    BY <1>4, <2>1
<1> HIDE DEF g
<1>6. /\ t \in Terminal /\ t.cells = g /\ t.shadow = s.shadow /\ t.row = s.row
      /\ t.col = s.col
  BY <1>1, <1>5, Changed
<1>7. Elsewhere(s, t)
  BY <1>2, <1>5, <1>6 DEF Elsewhere
<1>8. \A r \in Rows, c \in Cols :
         t.cells[TOP + r][LEFT + c] = IF r = s.row /\ c = s.col THEN cell
                                      ELSE s.cells[TOP + r][LEFT + c]
  BY <1>3, <1>5, <1>6
<1> QED
  BY <1>6, <1>7, <1>8

LEMMA EraseIs ==
    ASSUME NEW s \in Terminal, Shown(s), NEW t, t = EraseCursor(s)
    PROVE  /\ t \in Terminal /\ Synced(t) /\ Elsewhere(s, t)
           /\ t.shadow = s.shadow /\ t.row = s.row /\ t.col = s.col
<1> DEFINE cell == s.shadow[s.row][s.col]
<1>1. cell \in Cell
  BY Changed DEF Buffer
<1>2. t = AtCursor(s, cell)
  BY DEF EraseCursor
<1>3. \A r \in Rows, c \in Cols : r = s.row /\ c = s.col => s.shadow[r][c] = cell
  OBVIOUS
<1> HIDE DEF cell
<1>4. /\ t \in Terminal /\ Elsewhere(s, t)
      /\ t.shadow = s.shadow /\ t.row = s.row /\ t.col = s.col
      /\ \A r \in Rows, c \in Cols :
            t.cells[TOP + r][LEFT + c] = IF r = s.row /\ c = s.col THEN cell
                                         ELSE s.cells[TOP + r][LEFT + c]
  BY <1>1, <1>2, AtCursorIs
<1>5. Synced(t)
  BY <1>3, <1>4 DEF Synced, Shown
<1> QED
  BY <1>4, <1>5

LEMMA DrawIs ==
    ASSUME NEW s \in Terminal, Synced(s), Below(s), Beyond(s), NEW t, t = DrawCursor(s)
    PROVE  t \in Terminal /\ Shown(t) /\ Elsewhere(s, t) /\ Below(t) /\ Beyond(t)
<1> DEFINE ch == s.shadow[s.row][s.col][1]
           cell == <<ch, "cursor">>
<1>1. s.shadow[s.row][s.col] \in Cell
  BY Changed DEF Buffer
<1>2. cell \in Cell
  BY <1>1, Cells
<1>3. t = AtCursor(s, cell)
  BY DEF DrawCursor
<1>4. \A r \in Rows, c \in Cols : r = s.row /\ c = s.col => cell[1] = s.shadow[r][c][1]
  OBVIOUS
<1> HIDE DEF cell
<1>5. /\ t \in Terminal /\ Elsewhere(s, t)
      /\ t.shadow = s.shadow /\ t.row = s.row /\ t.col = s.col
      /\ \A r \in Rows, c \in Cols :
            t.cells[TOP + r][LEFT + c] = IF r = s.row /\ c = s.col THEN cell
                                         ELSE s.cells[TOP + r][LEFT + c]
  BY <1>2, <1>3, AtCursorIs
<1>6. Shown(t)
  BY <1>4, <1>5 DEF Synced, Shown
<1>7. Below(t)
  BY <1>5 DEF Below
<1>8. Beyond(t)
  BY <1>5 DEF Beyond
<1> QED
  BY <1>5, <1>6, <1>7, <1>8
-----------------------------------------------------------------------------
(* The counter and the input line.                                         *)

\* A number has no more digits than its field has cells.
LEMMA NumberIs ==
    ASSUME NEW n
    PROVE  /\ DOMAIN Number(LEFT, n) \subseteq LEFT .. LEFT + FieldWidth - 1
           /\ \A x \in DOMAIN Number(LEFT, n) : Number(LEFT, n)[x] \in Cell
<1> DEFINE D == {k \in 1 .. FieldWidth : k = 1 \/ n >= 2 ^ (k - 1)}
           all == 1 .. FieldWidth
<1>1. Digits(n) = Cardinality(D)
  BY DEF Digits
<1>2. D \subseteq all
  OBVIOUS
<1> HIDE DEF D
<1>3. IsFiniteSet(all) /\ Cardinality(all) = FieldWidth
  <2>1. 1 \in Int /\ FieldWidth \in Int /\ ~ (1 > FieldWidth) /\ FieldWidth - 1 + 1 = FieldWidth
    BY Sizes
  <2> QED
    BY <2>1, FS_Interval
<1> HIDE DEF all
<1>4. IsFiniteSet(D) /\ Cardinality(D) <= FieldWidth
  BY <1>2, <1>3, FS_Subset
<1>5. Digits(n) \in Nat /\ Digits(n) <= FieldWidth
  BY <1>1, <1>4, FS_CardinalityType
<1>6. DOMAIN Number(LEFT, n) = LEFT .. LEFT + Digits(n) - 1
  BY DEF Number
<1>7. LEFT .. LEFT + Digits(n) - 1 \subseteq LEFT .. LEFT + FieldWidth - 1
  BY <1>5, Sizes
<1>8. ASSUME NEW x \in LEFT .. LEFT + Digits(n) - 1
      PROVE  Number(LEFT, n)[x] \in Cell
  <2> DEFINE d == IF Bit(n, LEFT + Digits(n) - 1 - x) THEN "1" ELSE "0"
  <2>1. Number(LEFT, n)[x] = <<d, "value">>
    BY DEF Number
  <2>2. d \in {"0", "1"}
    OBVIOUS
  <2> HIDE DEF d
  <2> QED
    BY <2>1, <2>2, Cells
<1> QED
  BY <1>6, <1>7, <1>8

\* The field holds the number and blanks; no other cell changes.
LEMMA ShowCountIs ==
    ASSUME NEW cs \in Grid, NEW n
    PROVE  /\ ShowCount(cs, n) \in Grid
           /\ \A x \in LEFT .. LEFT + FieldWidth - 1 :
                 ShowCount(cs, n)[STATS_ROW][x] = IF x \in DOMAIN Number(LEFT, n)
                                                  THEN Number(LEFT, n)[x] ELSE Blank
           /\ \A y \in Ys, x \in Xs :
                 ~ (y = STATS_ROW /\ x \in LEFT .. LEFT + FieldWidth - 1)
                    => ShowCount(cs, n)[y][x] = cs[y][x]
<1> DEFINE number == Number(LEFT, n)
           field == LEFT .. LEFT + FieldWidth - 1
           wiped == Write(cs, STATS_ROW, Filled(LEFT, FieldWidth, Blank))
           shown == Write(wiped, STATS_ROW, number)
<1>1. STATS_ROW \in Ys /\ field \subseteq Xs
  BY Sizes
<1>2. ShowCount(cs, n) = shown
  BY DEF ShowCount
<1>3. DOMAIN number \subseteq field /\ \A x \in DOMAIN number : number[x] \in Cell
  BY NumberIs
<1>b. Blank \in Cell
  BY Cells
<1> HIDE DEF number
<1>4. /\ wiped \in Grid
      /\ \A y \in Ys, x \in Xs :
            wiped[y][x] = IF y = STATS_ROW /\ x \in field THEN Blank ELSE cs[y][x]
  BY <1>1, <1>b, FilledIs
<1> HIDE DEF wiped, field
<1>5. /\ shown \in Grid
      /\ \A y \in Ys, x \in Xs :
            shown[y][x] = IF y = STATS_ROW /\ x \in DOMAIN number THEN number[x]
                          ELSE wiped[y][x]
  BY <1>1, <1>3, <1>4, WriteIs
<1> HIDE DEF shown
<1>6. \A x \in field : shown[STATS_ROW][x] = IF x \in DOMAIN number THEN number[x] ELSE Blank
  BY <1>1, <1>4, <1>5
<1>7. \A y \in Ys, x \in Xs : ~ (y = STATS_ROW /\ x \in field) => shown[y][x] = cs[y][x]
  BY <1>3, <1>4, <1>5
<1> QED
  BY <1>2, <1>5, <1>6, <1>7 DEF field, number

\* input_redraw shows the line; only the cursor of a full line leaves the inside.
LEMMA RedrawIs ==
    ASSUME NEW cs \in Grid, NEW n \in 0 .. MAX_CMD
    PROVE  /\ Redraw(cs, n) \in Grid
           /\ \A y \in Ys, x \in Xs :
                 y # INPUT_ROW \/ x = 0 \/ (x = VGA_WIDTH - 1 /\ n # MAX_CMD)
                    => Redraw(cs, n)[y][x] = cs[y][x]
           /\ \A x \in Xs \ Walls :
                 Redraw(cs, n)[INPUT_ROW][x] =
                   IF x < LEFT + PROMPT_LEN THEN <<">", "accent">>
                   ELSE IF x < LEFT + PROMPT_LEN + n THEN <<"x", "value">>
                   ELSE IF x = LEFT + PROMPT_LEN + n THEN <<" ", "cursor">>
                   ELSE Blank
<1> DEFINE prompt == <<">", "accent">>
           letter == <<"x", "value">>
           cursor == <<" ", "cursor">>
           a == Write(cs, INPUT_ROW, Filled(LEFT, TTY_COLS, Blank))
           b == Write(a, INPUT_ROW, Filled(LEFT, PROMPT_LEN, prompt))
           c == Write(b, INPUT_ROW, Filled(LEFT + PROMPT_LEN, n, letter))
           d == Write(c, INPUT_ROW, Filled(LEFT + PROMPT_LEN + n, 1, cursor))
<1>1. INPUT_ROW \in Ys
  BY Sizes
<1>2. prompt \in Cell /\ letter \in Cell /\ cursor \in Cell /\ Blank \in Cell
  BY Cells
<1>3. Redraw(cs, n) = d
  BY DEF Redraw
<1> HIDE DEF prompt, letter, cursor
<1>4. /\ a \in Grid
      /\ \A y \in Ys, x \in Xs :
            a[y][x] = IF y = INPUT_ROW /\ x \in LEFT .. LEFT + TTY_COLS - 1 THEN Blank
                      ELSE cs[y][x]
  BY <1>1, <1>2, FilledIs
<1> HIDE DEF a
<1>5. /\ b \in Grid
      /\ \A y \in Ys, x \in Xs :
            b[y][x] = IF y = INPUT_ROW /\ x \in LEFT .. LEFT + PROMPT_LEN - 1 THEN prompt
                      ELSE a[y][x]
  BY <1>1, <1>2, <1>4, FilledIs
<1> HIDE DEF b
<1>6. /\ c \in Grid
      /\ \A y \in Ys, x \in Xs :
            c[y][x] = IF y = INPUT_ROW /\ x \in LEFT + PROMPT_LEN .. LEFT + PROMPT_LEN + n - 1
                      THEN letter ELSE b[y][x]
  BY <1>1, <1>2, <1>5, FilledIs
<1> HIDE DEF c
<1>7. /\ d \in Grid
      /\ \A y \in Ys, x \in Xs :
            d[y][x] = IF /\ y = INPUT_ROW
                         /\ x \in LEFT + PROMPT_LEN + n .. LEFT + PROMPT_LEN + n + 1 - 1
                      THEN cursor ELSE c[y][x]
  BY <1>1, <1>2, <1>6, FilledIs
<1> HIDE DEF d
<1>8. \A x \in Xs :
         /\ x = 0 \/ (x = VGA_WIDTH - 1 /\ n # MAX_CMD)
              => /\ x \notin LEFT .. LEFT + TTY_COLS - 1
                 /\ x \notin LEFT .. LEFT + PROMPT_LEN - 1
                 /\ x \notin LEFT + PROMPT_LEN .. LEFT + PROMPT_LEN + n - 1
                 /\ x \notin LEFT + PROMPT_LEN + n .. LEFT + PROMPT_LEN + n + 1 - 1
  BY Sizes
<1>9. \A x \in Xs \ Walls :
         /\ x \in LEFT .. LEFT + TTY_COLS - 1
         /\ x < LEFT + PROMPT_LEN <=> x \in LEFT .. LEFT + PROMPT_LEN - 1
         /\ x \in LEFT + PROMPT_LEN .. LEFT + PROMPT_LEN + n - 1
              <=> ~ (x < LEFT + PROMPT_LEN) /\ x < LEFT + PROMPT_LEN + n
         /\ x \in LEFT + PROMPT_LEN + n .. LEFT + PROMPT_LEN + n + 1 - 1
              <=> x = LEFT + PROMPT_LEN + n
         /\ x = LEFT + PROMPT_LEN + n => ~ (x < LEFT + PROMPT_LEN)
  BY Sizes
<1>10. \A y \in Ys, x \in Xs :
          y # INPUT_ROW \/ x = 0 \/ (x = VGA_WIDTH - 1 /\ n # MAX_CMD)
             => d[y][x] = cs[y][x]
  BY <1>4, <1>5, <1>6, <1>7, <1>8
<1>11. ASSUME NEW x \in Xs \ Walls
       PROVE  d[INPUT_ROW][x] =
                IF x < LEFT + PROMPT_LEN THEN prompt
                ELSE IF x < LEFT + PROMPT_LEN + n THEN letter
                ELSE IF x = LEFT + PROMPT_LEN + n THEN cursor
                ELSE Blank
  <2>1. ~ (x < LEFT + PROMPT_LEN + n /\ x = LEFT + PROMPT_LEN + n)
    BY Sizes
  <2> QED
    BY <1>1, <1>4, <1>5, <1>6, <1>7, <1>9, <2>1
<1> QED
  BY <1>3, <1>7, <1>10, <1>11 DEF prompt, letter, cursor
-----------------------------------------------------------------------------
(* The steps.                                                              *)

\* The terminal, the input line, the counter and the borders have cells of their own.
LEMMA Apart ==
    /\ INPUT_ROW \in Ys /\ STATS_ROW \in Ys /\ INPUT_ROW # STATS_ROW
    /\ LEFT .. LEFT + FieldWidth - 1 \subseteq Xs
    /\ \A y \in Ys, x \in Xs :
          Inside(y, x) => y # INPUT_ROW /\ y # STATS_ROW /\ ~ Chrome(x, y)
    /\ \A x \in LEFT .. LEFT + FieldWidth - 1 : ~ Chrome(x, STATS_ROW)
    /\ \A x \in Xs : Chrome(x, INPUT_ROW) => x = 0 \/ x = VGA_WIDTH - 1
    /\ \A x \in Xs \ Walls : x \in Xs /\ x # 0 /\ x # VGA_WIDTH - 1
<1>1. /\ INPUT_ROW \in Ys /\ STATS_ROW \in Ys /\ INPUT_ROW # STATS_ROW
      /\ LEFT .. LEFT + FieldWidth - 1 \subseteq Xs
  BY Sizes
<1>2. ASSUME NEW y \in Ys, NEW x \in Xs, Inside(y, x)
      PROVE  y # INPUT_ROW /\ y # STATS_ROW /\ ~ Chrome(x, y)
  BY <1>2, Sizes DEF Inside, Chrome
<1>3. \A x \in LEFT .. LEFT + FieldWidth - 1 : ~ Chrome(x, STATS_ROW)
  BY Sizes DEF Chrome
<1>4. \A x \in Xs : Chrome(x, INPUT_ROW) => x = 0 \/ x = VGA_WIDTH - 1
  BY Sizes DEF Chrome
<1>5. \A x \in Xs \ Walls : x \in Xs /\ x # 0 /\ x # VGA_WIDTH - 1
  BY DEF Walls
<1> QED
  BY <1>1, <1>2, <1>3, <1>4, <1>5

\* The state of the terminal, and the parts of the invariant that are about it.
LEMMA NowIs ==
    /\ Now.cells = cells /\ Now.shadow = shadow /\ Now.row = row /\ Now.col = col
    /\ TypeOK => Now \in Terminal /\ row \in Rows /\ row \in Int
    /\ TypeOK /\ RestBlank => Below(Now) /\ Beyond(Now)
    /\ TerminalShown /\ Up /\ shell # "matrix" => Shown(Now)
<1>1. /\ Now.cells = cells /\ Now.shadow = shadow /\ Now.row = row /\ Now.col = col
  BY DEF Now
<1>2. ASSUME TypeOK PROVE Now \in Terminal /\ row \in Rows /\ row \in Int
  <2>1. Now \in Terminal /\ row \in Rows
    BY <1>2 DEF Now, Terminal, TypeOK, Grid, Buffer
  <2> QED
    BY <2>1, Sizes
<1>3. ASSUME TypeOK, RestBlank PROVE Below(Now) /\ Beyond(Now)
  <2>1. Below(Now)
    BY <1>1, <1>3 DEF Below, RestBlank
  <2>2. Beyond(Now)
    BY <1>1, <1>2, <1>3 DEF Beyond, RestBlank
  <2> QED
    BY <2>1, <2>2
<1>4. ASSUME TerminalShown, Up, shell # "matrix" PROVE Shown(Now)
  BY <1>1, <1>4 DEF Shown, TerminalShown
<1> QED
  BY <1>1, <1>2, <1>3, <1>4

\* A step that writes inside the terminal.
LEMMA TerminalStep ==
    ASSUME ScreenInv, NEW t \in Terminal,
           cells' = t.cells, shadow' = t.shadow, row' = t.row, col' = t.col,
           Elsewhere(Now, t), Below(t), Beyond(t), Shown(t) \/ shell' = "matrix",
           UNCHANGED <<style, cmd_len, full, switches, last>>,
           shell \notin {"boot", "drawn"}, shell' \in {"banner", "command", "matrix"}
    PROVE  ScreenInv'
<1>1. TypeOK'
  <2>1. cells' \in Grid /\ shadow' \in Buffer /\ row' \in Rows /\ col' \in Cols
    BY Changed
  <2>2. TypeOK
    BY DEF ScreenInv
  <2> QED
    BY <2>1, <2>2 DEF TypeOK, Grid, Buffer
<1>2. RestBlank'
  <2>1. \A r \in Rows, c \in Cols : r > t.row \/ (r = t.row /\ c >= t.col)
                                      => t.shadow[r][c][1] = " "
    BY DEF Below, Beyond
  <2> QED
    BY <2>1 DEF RestBlank
<1>3. TerminalShown'
  BY DEF TerminalShown, Shown
<1>4. LineShown'
  BY DEF LineShown
<1>5. \A y \in Ys, x \in Xs : ~ Inside(y, x) => cells'[y][x] = cells[y][x]
  BY NowIs DEF Elsewhere
<1>6. BordersStand'
  <2>1. shell # "boot" /\ BordersStand
    BY DEF ScreenInv
  <2>2. \A y \in Ys, x \in Xs : Chrome(x, y) => cells'[y][x] = cells[y][x]
    BY <1>5, Apart
  <2> QED
    BY <2>1, <2>2 DEF BordersStand
<1>7. CountersKept'
  <2>1. CountersKept
    BY DEF ScreenInv
  <2>2. \A x \in LEFT .. LEFT + FieldWidth - 1 : cells'[STATS_ROW][x] = cells[STATS_ROW][x]
    BY <1>5, Apart
  <2>3. last' = last
    OBVIOUS
  <2> QED
    BY <2>1, <2>2, <2>3 DEF CountersKept
<1> QED
  BY <1>1, <1>2, <1>3, <1>4, <1>6, <1>7 DEF ScreenInv
\* Where the screen shows the shadow buffer, the cursor may be anywhere.
LEMMA SyncedIsShown ==
    ASSUME NEW s, Synced(s)
    PROVE  Shown(s)
BY DEF Synced, Shown

LEMMA ClearStep ==
    ASSUME ScreenInv, Becomes(Clear(Now)),
           UNCHANGED <<style, cmd_len, full, switches, last>>,
           shell \notin {"boot", "drawn"}, shell' \in {"banner", "command", "matrix"}
    PROVE  ScreenInv'
<1>1. PICK t : t = Clear(Now)
  OBVIOUS
<1>2. Now \in Terminal /\ style \in {"default", "other"}
  BY NowIs DEF ScreenInv, TypeOK
<1>3. /\ t \in Terminal /\ Synced(t) /\ Elsewhere(Now, t) /\ Below(t) /\ Beyond(t)
  BY <1>1, <1>2, ClearIs
<1>4. cells' = t.cells /\ shadow' = t.shadow /\ row' = t.row /\ col' = t.col
  BY <1>1 DEF Becomes
<1> QED
  BY <1>3, <1>4, SyncedIsShown, TerminalStep

LEMMA PutsStep ==
    ASSUME ScreenInv, NEW e, e = EraseCursor(Now), NEW s,
           s = Printed(e, "x") \/ s = NewLine(e) \/ s = Tab(e), Puts(s)
    PROVE  ScreenInv'
<1>1. PICK t : t = DrawCursor(s)
  OBVIOUS
<1>2. Now \in Terminal /\ style \in {"default", "other"}
  BY NowIs DEF ScreenInv, TypeOK
<1>3. /\ shell \in {"banner", "command"} /\ shell' = shell
      /\ UNCHANGED <<style, cmd_len, full, switches, last>>
  BY DEF Puts
<1>4. Shown(Now) /\ Below(Now) /\ Beyond(Now)
  BY <1>3, NowIs DEF ScreenInv, Up
<1>5. /\ e \in Terminal /\ Synced(e) /\ Elsewhere(Now, e)
      /\ e.shadow = Now.shadow /\ e.row = Now.row /\ e.col = Now.col
  BY <1>2, <1>4, EraseIs
<1>6. Below(e) /\ Beyond(e)
  <2>1. Below(e)
    BY <1>4, <1>5 DEF Below
  <2>2. Beyond(e)
    BY <1>4, <1>5 DEF Beyond
  <2> QED
    BY <2>1, <2>2
<1>7. /\ s \in Terminal /\ Synced(s) /\ Elsewhere(e, s) /\ Below(s) /\ Beyond(s)
  <2>1. CASE s = Printed(e, "x")
    BY <1>2, <1>5, <1>6, <2>1, PrintedIs
  <2>2. CASE s = NewLine(e)
    BY <1>2, <1>5, <1>6, <2>2, NewLineIs
  <2>3. CASE s = Tab(e)
    BY <1>2, <1>5, <1>6, <2>3, TabIs
  <2> QED
    BY <2>1, <2>2, <2>3
<1>8. t \in Terminal /\ Shown(t) /\ Elsewhere(s, t) /\ Below(t) /\ Beyond(t)
  BY <1>1, <1>7, DrawIs
<1>9. Elsewhere(Now, t)
  BY <1>5, <1>7, <1>8 DEF Elsewhere
<1>10. cells' = t.cells /\ shadow' = t.shadow /\ row' = t.row /\ col' = t.col
  BY <1>1 DEF Puts, Becomes
<1> QED
  BY <1>3, <1>8, <1>9, <1>10, TerminalStep

LEMMA DropStep ==
    ASSUME ScreenInv, MatrixDrop
    PROVE  ScreenInv'
<1>a. TypeOK /\ shell = "matrix" /\ shell' = "matrix"
      /\ UNCHANGED <<shadow, row, col, style, cmd_len, full, switches, last>>
  BY DEF ScreenInv, MatrixDrop
<1>1. /\ cells' \in Grid
      /\ \A y \in Ys, x \in Xs : ~ Inside(y, x) => cells'[y][x] = cells[y][x]
  <2> DEFINE Shade(drop, r) == <<"white", "light green", "none", "green">>[drop - r + 1]
             Drawn(drop, r) == drop \in Rows /\ drop - r \in {0, 1, 3}
             here(c, y, x) == x = LEFT + c /\ y - TOP \in Rows
             New(c, drop, trail, y, x) ==
                CASE here(c, y, x) /\ Drawn(drop, y - TOP) -> <<"m", Shade(drop, y - TOP)>>
                  [] here(c, y, x) /\ ~ Drawn(drop, y - TOP) /\ y - TOP = trail -> Blank
                  [] OTHER -> cells[y][x]
  <2>1. PICK c \in Cols, drop \in -1 .. TTY_ROWS + 1, trail \in Rows :
            cells' = [y \in Ys |-> [x \in Xs |-> New(c, drop, trail, y, x)]]
    BY DEF MatrixDrop
  <2>2. ASSUME NEW y \in Ys, NEW x \in Xs
        PROVE  /\ New(c, drop, trail, y, x) \in Cell
               /\ ~ Inside(y, x) => New(c, drop, trail, y, x) = cells[y][x]
    <3> DEFINE r == y - TOP
    <3>1. cells[y][x] \in Cell
      BY <1>a DEF TypeOK
    <3>2. here(c, y, x) => Inside(y, x)
      BY Places DEF Inside
    <3>3. CASE here(c, y, x) /\ Drawn(drop, r)
      <4>1. New(c, drop, trail, y, x) = <<"m", Shade(drop, r)>>
        BY <3>3
      <4>2. Shade(drop, r) \in {"white", "light green", "green"}
        <5>1. drop - r + 1 = 1 \/ drop - r + 1 = 2 \/ drop - r + 1 = 4
          BY <3>3
        <5>2. /\ <<"white", "light green", "none", "green">>[1] = "white"
              /\ <<"white", "light green", "none", "green">>[2] = "light green"
              /\ <<"white", "light green", "none", "green">>[4] = "green"
          OBVIOUS
        <5>3. \/ Shade(drop, r) = <<"white", "light green", "none", "green">>[1]
              \/ Shade(drop, r) = <<"white", "light green", "none", "green">>[2]
              \/ Shade(drop, r) = <<"white", "light green", "none", "green">>[4]
          <6> DEFINE k == drop - r + 1
          <6>1. k = 1 \/ k = 2 \/ k = 4
            BY <5>1
          <6>2. Shade(drop, r) = <<"white", "light green", "none", "green">>[k]
            OBVIOUS
          <6> HIDE DEF k, Shade
          <6> QED
            BY <6>1, <6>2
        <5> HIDE DEF Shade
        <5> QED
          BY <5>2, <5>3
      <4>3. <<"m", Shade(drop, r)>> \in Cell
        BY <4>2, Cells
      <4> QED
        BY <3>2, <3>3, <4>1, <4>3
    <3>4. CASE here(c, y, x) /\ ~ Drawn(drop, r)
      <4>1. New(c, drop, trail, y, x) = IF r = trail THEN Blank ELSE cells[y][x]
        BY <3>4
      <4>2. Blank \in Cell
        BY Cells
      <4> QED
        BY <3>1, <3>2, <3>4, <4>1, <4>2
    <3>5. CASE ~ here(c, y, x)
      <4>1. New(c, drop, trail, y, x) = cells[y][x]
        BY <3>5
      <4> QED
        BY <3>1, <4>1
    <3> QED
      BY <3>3, <3>4, <3>5
  <2> HIDE DEF New
  <2> QED
    BY <2>1, <2>2 DEF Grid
<1>2. PICK t : t = [Now EXCEPT !.cells = cells']
  OBVIOUS
<1>3. Now \in Terminal /\ Below(Now) /\ Beyond(Now)
  BY NowIs DEF ScreenInv
<1>4. /\ t \in Terminal /\ t.cells = cells' /\ t.shadow = Now.shadow
      /\ t.row = Now.row /\ t.col = Now.col
  BY <1>1, <1>2, <1>3, Changed
<1>5. t.shadow = shadow' /\ t.row = row' /\ t.col = col'
  BY <1>a, <1>4, NowIs
<1>6. Elsewhere(Now, t)
  BY <1>1, <1>4, NowIs DEF Elsewhere
<1>7. Below(t)
  BY <1>3, <1>4 DEF Below
<1>8. Beyond(t)
  BY <1>3, <1>4 DEF Beyond
<1> QED
  BY <1>a, <1>4, <1>5, <1>6, <1>7, <1>8, TerminalStep
\* The line is drawn: the wall at its end is lost when the line is full.
LEMMA LineStep ==
    ASSUME ScreenInv, NEW n \in 0 .. MAX_CMD,
           shell \in {"banner", "command", "keys"}, shell' = "keys",
           cells' = Redraw(cells, n), cmd_len' = n, full' \in BOOLEAN,
           full => full', n = MAX_CMD => full',
           UNCHANGED <<shadow, row, col, style, switches, last>>
    PROVE  ScreenInv'
<1>a. TypeOK /\ cells \in Grid
  BY DEF ScreenInv, TypeOK, Grid
<1>1. PICK g : g = Redraw(cells, n)
  OBVIOUS
<1>2. /\ g \in Grid
      /\ \A y \in Ys, x \in Xs :
            y # INPUT_ROW \/ x = 0 \/ (x = VGA_WIDTH - 1 /\ n # MAX_CMD)
               => g[y][x] = cells[y][x]
  BY <1>a, <1>1, RedrawIs
<1>3. cells' = g
  BY <1>1
<1>4. TypeOK'
  BY <1>a, <1>2, <1>3 DEF TypeOK, Grid
<1>5. RestBlank'
  BY DEF ScreenInv, RestBlank
<1>6. TerminalShown'
  <2>1. \A r \in Rows, c \in Cols : g[TOP + r][LEFT + c] = cells[TOP + r][LEFT + c]
    BY <1>2, Places, Apart
  <2>2. TerminalShown /\ Up /\ shell # "matrix"
    BY DEF ScreenInv, Up
  <2>3. \A r \in Rows, c \in Cols :
           IF r = row /\ c = col THEN g[TOP + r][LEFT + c][1] = shadow[r][c][1]
           ELSE g[TOP + r][LEFT + c] = shadow[r][c]
    BY <2>1, <2>2 DEF TerminalShown
  <2> QED
    BY <1>3, <2>3 DEF TerminalShown
<1>7. LineShown'
  <2>1. \A x \in Xs \ Walls :
           g[INPUT_ROW][x] =
             IF x < LEFT + PROMPT_LEN THEN <<">", "accent">>
             ELSE IF x < LEFT + PROMPT_LEN + n THEN <<"x", "value">>
             ELSE IF x = LEFT + PROMPT_LEN + n THEN <<" ", "cursor">>
             ELSE Blank
    BY <1>a, <1>1, RedrawIs
  <2> QED
    BY <1>3, <2>1 DEF LineShown
<1>8. BordersStand'
  <2>1. ASSUME NEW y \in Ys, NEW x \in Xs,
               Chrome(x, y), ~ (full' /\ y = INPUT_ROW /\ x = VGA_WIDTH - 1)
        PROVE  g[y][x] = Border
    <3>1. cells[y][x] = Border
      BY <2>1 DEF ScreenInv, BordersStand
    <3>2. y # INPUT_ROW \/ x = 0 \/ (x = VGA_WIDTH - 1 /\ n # MAX_CMD)
      BY <2>1, Apart
    <3> QED
      BY <1>2, <3>1, <3>2
  <2> QED
    BY <1>3, <2>1 DEF BordersStand
<1>9. CountersKept'
  <2>1. \A x \in LEFT .. LEFT + FieldWidth - 1 : g[STATS_ROW][x] = cells[STATS_ROW][x]
    BY <1>2, Apart
  <2>2. CountersKept /\ last' = last
    BY DEF ScreenInv
  <2> QED
    BY <1>3, <2>1, <2>2 DEF CountersKept
<1> QED
  BY <1>4, <1>5, <1>6, <1>7, <1>8, <1>9 DEF ScreenInv

LEMMA TickStep ==
    ASSUME ScreenInv, Tick
    PROVE  ScreenInv'
<1>a. TypeOK /\ cells \in Grid
  BY DEF ScreenInv, TypeOK, Grid
<1>b. /\ last' = switches
      /\ cells' = IF switches # last THEN ShowCount(cells, switches) ELSE cells
      /\ UNCHANGED <<shadow, row, col, style, shell, cmd_len, full, switches>>
  BY DEF Tick
<1>1. PICK g : g = cells'
  OBVIOUS
<1>2. /\ g \in Grid
      /\ \A y \in Ys, x \in Xs :
            ~ (y = STATS_ROW /\ x \in LEFT .. LEFT + FieldWidth - 1) => g[y][x] = cells[y][x]
  BY <1>a, <1>b, <1>1, ShowCountIs
<1>3. TypeOK'
  <2>1. switches \in 0 .. MaxCount - 1 => switches \in -1 .. MaxCount - 1
    OBVIOUS
  <2>2. last' \in -1 .. MaxCount - 1
    BY <1>a, <1>b, <2>1 DEF TypeOK
  <2>3. cells' \in [Ys -> [Xs -> Cell]]
    BY <1>1, <1>2 DEF Grid
  <2> QED
    BY <1>a, <1>b, <2>2, <2>3 DEF TypeOK
<1>4. RestBlank'
  BY <1>b DEF ScreenInv, RestBlank
<1>5. TerminalShown'
  <2>1. \A r \in Rows, c \in Cols : g[TOP + r][LEFT + c] = cells[TOP + r][LEFT + c]
    BY <1>2, Places, Apart
  <2>2. TerminalShown
    BY DEF ScreenInv
  <2> QED
    BY <1>1, <1>b, <2>1, <2>2 DEF TerminalShown, Up
<1>6. LineShown'
  <2>1. \A x \in Xs \ Walls : g[INPUT_ROW][x] = cells[INPUT_ROW][x]
    BY <1>2, Apart
  <2>2. LineShown
    BY DEF ScreenInv
  <2> QED
    BY <1>1, <1>b, <2>1, <2>2 DEF LineShown
<1>7. BordersStand'
  <2>1. \A y \in Ys, x \in Xs : Chrome(x, y) => g[y][x] = cells[y][x]
    BY <1>2, Apart
  <2>2. BordersStand
    BY DEF ScreenInv
  <2> QED
    BY <1>1, <1>b, <2>1, <2>2 DEF BordersStand
<1>8. CountersKept'
  <2>1. CASE switches # last
    <3>1. g = ShowCount(cells, switches)
      BY <1>1, <1>b, <2>1
    <3>2. \A x \in LEFT .. LEFT + FieldWidth - 1 :
             g[STATS_ROW][x] = IF x \in DOMAIN Number(LEFT, switches)
                               THEN Number(LEFT, switches)[x] ELSE Blank
      BY <1>a, <3>1, ShowCountIs
    <3> QED
      BY <1>1, <1>b, <3>2 DEF CountersKept
  <2>2. CASE switches = last
    <3>1. cells' = cells /\ last' = last /\ shell' = shell
      BY <1>b, <2>2
    <3> QED
      BY <3>1 DEF CountersKept, ScreenInv
  <2> QED
    BY <2>1, <2>2
<1> QED
  BY <1>3, <1>4, <1>5, <1>6, <1>7, <1>8 DEF ScreenInv

LEMMA CountStep ==
    ASSUME ScreenInv, CountSwitch
    PROVE  ScreenInv'
<1>1. /\ switches' = (switches + 1) % MaxCount
      /\ UNCHANGED <<cells, shadow, row, col, style, shell, cmd_len, full, last>>
  BY DEF CountSwitch
<1>2. switches' \in 0 .. MaxCount - 1
  <2>1. \A m, b : m \in 1 .. b => m \in Nat \ {0}
    OBVIOUS
  <2>2. MaxCount \in Nat \ {0}
    BY <2>1, ScreenConstants, Zenon
  <2>3. switches \in 0 .. MaxCount - 1
    BY DEF ScreenInv, TypeOK
  <2> QED
    BY <1>1, <2>2, <2>3
<1>3. TypeOK'
  BY <1>1, <1>2 DEF ScreenInv, TypeOK
<1>4. RestBlank' /\ LineShown' /\ BordersStand' /\ CountersKept'
  BY <1>1 DEF ScreenInv, RestBlank, LineShown, BordersStand, CountersKept
<1>5. TerminalShown'
  BY <1>1 DEF ScreenInv, TerminalShown, Up
<1> QED
  BY <1>3, <1>4, <1>5 DEF ScreenInv

LEMMA DashboardStep ==
    ASSUME ScreenInv, DashboardDraw \/ DashboardForce
    PROVE  ScreenInv'
<1>1. CASE DashboardDraw
  <2> DEFINE New(y, x) == IF Chrome(x, y) THEN Border ELSE Cleared[y][x]
  <2>1. /\ shell' = "drawn" /\ cells' = [y \in Ys |-> [x \in Xs |-> New(y, x)]]
        /\ UNCHANGED <<shadow, row, col, style, cmd_len, full, switches, last>>
    BY <1>1 DEF DashboardDraw
  <2>2. \A y \in Ys, x \in Xs : New(y, x) \in Cell /\ (Chrome(x, y) => New(y, x) = Border)
    <3>1. \A y \in Ys, x \in Xs : Cleared[y][x] = Blank
      BY DEF Cleared
    <3>2. Blank \in Cell /\ Border \in Cell
      BY Cells
    <3> QED
      BY <3>1, <3>2
  <2> HIDE DEF New
  <2>3. TypeOK'
    BY <2>1, <2>2 DEF ScreenInv, TypeOK
  <2>4. RestBlank' /\ LineShown'
    BY <2>1 DEF ScreenInv, RestBlank, LineShown
  <2>5. TerminalShown' /\ CountersKept'
    BY <2>1 DEF TerminalShown, Up, CountersKept
  <2>6. BordersStand'
    BY <2>1, <2>2 DEF BordersStand
  <2> QED
    BY <2>3, <2>4, <2>5, <2>6 DEF ScreenInv
<1>2. CASE DashboardForce
  <2>1. /\ shell = "drawn" /\ shell' = "chrome" /\ last' = -1
        /\ UNCHANGED <<cells, shadow, row, col, style, cmd_len, full, switches>>
    BY <1>2 DEF DashboardForce
  <2>2. -1 \in -1 .. MaxCount - 1
    <3>1. \A m, b : m \in 1 .. b => m \in Nat \ {0}
      OBVIOUS
    <3>2. MaxCount \in Nat \ {0}
      BY <3>1, ScreenConstants, Zenon
    <3> QED
      BY <3>2
  <2>3. TypeOK'
    BY <2>1, <2>2 DEF ScreenInv, TypeOK
  <2>4. RestBlank' /\ LineShown'
    BY <2>1 DEF ScreenInv, RestBlank, LineShown
  <2>5. TerminalShown' /\ CountersKept'
    BY <2>1 DEF TerminalShown, Up, CountersKept
  <2>6. BordersStand'
    BY <2>1 DEF ScreenInv, BordersStand
  <2> QED
    BY <2>3, <2>4, <2>5, <2>6 DEF ScreenInv
<1> QED
  BY <1>1, <1>2

\* The steps that write to no cell.
LEMMA QuietStep ==
    ASSUME ScreenInv, Style \/ Enter \/ UNCHANGED vars
    PROVE  ScreenInv'
<1>1. /\ UNCHANGED <<cells, shadow, row, col, cmd_len, full, switches, last>>
      /\ style' = style \/ style' \in {"default", "other"}
      /\ shell' = shell \/ (shell = "keys" /\ shell' = "command")
  BY DEF Style, Enter, vars
<1>2. TypeOK'
  BY <1>1 DEF ScreenInv, TypeOK
<1>3. RestBlank' /\ LineShown' /\ BordersStand' /\ CountersKept'
  BY <1>1 DEF ScreenInv, RestBlank, LineShown, BordersStand, CountersKept
<1>4. TerminalShown'
  BY <1>1 DEF ScreenInv, TerminalShown, Up
<1> QED
  BY <1>2, <1>3, <1>4 DEF ScreenInv
-----------------------------------------------------------------------------
(* The theorems.                                                           *)

LEMMA ScreenInit ==
    ASSUME Init
    PROVE  ScreenInv
<1>1. TypeOK
  <2>1. \A m, b : m \in 1 .. b => m \in Nat \ {0}
    OBVIOUS
  <2>2. MaxCount \in Nat \ {0}
    BY <2>1, ScreenConstants, Zenon
  <2>3. row \in Rows /\ col \in Cols /\ cmd_len \in 0 .. MAX_CMD
    <3>1. row = 0 /\ col = 0 /\ cmd_len = 0
      BY DEF Init
    <3>2. 0 \in Rows /\ 0 \in Cols /\ 0 \in 0 .. MAX_CMD
      BY Sizes
    <3> QED
      BY <3>1, <3>2
  <2>4. Cleared \in [Ys -> [Xs -> Cell]]
    BY Cells DEF Cleared
  <2>5. cells \in [Ys -> [Xs -> Cell]]
    BY <2>4 DEF Init
  <2>6. shadow \in [Rows -> [Cols -> Cell]]
    BY Cells DEF Init
  <2>7. switches \in 0 .. MaxCount - 1 /\ last \in -1 .. MaxCount - 1
    <3>1. switches = 0 /\ last = -1
      BY DEF Init
    <3> QED
      BY <2>2, <3>1
  <2> QED
    BY <2>3, <2>5, <2>6, <2>7 DEF Init, TypeOK
<1>2. RestBlank
  BY DEF Init, RestBlank
<1>3. TerminalShown /\ LineShown /\ BordersStand /\ CountersKept
  BY DEF Init, TerminalShown, Up, LineShown, BordersStand, CountersKept
<1> QED
  BY <1>1, <1>2, <1>3 DEF ScreenInv

LEMMA ScreenStep ==
    ASSUME ScreenInv, [Next]_vars
    PROVE  ScreenInv'
<1>a. cmd_len \in 0 .. MAX_CMD /\ full \in BOOLEAN
  BY DEF ScreenInv, TypeOK
<1>1. CASE DashboardDraw \/ DashboardForce
  BY <1>1, DashboardStep
<1>2. CASE TtyInit \/ ClearCommand \/ MatrixBegin \/ MatrixEnd
  <2>1. /\ Becomes(Clear(Now))
        /\ UNCHANGED <<style, cmd_len, full, switches, last>>
        /\ shell \notin {"boot", "drawn"} /\ shell' \in {"banner", "command", "matrix"}
    BY <1>2 DEF TtyInit, ClearCommand, MatrixBegin, MatrixEnd
  <2> QED
    BY <2>1, ClearStep
<1>3. CASE PrintChar \/ PrintNewLine \/ PrintTab
  <2>1. PICK e : e = EraseCursor(Now)
    OBVIOUS
  <2>2. PICK s : (s = Printed(e, "x") \/ s = NewLine(e) \/ s = Tab(e)) /\ Puts(s)
    BY <1>3, <2>1 DEF PrintChar, PrintNewLine, PrintTab
  <2> QED
    BY <2>1, <2>2, PutsStep
<1>4. CASE MatrixDrop
  BY <1>4, DropStep
<1>5. CASE Finish
  <2>1. /\ shell \in {"banner", "command", "keys"} /\ shell' = "keys"
        /\ cells' = Redraw(cells, 0) /\ cmd_len' = 0 /\ full' = full
        /\ UNCHANGED <<shadow, row, col, style, switches, last>>
    BY <1>5 DEF Finish
  <2>2. 0 \in 0 .. MAX_CMD /\ 0 # MAX_CMD
    BY Sizes
  <2> QED
    BY <1>a, <2>1, <2>2, LineStep
<1>6. ASSUME NEW n \in 0 .. MAX_CMD, Edit(n)
      PROVE  ScreenInv'
  <2>1. /\ shell \in {"banner", "command", "keys"} /\ shell' = "keys"
        /\ cells' = Redraw(cells, n) /\ cmd_len' = n
        /\ UNCHANGED <<shadow, row, col, style, switches, last>>
    BY <1>6 DEF Edit
  <2>2. full' = (full \/ n = MAX_CMD)
    BY <1>6 DEF Edit
  <2>3. full' \in BOOLEAN /\ (full => full') /\ (n = MAX_CMD => full')
    BY <1>a, <2>2, Zenon
  <2> QED
    BY <2>1, <2>3, LineStep
<1>7. CASE Letter
  <2>1. cmd_len + 1 \in 0 .. MAX_CMD
    BY <1>a, <1>7, Sizes DEF Letter
  <2> QED
    BY <1>6, <1>7, <2>1 DEF Letter
<1>8. CASE Backspace
  <2>1. (IF cmd_len > 0 THEN cmd_len - 1 ELSE 0) \in 0 .. MAX_CMD
    BY <1>a, Sizes
  <2> QED
    BY <1>6, <1>8, <2>1 DEF Backspace
<1>9. CASE Tick
  BY <1>9, TickStep
<1>10. CASE CountSwitch
  BY <1>10, CountStep
<1>11. CASE Style \/ Enter \/ UNCHANGED vars
  BY <1>11, QuietStep
<1> QED
  BY <1>1, <1>2, <1>3, <1>4, <1>5, <1>7, <1>8, <1>9, <1>10, <1>11 DEF Next

\* In every reachable state ScreenInv holds.
THEOREM ScreenInvariant == Spec => []ScreenInv
<1>1. Init => ScreenInv
  BY ScreenInit
<1>2. ScreenInv /\ [Next]_vars => ScreenInv'
  BY ScreenStep
<1> QED
  BY <1>1, <1>2, PTL DEF Spec

\* Every variable keeps its type: no print, tab or scroll takes the cursor of tty.c out of
\* the shadow buffer, no key takes cmd_len of shell.c past cmd_buf.
THEOREM ScreenTypeCorrect == Spec => []TypeOK
<1>1. ScreenInv => TypeOK
  BY DEF ScreenInv
<1> QED
  BY <1>1, ScreenInvariant, PTL

\* The terminal shows its shadow buffer, the input row the line that was typed, and the
\* borders stand, though tty.c, shell.c, matrix.c and the timer interrupt in dashboard.c
\* write to one array of cells.
THEOREM CellsHaveOwners == Spec => []EachOwnsItsCells
<1>1. ScreenInv => EachOwnsItsCells
  BY DEF ScreenInv, EachOwnsItsCells
<1> QED
  BY <1>1, ScreenInvariant, PTL

\* The counter on the screen is the one of the last dashboard_update, which draws only what
\* has changed and may come while dashboard_init draws.
THEOREM CountersAreShown == Spec => []CountersShown
<1>1. ScreenInv => CountersShown
  BY DEF ScreenInv, CountersKept, CountersShown, Up
<1> QED
  BY <1>1, ScreenInvariant, PTL
=============================================================================
