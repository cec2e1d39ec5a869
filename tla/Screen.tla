------------------------------- MODULE Screen -------------------------------
(***************************************************************************)
(* The text screen and those that write to it: the terminal (tty.c) with   *)
(* its shadow buffer, the input line of the shell (shell.c), the matrix    *)
(* command, which writes past the shadow buffer (matrix.c), and the        *)
(* dashboard, drawn once and then kept up to date by the timer interrupt   *)
(* (dashboard.c), all through the cells of vga.c.                          *)
(*                                                                         *)
(* A cell is a character and an attribute.  The rows are the header, the   *)
(* terminal, the input line, a separator, the counters and the footer,     *)
(* with a wall on both sides.  Of the counters there is one; the clock,    *)
(* the memory bar and the labels are left out.  A character of the         *)
(* terminal is one step: only the interrupt comes in between, and it       *)
(* writes to other rows.                                                   *)
(***************************************************************************)
EXTENDS Integers, FiniteSets

CONSTANTS
    TTY_ROWS, TTY_COLS,
    TabStop,
    PROMPT_LEN, MAX_CMD,
    FieldWidth,          \* cells of a counter
    MaxCount             \* a counter counts modulo this; it has FieldWidth digits

ASSUME ScreenConstants ==
    /\ TTY_ROWS \in Nat \ {0} /\ TTY_COLS \in Nat \ {0} /\ TabStop \in Nat \ {0}
    /\ PROMPT_LEN \in Nat /\ MAX_CMD \in Nat \ {0} /\ PROMPT_LEN + MAX_CMD <= TTY_COLS
    /\ FieldWidth \in 1 .. TTY_COLS /\ MaxCount \in 1 .. 2 ^ FieldWidth

VGA_WIDTH == TTY_COLS + 2
VGA_HEIGHT == TTY_ROWS + 5
INPUT_ROW == TTY_ROWS + 1
STATS_ROW == TTY_ROWS + 3
LEFT == 1             \* TTY_LEFT_COL, INPUT_COL, and the column of the counter
TOP == 1              \* TTY_TOP_ROW

Xs == 0 .. VGA_WIDTH - 1
Ys == 0 .. VGA_HEIGHT - 1
Walls == {0, VGA_WIDTH - 1}

\* Lines and columns of the terminal.
Rows == 0 .. TTY_ROWS - 1
Cols == 0 .. TTY_COLS - 1

Characters == {" ", "x", "#", ">", "m", "0", "1"}
Attributes == {"none", "default", "other", "cursor", "border", "value", "accent",
               "white", "light green", "green"}
Cell == Characters \X Attributes

Blank == <<" ", "default">>
Border == <<"#", "border">>

VARIABLES
    cells,        \* vga_char_buf and vga_attr_buf
    shadow,       \* shadow and shadow_attr
    row, col,     \* tty_row, tty_col
    style,        \* current_style
    shell,        \* what the only thread that draws is doing
    cmd_len,
    full,         \* history: a line has been as long as cmd_buf
    switches,     \* switch_count of the scheduler
    last          \* last_switches; -1 is its starting value

vars == <<cells, shadow, row, col, style, shell, cmd_len, full, switches, last>>

-----------------------------------------------------------------------------
(* vga.c.                                                                  *)

\* The cells that are given, by their columns, over those of a line; what is beyond the
\* line is not written.
Over(given, line) ==
    [x \in DOMAIN line |-> IF x \in DOMAIN given THEN given[x] ELSE line[x]]

\* vga_write of some cells of one row.
Write(cs, y, given) == [cs EXCEPT ![y] = Over(given, @)]

\* vga_clear.
Cleared == [y \in Ys |-> [x \in Xs |-> Blank]]

\* vga_fill_rect of one row.
Filled(x, w, c) == [i \in x .. x + w - 1 |-> c]

-----------------------------------------------------------------------------
(* tty.c.  s holds the screen, the shadow buffer and the cursor.           *)

Now == [cells |-> cells, shadow |-> shadow, row |-> row, col |-> col]
Becomes(s) == /\ cells' = s.cells /\ shadow' = s.shadow
              /\ row' = s.row /\ col' = s.col

Blanks == [c \in Cols |-> <<" ", style>>]

\* tty_flush_all.
Flush(s) ==
    [s EXCEPT !.cells = [y \in Ys |-> [x \in Xs |->
        IF y - TOP \in Rows /\ x - LEFT \in Cols
        THEN s.shadow[y - TOP][x - LEFT] ELSE @[y][x]]]]

\* tty_scroll.
Scroll(s) ==
    Flush([s EXCEPT !.row = TTY_ROWS - 1,
                    !.shadow = [r \in Rows |->
                                  IF r < TTY_ROWS - 1 THEN @[r + 1] ELSE Blanks]])

\* tty_clear.
Clear(s) == Flush([s EXCEPT !.shadow = [r \in Rows |-> Blanks], !.row = 0, !.col = 0])

\* The shadow buffer and the screen get w cells of the current row.
Both(s, c, w, cell) ==
    [s EXCEPT !.shadow[s.row] = Over(Filled(c, w, cell), @),
              !.cells = Write(@, TOP + s.row, Filled(LEFT + c, w, cell))]

AtCursor(s, cell) ==
    [s EXCEPT !.cells = Write(@, TOP + s.row, Filled(LEFT + s.col, 1, cell))]
DrawCursor(s) == AtCursor(s, <<s.shadow[s.row][s.col][1], "cursor">>)
\* Variant: nothing is put back where the cursor was.
EraseCursorForgotten(s) == s
EraseCursor(s) == AtCursor(s, s.shadow[s.row][s.col])

\* The next row, or the last one again.
Down(s) == IF s.row + 1 >= TTY_ROWS THEN Scroll([s EXCEPT !.col = 0])
           ELSE [s EXCEPT !.col = 0, !.row = @ + 1]

\* The rest of the row is blanked in the shadow buffer only, and keeps its attributes.
NewLine(s) ==
    Down([s EXCEPT !.shadow[s.row] =
            [c \in DOMAIN @ |-> IF c >= s.col THEN <<" ", @[c][2]>> ELSE @[c]]])

Tab(s) ==
    LET stop == (s.col \div TabStop + 1) * TabStop
        next == IF stop >= TTY_COLS THEN TTY_COLS - 1 ELSE stop
    IN  [Both(s, s.col, next - s.col, <<" ", style>>) EXCEPT !.col = next]

Printed(s, ch) ==
    LET put == Both(s, s.col, 1, <<ch, style>>)
    IN  IF s.col + 1 >= TTY_COLS THEN Down(put) ELSE [put EXCEPT !.col = @ + 1]

-----------------------------------------------------------------------------

\* Before dashboard_init: the screen is blank, and ticks come.
Init ==
    /\ cells = Cleared
    /\ shadow = [r \in Rows |-> [c \in Cols |-> <<" ", "none">>]]
    /\ row = 0 /\ col = 0 /\ style = "default"
    /\ shell = "boot" /\ cmd_len = 0 /\ full = FALSE
    /\ switches = 0 /\ last = -1

-----------------------------------------------------------------------------
(* dashboard.c.                                                            *)

Chrome(x, y) == x \in Walls \/ y \in {0, INPUT_ROW + 1, VGA_HEIGHT - 1}

\* dashboard_init clears the screen and draws the borders.
DashboardDraw ==
    /\ shell = "boot"
    /\ cells' = [y \in Ys |-> [x \in Xs |-> IF Chrome(x, y) THEN Border ELSE Cleared[y][x]]]
    /\ shell' = "drawn"
    /\ UNCHANGED <<shadow, row, col, style, cmd_len, full, switches, last>>

\* It then makes the next update draw everything.
DashboardForce ==
    /\ shell = "drawn"
    /\ last' = -1
    /\ shell' = "chrome"
    /\ UNCHANGED <<cells, shadow, row, col, style, cmd_len, full, switches>>

\* vga_put_uint: the binary digits of a number, with no zeros in front.
Digits(n) == Cardinality({k \in 1 .. FieldWidth : k = 1 \/ n >= 2 ^ (k - 1)})
Bit(n, k) == (n \div 2 ^ k) % 2 = 1
Number(x, n) ==
    [i \in x .. x + Digits(n) - 1 |->
       <<IF Bit(n, x + Digits(n) - 1 - i) THEN "1" ELSE "0", "value">>]

\* Variant: the cells of the old value are not cleared.
ShowCountOver(cs, n) == Write(cs, STATS_ROW, Number(LEFT, n))
ShowCount(cs, n) ==
    Write(Write(cs, STATS_ROW, Filled(LEFT, FieldWidth, Blank)), STATS_ROW, Number(LEFT, n))

\* dashboard_update, in the timer interrupt: only a value that changed is drawn.
Tick ==
    /\ last' = switches
    /\ cells' = IF switches # last THEN ShowCount(cells, switches) ELSE cells
    /\ UNCHANGED <<shadow, row, col, style, shell, cmd_len, full, switches>>

\* The scheduler counts, once the boot code has handed over to the threads.
CountSwitch ==
    /\ shell \notin {"boot", "drawn", "chrome", "banner"}
    /\ switches' = (switches + 1) % MaxCount
    /\ UNCHANGED <<cells, shadow, row, col, style, shell, cmd_len, full, last>>

-----------------------------------------------------------------------------
(* shell.c and matrix.c.                                                   *)

\* input_redraw: the inside of the row is cleared, then the prompt, the command and
\* the cursor are written; the cursor of a full line is on the wall.
Redraw(cs, n) ==
    LET cleared == Write(cs, INPUT_ROW, Filled(LEFT, TTY_COLS, Blank))
        prompted == Write(cleared, INPUT_ROW, Filled(LEFT, PROMPT_LEN, <<">", "accent">>))
        typed == Write(prompted, INPUT_ROW, Filled(LEFT + PROMPT_LEN, n, <<"x", "value">>))
    IN  Write(typed, INPUT_ROW, Filled(LEFT + PROMPT_LEN + n, 1, <<" ", "cursor">>))

\* tty_init, up to its banner.
TtyInit ==
    /\ shell = "chrome"
    /\ Becomes(Clear(Now)) /\ shell' = "banner"
    /\ UNCHANGED <<style, cmd_len, full, switches, last>>

\* A character of the banner, of the echo or of what a command prints: the cursor is
\* erased, s comes of the character, and the cursor is drawn.
Puts(s) ==
    /\ shell \in {"banner", "command"}
    /\ Becomes(DrawCursor(s))
    /\ UNCHANGED <<style, shell, cmd_len, full, switches, last>>

PrintChar == Puts(Printed(EraseCursor(Now), "x"))
PrintNewLine == Puts(NewLine(EraseCursor(Now)))
PrintTab == Puts(Tab(EraseCursor(Now)))

\* tty_set_color and tty_reset_color.
Style ==
    /\ shell = "command"
    /\ style' = IF style = "default" THEN "other" ELSE "default"
    /\ UNCHANGED <<cells, shadow, row, col, shell, cmd_len, full, switches, last>>

ClearCommand ==
    /\ shell = "command" /\ style = "default"
    /\ Becomes(Clear(Now))
    /\ UNCHANGED <<style, shell, cmd_len, full, switches, last>>

MatrixBegin ==
    /\ shell = "command" /\ style = "default"
    /\ Becomes(Clear(Now)) /\ shell' = "matrix"
    /\ UNCHANGED <<style, cmd_len, full, switches, last>>

\* One drop: the cell its trail ends in is erased, then, with its head in the terminal,
\* the head, the body and the dark body are drawn; the shadow buffer is passed by.
MatrixDrop ==
    /\ shell = "matrix"
    /\ \E c \in Cols, drop \in -1 .. TTY_ROWS + 1, trail \in Rows :
         LET Shade(r) == <<"white", "light green", "none", "green">>[drop - r + 1]
             Drawn(r) == drop \in Rows /\ drop - r \in {0, 1, 3}
         IN  cells' = [y \in Ys |-> [x \in Xs |->
               LET r == y - TOP
                   here == x = LEFT + c /\ r \in Rows
               IN  CASE here /\ Drawn(r)               -> <<"m", Shade(r)>>
                     [] here /\ ~ Drawn(r) /\ r = trail -> Blank
                     [] OTHER                           -> cells[y][x]]]
    /\ UNCHANGED <<shadow, row, col, style, shell, cmd_len, full, switches, last>>

MatrixEnd ==
    /\ shell = "matrix"
    /\ Becomes(Clear(Now)) /\ shell' = "command"
    /\ UNCHANGED <<style, cmd_len, full, switches, last>>

\* The end of a command, and shell_init: an empty line.
Finish ==
    /\ shell \in {"banner", "command"} /\ style = "default"
    /\ cmd_len' = 0 /\ shell' = "keys"
    /\ cells' = Redraw(cells, 0)
    /\ UNCHANGED <<shadow, row, col, style, full, switches, last>>

\* A key: the line grows or shrinks and is drawn again.
Edit(n) ==
    /\ shell = "keys"
    /\ cmd_len' = n /\ full' = (full \/ n = MAX_CMD)
    /\ cells' = Redraw(cells, n)
    /\ UNCHANGED <<shadow, row, col, style, shell, switches, last>>
\* Variant: the last place of cmd_buf is taken too.
LetterPast == cmd_len <= MAX_CMD /\ Edit(cmd_len + 1)
Letter == cmd_len < MAX_CMD /\ Edit(cmd_len + 1)
Backspace == Edit(IF cmd_len > 0 THEN cmd_len - 1 ELSE 0)

Enter ==
    /\ shell = "keys" /\ shell' = "command"
    /\ UNCHANGED <<cells, shadow, row, col, style, cmd_len, full, switches, last>>

Next == \/ DashboardDraw \/ DashboardForce \/ TtyInit \/ Tick \/ CountSwitch
        \/ PrintChar \/ PrintNewLine \/ PrintTab \/ Style \/ ClearCommand
        \/ MatrixBegin \/ MatrixDrop \/ MatrixEnd
        \/ Finish \/ Letter \/ Backspace \/ Enter

Spec == Init /\ [][Next]_vars

-----------------------------------------------------------------------------
(* Properties.                                                             *)

\* Every variable has its type; the cursor stays inside the shadow buffer, the length
\* of the line inside cmd_buf.
TypeOK ==
    /\ row \in Rows /\ col \in Cols /\ cmd_len \in 0 .. MAX_CMD
    /\ cells \in [Ys -> [Xs -> Cell]] /\ shadow \in [Rows -> [Cols -> Cell]]
    /\ style \in {"default", "other"} /\ full \in BOOLEAN
    /\ shell \in {"boot", "drawn", "chrome", "banner", "command", "matrix", "keys"}
    /\ switches \in 0 .. MaxCount - 1 /\ last \in -1 .. MaxCount - 1

Up == shell \notin {"boot", "drawn", "chrome"}

\* The terminal shows its shadow buffer, whatever was printed, scrolled or drawn over
\* it: no cell is stale and the cursor is nowhere but in its cell.
TerminalShown ==
    Up /\ shell # "matrix" =>
      \A r \in Rows, c \in Cols :
         LET cell == cells[TOP + r][LEFT + c]
         IN  IF r = row /\ c = col THEN cell[1] = shadow[r][c][1] ELSE cell = shadow[r][c]

\* The input row shows the prompt, the command and the cursor.
LineShown ==
    shell = "keys" =>
      \A x \in Xs \ Walls :
         cells[INPUT_ROW][x] =
           IF x < LEFT + PROMPT_LEN THEN <<">", "accent">>
           ELSE IF x < LEFT + PROMPT_LEN + cmd_len THEN <<"x", "value">>
           ELSE IF x = LEFT + PROMPT_LEN + cmd_len THEN <<" ", "cursor">>
           ELSE Blank

\* The borders stand, but for the wall at the end of the input row once a line has
\* been full: the cursor is drawn there, and no one draws the wall again.
BordersStand ==
    shell # "boot" =>
      \A y \in Ys, x \in Xs :
         Chrome(x, y) /\ ~ (full /\ y = INPUT_ROW /\ x = VGA_WIDTH - 1) => cells[y][x] = Border

\* Each part of the screen shows what its owner wrote last, though four of them write
\* to one array of cells.
EachOwnsItsCells == TerminalShown /\ LineShown /\ BordersStand

\* The counter on the screen is the one of the last update, though an update draws only
\* what changed, and may come while the dashboard is being drawn: nothing is left of an
\* older, longer value, and what dashboard_init wiped is drawn again.
CountersShown ==
    Up /\ last # -1 =>
      \A x \in LEFT .. LEFT + FieldWidth - 1 :
         LET n == Number(LEFT, last)
         IN  cells[STATS_ROW][x] = IF x \in DOMAIN n THEN n[x] ELSE Blank
=============================================================================
