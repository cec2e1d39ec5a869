------------------------------ MODULE Desktop ------------------------------
(***************************************************************************)
(* The desktop: the loop of the compositor (compositor.c), what it draws   *)
(* through vbe.c, and the pointer that the mouse interrupt moves under it  *)
(* (mouse.c).                                                              *)
(*                                                                         *)
(* One frame is the button, the pointer, read one coordinate after the     *)
(* other, and the picture; the interrupt may come between any two of these *)
(* reads.  A picture says of every pixel whether it shows a title bar, the *)
(* rest of a window, the top bar or the wallpaper; colours, the characters *)
(* inside a window and the pointer itself are left out.  Coordinates are   *)
(* signed in a window and words of 2^w in the frame buffer.                *)
(***************************************************************************)
EXTENDS Integers, FiniteSets

CONSTANTS
    Width, Height,       \* vbe_width, vbe_height
    Words,               \* how many values a word has
    Bar,                 \* height of the top bar
    Title,               \* height of a title bar
    Inset,               \* the border around the fill of the title bar
    Edge,                \* the border around the client area
    Grip,                \* columns of a window that stay on the screen
    Client,              \* [w, h] of the client area, by title
    Cell,                \* width of a character
    Text,                \* [x, y, w, h] of the title in a window
    Buttons,             \* where the buttons begin, from the right of a window
    Button,              \* [y, w, h] of a button
    Start,               \* [x, y] of the windows, by title
    Terminal, Monitor,   \* the titles
    Moves,               \* bound: what one packet of the mouse moves
    None

\* Words are wider than the screen and a window together; a title and the buttons lie
\* in the title bar; the windows start where a drag could leave them.
ASSUME DesktopConstants ==
    /\ Width \in Nat \ {0} /\ Height \in Nat \ {0} /\ Words \in Nat \ {0}
    /\ Bar \in Nat /\ Title \in Nat /\ Inset \in Nat /\ Edge \in Nat /\ Grip \in Nat
    /\ Inset <= Grip /\ Inset <= Title /\ Bar + Title <= Height
    /\ Text \in [x : Nat, y : Nat, w : Nat, h : Nat] /\ Text.y + Text.h <= Title
    /\ Button \in [y : Nat, w : Nat, h : Nat] /\ Button.y + Button.h <= Title
    /\ Terminal # Monitor /\ Moves \subseteq Int
    /\ \A t \in {Terminal, Monitor} :
          LET w == Client[t].w + 2 * Edge
              h == Client[t].h + Title + Edge
          IN  /\ Client[t].w \in Nat /\ Client[t].h \in Nat
              /\ Width + w < Words /\ Height + h < Words
              /\ 2 * Grip <= Width + w /\ Text.x + Text.w <= w
              /\ \A b \in Buttons : b \in Nat /\ Button.w <= b /\ b <= w
              /\ Start[t].x \in Grip - w .. Width - Grip
              /\ Start[t].y \in Bar .. Height - Title

Titles == {Terminal, Monitor}
Pixels == (0 .. Width - 1) \X (0 .. Height - 1)

VARIABLES
    windows,    \* [x, y, title, active]; 1 is drawn over 0
    mouse,      \* mouse_x, mouse_y, mouse_left_click
    at,         \* what the loop does next
    mx,         \* the column it has read
    dragging,   \* the window that is dragged, or -1
    off,        \* where it is held
    front       \* the frame buffer: what each pixel shows

vars == <<windows, mouse, at, mx, dragging, off, front>>

W(win) == Client[win.title].w + 2 * Edge
H(win) == Client[win.title].h + Title + Edge

-----------------------------------------------------------------------------
(* Drawing.                                                                *)

\* The pixels vbe_draw_rect puts: its loops compare words, vbe_put_pixel cuts what is
\* off the screen.
InRect(p, x, y, w, h) ==
    /\ x % Words <= p[1] /\ p[1] < (x + w) % Words
    /\ y % Words <= p[2] /\ p[2] < (y + h) % Words

\* The pixels vbe_draw_string puts: each is cut by itself.
InText(p, x, y, w, h) == (p[1] - x) % Words < w /\ (p[2] - y) % Words < h

\* draw_window: the fill of the title bar ...
OnFill(p, win) ==
    InRect(p, win.x + Inset, win.y + Inset, W(win) - 2 * Inset, Title - Inset)
\* ... with the title and the buttons on it;
OnTitle(p, win) ==
    \/ OnFill(p, win)
    \/ InText(p, win.x + Text.x, win.y + Text.y, Text.w, Text.h)
    \/ \E b \in Buttons :
          InRect(p, win.x + W(win) - b, win.y + Button.y, Button.w, Button.h)
\* the two borders, the client area, and the cells of its characters.
OnBody(p, win) ==
    \/ InRect(p, win.x, win.y, W(win), H(win))
    \/ InRect(p, win.x + 1, win.y + 1, W(win) - 2, H(win) - 2)
    \/ InRect(p, win.x + Edge, win.y + Title, Client[win.title].w, Client[win.title].h)
    \/ \E c \in 0 .. Client[win.title].w \div Cell - 1 :
          InRect(p, win.x + Edge + c * Cell, win.y + Title, Cell, Client[win.title].h)

\* draw_wallpaper.
Background == <<"wallpaper", None>>

\* Wallpaper, top bar, windows[0], windows[1].
Paint ==
    LET Shows(p, i, below) == CASE OnTitle(p, windows[i]) -> <<"title", windows[i].title>>
                                [] ~ OnTitle(p, windows[i]) /\ OnBody(p, windows[i]) ->
                                     <<"body", windows[i].title>>
                                [] OTHER -> below
    IN  [p \in Pixels |->
           Shows(p, 1, Shows(p, 0, IF p[2] <= Bar THEN <<"bar", None>> ELSE Background))]

-----------------------------------------------------------------------------

Init ==
    /\ windows = [i \in {0, 1} |->
                    LET t == IF i = 0 THEN Terminal ELSE Monitor
                    IN  [x |-> Start[t].x, y |-> Start[t].y, title |-> t, active |-> i = 1]]
    /\ mouse = [x |-> Width \div 2, y |-> Height \div 2, left |-> FALSE]
    /\ at = "button" /\ mx = None
    /\ dragging = -1 /\ off = [x |-> 0, y |-> 0]
    /\ front = [p \in Pixels |-> Background]

Smaller(a, b) == IF a < b THEN a ELSE b
Larger(a, b) == IF a > b THEN a ELSE b

\* mouse_handler, with the third byte of a packet.
Packet(dx, dy, left) ==
    /\ mouse' = [x |-> Smaller(Larger(mouse.x + dx, 0), Width - 1),
                 y |-> Smaller(Larger(mouse.y - dy, 0), Height - 1), left |-> left]
    /\ UNCHANGED <<windows, at, mx, dragging, off, front>>

Released ==
    /\ at = "button" /\ ~ mouse.left
    /\ dragging' = -1 /\ at' = "paint"
    /\ UNCHANGED <<windows, mouse, mx, off, front>>

Pressed ==
    /\ at = "button" /\ mouse.left
    /\ at' = IF dragging = -1 THEN "column" ELSE "drag column"
    /\ UNCHANGED <<windows, mouse, mx, dragging, off, front>>

Column ==
    /\ at = "column"
    /\ mx' = mouse.x /\ at' = "row"
    /\ UNCHANGED <<windows, mouse, dragging, off, front>>

\* The windows whose title bar, border included, the pointer is on.
Hit(x, y) == {i \in {0, 1} : LET win == windows[i]
                             IN  /\ win.x <= x /\ x < win.x + W(win)
                                 /\ win.y <= y /\ y < win.y + Title}

\* Variant: from the bottommost to the topmost.
TopmostLast(hit) == IF 0 \in hit THEN 0 ELSE 1
\* From the topmost to the bottommost.
Topmost(hit) == IF 1 \in hit THEN 1 ELSE 0

\* The window that was hit is held, and comes to the front.
Row ==
    LET hit == Hit(mx, mouse.y)
        i == Topmost(hit)
    IN  /\ at = "row"
        /\ at' = "paint" /\ mx' = None
        /\ \/ hit = {} /\ UNCHANGED <<windows, dragging, off>>
           \/ /\ hit # {}
              /\ dragging' = 1
              /\ off' = [x |-> mx - windows[i].x, y |-> mouse.y - windows[i].y]
              /\ windows' = IF i = 1 THEN windows
                            ELSE [j \in {0, 1} |-> [windows[1 - j] EXCEPT !.active = j = 1]]
        /\ UNCHANGED <<mouse, front>>

\* Variant: the left is not restricted.
ClampXRightOnly(x, w) == Smaller(x, Width - Grip)
\* A part of the window stays on the screen, from either side.
ClampX(x, w) == Smaller(Larger(x, Grip - w), Width - Grip)
ClampY(y) == Smaller(Larger(y, Bar), Height - Title)

DragColumn ==
    /\ at = "drag column"
    /\ windows' = [windows EXCEPT ![dragging].x = ClampX(mouse.x - off.x, W(windows[dragging]))]
    /\ at' = "drag row"
    /\ UNCHANGED <<mouse, mx, dragging, off, front>>

DragRow ==
    /\ at = "drag row"
    /\ windows' = [windows EXCEPT ![dragging].y = ClampY(mouse.y - off.y)]
    /\ at' = "paint"
    /\ UNCHANGED <<mouse, mx, dragging, off, front>>

\* The picture, drawn in the back buffer and copied; then the loop sleeps.
Frame ==
    /\ at = "paint"
    /\ front' = Paint
    /\ at' = "button"
    /\ UNCHANGED <<windows, mouse, mx, dragging, off>>

Next == \/ \E dx \in Moves, dy \in Moves, left \in BOOLEAN : Packet(dx, dy, left)
        \/ Released \/ Pressed \/ Column \/ Row \/ DragColumn \/ DragRow \/ Frame

Spec == Init /\ [][Next]_vars

-----------------------------------------------------------------------------
(* Properties.                                                             *)

\* Every variable has its type; a window keeps a part of itself on the screen and its
\* title bar below the top bar, is held by its title bar, and the one in front is the
\* active one.
TypeOK ==
    /\ \A i \in {0, 1} : /\ windows[i].x \in Grip - W(windows[i]) .. Width - Grip
                         /\ windows[i].y \in Bar .. Height - Title
                         /\ windows[i].active <=> i = 1
    /\ {windows[0].title, windows[1].title} = Titles
    /\ <<mouse.x, mouse.y>> \in Pixels
    /\ dragging # -1 => /\ dragging = 1
                        /\ off.x \in 0 .. W(windows[1]) - 1 /\ off.y \in 0 .. Title - 1
    /\ at \in {"button", "column", "row", "drag column", "drag row", "paint"}

\* A press where the screen shows a title bar takes the window of that title bar and
\* brings it to the front, whatever order the windows are in and wherever the other
\* one lies; unless the one in front sticks out on the left, where its borders and the
\* fill of its title bar are not drawn but still hit.
SeenIsTaken ==
    [][\A t \in Titles :
         at = "row" /\ at' = "paint" /\ windows[1].x >= 0
           /\ front[<<mx, mouse.y>>] = <<"title", t>>
         => dragging' = 1 /\ windows'[1].title = t /\ windows'[1].active]_vars

\* Comment at compositor.c:262: however a window was dragged, its title bar is visible:
\* some of the fill of the title bar is drawn, had nothing covered it.
TitleBarVisible ==
    at = "button" => \A i \in {0, 1} : \E p \in Pixels : OnFill(p, windows[i])
=============================================================================
