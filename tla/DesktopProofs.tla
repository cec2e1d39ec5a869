--------------------------- MODULE DesktopProofs ---------------------------
(***************************************************************************)
(* What is proved of Desktop for every size of the screen and the windows. *)
(***************************************************************************)
EXTENDS Desktop, TLAPS

-----------------------------------------------------------------------------
(* The invariant.                                                          *)

Window == [x : Int, y : Int, title : Titles, active : BOOLEAN]

\* A window where a drag may leave it.
OnScreen(win) ==
    /\ win.x \in Grip - W(win) .. Width - Grip
    /\ win.y \in Bar .. Height - Title

WindowsFit ==
    /\ windows \in [{0, 1} -> Window]
    /\ \A i \in {0, 1} : OnScreen(windows[i]) /\ (windows[i].active <=> i = 1)
    /\ {windows[0].title, windows[1].title} = Titles

PointerFits == mouse \in [x : 0 .. Width - 1, y : 0 .. Height - 1, left : BOOLEAN]

\* What the loop has read and holds where it stands.
LoopFits ==
    /\ at \in {"button", "column", "row", "drag column", "drag row", "paint"}
    /\ dragging \in {-1, 1}
    /\ at \in {"column", "row"} => dragging = -1
    /\ at \in {"drag column", "drag row"} => dragging = 1
    /\ at = "row" => mx \in 0 .. Width - 1
    /\ off \in [x : Int, y : Int]
    /\ dragging # -1 => off.x \in 0 .. W(windows[1]) - 1 /\ off.y \in 0 .. Title - 1

\* From one picture until it moves a window the loop finds the windows where the
\* screen shows them; before the first picture the screen shows none.
PictureFresh ==
    at \in {"button", "column", "row"} =>
        front = Paint \/ front = [p \in Pixels |-> Background]

DesktopInv == WindowsFit /\ PointerFits /\ LoopFits /\ PictureFresh

-----------------------------------------------------------------------------
(* Words and rectangles.                                                   *)

\* A coordinate as a word: itself, or beyond every screen when it is negative.
LEMMA WordIs ==
    ASSUME NEW n \in Nat \ {0}, NEW a \in Int
    PROVE  /\ a % n \in 0 .. n - 1
           /\ 0 <= a /\ a < n => a % n = a
           /\ a < 0 /\ -n <= a => a % n = a + n
<1> DEFINE q == a \div n
           m == a % n
<1>1. q \in Int /\ m \in 0 .. n - 1 /\ a = n * q + m
  OBVIOUS
<1> HIDE DEF q, m
<1>2. q >= 1 => n * q >= n
  BY <1>1
<1>3. q <= -1 => n * q <= -n
  BY <1>1
<1>4. q <= -2 => n * q <= -(2 * n)
  BY <1>1
<1>5. 0 <= a /\ a < n => m = a
  <2>1. 0 <= a /\ a < n => q = 0
    BY <1>1, <1>2, <1>3
  <2> QED
    BY <1>1, <2>1
<1>6. a < 0 /\ -n <= a => m = a + n
  <2>1. a < 0 /\ -n <= a => q = -1
    BY <1>1, <1>2, <1>4
  <2>2. q = -1 => n * q = -n
    BY <1>1
  <2> QED
    BY <1>1, <2>1, <2>2
<1> QED
  BY <1>1, <1>5, <1>6 DEF m
\* A pixel of a rectangle lies between its sides, if it has no more columns than a
\* word has values beyond the screen.
LEMMA RectIs ==
    ASSUME NEW n \in Nat \ {0}, NEW c \in Nat, NEW x \in Int, NEW w \in Int,
           -n <= x, x + w < n, c < n + x, x < n, 0 <= x => 0 <= x + w,
           x % n <= c, c < (x + w) % n
    PROVE  x <= c /\ c < x + w
<1>1. CASE x < 0
  <2>1. x % n = x + n
    BY <1>1, WordIs
  <2>2. FALSE
    BY <2>1
  <2> QED
    BY <2>2
<1>2. CASE x >= 0
  <2>1. x % n = x
    BY <1>2, WordIs
  <2>2. x + w >= 0 /\ x + w \in Int
    BY <1>2
  <2>3. (x + w) % n = x + w
    BY <2>2, WordIs
  <2> QED
    BY <2>1, <2>3
<1> QED
  BY <1>1, <1>2

\* The same for a pixel of a text, which is cut by itself.
LEMMA TextIs ==
    ASSUME NEW n \in Nat \ {0}, NEW c \in Nat, NEW x \in Int, NEW w \in Nat,
           c - x < n, x - c + w <= n, (c - x) % n < w
    PROVE  x <= c /\ c < x + w
<1> DEFINE d == c - x
<1>1. d \in Int /\ -n <= d /\ d < n /\ w <= n + d /\ d % n < w
  OBVIOUS
<1> HIDE DEF d
<1>2. ~ (d < 0)
  <2>1. d < 0 => d % n = d + n
    BY <1>1, WordIs
  <2> QED
    BY <1>1, <2>1
<1>3. d % n = d
  BY <1>1, <1>2, WordIs
<1>4. 0 <= d /\ d < w
  BY <1>1, <1>2, <1>3
<1> QED
  BY <1>4 DEF d

-----------------------------------------------------------------------------
(* Windows and pixels.                                                     *)

LEMMA Sizes ==
    ASSUME NEW win \in Window
    PROVE  /\ W(win) \in Nat /\ H(win) \in Nat /\ Title <= H(win)
           /\ Width + W(win) < Words /\ Height + H(win) < Words
           /\ 2 * Grip <= Width + W(win) /\ Text.x + Text.w <= W(win)
           /\ \A b \in Buttons : b \in Nat /\ Button.w <= b /\ b <= W(win)
<1>1. win.title \in {Terminal, Monitor}
  BY DEF Window, Titles
<1>2. /\ Client[win.title].w \in Nat /\ Client[win.title].h \in Nat
      /\ Edge \in Nat /\ Title \in Nat
  BY <1>1, DesktopConstants
<1> QED
  BY <1>1, <1>2, DesktopConstants DEF W, H

\* Where the screen may show the title bar of a window, its fill, its title and its
\* buttons, a press hits the window.
LEMMA TitleIsHit ==
    ASSUME NEW win \in Window, OnScreen(win),
           NEW c \in 0 .. Width - 1, NEW r \in 0 .. Height - 1, OnTitle(<<c, r>>, win)
    PROVE  /\ win.x <= c /\ c < win.x + W(win)
           /\ win.y <= r /\ r < win.y + Title
<1> DEFINE x == win.x
           y == win.y
           w == W(win)
<1>1. /\ x \in Int /\ y \in Int /\ w \in Nat /\ Width + w < Words
      /\ Height + Title < Words /\ Text.x + Text.w <= w
      /\ \A b \in Buttons : b \in Nat /\ Button.w <= b /\ b <= w
  BY Sizes, DesktopConstants DEF Window
<1>2. /\ Width \in Nat /\ Height \in Nat /\ Words \in Nat \ {0} /\ Bar \in Nat
      /\ Title \in Nat /\ Inset \in Nat /\ Grip \in Nat /\ Inset <= Grip /\ Inset <= Title
      /\ Text.x \in Nat /\ Text.y \in Nat /\ Text.w \in Nat /\ Text.h \in Nat
      /\ Button.y \in Nat /\ Button.w \in Nat /\ Button.h \in Nat
      /\ Text.y + Text.h <= Title /\ Button.y + Button.h <= Title
  BY DesktopConstants
<1>3. /\ Grip - w <= x /\ x <= Width - Grip /\ Bar <= y /\ y <= Height - Title
  BY <1>1, <1>2 DEF OnScreen
<1>4. c \in Nat /\ c < Width /\ r \in Nat /\ r < Height
  BY <1>2
<1>5. ASSUME OnFill(<<c, r>>, win)
      PROVE  x <= c /\ c < x + w /\ y <= r /\ r < y + Title
  <2>1. /\ (x + Inset) % Words <= c /\ c < (x + Inset + (w - 2 * Inset)) % Words
        /\ (y + Inset) % Words <= r /\ r < (y + Inset + (Title - Inset)) % Words
    BY <1>5 DEF OnFill, InRect
  <2> HIDE DEF x, y, w
  <2> DEFINE u == x + Inset
             v == y + Inset
             du == w - 2 * Inset
             dv == Title - Inset
  <2>2. /\ u \in Int /\ v \in Int /\ du \in Int /\ dv \in Int
        /\ -Words <= u /\ u + du < Words /\ c < Words + u /\ u < Words
        /\ 0 <= u + du
        /\ -Words <= v /\ v + dv < Words /\ r < Words + v /\ v < Words
        /\ 0 <= v + dv
    BY <1>1, <1>2, <1>3, <1>4
  <2>3. u % Words <= c /\ c < (u + du) % Words /\ v % Words <= r /\ r < (v + dv) % Words
    BY <2>1
  <2>4. x + Inset <= c /\ c < x + w - Inset /\ y + Inset <= r /\ r < y + Title
    <3> HIDE DEF u, v, du, dv
    <3>1. u <= c /\ c < u + du
      BY <1>2, <1>4, <2>2, <2>3, RectIs
    <3>2. v <= r /\ r < v + dv
      BY <1>2, <1>4, <2>2, <2>3, RectIs
    <3> QED
      BY <1>1, <1>2, <3>1, <3>2 DEF u, v, du, dv
  <2> QED
    BY <1>1, <1>2, <1>4, <2>4
<1>6. ASSUME InText(<<c, r>>, x + Text.x, y + Text.y, Text.w, Text.h)
      PROVE  x <= c /\ c < x + w /\ y <= r /\ r < y + Title
  <2>1. (c - (x + Text.x)) % Words < Text.w /\ (r - (y + Text.y)) % Words < Text.h
    BY <1>6 DEF InText
  <2> HIDE DEF x, y, w
  <2> DEFINE u == x + Text.x
             v == y + Text.y
  <2>2. /\ u \in Int /\ v \in Int /\ c - u < Words /\ u - c + Text.w <= Words
        /\ r - v < Words /\ v - r + Text.h <= Words
    BY <1>1, <1>2, <1>3, <1>4
  <2>3. (c - u) % Words < Text.w /\ (r - v) % Words < Text.h
    BY <2>1
  <2>4. x + Text.x <= c /\ c < x + Text.x + Text.w /\ y + Text.y <= r
        /\ r < y + Text.y + Text.h
    <3> HIDE DEF u, v
    <3>1. u <= c /\ c < u + Text.w
      BY <1>2, <1>4, <2>2, <2>3, TextIs
    <3>2. v <= r /\ r < v + Text.h
      BY <1>2, <1>4, <2>2, <2>3, TextIs
    <3> QED
      BY <3>1, <3>2 DEF u, v
  <2> QED
    BY <1>1, <1>2, <1>4, <2>4
<1>7. ASSUME NEW b \in Buttons,
             InRect(<<c, r>>, x + w - b, y + Button.y, Button.w, Button.h)
      PROVE  x <= c /\ c < x + w /\ y <= r /\ r < y + Title
  <2>1. /\ (x + w - b) % Words <= c /\ c < (x + w - b + Button.w) % Words
        /\ (y + Button.y) % Words <= r /\ r < (y + Button.y + Button.h) % Words
    BY <1>7 DEF InRect
  <2>a. b \in Nat /\ Button.w <= b /\ b <= w
    BY <1>1
  <2> HIDE DEF x, y, w
  <2> DEFINE u == x + w - b
             v == y + Button.y
             du == Button.w
             dv == Button.h
  <2>2. /\ u \in Int /\ v \in Int /\ du \in Int /\ dv \in Int
        /\ -Words <= u /\ u + du < Words /\ c < Words + u /\ u < Words
        /\ -Words <= v /\ v + dv < Words /\ r < Words + v /\ v < Words
        /\ (0 <= u => 0 <= u + du) /\ (0 <= v => 0 <= v + dv)
    BY <1>1, <1>2, <1>3, <1>4, <2>a
  <2>3. u % Words <= c /\ c < (u + du) % Words /\ v % Words <= r /\ r < (v + dv) % Words
    BY <2>1
  <2>4. x + w - b <= c /\ c < x + w - b + Button.w
        /\ y + Button.y <= r /\ r < y + Button.y + Button.h
    <3> HIDE DEF u, v, du, dv
    <3>1. u <= c /\ c < u + du
      BY <1>2, <1>4, <2>2, <2>3, RectIs
    <3>2. v <= r /\ r < v + dv
      BY <1>2, <1>4, <2>2, <2>3, RectIs
    <3> QED
      BY <3>1, <3>2 DEF u, v, du, dv
  <2> QED
    BY <1>1, <1>2, <1>4, <2>a, <2>4
<1> QED
  BY <1>5, <1>6, <1>7 DEF OnTitle

\* Where a press hits a window that does not stick out on the left, the screen shows it
\* or what is drawn over it.
LEMMA HitIsBody ==
    ASSUME NEW win \in Window, OnScreen(win), win.x >= 0,
           NEW c \in 0 .. Width - 1, NEW r \in 0 .. Height - 1,
           win.x <= c, c < win.x + W(win), win.y <= r, r < win.y + Title
    PROVE  OnBody(<<c, r>>, win)
<1> DEFINE x == win.x
           y == win.y
           w == W(win)
           h == H(win)
<1>1. /\ x \in Int /\ y \in Int /\ w \in Nat /\ Width + w < Words
      /\ h \in Nat /\ Title <= h /\ Height + h < Words
  BY Sizes DEF Window
<1>2. /\ Width \in Nat /\ Height \in Nat /\ Words \in Nat \ {0} /\ Bar \in Nat
      /\ Title \in Nat /\ Grip \in Nat
  BY DesktopConstants
<1>3. /\ 0 <= x /\ x <= Width - Grip /\ Bar <= y /\ y <= Height - Title
      /\ x <= c /\ c < x + w /\ y <= r /\ r < y + Title
  BY <1>1, <1>2 DEF OnScreen
<1> HIDE DEF x, y, w, h
<1>4. /\ x % Words = x /\ (x + w) % Words = x + w
      /\ y % Words = y /\ (y + h) % Words = y + h
  <2>1. /\ 0 <= x /\ x < Words /\ x + w \in Int /\ 0 <= x + w /\ x + w < Words
        /\ 0 <= y /\ y < Words /\ y + h \in Int /\ 0 <= y + h /\ y + h < Words
    BY <1>1, <1>2, <1>3
  <2> QED
    BY <1>1, <1>2, <2>1, WordIs
<1>5. InRect(<<c, r>>, x, y, w, h)
  BY <1>1, <1>2, <1>3, <1>4 DEF InRect
<1> QED
  BY <1>5 DEF OnBody, x, y, w, h
-----------------------------------------------------------------------------
(* The picture.                                                            *)

\* A pixel shows the title bar of the window in front, or that of the other one where
\* the one in front has nothing drawn.
LEMMA PictureShows ==
    ASSUME NEW p \in Pixels, NEW t, Paint[p] = <<"title", t>>
    PROVE  \/ OnTitle(p, windows[1]) /\ windows[1].title = t
           \/ /\ ~ OnTitle(p, windows[1]) /\ ~ OnBody(p, windows[1])
              /\ OnTitle(p, windows[0]) /\ windows[0].title = t
<1> DEFINE Shows(i, below) == CASE OnTitle(p, windows[i]) -> <<"title", windows[i].title>>
                                [] ~ OnTitle(p, windows[i]) /\ OnBody(p, windows[i]) ->
                                     <<"body", windows[i].title>>
                                [] OTHER -> below
           ground == IF p[2] <= Bar THEN <<"bar", None>> ELSE Background
<1>1. Shows(1, Shows(0, ground)) = <<"title", t>>
  BY DEF Paint
<1>2. ground # <<"title", t>>
  BY DEF Background
<1> HIDE DEF ground
<1>3. CASE OnTitle(p, windows[1])
  BY <1>1, <1>3
<1>4. CASE ~ OnTitle(p, windows[1])
  <2>1. ~ OnBody(p, windows[1])
    BY <1>1, <1>4
  <2>2. Shows(0, ground) = <<"title", t>>
    BY <1>1, <1>4, <2>1
  <2>3. OnTitle(p, windows[0]) /\ windows[0].title = t
    BY <1>2, <2>2
  <2> QED
    BY <1>4, <2>1, <2>3
<1> QED
  BY <1>3, <1>4

\* A picture is drawn from the windows alone.
LEMMA PictureStays == UNCHANGED windows => Paint' = Paint
BY DEF Paint, OnTitle, OnFill, OnBody, W, H

-----------------------------------------------------------------------------
(* The invariant is kept.                                                  *)

LEMMA DesktopInit == Init => DesktopInv
<1> SUFFICES ASSUME Init PROVE DesktopInv
  OBVIOUS
<1>1. /\ Width \in Nat \ {0} /\ Height \in Nat \ {0} /\ Terminal # Monitor
  BY DesktopConstants
<1>2. /\ windows[0].x = Start[Terminal].x /\ windows[0].y = Start[Terminal].y
      /\ windows[0].title = Terminal /\ windows[0].active = FALSE
      /\ windows[1].x = Start[Monitor].x /\ windows[1].y = Start[Monitor].y
      /\ windows[1].title = Monitor /\ windows[1].active = TRUE
  <2> DEFINE Made(i) == LET t == IF i = 0 THEN Terminal ELSE Monitor
                        IN  [x |-> Start[t].x, y |-> Start[t].y, title |-> t,
                             active |-> i = 1]
  <2>1. windows[0] = Made(0) /\ windows[1] = Made(1)
    BY DEF Init
  <2>2. /\ Made(0).x = Start[Terminal].x /\ Made(0).y = Start[Terminal].y
        /\ Made(0).title = Terminal
        /\ Made(1).x = Start[Monitor].x /\ Made(1).y = Start[Monitor].y
        /\ Made(1).title = Monitor
    OBVIOUS
  <2>3. Made(0).active = (0 = 1) /\ Made(1).active = (1 = 1)
    BY Zenon
  <2>4. (0 = 1) = FALSE /\ (1 = 1) = TRUE
    OBVIOUS
  <2> HIDE DEF Made
  <2> QED
    BY <2>1, <2>2, <2>3, <2>4, Zenon
<1>3. ASSUME NEW t \in Titles, NEW win, win.title = t, win.x = Start[t].x,
             win.y = Start[t].y
      PROVE  OnScreen(win) /\ win.x \in Int /\ win.y \in Int
  <2>1. /\ Client[t].w \in Nat /\ Edge \in Nat /\ Grip \in Nat /\ Bar \in Nat
        /\ Width \in Nat /\ Height \in Nat /\ Title \in Nat
        /\ Start[t].x \in Grip - (Client[t].w + 2 * Edge) .. Width - Grip
        /\ Start[t].y \in Bar .. Height - Title
    BY DesktopConstants DEF Titles
  <2> QED
    BY <1>3, <2>1 DEF OnScreen, W
<1>4. OnScreen(windows[0]) /\ OnScreen(windows[1])
  BY <1>2, <1>3 DEF Titles
<1>5. windows \in [{0, 1} -> Window]
  <2>1. \A t \in Titles : Start[t].x \in Int /\ Start[t].y \in Int
    <3> SUFFICES ASSUME NEW t \in Titles PROVE Start[t].x \in Int /\ Start[t].y \in Int
      OBVIOUS
    <3>1. /\ Start[t].x \in Grip - (Client[t].w + 2 * Edge) .. Width - Grip
          /\ Start[t].y \in Bar .. Height - Title
      BY DesktopConstants DEF Titles
    <3> QED
      BY <3>1
  <2> QED
    BY <2>1 DEF Init, Window, Titles
<1>6. WindowsFit
  BY <1>2, <1>4, <1>5 DEF WindowsFit, Titles
<1>7. Width \div 2 \in 0 .. Width - 1 /\ Height \div 2 \in 0 .. Height - 1
  BY <1>1
<1>8. PointerFits
  BY <1>7 DEF Init, PointerFits
<1>9. LoopFits /\ PictureFresh
  BY DEF Init, LoopFits, PictureFresh
<1> QED
  BY <1>6, <1>8, <1>9 DEF DesktopInv

\* The window that a press hits comes to the front and is held where it was hit.
LEMMA RowFacts ==
    ASSUME DesktopInv, Row
    PROVE  /\ at = "row" /\ at' = "paint" /\ mx \in 0 .. Width - 1
           /\ mouse.y \in 0 .. Height - 1
           /\ \/ Hit(mx, mouse.y) = {} /\ UNCHANGED <<windows, dragging, off>>
              \/ \E i \in {0, 1} :
                    /\ i = Topmost(Hit(mx, mouse.y)) /\ i \in Hit(mx, mouse.y)
                    /\ windows'[1] = [windows[i] EXCEPT !.active = TRUE]
                    /\ windows'[0] = [windows[1 - i] EXCEPT !.active = FALSE]
                    /\ windows' \in [{0, 1} -> Window]
                    /\ dragging' = 1
                    /\ off' = [x |-> mx - windows[i].x, y |-> mouse.y - windows[i].y]
           /\ UNCHANGED <<mouse, front>>
<1> DEFINE hit == Hit(mx, mouse.y)
           i == Topmost(hit)
<1>1. /\ at = "row" /\ at' = "paint" /\ UNCHANGED <<mouse, front>>
      /\ \/ hit = {} /\ UNCHANGED <<windows, dragging, off>>
         \/ /\ hit # {} /\ dragging' = 1
            /\ off' = [x |-> mx - windows[i].x, y |-> mouse.y - windows[i].y]
            /\ windows' = IF i = 1 THEN windows
                          ELSE [j \in {0, 1} |-> [windows[1 - j] EXCEPT !.active = j = 1]]
  BY DEF Row
<1>2. mx \in 0 .. Width - 1 /\ mouse.y \in 0 .. Height - 1
  BY <1>1 DEF DesktopInv, LoopFits, PointerFits
<1>3. hit \subseteq {0, 1} /\ i \in {0, 1} /\ (hit # {} => i \in hit)
  BY DEF Hit, Topmost
<1>4. /\ windows \in [{0, 1} -> Window] /\ windows[0].active = FALSE
      /\ windows[1].active = TRUE
  BY DEF DesktopInv, WindowsFit, Window
<1> HIDE DEF hit, i
<1>5. CASE hit # {} /\ i = 1
  <2>1. windows' = windows
    BY <1>1, <1>5
  <2>2. /\ windows[1] = [windows[1] EXCEPT !.active = TRUE]
        /\ windows[0] = [windows[0] EXCEPT !.active = FALSE]
    BY <1>4 DEF Window
  <2>3. /\ windows'[1] = [windows[i] EXCEPT !.active = TRUE]
        /\ windows'[0] = [windows[1 - i] EXCEPT !.active = FALSE]
    BY <1>5, <2>1, <2>2
  <2> QED
    BY <1>1, <1>2, <1>3, <1>4, <1>5, <2>1, <2>3 DEF hit, i
<1>6. CASE hit # {} /\ i = 0
  <2>1. windows' = [j \in {0, 1} |-> [windows[1 - j] EXCEPT !.active = j = 1]]
    BY <1>1, <1>6
  <2>2. /\ windows'[1] = [windows[0] EXCEPT !.active = TRUE]
        /\ windows'[0] = [windows[1] EXCEPT !.active = FALSE]
    <3>1. /\ windows'[1] = [windows[1 - 1] EXCEPT !.active = 1 = 1]
          /\ windows'[0] = [windows[1 - 0] EXCEPT !.active = 0 = 1]
      BY <2>1
    <3>2. 1 - 1 = 0 /\ 1 - 0 = 1 /\ (1 = 1) = TRUE /\ (0 = 1) = FALSE
      OBVIOUS
    <3> QED
      BY <3>1, <3>2, Zenon
  <2>3. /\ [windows[0] EXCEPT !.active = TRUE] \in Window
        /\ [windows[1] EXCEPT !.active = FALSE] \in Window
    BY <1>4 DEF Window
  <2>4. windows' \in [{0, 1} -> Window]
    BY <2>1, <2>2, <2>3
  <2>5. /\ windows'[1] = [windows[i] EXCEPT !.active = TRUE]
        /\ windows'[0] = [windows[1 - i] EXCEPT !.active = FALSE]
    BY <1>6, <2>2
  <2> QED
    BY <1>1, <1>2, <1>3, <1>6, <2>4, <2>5 DEF hit, i
<1>7. CASE hit = {}
  BY <1>1, <1>2, <1>7 DEF hit, i
<1> QED
  BY <1>3, <1>5, <1>6, <1>7
\* A drag moves the window in front in one direction and leaves it on the screen.
LEMMA DragFacts ==
    ASSUME DesktopInv, DragColumn \/ DragRow
    PROVE  /\ dragging = 1 /\ windows' \in [{0, 1} -> Window]
           /\ windows'[0] = windows[0]
           /\ windows'[1].title = windows[1].title
           /\ windows'[1].active = windows[1].active
           /\ OnScreen(windows'[1])
           /\ at' \in {"drag row", "paint"}
           /\ UNCHANGED <<mouse, mx, dragging, off, front>>
<1>a. /\ windows \in [{0, 1} -> Window] /\ OnScreen(windows[1])
      /\ off.x \in Int /\ off.y \in Int /\ mouse.x \in Int /\ mouse.y \in Int
  <2>1. windows \in [{0, 1} -> Window] /\ OnScreen(windows[1])
    BY DEF DesktopInv, WindowsFit
  <2>2. off.x \in Int /\ off.y \in Int
    BY DEF DesktopInv, LoopFits
  <2>3. mouse.x \in Int /\ mouse.y \in Int
    BY DEF DesktopInv, PointerFits
  <2> QED
    BY <2>1, <2>2, <2>3
<1>b. dragging = 1
  BY DEF DesktopInv, LoopFits, DragColumn, DragRow
<1> DEFINE win == windows[1]
<1>c. win \in Window /\ W(win) \in Nat /\ 2 * Grip <= Width + W(win)
  BY <1>a, Sizes
<1>d. /\ Width \in Nat /\ Height \in Nat /\ Grip \in Nat /\ Bar \in Nat /\ Title \in Nat
      /\ Bar + Title <= Height
  BY DesktopConstants
<1>1. CASE DragColumn
  <2> DEFINE x == ClampX(mouse.x - off.x, W(win))
  <2>1. x \in Int /\ x \in Grip - W(win) .. Width - Grip
    BY <1>a, <1>c, <1>d DEF ClampX, Smaller, Larger
  <2> DEFINE made == [win EXCEPT !.x = x]
  <2>2. /\ windows' = [windows EXCEPT ![1] = made] /\ at' = "drag row"
        /\ UNCHANGED <<mouse, mx, dragging, off, front>>
    BY <1>1, <1>b DEF DragColumn
  <2> HIDE DEF x
  <2>3. /\ made \in Window /\ made.x = x /\ made.y = win.y
        /\ made.title = win.title /\ made.active = win.active
    BY <1>c, <2>1 DEF Window
  <2> HIDE DEF made
  <2>4. /\ windows'[1] = made /\ windows'[0] = windows[0]
        /\ windows' \in [{0, 1} -> Window]
    <3>1. windows \in [{0, 1} -> Window] /\ windows' = [windows EXCEPT ![1] = made]
      BY <1>a, <2>2
    <3>2. windows'[1] = made /\ windows'[0] = windows[0]
      BY <3>1
    <3> QED
      BY <2>3, <3>1, <3>2
  <2>5. OnScreen(made)
    <3>1. W(made) = W(win)
      BY <2>3 DEF W
    <3> QED
      BY <1>a, <2>1, <2>3, <3>1 DEF OnScreen
  <2> QED
    BY <1>b, <2>2, <2>3, <2>4, <2>5
<1>2. CASE DragRow
  <2> DEFINE y == ClampY(mouse.y - off.y)
  <2>1. y \in Int /\ y \in Bar .. Height - Title
    BY <1>a, <1>c, <1>d DEF ClampY, Smaller, Larger
  <2> DEFINE made == [win EXCEPT !.y = y]
  <2>2. /\ windows' = [windows EXCEPT ![1] = made] /\ at' = "paint"
        /\ UNCHANGED <<mouse, mx, dragging, off, front>>
    BY <1>2, <1>b DEF DragRow
  <2> HIDE DEF y
  <2>3. /\ made \in Window /\ made.y = y /\ made.x = win.x
        /\ made.title = win.title /\ made.active = win.active
    BY <1>c, <2>1 DEF Window
  <2> HIDE DEF made
  <2>4. /\ windows'[1] = made /\ windows'[0] = windows[0]
        /\ windows' \in [{0, 1} -> Window]
    <3>1. windows \in [{0, 1} -> Window] /\ windows' = [windows EXCEPT ![1] = made]
      BY <1>a, <2>2
    <3>2. windows'[1] = made /\ windows'[0] = windows[0]
      BY <3>1
    <3> QED
      BY <2>3, <3>1, <3>2
  <2>5. OnScreen(made)
    <3>1. W(made) = W(win)
      BY <2>3 DEF W
    <3> QED
      BY <1>a, <2>1, <2>3, <3>1 DEF OnScreen
  <2> QED
    BY <1>b, <2>2, <2>3, <2>4, <2>5
<1> QED
  BY <1>1, <1>2

\* A step of the interrupt, or of the loop when it moves no window.
LEMMA Unmoved ==
    ASSUME [Next]_vars, ~ Row, ~ DragColumn, ~ DragRow
    PROVE  UNCHANGED windows
BY DEF Next, vars, Packet, Released, Pressed, Column, Frame

LEMMA WindowsStep == DesktopInv /\ [Next]_vars => WindowsFit'
<1> SUFFICES ASSUME DesktopInv, [Next]_vars PROVE WindowsFit'
  OBVIOUS
<1>a. WindowsFit
  BY DEF DesktopInv
<1>1. CASE Row
  <2>1. CASE UNCHANGED windows
    BY <1>a, <2>1 DEF WindowsFit, OnScreen, W
  <2>2. CASE ~ UNCHANGED windows
    <3>1. PICK i \in {0, 1} :
             /\ windows'[1] = [windows[i] EXCEPT !.active = TRUE]
             /\ windows'[0] = [windows[1 - i] EXCEPT !.active = FALSE]
             /\ windows' \in [{0, 1} -> Window]
      BY <1>1, <2>2, RowFacts
    <3>2. 1 - i \in {0, 1} /\ {i, 1 - i} = {0, 1}
      BY <3>1
    <3>3. ASSUME NEW j \in {0, 1}, NEW b \in BOOLEAN
          PROVE  /\ OnScreen([windows[j] EXCEPT !.active = b])
                 /\ [windows[j] EXCEPT !.active = b].title = windows[j].title
                 /\ [windows[j] EXCEPT !.active = b].active = b
      <4> DEFINE win == windows[j]
                 made == [win EXCEPT !.active = b]
      <4>1. win \in Window /\ OnScreen(win)
        BY <1>a, <3>3 DEF WindowsFit
      <4>2. /\ made.x = win.x /\ made.y = win.y /\ made.title = win.title
            /\ made.active = b
        BY <4>1 DEF Window
      <4> HIDE DEF win, made
      <4>3. OnScreen(made)
        BY <4>1, <4>2 DEF OnScreen, W
      <4> QED
        BY <4>2, <4>3 DEF win, made
    <3>4. /\ OnScreen(windows'[0]) /\ OnScreen(windows'[1])
          /\ windows'[0].active = FALSE /\ windows'[1].active = TRUE
          /\ windows'[1].title = windows[i].title
          /\ windows'[0].title = windows[1 - i].title
      BY <3>1, <3>2, <3>3
    <3>5. {windows'[0].title, windows'[1].title} = {windows[0].title, windows[1].title}
      BY <3>2, <3>4
    <3> QED
      BY <1>a, <3>1, <3>4, <3>5 DEF WindowsFit, OnScreen, W
  <2> QED
    BY <2>1, <2>2
<1>2. CASE DragColumn \/ DragRow
  BY <1>2, <1>a, DragFacts DEF WindowsFit, OnScreen, W
<1>3. CASE ~ (Row \/ DragColumn \/ DragRow)
  BY <1>3, <1>a, Unmoved DEF WindowsFit, OnScreen, W
<1> QED
  BY <1>1, <1>2, <1>3

LEMMA PointerStep == DesktopInv /\ [Next]_vars => PointerFits'
<1> SUFFICES ASSUME DesktopInv, [Next]_vars PROVE PointerFits'
  OBVIOUS
<1>a. PointerFits /\ Width \in Nat \ {0} /\ Height \in Nat \ {0} /\ Moves \subseteq Int
  BY DesktopConstants DEF DesktopInv
<1>1. ASSUME NEW dx \in Moves, NEW dy \in Moves, NEW left \in BOOLEAN, Packet(dx, dy, left)
      PROVE  PointerFits'
  <2>1. mouse.x \in 0 .. Width - 1 /\ mouse.y \in 0 .. Height - 1 /\ dx \in Int /\ dy \in Int
    BY <1>a DEF PointerFits
  <2>2. /\ Smaller(Larger(mouse.x + dx, 0), Width - 1) \in 0 .. Width - 1
        /\ Smaller(Larger(mouse.y - dy, 0), Height - 1) \in 0 .. Height - 1
    BY <1>a, <2>1 DEF Smaller, Larger
  <2> QED
    BY <1>1, <2>2 DEF Packet, PointerFits
<1>2. CASE UNCHANGED mouse
  BY <1>2, <1>a DEF PointerFits
<1> QED
  BY <1>1, <1>2 DEF Next, vars, Released, Pressed, Column, Row, DragColumn, DragRow, Frame

LEMMA LoopStep == DesktopInv /\ [Next]_vars => LoopFits'
<1> SUFFICES ASSUME DesktopInv, [Next]_vars PROVE LoopFits'
  OBVIOUS
<1>a. LoopFits /\ PointerFits /\ WindowsFit
  BY DEF DesktopInv
<1>1. CASE UNCHANGED <<windows, at, mx, dragging, off>>
  BY <1>1, <1>a DEF LoopFits, W
<1>2. CASE Released \/ Pressed \/ Column \/ Frame
  <2>1. /\ UNCHANGED <<windows, off>> /\ dragging' \in {dragging, -1}
        /\ at' \in {"button", "column", "row", "drag column", "paint"}
        /\ at' \in {"column", "row"} => dragging' = -1
        /\ at' = "drag column" => dragging' = 1
        /\ at' = "row" => mx' = mouse.x
    BY <1>2, <1>a DEF LoopFits, Released, Pressed, Column, Frame
  <2>2. mouse.x \in 0 .. Width - 1
    BY <1>a DEF PointerFits
  <2> QED
    BY <1>a, <2>1, <2>2 DEF LoopFits, W
<1>3. CASE Row
  <2>1. /\ at' = "paint" /\ mx \in 0 .. Width - 1 /\ mouse.y \in 0 .. Height - 1
    BY <1>3, RowFacts
  <2>2. CASE UNCHANGED <<windows, dragging, off>>
    BY <1>a, <2>1, <2>2 DEF LoopFits, W
  <2>3. CASE ~ UNCHANGED <<windows, dragging, off>>
    <3>1. PICK i \in {0, 1} :
             /\ i \in Hit(mx, mouse.y)
             /\ windows'[1] = [windows[i] EXCEPT !.active = TRUE]
             /\ dragging' = 1
             /\ off' = [x |-> mx - windows[i].x, y |-> mouse.y - windows[i].y]
      BY <1>3, <2>3, RowFacts
    <3>2. windows[i] \in Window /\ windows'[1].title = windows[i].title
      BY <1>a, <3>1 DEF WindowsFit, Window
    <3>3. W(windows'[1]) = W(windows[i])
      BY <3>2 DEF W
    <3>4. /\ windows[i].x \in Int /\ windows[i].y \in Int /\ W(windows[i]) \in Nat
          /\ Title \in Nat
      BY <3>2, Sizes, DesktopConstants DEF Window
    <3>5. /\ windows[i].x <= mx /\ mx < windows[i].x + W(windows[i])
          /\ windows[i].y <= mouse.y /\ mouse.y < windows[i].y + Title
      BY <3>1 DEF Hit
    <3>6. mx - windows[i].x \in 0 .. W(windows[i]) - 1 /\ mouse.y - windows[i].y \in 0 .. Title - 1
      BY <2>1, <3>4, <3>5
    <3>7. /\ off' \in [x : Int, y : Int] /\ off'.x \in 0 .. W(windows'[1]) - 1
          /\ off'.y \in 0 .. Title - 1
      BY <3>1, <3>3, <3>6
    <3> QED
      BY <1>a, <2>1, <3>1, <3>7 DEF LoopFits, W
  <2> QED
    BY <2>2, <2>3
<1>4. CASE DragColumn \/ DragRow
  <2>1. /\ dragging = 1 /\ dragging' = 1 /\ off' = off /\ at' \in {"drag row", "paint"}
        /\ windows'[1].title = windows[1].title
    BY <1>4, DragFacts
  <2>2. Client[windows'[1].title] = Client[windows[1].title]
    BY <2>1
  <2> QED
    BY <1>a, <2>1, <2>2 DEF LoopFits, W
<1> QED
  BY <1>1, <1>2, <1>3, <1>4 DEF Next, vars, Packet

LEMMA PictureStep == DesktopInv /\ [Next]_vars => PictureFresh'
<1> SUFFICES ASSUME DesktopInv, [Next]_vars PROVE PictureFresh'
  OBVIOUS
<1>a. PictureFresh /\ (at \in {"drag column", "drag row"} => dragging = 1)
  BY DEF DesktopInv, LoopFits
<1>1. CASE Frame
  <2>1. front' = Paint /\ Paint' = Paint
    BY <1>1, PictureStays DEF Frame
  <2> QED
    BY <2>1 DEF PictureFresh
<1>2. CASE Row \/ DragColumn \/ DragRow
  <2>1. at' \in {"drag row", "paint"}
    BY <1>2, RowFacts, DragFacts
  <2> QED
    BY <2>1 DEF PictureFresh
<1>3. CASE ~ (Frame \/ Row \/ DragColumn \/ DragRow)
  <2>1. Paint' = Paint
    BY <1>3, Unmoved, PictureStays
  <2>2. /\ front' = front
        /\ at' \in {"button", "column", "row"} => at \in {"button", "column", "row"}
    BY <1>3 DEF Next, vars, Packet, Released, Pressed, Column
  <2> QED
    BY <1>a, <2>1, <2>2 DEF PictureFresh
<1> QED
  BY <1>1, <1>2, <1>3

LEMMA DesktopStep == DesktopInv /\ [Next]_vars => DesktopInv'
BY WindowsStep, PointerStep, LoopStep, PictureStep DEF DesktopInv

-----------------------------------------------------------------------------
(* What holds for every size.                                              *)

\* Every window keeps a part of itself on the screen and its title bar below the top
\* bar, is held by its title bar, and the one in front is the active one (the clamps and
\* the swap of the compositor's loop).
THEOREM DesktopTypeCorrect == Spec => []TypeOK
<1>1. DesktopInv => TypeOK
  BY DEF DesktopInv, WindowsFit, OnScreen, PointerFits, LoopFits, TypeOK, Pixels
<1> QED
  BY <1>1, DesktopInit, DesktopStep, PTL DEF Spec

LEMMA SeenStep ==
    ASSUME DesktopInv, [Next]_vars, NEW t \in Titles,
           at = "row", at' = "paint", windows[1].x >= 0,
           front[<<mx, mouse.y>>] = <<"title", t>>
    PROVE  dragging' = 1 /\ windows'[1].title = t /\ windows'[1].active
<1> DEFINE c == mx
           r == mouse.y
           p == <<c, r>>
<1>1. Row
  BY DEF Next, vars, Packet, Released, Pressed, Column, DragColumn, DragRow, Frame
<1>2. c \in 0 .. Width - 1 /\ r \in 0 .. Height - 1 /\ p \in Pixels
  BY <1>1, RowFacts DEF Pixels
<1>3. /\ windows[0] \in Window /\ windows[1] \in Window
      /\ OnScreen(windows[0]) /\ OnScreen(windows[1])
  BY DEF DesktopInv, WindowsFit
<1>4. Paint[p] = <<"title", t>>
  <2>1. [q \in Pixels |-> Background][p] # <<"title", t>>
    BY <1>2 DEF Background
  <2>2. front = Paint
    BY <2>1 DEF DesktopInv, PictureFresh
  <2> QED
    BY <2>2
<1>5. \A i \in {0, 1} :
         i \in Hit(c, r) <=> /\ windows[i].x <= c /\ c < windows[i].x + W(windows[i])
                             /\ windows[i].y <= r /\ r < windows[i].y + Title
  BY DEF Hit
<1>6. 1 \in Hit(c, r) => OnBody(p, windows[1])
  BY <1>2, <1>3, <1>5, HitIsBody
<1>7. \A i \in {0, 1} : OnTitle(p, windows[i]) => i \in Hit(c, r)
  BY <1>2, <1>3, <1>5, TitleIsHit
<1>8. windows[Topmost(Hit(c, r))].title = t /\ Hit(c, r) # {}
  BY <1>2, <1>4, <1>6, <1>7, PictureShows DEF Topmost
<1>9. PICK i \in {0, 1} : /\ i = Topmost(Hit(c, r))
                          /\ windows'[1] = [windows[i] EXCEPT !.active = TRUE]
                          /\ dragging' = 1
  BY <1>1, <1>8, RowFacts
<1>10. windows'[1].title = windows[i].title /\ windows'[1].active = TRUE
  BY <1>3, <1>9 DEF Window
<1> QED
  BY <1>8, <1>9, <1>10

\* A press where the screen shows a title bar takes the window of that title bar and
\* brings it to the front, while the one in front does not stick out on the left: the
\* picture is as old as the last frame, and no window has moved since.
THEOREM SeenIsTakenAlways == Spec => SeenIsTaken
<1>1. DesktopInv /\ [Next]_vars =>
        [\A t \in Titles :
           at = "row" /\ at' = "paint" /\ windows[1].x >= 0
             /\ front[<<mx, mouse.y>>] = <<"title", t>>
           => dragging' = 1 /\ windows'[1].title = t /\ windows'[1].active]_vars
  BY SeenStep
<1> QED
  BY <1>1, DesktopInit, DesktopStep, PTL DEF Spec, SeenIsTaken
=============================================================================
