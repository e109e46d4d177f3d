------------------------------ MODULE Drawing ------------------------------
(***************************************************************************)
(* kernel/ui.c and putpixel of kernel/sys/io.c: the pixels that a shape    *)
(* consists of, and the mixing of a colour with what is on the screen.     *)
(* main returns before it draws anything.                                  *)
(***************************************************************************)
EXTENDS Integers, FiniteSets

CONSTANTS WIDTH, HEIGHT,  \* of the screen
          LEVELS,         \* values of a colour channel
          UINT16, UINT32  \* values of the unsigned integers

ASSUME DrawingAssumption == /\ WIDTH \in Nat \ {0} /\ HEIGHT \in Nat \ {0}
                            /\ LEVELS \in Nat /\ LEVELS >= 2
                            /\ UINT16 \in Nat /\ UINT16 > WIDTH /\ UINT16 > HEIGHT
                            /\ UINT32 = LEVELS * LEVELS * LEVELS * LEVELS

\* The test of the shapes, which is one column and one row too generous.
oob(p) == p[1] < 0 \/ p[2] < 0 \/ p[1] > WIDTH \/ p[2] > HEIGHT

\* What there is to draw on, and the column and the row beside it that pass the test.
Screen == (0 .. WIDTH - 1) \X (0 .. HEIGHT - 1)
Spilled == {p \in (0 .. WIDTH) \X (0 .. HEIGHT) : p[1] = WIDTH \/ p[2] = HEIGHT}

\* Where putpixel, whose parameters are unsigned, draws what is not tested.
Pixel(p) == <<p[1] % UINT16, p[2] % UINT16>>

abs(x) == IF x < 0 THEN - x ELSE x

\* Division as in C, towards zero.
Quotient(a, b) == IF (a < 0) = (b < 0) THEN abs(a) \div abs(b) ELSE - (abs(a) \div abs(b))
-----------------------------------------------------------------------------
\* Mutant: the loops leave out the outermost column and row on either side.
Reach_Short(r) == 1 - r .. r - 2

\* How far from its centre the loops look for the pixels of a circle.
Reach(r) == - r .. r - 1

ui_circle(x, y, r) ==
  {<<x + d[1], y + d[2]>> : d \in {e \in Reach(r) \X Reach(r) : e[1] * e[1] + e[2] * e[2] < r * r}}
    \cap {p \in (x - r .. x + r) \X (y - r .. y + r) : ~ oob(p)}

\* The steps of a line along its longer axis, from a to b, and where it is on the
\* other one, on which it begins at c and which it moves by d on.  Only a and b are
\* exchanged when they are in the wrong order.
Steps(a, b) == IF a > b THEN b .. a ELSE a .. b
From(a, b) == IF a > b THEN b ELSE a
At(s, a, b, c, d) == Quotient(d * (s - From(a, b)), b - a) + c

ui_line(x1, y1, x2, y2) ==
  LET dx == x2 - x1
      dy == y2 - y1
  IN IF dx = 0 /\ dy = 0 THEN {Pixel(<<x1, y1>>)}
     ELSE {p \in IF abs(dx) > abs(dy)
                 THEN {<<s, At(s, x1, x2, y1, dy)>> : s \in Steps(x1, x2)}
                 ELSE {<<At(s, y1, y2, x1, dx), s>> : s \in Steps(y1, y2)} : ~ oob(p)}

interpolate_x(p, r, y) == p[1] + Quotient((r[1] - p[1]) * (y - p[2]), r[2] - p[2])

\* The corners after the three exchanges.
Exchanged(t, k) == IF t[k][2] > t[k + 1][2] THEN [t EXCEPT ![k] = t[k + 1], ![k + 1] = t[k]] ELSE t
Sorted(t) == Exchanged(Exchanged(Exchanged(t, 1), 2), 1)

\* The last division is by zero.
Faults(t) == Sorted(t)[2][2] = Sorted(t)[3][2]

ui_triangle(t) ==
  LET s == Sorted(t)
      Side(y) == IF y < s[2][2] THEN interpolate_x(s[1], s[2], y) ELSE interpolate_x(s[2], s[3], y)
  IN UNION {ui_line(Side(y), y, interpolate_x(s[1], s[3], y), y) : y \in s[1][2] .. s[3][2]}

\* How much of a picture of the given size is copied to a row or column.
Clip(at, size, all) == IF at + size > all THEN (all - at) % UINT16 ELSE size

ui_draw(x, y, w, h) == {<<x + dx, y + dy>> : dx \in 0 .. Clip(x, w, WIDTH) - 1,
                                             dy \in 0 .. Clip(y, h, HEIGHT) - 1}

\* One channel of a translucent colour, in unsigned integers.
Mixed(c, bg, a) == ((((c - bg) % UINT32) * a) % UINT32) \div (LEVELS - 1) + bg

\* One channel of the screen when c is drawn over bg with opacity a.
putpixel(c, bg, a) ==
  CASE a = 0 -> bg
    [] a = LEVELS - 1 -> c
    [] OTHER -> Mixed(c, bg, a)
-----------------------------------------------------------------------------
\* On the screen a circle is the pixels nearer to its centre than r, and no other.
\* Off the screen it is drawn on the column and the row that oob lets pass.
CircleIsWhole(x, y, r) ==
  LET disc(S) == {p \in S : (p[1] - x) * (p[1] - x) + (p[2] - y) * (p[2] - y) < r * r}
  IN ui_circle(x, y, r) = disc(Screen) \cup disc(Spilled)

\* A line that is drawn forwards along its longer axis joins its ends, with one
\* pixel a step, not further than one from where the line is.  Drawn backwards it
\* is turned over: it begins beside its other end.  Off the screen a line is drawn
\* where oob lets it, but a line of one point wherever that point may be.
LineJoinsEnds(p, r) ==
  LET l == ui_line(p[1], p[2], r[1], r[2])
      d == <<r[1] - p[1], r[2] - p[2]>>
      k == IF abs(d[1]) > abs(d[2]) THEN 1 ELSE 2
  IN IF p = r THEN l = {Pixel(p)} /\ (p \in Screen => l = {p})
     ELSE /\ l \subseteq Screen \cup Spilled
          /\ Cardinality(l) <= abs(d[k]) + 1
          /\ d[k] >= 0 => /\ {p, r} \cap Screen \subseteq l
                          /\ \A e \in l : abs((e[1] - p[1]) * d[2] - (e[2] - p[2]) * d[1]) <= abs(d[k])
          /\ d[k] < 0 => l = IF k = 1 THEN ui_line(r[1], p[2], p[1], 2 * p[2] - r[2])
                                      ELSE ui_line(p[1], r[2], 2 * p[1] - r[1], p[2])

\* A triangle has its corners that are on the screen and no gap in a row, unless its
\* two last corners are level, when the division faults.  Off the screen it is drawn
\* where oob lets it, but a row of one point wherever that point may be.
TriangleIsFilled(t) ==
  LET pixels == ui_triangle(t)
  IN \/ Faults(t)
     \/ /\ \A k \in 1 .. 3 : t[k] \in Screen => t[k] \in pixels
        /\ \A p, r \in pixels : p[2] = r[2] => \A x \in p[1] .. r[1] : <<x, p[2]>> \in pixels
        /\ \A p \in pixels : p \in Screen \cup Spilled \/ \A r \in pixels : r[2] = p[2] => r = p

\* A picture is cut off at the edges, if it begins before them.
PictureIsCut(x, y, w, h) ==
  x <= WIDTH /\ y <= HEIGHT =>
    ui_draw(x, y, w, h) = ((x .. x + w - 1) \X (y .. y + h - 1)) \cap Screen

\* A channel goes from bg towards c as far as a says, but for one that a translucent
\* colour darkens: it leaves its byte, and brightens the others.
MixesColour(c, bg, a) ==
  IF c < bg /\ a \in 1 .. LEVELS - 2 THEN putpixel(c, bg, a) >= LEVELS
  ELSE putpixel(c, bg, a) = bg + Quotient((c - bg) * a, LEVELS - 1)
=============================================================================
