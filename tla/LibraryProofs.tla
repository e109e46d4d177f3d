--------------------------- MODULE LibraryProofs ---------------------------
(***************************************************************************)
(* Proofs about the functions that keep no state, for arguments of any     *)
(* size.  Pictures: what putpixel mixes, where a picture is cut off, and   *)
(* that circles, lines and triangles consist of the pixels they should.    *)
(* Names: what format_entry leaves in its buffer and behind it.  Text:     *)
(* that itoa makes the usual numerals, but for negative decimal numbers,   *)
(* and that printf prints its format piece by piece.                       *)
(***************************************************************************)
EXTENDS Library, FiniteSetTheorems, SequenceTheorems, WellFoundedInduction, TLAPS

LEMMA Positive == /\ WIDTH \in Nat \ {0} /\ HEIGHT \in Nat \ {0}
                  /\ LEVELS \in Nat /\ LEVELS >= 2
                  /\ UINT16 \in Nat /\ UINT16 > WIDTH /\ UINT16 > HEIGHT
                  /\ UINT32 = LEVELS * LEVELS * LEVELS * LEVELS
  BY DrawingAssumption

\* A number with a remainder below b is divided in one way only.
LEMMA DivideOnce ==
  ASSUME NEW b \in Nat \ {0}, NEW k \in Int, NEW m \in Nat, m < b
  PROVE  (k * b + m) \div b = k /\ (k * b + m) % b = m
OBVIOUS

LEMMA DivideAny ==
  ASSUME NEW b \in Nat \ {0}, NEW x \in Int
  PROVE  x \div b \in Int /\ x % b \in 0 .. b - 1 /\ x = (x \div b) * b + (x % b)
OBVIOUS
-----------------------------------------------------------------------------
(* Colours *)

\* Products keep an order.
LEMMA TimesMonotone ==
  ASSUME NEW a \in Nat, NEW b \in Nat, NEW c \in Nat, NEW d \in Nat, a <= b, c <= d
  PROVE  a * c <= b * d
<1>1. a * c <= b * c
  OBVIOUS
<1>2. b * c <= b * d
  OBVIOUS
<1>. QED
  BY <1>1, <1>2

\* What lies between the multiples of b divides as they do.
LEMMA DivBounds ==
  ASSUME NEW b \in Nat \ {0}, NEW x \in Int, NEW k \in Int
  PROVE  /\ x >= k * b => x \div b >= k
         /\ x <= k * b => x \div b <= k
<1>. DEFINE q == x \div b
            m == x % b
<1>1. q \in Int /\ m \in 0 .. b - 1 /\ x = q * b + m
  BY DivideAny
<1>. HIDE DEF q, m
<1>2. ASSUME x >= k * b, q < k
      PROVE  FALSE
  <2>1. (q + 1) * b <= k * b
    BY <1>1, <1>2
  <2>2. (q + 1) * b = q * b + b
    BY <1>1
  <2>. QED
    BY <1>1, <1>2, <2>1, <2>2
<1>3. ASSUME x <= k * b, q > k
      PROVE  FALSE
  <2>1. q * b >= (k + 1) * b
    BY <1>1, <1>3
  <2>2. (k + 1) * b = k * b + b
    OBVIOUS
  <2>. QED
    BY <1>1, <1>3, <2>1, <2>2
<1>. QED
  BY <1>1, <1>2, <1>3 DEF q

\* What comes of the unsigned numbers when a channel gets brighter, or darker.
LEMMA MixedIs ==
  ASSUME NEW c \in 0 .. LEVELS - 1, NEW bg \in 0 .. LEVELS - 1, NEW a \in 0 .. LEVELS - 1
  PROVE  /\ c >= bg => Mixed(c, bg, a) = bg + (((c - bg) * a) \div (LEVELS - 1))
         /\ c < bg /\ a > 0 => Mixed(c, bg, a) >= LEVELS
<1>. DEFINE n == LEVELS - 1
            diff == c - bg
<1>1. /\ n \in Nat \ {0} /\ LEVELS = n + 1
      /\ UINT32 \in Nat \ {0}
      /\ a \in Nat /\ a <= n /\ bg \in Nat /\ bg <= n /\ c \in Nat /\ c <= n /\ diff \in Int
  BY Positive
<1>2. /\ n * n \in Nat /\ UINT32 > n * n
      /\ UINT32 - n * n >= LEVELS * n
  <2>1. LEVELS * LEVELS = n * n + 2 * n + 1
    BY <1>1
  <2>2. LEVELS \in Nat /\ UINT32 = LEVELS * LEVELS * LEVELS * LEVELS
    BY Positive
  <2>3. PICK s \in Nat : s = LEVELS * LEVELS /\ UINT32 = s * s
    BY <2>2
  <2>4. PICK m \in Nat : m = n * n /\ s = m + 2 * n + 1 /\ LEVELS * n = m + n
    BY <1>1, <2>1, <2>3
  <2>5. s * s >= 2 * s
    <3>1. s >= 2
      BY <1>1, <2>4
    <3>. QED
      BY <3>1, TimesMonotone
  <2>. HIDE DEF n
  <2>6. UINT32 >= 2 * m + 4 * n + 2
    BY <1>1, <2>3, <2>4, <2>5
  <2>. QED
    BY <1>1, <2>4, <2>6
<1>. HIDE DEF n
<1>3. Mixed(c, bg, a) = ((((diff % UINT32) * a) % UINT32) \div n) + bg
  BY DEF Mixed, n
<1>. HIDE DEF diff
<1>4. CASE diff >= 0
  <2>1. diff <= n /\ diff \in Nat
    BY <1>1, <1>4 DEF diff
  <2>2. diff * a \in Nat /\ diff * a <= n * n /\ diff * a <= diff * n
    BY <1>1, <2>1, TimesMonotone
  <2>3. diff % UINT32 = diff
    <3>1. diff < UINT32
      <4>1. n <= n * n
        BY <1>1
      <4>. QED
        BY <1>1, <1>2, <2>1, <4>1
    <3>2. 0 * UINT32 + diff = diff
      BY <1>1, <2>1
    <3>. QED
      BY <1>1, <2>1, <3>1, <3>2, DivideOnce
  <2>4. (diff * a) % UINT32 = diff * a
    <3>. DEFINE m == diff * a
    <3>1. m \in Nat /\ m < UINT32 /\ 0 * UINT32 + m = m
      BY <1>1, <1>2, <2>2
    <3>. HIDE DEF m
    <3>2. m % UINT32 = m
      BY <1>1, <3>1, DivideOnce
    <3>. QED
      BY <3>2 DEF m
  <2>5. Mixed(c, bg, a) = bg + ((diff * a) \div n)
    <3>1. (diff * a) \div n \in Int
      BY <1>1, <2>2, DivideAny
    <3>. QED
      BY <1>1, <1>3, <2>3, <2>4, <3>1
  <2>6. c >= bg
    BY <1>1, <1>4 DEF diff
  <2>. QED
    BY <1>1, <2>5, <2>6 DEF diff, n
<1>5. CASE diff < 0
  <2>. SUFFICES ASSUME a > 0
                PROVE  Mixed(c, bg, a) >= LEVELS
    BY <1>1, <1>5 DEF diff
  <2>. DEFINE e == - diff
              x == UINT32 - e * a
  <2>1. e \in Nat /\ e > 0 /\ e <= n /\ diff = - e
    BY <1>1, <1>5 DEF diff
  <2>. HIDE DEF e
  <2>2. e * a \in Nat /\ e * a > 0 /\ e * a <= n * n
    BY <1>1, <2>1, TimesMonotone
  <2>3. diff % UINT32 = UINT32 - e
    <3>1. n <= n * n
      BY <1>1
    <3>2. PICK m \in Nat, k \in Int : m = UINT32 - e /\ m < UINT32 /\ k = -1
      BY <1>1, <1>2, <2>1, <3>1
    <3>3. k * UINT32 + m = diff
      BY <1>1, <2>1, <3>2
    <3>4. (k * UINT32 + m) % UINT32 = m
      BY <1>1, <3>2, DivideOnce
    <3>. QED
      BY <3>2, <3>3, <3>4
  <2>4. ((UINT32 - e) * a) % UINT32 = x
    <3>1. x \in Nat /\ x < UINT32
      BY <1>1, <1>2, <2>2
    <3>2. PICK k \in Int, u \in Nat : k = a - 1 /\ u = UINT32
      BY <1>1
    <3>3. (u - e) * a = k * u + (u - e * a)
      <4>1. a \in Int /\ e \in Int /\ u \in Int /\ a = k + 1
        BY <1>1, <2>1, <3>2
      <4>2. (u - e) * a = u * a - e * a
        BY <4>1
      <4>3. u * (k + 1) = k * u + u
        BY <3>2
      <4>. QED
        BY <4>1, <4>2, <4>3
    <3>4. (UINT32 - e) * a = k * UINT32 + x
      BY <3>2, <3>3
    <3>. HIDE DEF x
    <3>5. (k * UINT32 + x) % UINT32 = x
      BY <1>1, <3>1, <3>2, DivideOnce
    <3>. QED
      BY <3>4, <3>5
  <2>5. x \in Int /\ x >= LEVELS * n
    BY <1>1, <1>2, <2>2
  <2>. HIDE DEF x
  <2>6. x \div n >= LEVELS /\ x \div n \in Int
    <3>1. LEVELS \in Int /\ n \in Nat \ {0}
      BY <1>1
    <3>2. x >= LEVELS * n => x \div n >= LEVELS
      BY <2>5, <3>1, DivBounds
    <3>. QED
      BY <2>5, <3>1, <3>2, DivideAny
  <2>7. Mixed(c, bg, a) = (x \div n) + bg
    BY <1>3, <2>3, <2>4
  <2>. QED
    BY <1>1, <2>6, <2>7
<1>. QED
  BY <1>1, <1>4, <1>5
-----------------------------------------------------------------------------
(* Pictures and circles *)

\* What is copied of a row or column ends with the picture or at the edge.
LEMMA ClipIs ==
  ASSUME NEW at \in Nat, NEW size \in Nat, NEW all \in Nat, at <= all, all < UINT16
  PROVE  \E n \in Nat : /\ n = Clip(at, size, all)
                        /\ at + size <= all => n = size
                        /\ at + size > all => n = all - at
<1>1. UINT16 \in Nat \ {0}
  BY Positive
<1>2. CASE at + size <= all
  BY <1>2 DEF Clip
<1>3. CASE at + size > all
  <2>1. PICK m \in Nat : m = all - at /\ m < UINT16
    BY <1>1
  <2>2. m % UINT16 = m
    BY <1>1, <2>1, DivideOnce, 0 * UINT16 + m = m
  <2>3. Clip(at, size, all) = m
    BY <1>3, <2>1, <2>2 DEF Clip
  <2>. QED
    BY <1>3, <2>1, <2>3
<1>. QED
  BY <1>2, <1>3

\* What passes the test is the screen and what is beside it.
LEMMA TestIs ==
  ASSUME NEW i \in Int, NEW j \in Int
  PROVE  /\ ~ oob(<<i, j>>) <=> i \in 0 .. WIDTH /\ j \in 0 .. HEIGHT
         /\ ~ oob(<<i, j>>) <=> <<i, j>> \in Screen \cup Spilled
         /\ <<i, j>> \in Screen <=> i \in 0 .. WIDTH - 1 /\ j \in 0 .. HEIGHT - 1
<1>1. ~ oob(<<i, j>>) <=> i \in 0 .. WIDTH /\ j \in 0 .. HEIGHT
  BY Positive DEF oob
<1>2. <<i, j>> \in Screen <=> i \in 0 .. WIDTH - 1 /\ j \in 0 .. HEIGHT - 1
  BY DEF Screen
<1>3. <<i, j>> \in Spilled <=> /\ i \in 0 .. WIDTH /\ j \in 0 .. HEIGHT
                               /\ i = WIDTH \/ j = HEIGHT
  BY DEF Spilled
<1>4. i \in 0 .. WIDTH /\ j \in 0 .. HEIGHT <=>
        \/ i \in 0 .. WIDTH - 1 /\ j \in 0 .. HEIGHT - 1
        \/ i \in 0 .. WIDTH /\ j \in 0 .. HEIGHT /\ (i = WIDTH \/ j = HEIGHT)
  BY Positive
<1>. QED
  BY <1>1, <1>2, <1>3, <1>4

LEMMA PictureCut ==
  ASSUME NEW x \in Nat, NEW y \in Nat, NEW w \in Nat, NEW h \in Nat
  PROVE  PictureIsCut(x, y, w, h)
<1>. SUFFICES ASSUME x <= WIDTH, y <= HEIGHT
              PROVE  ui_draw(x, y, w, h) = ((x .. x + w - 1) \X (y .. y + h - 1)) \cap Screen
  BY DEF PictureIsCut
<1>. DEFINE S == ((x .. x + w - 1) \X (y .. y + h - 1)) \cap Screen
<1>1. PICK m \in Nat : /\ m = Clip(x, w, WIDTH)
                       /\ x + w <= WIDTH => m = w
                       /\ x + w > WIDTH => m = WIDTH - x
  BY Positive, ClipIs
<1>2. PICK n \in Nat : /\ n = Clip(y, h, HEIGHT)
                       /\ y + h <= HEIGHT => n = h
                       /\ y + h > HEIGHT => n = HEIGHT - y
  BY Positive, ClipIs
<1>3. ASSUME NEW i \in Int, NEW j \in Int
      PROVE  <<i, j>> \in S <=> i \in x .. x + m - 1 /\ j \in y .. y + n - 1
  <2>1. <<i, j>> \in S <=> /\ i \in x .. x + w - 1 /\ i \in 0 .. WIDTH - 1
                           /\ j \in y .. y + h - 1 /\ j \in 0 .. HEIGHT - 1
    BY DEF Screen
  <2>2. i \in x .. x + w - 1 /\ i \in 0 .. WIDTH - 1 <=> i \in x .. x + m - 1
    BY <1>1, Positive
  <2>3. j \in y .. y + h - 1 /\ j \in 0 .. HEIGHT - 1 <=> j \in y .. y + n - 1
    BY <1>2, Positive
  <2>. QED
    BY <2>1, <2>2, <2>3
<1>4. ui_draw(x, y, w, h) = {<<x + dx, y + dy>> : dx \in 0 .. m - 1, dy \in 0 .. n - 1}
  BY <1>1, <1>2 DEF ui_draw
<1>5. ASSUME NEW p \in S
      PROVE  p \in ui_draw(x, y, w, h)
  <2>1. PICK i \in Int, j \in Int : p = <<i, j>>
    OBVIOUS
  <2>2. i \in x .. x + m - 1 /\ j \in y .. y + n - 1
    BY <1>3, <2>1
  <2>3. i - x \in 0 .. m - 1 /\ j - y \in 0 .. n - 1 /\ i = x + (i - x) /\ j = y + (j - y)
    BY <2>2
  <2>. QED
    BY <1>4, <2>1, <2>3
<1>6. ASSUME NEW p \in ui_draw(x, y, w, h)
      PROVE  p \in S
  <2>1. PICK dx \in 0 .. m - 1, dy \in 0 .. n - 1 : p = <<x + dx, y + dy>>
    BY <1>4
  <2>2. x + dx \in x .. x + m - 1 /\ y + dy \in y .. y + n - 1 /\ x + dx \in Int /\ y + dy \in Int
    OBVIOUS
  <2>. QED
    BY <1>3, <2>1, <2>2
<1>. QED
  BY <1>5, <1>6

\* A number whose square is small is small itself.
LEMMA SquareLess ==
  ASSUME NEW d \in Int, NEW e \in Int, NEW r \in Nat, d * d + e * e < r * r
  PROVE  d \in Reach(r) /\ - r <= d /\ d <= r
<1>1. d * d >= 0 /\ e * e >= 0
  OBVIOUS
<1>2. d * d < r * r
  BY <1>1
<1>3. ASSUME d >= r
      PROVE  FALSE
  <2>1. d * d >= r * r
    BY <1>3, TimesMonotone
  <2>. QED
    BY <1>2, <2>1
<1>4. ASSUME - d >= r
      PROVE  FALSE
  <2>1. - d \in Nat /\ (- d) * (- d) = d * d
    BY <1>4
  <2>2. (- d) * (- d) >= r * r
    BY <1>4, <2>1, TimesMonotone
  <2>. QED
    BY <1>2, <2>1, <2>2
<1>. QED
  BY <1>3, <1>4 DEF Reach

LEMMA CircleWhole ==
  ASSUME NEW x \in Int, NEW y \in Int, NEW r \in Nat
  PROVE  CircleIsWhole(x, y, r)
<1>. DEFINE near(d) == d[1] * d[1] + d[2] * d[2] < r * r
            D == {e \in Reach(r) \X Reach(r) : near(e)}
            B == (x - r .. x + r) \X (y - r .. y + r)
            S == {p \in Screen \cup Spilled :
                    (p[1] - x) * (p[1] - x) + (p[2] - y) * (p[2] - y) < r * r}
<1>1. ui_circle(x, y, r) = {<<x + d[1], y + d[2]>> : d \in D} \cap {p \in B : ~ oob(p)}
  BY DEF ui_circle
<1>2. ASSUME NEW p \in S
      PROVE  p \in ui_circle(x, y, r)
  <2>1. PICK i \in 0 .. WIDTH, j \in 0 .. HEIGHT : p = <<i, j>>
    <3>1. p \in (0 .. WIDTH) \X (0 .. HEIGHT)
      BY Positive DEF Screen, Spilled
    <3>. QED
      BY <3>1
  <2>2. PICK d \in Int, e \in Int : d = i - x /\ e = j - y
    BY Positive
  <2>3. d * d + e * e < r * r
    BY <2>1, <2>2
  <2>4. /\ d \in Reach(r) /\ - r <= d /\ d <= r
        /\ e \in Reach(r) /\ - r <= e /\ e <= r
    BY <2>3, SquareLess, e * e + d * d = d * d + e * e
  <2>5. <<d, e>> \in D
    BY <2>3, <2>4
  <2>6. p = <<x + d, y + e>> /\ p \in B
    BY <2>1, <2>2, <2>4, Positive
  <2>7. ~ oob(p)
    BY <2>1, Positive DEF oob
  <2>. QED
    BY <1>1, <2>5, <2>6, <2>7
<1>3. ASSUME NEW p \in ui_circle(x, y, r)
      PROVE  p \in S
  <2>1. PICK d \in D : p = <<x + d[1], y + d[2]>> /\ ~ oob(p)
    BY <1>1
  <2>2. PICK e \in Int, f \in Int : d = <<e, f>> /\ e * e + f * f < r * r
    BY <2>1 DEF Reach
  <2>3. PICK i \in Int, j \in Int : i = x + e /\ j = y + f /\ p = <<i, j>>
    BY <2>1, <2>2
  <2>4. i - x = e /\ j - y = f
    BY <2>3
  <2>5. <<i, j>> \in Screen \cup Spilled
    BY <2>1, <2>3, TestIs
  <2>. QED
    BY <2>2, <2>3, <2>4, <2>5
<1>. QED
  <2>1. ui_circle(x, y, r) = S
    BY <1>2, <1>3
  <2>. QED
    BY <2>1 DEF CircleIsWhole
-----------------------------------------------------------------------------
(* Lines *)

LEMMA AbsIs ==
  ASSUME NEW x \in Int
  PROVE  /\ abs(x) \in Nat /\ abs(- x) = abs(x)
         /\ x >= 0 => abs(x) = x
         /\ x < 0 => abs(x) = - x
         /\ abs(x) = 0 <=> x = 0
  BY DEF abs

\* The quotient, and less than the divisor left over.
LEMMA QuotientIs ==
  ASSUME NEW a \in Int, NEW b \in Int, b # 0
  PROVE  /\ Quotient(a, b) \in Int
         /\ abs(a - b * Quotient(a, b)) < abs(b)
         /\ Quotient(- a, - b) = Quotient(a, b)
<1>. DEFINE u == abs(a)
            v == abs(b)
<1>1. u \in Nat /\ v \in Nat \ {0} /\ abs(- a) = u /\ abs(- b) = v
  <2>1. abs(a) \in Nat /\ abs(- a) = abs(a)
    BY AbsIs
  <2>2. abs(b) \in Nat /\ abs(- b) = abs(b) /\ abs(b) # 0
    BY AbsIs
  <2>. QED
    BY <2>1, <2>2
<1>2. PICK q \in Int, m \in Int : q = u \div v /\ m >= 0 /\ m < v /\ u = q * v + m
  <2>. HIDE DEF u, v
  <2>1. u \div v \in Int /\ u % v \in 0 .. v - 1 /\ u = (u \div v) * v + (u % v)
    BY <1>1, DivideAny
  <2>. QED
    BY <1>1, <2>1
<1>3. u = 0 => q = 0
  <2>. HIDE DEF u, v
  <2>. QED
    BY <1>1, <1>2
<1>4. Quotient(a, b) = IF a < 0 <=> b < 0 THEN q ELSE - q
  BY <1>2 DEF Quotient
<1>5. Quotient(- a, - b) = IF - a < 0 <=> - b < 0 THEN q ELSE - q
  BY <1>1, <1>2 DEF Quotient
<1>6. (a < 0 => a = - u) /\ (a >= 0 => a = u) /\ (b < 0 => b = - v) /\ (b >= 0 => b = v)
  BY AbsIs
<1>. HIDE DEF u, v
<1>7. Quotient(- a, - b) = Quotient(a, b)
  <2>1. CASE a = 0
    <3>1. q = 0
      BY <1>1, <1>3, <1>6, <2>1
    <3>. QED
      BY <1>4, <1>5, <3>1
  <2>2. CASE a # 0
    <3>1. (- a < 0 <=> - b < 0) <=> (a < 0 <=> b < 0)
      BY <2>2
    <3>. QED
      BY <1>4, <1>5, <3>1
  <2>. QED
    BY <2>1, <2>2
<1>8. a - b * Quotient(a, b) = m \/ a - b * Quotient(a, b) = - m
  <2>1. v * q = q * v /\ (- v) * q = - (q * v) /\ v * (- q) = - (q * v) /\ (- v) * (- q) = q * v
    BY <1>1, <1>2
  <2>. QED
    BY <1>1, <1>2, <1>4, <1>6, <2>1
<1>9. abs(a - b * Quotient(a, b)) = m
  BY <1>2, <1>8 DEF abs
<1>. QED
  BY <1>1, <1>2, <1>4, <1>7, <1>9 DEF v

\* A multiple is divided without rest.
LEMMA QuotientOfMultiple ==
  ASSUME NEW d \in Int, NEW b \in Int, b # 0
  PROVE  Quotient(d * b, b) = d
<1>. DEFINE q == Quotient(d * b, b)
<1>1. d * b \in Int
  OBVIOUS
<1>2. q \in Int /\ abs(d * b - b * q) < abs(b)
  BY <1>1, QuotientIs
<1>. HIDE DEF q
<1>3. PICK e \in Int : e = d - q
  BY <1>2
<1>4. d * b - b * q = e * b
  <2>1. d = e + q
    BY <1>2, <1>3
  <2>2. (e + q) * b = e * b + b * q
    BY <1>2
  <2>. QED
    BY <1>2, <2>1, <2>2
<1>5. ASSUME e # 0
      PROVE  FALSE
  <2>. DEFINE u == abs(e)
              v == abs(b)
  <2>1. u \in Nat /\ u >= 1 /\ v \in Nat
    BY <1>5, AbsIs
  <2>2. u * v >= v
    BY <2>1, TimesMonotone, 1 * v = v
  <2>3. abs(e * b) = u * v
    <3>1. e * b = u * v \/ e * b = - (u * v)
      BY DEF abs
    <3>2. u * v \in Nat
      BY <2>1
    <3>. HIDE DEF u, v
    <3>. QED
      BY <3>1, <3>2, AbsIs
  <2>. QED
    BY <1>2, <1>4, <2>1, <2>2, <2>3
<1>. QED
  BY <1>2, <1>3, <1>5 DEF q

\* The mixing of a channel.
LEMMA MixesAll ==
  ASSUME NEW c \in 0 .. LEVELS - 1, NEW bg \in 0 .. LEVELS - 1, NEW a \in 0 .. LEVELS - 1
  PROVE  MixesColour(c, bg, a)
<1>1. PICK n \in Nat \ {0}, d \in Int : n = LEVELS - 1 /\ d = c - bg
  BY Positive
<1>2. a \in Nat /\ a <= n /\ c \in Nat /\ bg \in Nat /\ LEVELS \in Int
  BY <1>1, Positive
<1>3. CASE a = 0
  <2>1. Quotient(0 * n, n) = 0 /\ 0 * n = 0 /\ d * a = 0
    <3>1. n \in Int /\ n # 0 /\ 0 \in Int
      BY <1>1
    <3>2. Quotient(0 * n, n) = 0
      BY <3>1, QuotientOfMultiple
    <3>. QED
      BY <1>1, <1>3, <3>2
  <2>2. putpixel(c, bg, a) = bg
    BY <1>3 DEF putpixel
  <2>3. putpixel(c, bg, a) = bg + Quotient(d * a, n)
    BY <1>2, <2>1, <2>2
  <2>. QED
    BY <1>1, <1>3, <2>3 DEF MixesColour
<1>4. CASE a = n
  <2>1. Quotient(d * a, n) = d
    <3>1. n \in Int /\ n # 0
      BY <1>1
    <3>. QED
      BY <1>1, <1>4, <3>1, QuotientOfMultiple
  <2>2. a = LEVELS - 1 /\ a # 0
    BY <1>1, <1>4
  <2>3. putpixel(c, bg, a) = c
    BY <2>2 DEF putpixel
  <2>4. putpixel(c, bg, a) = bg + Quotient(d * a, n)
    BY <1>1, <1>2, <2>1, <2>3
  <2>5. a \notin 1 .. LEVELS - 2
    BY <1>1, <1>2, <1>4
  <2>. QED
    BY <1>1, <2>4, <2>5 DEF MixesColour
<1>5. CASE a # 0 /\ a # n
  <2>1. a \in 1 .. LEVELS - 2 /\ a # LEVELS - 1
    <3>1. LEVELS = n + 1 /\ a >= 1 /\ a <= n - 1
      BY <1>1, <1>2, <1>5
    <3>. QED
      BY <1>1, <1>2, <3>1
  <2>2. putpixel(c, bg, a) = Mixed(c, bg, a)
    BY <1>5, <2>1 DEF putpixel
  <2>3. CASE c < bg
    BY <1>2, <2>1, <2>2, <2>3, MixedIs DEF MixesColour
  <2>4. CASE ~ (c < bg)
    <3>1. d >= 0 /\ d * a \in Nat
      BY <1>1, <1>2, <2>4
    <3>2. Quotient(d * a, n) = (d * a) \div n
      <4>1. PICK m \in Nat : m = d * a
        BY <3>1
      <4>2. abs(m) = m /\ abs(n) = n /\ ~ (m < 0) /\ ~ (n < 0)
        BY <1>1 DEF abs
      <4>3. Quotient(m, n) = m \div n
        BY <4>2 DEF Quotient
      <4>. QED
        BY <4>1, <4>3
    <3>3. c >= bg
      BY <1>2, <2>4
    <3>4. Mixed(c, bg, a) = bg + ((d * a) \div n)
      BY <1>1, <3>3, MixedIs
    <3>. QED
      BY <1>1, <2>2, <2>4, <3>2, <3>4 DEF MixesColour
  <2>. QED
    BY <2>3, <2>4
<1>. QED
  BY <1>3, <1>4, <1>5

\* A line begins at one end and arrives at the other.
LEMMA AtBegin ==
  ASSUME NEW a \in Int, NEW b \in Int, NEW c \in Int, NEW d \in Int, a < b
  PROVE  At(a, a, b, c, d) = c
<1>1. PICK n \in Int : n = b - a /\ n # 0 /\ From(a, b) = a
  BY DEF From
<1>2. d * (a - a) = 0 * n /\ 0 * n = 0
  BY <1>1
<1>3. Quotient(0 * n, n) = 0
  BY <1>1, QuotientOfMultiple
<1>. QED
  BY <1>1, <1>2, <1>3 DEF At

LEMMA AtEnd ==
  ASSUME NEW a \in Int, NEW b \in Int, NEW c \in Int, NEW d \in Int, a < b
  PROVE  At(b, a, b, c, d) = d + c
<1>1. PICK n \in Int : n = b - a /\ n # 0 /\ From(a, b) = a
  BY DEF From
<1>2. Quotient(d * n, n) = d
  BY <1>1, QuotientOfMultiple
<1>. QED
  BY <1>1, <1>2 DEF At

LEMMA AtIs ==
  ASSUME NEW a \in Int, NEW b \in Int, NEW c \in Int, NEW d \in Int, NEW s \in Int, a # b
  PROVE  At(s, a, b, c, d) \in Int
<1>1. PICK e \in Int, n \in Int : e = b - a /\ e # 0 /\ n = d * (s - From(a, b))
  BY DEF From
<1>2. Quotient(n, e) \in Int
  BY <1>1, QuotientIs
<1>. QED
  BY <1>1, <1>2 DEF At

\* In between it is not further than one from where it should be.
LEMMA AtNear ==
  ASSUME NEW a \in Int, NEW b \in Int, NEW c \in Int, NEW d \in Int, NEW s \in Int, a < b
  PROVE  /\ At(s, a, b, c, d) \in Int
         /\ abs((s - a) * d - (At(s, a, b, c, d) - c) * (b - a)) <= b - a
<1>1. PICK e \in Int : e = b - a /\ e > 0 /\ From(a, b) = a
  BY DEF From
<1>2. PICK n \in Int : n = d * (s - a)
  OBVIOUS
<1>3. PICK t \in Int : t = Quotient(n, e) /\ abs(n - e * t) < abs(e)
  <2>1. e # 0
    BY <1>1
  <2>2. Quotient(n, e) \in Int /\ abs(n - e * Quotient(n, e)) < abs(e)
    BY <2>1, QuotientIs
  <2>. QED
    BY <2>2
<1>4. At(s, a, b, c, d) = t + c
  BY <1>1, <1>2, <1>3 DEF At
<1>5. (s - a) * d - (At(s, a, b, c, d) - c) * (b - a) = n - e * t
  <2>1. (t + c) - c = t /\ d * (s - a) = (s - a) * d /\ t * e = e * t
    BY <1>1
  <2>. QED
    BY <1>1, <1>2, <1>4, <2>1
<1>6. abs(e) = e /\ abs(n - e * t) \in Nat
  <2>1. n - e * t \in Int
    BY <1>1
  <2>. QED
    BY <1>1, <2>1, AbsIs
<1>. QED
  BY <1>1, <1>3, <1>4, <1>5, <1>6

\* Backwards it is the line that is turned over.
LEMMA AtTurned ==
  ASSUME NEW a \in Int, NEW b \in Int, NEW c \in Int, NEW d \in Int, NEW s \in Int, a > b
  PROVE  At(s, a, b, c, d) = At(s, b, a, c, - d)
<1>1. PICK e \in Int : e = b - a /\ e # 0 /\ From(a, b) = b /\ From(b, a) = b
  BY DEF From
<1>2. PICK n \in Int : n = d * (s - b) /\ (- d) * (s - b) = - n /\ a - b = - e
  BY <1>1
<1>3. Quotient(- n, - e) = Quotient(n, e)
  BY <1>1, QuotientIs
<1>. QED
  BY <1>1, <1>2, <1>3 DEF At

LEMMA StepsAre ==
  ASSUME NEW a \in Int, NEW b \in Int
  PROVE  /\ Steps(a, b) \subseteq Int /\ Steps(a, b) = Steps(b, a)
         /\ a \in Steps(a, b) /\ b \in Steps(a, b)
         /\ IsFiniteSet(Steps(a, b)) /\ Cardinality(Steps(a, b)) = abs(b - a) + 1
<1>1. CASE a <= b
  <2>1. Steps(a, b) = a .. b /\ Steps(b, a) = a .. b /\ abs(b - a) = b - a
    BY <1>1 DEF Steps, abs
  <2>2. IsFiniteSet(a .. b) /\ Cardinality(a .. b) = IF a > b THEN 0 ELSE b - a + 1
    BY FS_Interval
  <2>. QED
    BY <1>1, <2>1, <2>2
<1>2. CASE a > b
  <2>1. Steps(a, b) = b .. a /\ Steps(b, a) = b .. a /\ abs(b - a) = a - b
    BY <1>2 DEF Steps, abs
  <2>2. IsFiniteSet(b .. a) /\ Cardinality(b .. a) = IF b > a THEN 0 ELSE a - b + 1
    BY FS_Interval
  <2>. QED
    BY <1>2, <2>1, <2>2
<1>. QED
  BY <1>1, <1>2

\* No more pixels than steps.
LEMMA OnePerStep ==
  ASSUME NEW a \in Int, NEW b \in Int, NEW f, NEW l, l \subseteq {f[s] : s \in Steps(a, b)}
  PROVE  Cardinality(l) <= abs(b - a) + 1
<1>. DEFINE S == Steps(a, b)
            I == {f[s] : s \in S}
            g == [s \in S |-> f[s]]
<1>1. g \in Surjection(S, I)
  BY DEF Surjection
<1>2. IsFiniteSet(S) /\ Cardinality(S) = abs(b - a) + 1 /\ abs(b - a) \in Nat
  BY StepsAre, AbsIs
<1>. HIDE DEF S, g
<1>3. IsFiniteSet(I) /\ Cardinality(I) <= Cardinality(S)
  <2>. HIDE DEF I
  <2>. QED
    BY <1>1, <1>2, FS_Surjection
<1>4. l \in SUBSET I
  BY DEF S
<1>. HIDE DEF I
<1>5. Cardinality(l) <= Cardinality(I) /\ IsFiniteSet(l)
  BY <1>3, <1>4, FS_Subset
<1>6. Cardinality(l) \in Nat /\ Cardinality(I) \in Nat
  BY <1>3, <1>5, FS_CardinalityType
<1>. QED
  BY <1>2, <1>3, <1>5, <1>6

\* The pixels of a line that is longer in x, and of one that is not.
AlongX(x1, x2, y, d) == {p \in {<<s, At(s, x1, x2, y, d)>> : s \in Steps(x1, x2)} : ~ oob(p)}
AlongY(y1, y2, x, d) == {p \in {<<At(s, y1, y2, x, d), s>> : s \in Steps(y1, y2)} : ~ oob(p)}

LEMMA LineAlongX ==
  ASSUME NEW x1 \in Int, NEW y1 \in Int, NEW x2 \in Int, NEW y2 \in Int,
         NEW dx \in Int, NEW dy \in Int, dx = x2 - x1, dy = y2 - y1, abs(dx) > abs(dy)
  PROVE  x1 # x2 /\ ui_line(x1, y1, x2, y2) = AlongX(x1, x2, y1, dy)
<1>1. dx # 0 /\ x1 # x2
  BY DEF abs
<1>. QED
  BY <1>1 DEF ui_line, AlongX

LEMMA LineAlongY ==
  ASSUME NEW x1 \in Int, NEW y1 \in Int, NEW x2 \in Int, NEW y2 \in Int,
         NEW dx \in Int, NEW dy \in Int, dx = x2 - x1, dy = y2 - y1, ~ (abs(dx) > abs(dy)),
         dx # 0 \/ dy # 0
  PROVE  y1 # y2 /\ ui_line(x1, y1, x2, y2) = AlongY(y1, y2, x1, dx)
<1>1. dy # 0 /\ y1 # y2
  BY DEF abs
<1>. QED
  BY <1>1 DEF ui_line, AlongY

\* A point on the screen is drawn where it is.
LEMMA PixelIs ==
  ASSUME NEW i \in Int, NEW j \in Int
  PROVE  /\ Pixel(<<i, j>>) = <<i % UINT16, j % UINT16>>
         /\ i \in 0 .. WIDTH => i % UINT16 = i
         /\ j \in 0 .. HEIGHT => j % UINT16 = j
<1>1. UINT16 \in Nat \ {0} /\ WIDTH \in Nat /\ HEIGHT \in Nat /\ WIDTH < UINT16 /\ HEIGHT < UINT16
  BY Positive
<1>2. ASSUME NEW m \in Nat, m < UINT16
      PROVE  m % UINT16 = m
  BY <1>1, <1>2, DivideOnce, 0 * UINT16 + m = m
<1>. QED
  BY <1>1, <1>2 DEF Pixel

\* The line from one point to another when it is longer in x.
LEMMA JoinsAlongX ==
  ASSUME NEW x1 \in Int, NEW y1 \in Int, NEW x2 \in Int, NEW y2 \in Int,
         NEW dx \in Int, NEW dy \in Int, dx = x2 - x1, dy = y2 - y1, abs(dx) > abs(dy)
  PROVE  LineJoinsEnds(<<x1, y1>>, <<x2, y2>>)
<1>. DEFINE l == ui_line(x1, y1, x2, y2)
            f == [s \in Steps(x1, x2) |-> <<s, At(s, x1, x2, y1, dy)>>]
<1>1. x1 # x2 /\ l = AlongX(x1, x2, y1, dy)
  BY LineAlongX
<1>. HIDE DEF l, f
<1>2. \A s \in Steps(x1, x2) : s \in Int
  BY StepsAre
<1>3. Cardinality(l) <= abs(dx) + 1
  <2>1. l \subseteq {f[s] : s \in Steps(x1, x2)}
    BY <1>1 DEF AlongX, f
  <2>. QED
    BY <2>1, OnePerStep
<1>4. ASSUME dx >= 0
      PROVE  /\ {<<x1, y1>>, <<x2, y2>>} \cap Screen \subseteq l
             /\ \A e \in l : abs((e[1] - x1) * dy - (e[2] - y1) * dx) <= abs(dx)
  <2>1. x1 < x2 /\ abs(dx) = dx
    BY <1>1, <1>4 DEF abs
  <2>2. At(x1, x1, x2, y1, dy) = y1 /\ At(x2, x1, x2, y1, dy) = y2
    <3>1. At(x1, x1, x2, y1, dy) = y1
      BY <2>1, AtBegin
    <3>2. At(x2, x1, x2, y1, dy) = dy + y1
      BY <2>1, AtEnd
    <3>. QED
      BY <3>1, <3>2, dy + y1 = y2
  <2>3. x1 \in Steps(x1, x2) /\ x2 \in Steps(x1, x2)
    BY StepsAre
  <2>4. ASSUME NEW e \in l
        PROVE  abs((e[1] - x1) * dy - (e[2] - y1) * dx) <= abs(dx)
    <3>1. PICK s \in Steps(x1, x2) : e = <<s, At(s, x1, x2, y1, dy)>>
      BY <1>1 DEF AlongX
    <3>2. s \in Int /\ e[1] = s /\ e[2] = At(s, x1, x2, y1, dy)
      BY <1>2, <3>1
    <3>3. abs((s - x1) * dy - (At(s, x1, x2, y1, dy) - y1) * (x2 - x1)) <= x2 - x1
      BY <2>1, <3>2, AtNear
    <3>. QED
      BY <2>1, <3>2, <3>3
  <2>5. {<<x1, y1>>, <<x2, y2>>} \cap Screen \subseteq l
    BY <1>1, <2>2, <2>3, TestIs DEF AlongX
  <2>. QED
    BY <2>4, <2>5
<1>5. ASSUME dx < 0
      PROVE  l = ui_line(x2, y1, x1, 2 * y1 - y2)
  <2>1. PICK z \in Int, ex \in Int, ey \in Int :
          /\ z = 2 * y1 - y2 /\ ex = - dx /\ ey = - dy
          /\ ex = x1 - x2 /\ ey = z - y1
    OBVIOUS
  <2>2. x1 > x2 /\ abs(ex) > abs(ey)
    BY <1>5, <2>1, AbsIs
  <2>3. ui_line(x2, y1, x1, z) = AlongX(x2, x1, y1, ey)
    BY <2>1, <2>2, LineAlongX
  <2>4. ASSUME NEW s \in Steps(x1, x2)
        PROVE  At(s, x1, x2, y1, dy) = At(s, x2, x1, y1, ey)
    <3>1. s \in Int
      BY <1>2
    <3>2. At(s, x1, x2, y1, dy) = At(s, x2, x1, y1, - dy)
      BY <2>2, <3>1, AtTurned
    <3>. QED
      BY <2>1, <3>2
  <2>5. Steps(x1, x2) = Steps(x2, x1)
    BY StepsAre
  <2>6. AlongX(x1, x2, y1, dy) = AlongX(x2, x1, y1, ey)
    BY <2>4, <2>5 DEF AlongX
  <2>. QED
    BY <1>1, <2>1, <2>3, <2>6
<1>6. l \subseteq Screen \cup Spilled
  <2>1. ASSUME NEW s \in Steps(x1, x2)
        PROVE  s \in Int /\ At(s, x1, x2, y1, dy) \in Int
    BY <1>1, <1>2, AtIs
  <2>2. ASSUME NEW s \in Steps(x1, x2), ~ oob(<<s, At(s, x1, x2, y1, dy)>>)
        PROVE  <<s, At(s, x1, x2, y1, dy)>> \in Screen \cup Spilled
    BY <2>1, <2>2, TestIs
  <2>. QED
    BY <1>1, <2>2 DEF AlongX
<1>. QED
  <2>1. <<x1, y1>>[1] = x1 /\ <<x1, y1>>[2] = y1 /\ <<x2, y2>>[1] = x2 /\ <<x2, y2>>[2] = y2
    OBVIOUS
  <2>2. <<x1, y1>> # <<x2, y2>>
    BY <1>1
  <2>. QED
    BY <1>3, <1>4, <1>5, <1>6, <2>1, <2>2 DEF LineJoinsEnds, l

\* The line from one point to another when it is not.
LEMMA JoinsAlongY ==
  ASSUME NEW x1 \in Int, NEW y1 \in Int, NEW x2 \in Int, NEW y2 \in Int,
         NEW dx \in Int, NEW dy \in Int, dx = x2 - x1, dy = y2 - y1, ~ (abs(dx) > abs(dy)),
         dx # 0 \/ dy # 0
  PROVE  LineJoinsEnds(<<x1, y1>>, <<x2, y2>>)
<1>. DEFINE l == ui_line(x1, y1, x2, y2)
            f == [s \in Steps(y1, y2) |-> <<At(s, y1, y2, x1, dx), s>>]
<1>1. y1 # y2 /\ l = AlongY(y1, y2, x1, dx)
  BY LineAlongY
<1>. HIDE DEF l, f
<1>2. \A s \in Steps(y1, y2) : s \in Int
  BY StepsAre
<1>3. Cardinality(l) <= abs(dy) + 1
  <2>1. l \subseteq {f[s] : s \in Steps(y1, y2)}
    BY <1>1 DEF AlongY, f
  <2>. QED
    BY <2>1, OnePerStep
<1>4. ASSUME dy >= 0
      PROVE  /\ {<<x1, y1>>, <<x2, y2>>} \cap Screen \subseteq l
             /\ \A e \in l : abs((e[1] - x1) * dy - (e[2] - y1) * dx) <= abs(dy)
  <2>1. y1 < y2 /\ abs(dy) = dy
    BY <1>1, <1>4 DEF abs
  <2>2. At(y1, y1, y2, x1, dx) = x1 /\ At(y2, y1, y2, x1, dx) = x2
    <3>1. At(y1, y1, y2, x1, dx) = x1
      BY <2>1, AtBegin
    <3>2. At(y2, y1, y2, x1, dx) = dx + x1
      BY <2>1, AtEnd
    <3>. QED
      BY <3>1, <3>2, dx + x1 = x2
  <2>3. y1 \in Steps(y1, y2) /\ y2 \in Steps(y1, y2)
    BY StepsAre
  <2>4. ASSUME NEW e \in l
        PROVE  abs((e[1] - x1) * dy - (e[2] - y1) * dx) <= abs(dy)
    <3>1. PICK s \in Steps(y1, y2) : e = <<At(s, y1, y2, x1, dx), s>>
      BY <1>1 DEF AlongY
    <3>2. s \in Int /\ e[2] = s /\ e[1] = At(s, y1, y2, x1, dx)
      BY <1>2, <3>1
    <3>3. /\ At(s, y1, y2, x1, dx) \in Int
          /\ abs((s - y1) * dx - (At(s, y1, y2, x1, dx) - x1) * (y2 - y1)) <= y2 - y1
      BY <2>1, <3>2, AtNear
    <3>4. PICK u \in Int, v \in Int : /\ u = (s - y1) * dx
                                      /\ v = (At(s, y1, y2, x1, dx) - x1) * dy
      BY <3>2, <3>3
    <3>5. abs(u - v) <= dy
      BY <3>3, <3>4
    <3>6. abs(v - u) = abs(u - v)
      BY DEF abs
    <3>. QED
      BY <2>1, <3>2, <3>4, <3>5, <3>6
  <2>5. {<<x1, y1>>, <<x2, y2>>} \cap Screen \subseteq l
    BY <1>1, <2>2, <2>3, TestIs DEF AlongY
  <2>. QED
    BY <2>4, <2>5
<1>5. ASSUME dy < 0
      PROVE  l = ui_line(x1, y2, 2 * x1 - x2, y1)
  <2>1. PICK z \in Int, ex \in Int, ey \in Int :
          /\ z = 2 * x1 - x2 /\ ex = - dx /\ ey = - dy
          /\ ey = y1 - y2 /\ ex = z - x1
    OBVIOUS
  <2>2. y1 > y2 /\ ~ (abs(ex) > abs(ey)) /\ ey # 0
    BY <1>5, <2>1, AbsIs
  <2>3. ui_line(x1, y2, z, y1) = AlongY(y2, y1, x1, ex)
    BY <2>1, <2>2, LineAlongY
  <2>4. ASSUME NEW s \in Steps(y1, y2)
        PROVE  At(s, y1, y2, x1, dx) = At(s, y2, y1, x1, ex)
    <3>1. s \in Int
      BY <1>2
    <3>2. At(s, y1, y2, x1, dx) = At(s, y2, y1, x1, - dx)
      BY <2>2, <3>1, AtTurned
    <3>. QED
      BY <2>1, <3>2
  <2>5. Steps(y1, y2) = Steps(y2, y1)
    BY StepsAre
  <2>6. AlongY(y1, y2, x1, dx) = AlongY(y2, y1, x1, ex)
    BY <2>4, <2>5 DEF AlongY
  <2>. QED
    BY <1>1, <2>1, <2>3, <2>6
<1>6. l \subseteq Screen \cup Spilled
  <2>1. ASSUME NEW s \in Steps(y1, y2)
        PROVE  s \in Int /\ At(s, y1, y2, x1, dx) \in Int
    BY <1>1, <1>2, AtIs
  <2>2. ASSUME NEW s \in Steps(y1, y2), ~ oob(<<At(s, y1, y2, x1, dx), s>>)
        PROVE  <<At(s, y1, y2, x1, dx), s>> \in Screen \cup Spilled
    BY <2>1, <2>2, TestIs
  <2>. QED
    BY <1>1, <2>2 DEF AlongY
<1>. QED
  <2>1. <<x1, y1>>[1] = x1 /\ <<x1, y1>>[2] = y1 /\ <<x2, y2>>[1] = x2 /\ <<x2, y2>>[2] = y2
    OBVIOUS
  <2>2. <<x1, y1>> # <<x2, y2>>
    BY <1>1
  <2>. QED
    BY <1>3, <1>4, <1>5, <1>6, <2>1, <2>2 DEF LineJoinsEnds, l

LEMMA LineJoins ==
  ASSUME NEW p \in Int \X Int, NEW r \in Int \X Int
  PROVE  LineJoinsEnds(p, r)
<1>1. PICK x1 \in Int, y1 \in Int, x2 \in Int, y2 \in Int : p = <<x1, y1>> /\ r = <<x2, y2>>
  OBVIOUS
<1>2. PICK dx \in Int, dy \in Int : dx = x2 - x1 /\ dy = y2 - y1
  OBVIOUS
<1>3. CASE dx = 0 /\ dy = 0
  <2>1. p = r /\ ui_line(p[1], p[2], r[1], r[2]) = {Pixel(p)}
    BY <1>1, <1>2, <1>3 DEF ui_line
  <2>2. ASSUME p \in Screen
        PROVE  Pixel(p) = p
    <3>1. x1 \in 0 .. WIDTH - 1 /\ y1 \in 0 .. HEIGHT - 1
      BY <1>1, <2>2, TestIs
    <3>2. x1 \in 0 .. WIDTH /\ y1 \in 0 .. HEIGHT
      BY <3>1, Positive
    <3>. QED
      BY <1>1, <3>2, PixelIs
  <2>. QED
    BY <2>1, <2>2 DEF LineJoinsEnds
<1>. QED
  BY <1>1, <1>2, <1>3, JoinsAlongX, JoinsAlongY
-----------------------------------------------------------------------------
(* Triangles *)

\* A row is drawn from one of its ends to the other, and a point untested.
LEMMA RowBetween ==
  ASSUME NEW a \in Int, NEW b \in Int, NEW y \in Int
  PROVE  /\ a = b => ui_line(a, y, b, y) = {<<a % UINT16, y % UINT16>>}
         /\ a # b => \A e \in ui_line(a, y, b, y) : \E s \in Steps(a, b) : e = <<s, y>> /\ ~ oob(e)
         /\ a # b => \A s \in Steps(a, b) : ~ oob(<<s, y>>) => <<s, y>> \in ui_line(a, y, b, y)
<1>1. CASE a = b
  <2>1. a - a = 0 /\ y - y = 0
    OBVIOUS
  <2>2. ui_line(a, y, a, y) = {Pixel(<<a, y>>)}
    BY <2>1 DEF ui_line
  <2>. QED
    BY <1>1, <2>2, PixelIs
<1>2. CASE a # b
  <2>1. PICK dx \in Int, dy \in Int : dx = b - a /\ dy = y - y /\ dy = 0 /\ dx # 0
    BY <1>2
  <2>2. abs(dx) > abs(dy)
    BY <2>1 DEF abs
  <2>3. ui_line(a, y, b, y) = AlongX(a, b, y, dy)
    BY <2>1, <2>2, LineAlongX
  <2>4. ASSUME NEW s \in Steps(a, b)
        PROVE  At(s, a, b, y, dy) = y
    <3>1. s \in Int /\ From(a, b) \in Int
      BY StepsAre DEF From
    <3>2. dy * (s - From(a, b)) = 0 * dx /\ Quotient(0 * dx, dx) = 0
      BY <2>1, <3>1, QuotientOfMultiple
    <3>. QED
      BY <2>1, <3>2 DEF At
  <2>. QED
    BY <1>2, <2>3, <2>4 DEF AlongX
<1>. QED
  BY <1>1, <1>2

\* What is drawn of a row is in the row, as putpixel counts them.
LEMMA RowMember ==
  ASSUME NEW a \in Int, NEW b \in Int, NEW y \in Int, NEW e \in ui_line(a, y, b, y)
  PROVE  \E s \in Int : e = <<s, y % UINT16>>
<1>1. CASE a = b
  <2>1. e = <<a % UINT16, y % UINT16>>
    BY <1>1, RowBetween
  <2>2. a % UINT16 \in Int
    BY Positive
  <2>. QED
    BY <2>1, <2>2
<1>2. CASE a # b
  <2>1. PICK s \in Steps(a, b) : e = <<s, y>> /\ ~ oob(e)
    BY <1>2, RowBetween
  <2>2. s \in Int
    BY StepsAre
  <2>3. y \in 0 .. HEIGHT
    BY <2>1, <2>2, TestIs
  <2>4. y % UINT16 = y
    BY <2>3, PixelIs
  <2>. QED
    BY <2>1, <2>2, <2>4
<1>. QED
  BY <1>1, <1>2

\* So its ends are on it if they are on the screen, there is no gap, and what is
\* drawn elsewhere is a point.
LEMMA RowFilled ==
  ASSUME NEW a \in Int, NEW b \in Int, NEW y \in Int
  PROVE  /\ \A s \in {a, b} : <<s, y>> \in Screen => <<s, y>> \in ui_line(a, y, b, y)
         /\ \A s, u, z \in Int : /\ <<s, z>> \in ui_line(a, y, b, y)
                                 /\ <<u, z>> \in ui_line(a, y, b, y)
                                 => \A x \in s .. u : <<x, z>> \in ui_line(a, y, b, y)
         /\ \A e \in ui_line(a, y, b, y) :
              e \in Screen \cup Spilled \/ \A f \in ui_line(a, y, b, y) : f = e
<1>. DEFINE l == ui_line(a, y, b, y)
<1>1. CASE a = b
  <2>1. PICK m \in Int, n \in Int : m = a % UINT16 /\ n = y % UINT16 /\ l = {<<m, n>>}
    <3>1. a % UINT16 \in Int /\ y % UINT16 \in Int
      BY Positive
    <3>. QED
      BY <1>1, <3>1, RowBetween
  <2>2. ASSUME <<a, y>> \in Screen
        PROVE  <<a, y>> \in l
    <3>1. a \in 0 .. WIDTH /\ y \in 0 .. HEIGHT
      BY <2>2, TestIs, Positive
    <3>2. m = a /\ n = y
      BY <2>1, <3>1, PixelIs
    <3>. QED
      BY <2>1, <3>2
  <2>. HIDE DEF l
  <2>3. ASSUME NEW s \in Int, NEW u \in Int, NEW z \in Int, <<s, z>> \in l, <<u, z>> \in l,
               NEW x \in s .. u
        PROVE  <<x, z>> \in l
    <3>1. s = m /\ u = m /\ z = n
      BY <2>1, <2>3
    <3>2. x = m
      BY <3>1
    <3>. QED
      BY <2>1, <3>1, <3>2
  <2>4. \A e, f \in l : f = e
    BY <2>1
  <2>. QED
    BY <1>1, <2>2, <2>3, <2>4 DEF l
<1>2. CASE a # b
  <2>1. ASSUME NEW e \in l
        PROVE  \E s \in Steps(a, b) : s \in Int /\ e = <<s, y>> /\ s \in 0 .. WIDTH /\ y \in 0 .. HEIGHT
    <3>1. PICK s \in Steps(a, b) : e = <<s, y>> /\ ~ oob(e)
      BY <1>2, <2>1, RowBetween
    <3>2. s \in Int
      BY StepsAre
    <3>. QED
      BY <3>1, <3>2, TestIs
  <2>2. ASSUME NEW s \in Steps(a, b), s \in 0 .. WIDTH, y \in 0 .. HEIGHT
        PROVE  <<s, y>> \in l
    <3>1. ~ oob(<<s, y>>)
      BY <2>2, TestIs
    <3>. QED
      BY <1>2, <3>1, RowBetween
  <2>. HIDE DEF l
  <2>3. ASSUME NEW s \in {a, b}, <<s, y>> \in Screen
        PROVE  <<s, y>> \in l
    <3>1. s \in Steps(a, b) /\ s \in Int
      BY StepsAre
    <3>2. s \in 0 .. WIDTH /\ y \in 0 .. HEIGHT
      BY <2>3, <3>1, TestIs, Positive
    <3>. QED
      BY <2>2, <3>1, <3>2
  <2>4. ASSUME NEW s \in Int, NEW u \in Int, NEW z \in Int, <<s, z>> \in l, <<u, z>> \in l,
               NEW x \in s .. u
        PROVE  <<x, z>> \in l
    <3>1. /\ s \in Steps(a, b) /\ s \in 0 .. WIDTH /\ z = y /\ y \in 0 .. HEIGHT
          /\ u \in Steps(a, b) /\ u \in 0 .. WIDTH
      BY <2>1, <2>4
    <3>2. x \in Steps(a, b)
      BY <3>1 DEF Steps
    <3>3. x \in 0 .. WIDTH
      BY <3>1, Positive
    <3>. QED
      BY <2>2, <3>1, <3>2, <3>3
  <2>5. ASSUME NEW e \in l
        PROVE  e \in Screen \cup Spilled
    <3>1. PICK s \in Steps(a, b) : s \in Int /\ e = <<s, y>> /\ s \in 0 .. WIDTH /\ y \in 0 .. HEIGHT
      BY <2>1, <2>5
    <3>. QED
      BY <3>1, TestIs
  <2>. QED
    BY <2>3, <2>4, <2>5 DEF l
<1>. QED
  BY <1>1, <1>2

\* Two rows stay two for putpixel.
LEMMA RowsApart ==
  ASSUME NEW y \in Coordinate, NEW z \in Coordinate, y % UINT16 = z % UINT16
  PROVE  y = z
<1>1. PICK n \in Nat \ {0}, q \in Int : /\ n = UINT16 /\ q = n \div 4
                                      /\ 4 * q <= n /\ q >= 0
  <2>1. UINT16 \in Nat \ {0}
    BY Positive
  <2>2. UINT16 \div 4 \in Int /\ 4 * (UINT16 \div 4) <= UINT16 /\ UINT16 \div 4 >= 0
    BY <2>1
  <2>. QED
    BY <2>1, <2>2
<1>2. y \in Int /\ z \in Int /\ - q <= y /\ y < q /\ - q <= z /\ z < q
  BY <1>1 DEF Coordinate
<1>3. PICK k \in Int, m \in Int : y = k * n + m /\ m = y % n
  <2>1. y \div n \in Int /\ y % n \in 0 .. n - 1 /\ y = (y \div n) * n + (y % n)
    BY <1>2, DivideAny
  <2>2. y % n \in Int
    BY <2>1
  <2>. QED
    BY <2>1, <2>2
<1>4. PICK i \in Int : z = i * n + m
  <2>1. z \div n \in Int /\ z = (z \div n) * n + (z % n)
    BY <1>2, DivideAny
  <2>2. z % n = m
    BY <1>1, <1>3
  <2>. QED
    BY <2>1, <2>2
<1>5. PICK h \in Int : h = k - i /\ y - z = h * n
  <2>1. (k - i) * n = k * n - i * n
    BY <1>1
  <2>. QED
    BY <1>1, <1>3, <1>4, <2>1
<1>6. - n < h * n /\ h * n < n
  BY <1>1, <1>2, <1>5
<1>7. ~ (h >= 1) /\ ~ (h <= -1)
  BY <1>1, <1>6
<1>8. h = 0
  BY <1>7
<1>. QED
  BY <1>1, <1>2, <1>5, <1>8

\* The exchanges put the corners in order.
LEMMA ExchangedIs ==
  ASSUME NEW a, NEW b, NEW c
  PROVE  /\ a[2] > b[2] => Exchanged(<<a, b, c>>, 1) = <<b, a, c>>
         /\ ~ (a[2] > b[2]) => Exchanged(<<a, b, c>>, 1) = <<a, b, c>>
         /\ b[2] > c[2] => Exchanged(<<a, b, c>>, 2) = <<a, c, b>>
         /\ ~ (b[2] > c[2]) => Exchanged(<<a, b, c>>, 2) = <<a, b, c>>
<1>. DEFINE t == <<a, b, c>>
<1>1. t[1] = a /\ t[2] = b /\ t[3] = c
  OBVIOUS
<1>2. [t EXCEPT ![1] = b, ![2] = a] = <<b, a, c>>
  OBVIOUS
<1>3. [t EXCEPT ![2] = c, ![3] = b] = <<a, c, b>>
  OBVIOUS
<1>. HIDE DEF t
<1>4. Exchanged(t, 1) = IF a[2] > b[2] THEN <<b, a, c>> ELSE t
  <2>1. Exchanged(t, 1) = IF t[1][2] > t[2][2] THEN [t EXCEPT ![1] = t[2], ![2] = t[1]] ELSE t
    BY 1 + 1 = 2 DEF Exchanged
  <2>. QED
    BY <1>1, <1>2, <2>1
<1>5. Exchanged(t, 2) = IF b[2] > c[2] THEN <<a, c, b>> ELSE t
  <2>1. Exchanged(t, 2) = IF t[2][2] > t[3][2] THEN [t EXCEPT ![2] = t[3], ![3] = t[2]] ELSE t
    BY 2 + 1 = 3 DEF Exchanged
  <2>. QED
    BY <1>1, <1>3, <2>1
<1>. QED
  BY <1>4, <1>5 DEF t

LEMMA SortedIs ==
  ASSUME NEW a, NEW b, NEW c, a[2] \in Int, b[2] \in Int, c[2] \in Int
  PROVE  \E u, v, w \in {a, b, c} :
           /\ Sorted(<<a, b, c>>) = <<u, v, w>>
           /\ u[2] <= v[2] /\ v[2] <= w[2]
           /\ a \in {u, v, w} /\ b \in {u, v, w} /\ c \in {u, v, w}
<1>1. PICK d, e \in {a, b} :
        /\ Exchanged(<<a, b, c>>, 1) = <<d, e, c>> /\ d[2] <= e[2] /\ {d, e} = {a, b}
  <2>1. CASE a[2] > b[2]
    <3>1. Exchanged(<<a, b, c>>, 1) = <<b, a, c>> /\ b[2] <= a[2]
      BY <2>1, ExchangedIs
    <3>2. b \in {a, b} /\ a \in {a, b} /\ {b, a} = {a, b}
      OBVIOUS
    <3>. WITNESS b \in {a, b}, a \in {a, b}
    <3>. QED
      BY <3>1, <3>2
  <2>2. CASE ~ (a[2] > b[2])
    <3>1. Exchanged(<<a, b, c>>, 1) = <<a, b, c>> /\ a[2] <= b[2]
      BY <2>2, ExchangedIs
    <3>2. b \in {a, b} /\ a \in {a, b} /\ {a, b} = {a, b}
      OBVIOUS
    <3>. WITNESS a \in {a, b}, b \in {a, b}
    <3>. QED
      BY <3>1, <3>2
  <2>. QED
    BY <2>1, <2>2
<1>2. PICK f, w \in {e, c} :
        /\ Exchanged(<<d, e, c>>, 2) = <<d, f, w>> /\ f[2] <= w[2] /\ e[2] <= w[2] /\ {f, w} = {e, c}
  <2>0. e[2] \in Int
    BY <1>1
  <2>1. CASE e[2] > c[2]
    <3>1. /\ Exchanged(<<d, e, c>>, 2) = <<d, c, e>>
          /\ c[2] <= e[2] /\ e[2] <= e[2]
      BY <2>0, <2>1, ExchangedIs
    <3>2. c \in {e, c} /\ e \in {e, c} /\ {c, e} = {e, c}
      OBVIOUS
    <3>. WITNESS c \in {e, c}, e \in {e, c}
    <3>. QED
      BY <3>1, <3>2
  <2>2. CASE ~ (e[2] > c[2])
    <3>1. /\ Exchanged(<<d, e, c>>, 2) = <<d, e, c>>
          /\ e[2] <= c[2] /\ e[2] <= c[2]
      BY <2>0, <2>2, ExchangedIs
    <3>2. c \in {e, c} /\ e \in {e, c} /\ {e, c} = {e, c}
      OBVIOUS
    <3>. WITNESS e \in {e, c}, c \in {e, c}
    <3>. QED
      BY <3>1, <3>2
  <2>. QED
    BY <2>1, <2>2
<1>3. d[2] \in Int /\ e[2] \in Int /\ f[2] \in Int /\ w[2] \in Int
  BY <1>1, <1>2
<1>4. PICK u, v \in {d, f} :
        /\ Exchanged(<<d, f, w>>, 1) = <<u, v, w>> /\ u[2] <= v[2] /\ v[2] <= w[2] /\ {u, v} = {d, f}
  <2>0. d[2] <= w[2]
    BY <1>1, <1>2, <1>3
  <2>1. CASE d[2] > f[2]
    <3>1. /\ Exchanged(<<d, f, w>>, 1) = <<f, d, w>>
          /\ f[2] <= d[2] /\ d[2] <= w[2]
      BY <1>3, <2>0, <2>1, ExchangedIs
    <3>2. f \in {d, f} /\ d \in {d, f} /\ {f, d} = {d, f}
      OBVIOUS
    <3>. WITNESS f \in {d, f}, d \in {d, f}
    <3>. QED
      BY <3>1, <3>2
  <2>2. CASE ~ (d[2] > f[2])
    <3>1. /\ Exchanged(<<d, f, w>>, 1) = <<d, f, w>>
          /\ d[2] <= f[2] /\ f[2] <= w[2]
      BY <1>2, <1>3, <2>2, ExchangedIs
    <3>2. f \in {d, f} /\ d \in {d, f} /\ {d, f} = {d, f}
      OBVIOUS
    <3>. WITNESS d \in {d, f}, f \in {d, f}
    <3>. QED
      BY <3>1, <3>2
  <2>. QED
    BY <2>1, <2>2
<1>5. Sorted(<<a, b, c>>) = <<u, v, w>>
  BY <1>1, <1>2, <1>4 DEF Sorted
<1>6. a \in {u, v, w} /\ b \in {u, v, w} /\ c \in {u, v, w}
  BY <1>1, <1>2, <1>4
<1>. QED
  BY <1>4, <1>5, <1>6

\* A side of a triangle is a number in each of its rows, and its corner in theirs.
LEMMA InterpolateIs ==
  ASSUME NEW p \in Int \X Int, NEW r \in Int \X Int, p[2] # r[2]
  PROVE  /\ \A y \in Int : interpolate_x(p, r, y) \in Int
         /\ interpolate_x(p, r, p[2]) = p[1]
         /\ interpolate_x(p, r, r[2]) = r[1]
<1>1. PICK x1 \in Int, y1 \in Int, x2 \in Int, y2 \in Int :
        p = <<x1, y1>> /\ r = <<x2, y2>> /\ y1 # y2
  OBVIOUS
<1>2. PICK dx \in Int, dy \in Int : dx = x2 - x1 /\ dy = y2 - y1 /\ dy # 0
  BY <1>1
<1>3. ASSUME NEW y \in Int
      PROVE  interpolate_x(p, r, y) = x1 + Quotient(dx * (y - y1), dy)
  BY <1>1, <1>2 DEF interpolate_x
<1>4. ASSUME NEW y \in Int
      PROVE  interpolate_x(p, r, y) \in Int
  <2>1. dx * (y - y1) \in Int
    OBVIOUS
  <2>2. Quotient(dx * (y - y1), dy) \in Int
    BY <1>2, <2>1, QuotientIs
  <2>. QED
    BY <1>3, <2>2
<1>5. interpolate_x(p, r, y1) = x1
  <2>1. dx * (y1 - y1) = 0 * dy /\ Quotient(0 * dy, dy) = 0
    BY <1>2, QuotientOfMultiple
  <2>. QED
    BY <1>3, <2>1
<1>6. interpolate_x(p, r, y2) = x2
  <2>1. y2 - y1 = dy /\ Quotient(dx * dy, dy) = dx
    BY <1>2, QuotientOfMultiple
  <2>. QED
    BY <1>2, <1>3, <2>1
<1>. QED
  BY <1>1, <1>4, <1>5, <1>6

LEMMA TriangleFilled ==
  ASSUME NEW a \in Point, NEW b \in Point, NEW c \in Point
  PROVE  TriangleIsFilled(<<a, b, c>>)
<1>. DEFINE t == <<a, b, c>>
<1>. SUFFICES ASSUME ~ Faults(t)
              PROVE  /\ \A k \in 1 .. 3 : t[k] \in Screen => t[k] \in ui_triangle(t)
                     /\ \A p, r \in ui_triangle(t) :
                          p[2] = r[2] => \A x \in p[1] .. r[1] : <<x, p[2]>> \in ui_triangle(t)
                     /\ \A p \in ui_triangle(t) :
                          \/ p \in Screen \cup Spilled
                          \/ \A r \in ui_triangle(t) : r[2] = p[2] => r = p
  BY DEF TriangleIsFilled
<1>0. Point \subseteq Int \X Int /\ \A p \in Point : p[2] \in Coordinate
  BY Positive DEF Point, Coordinate
<1>1. PICK u, v, w \in {a, b, c} :
        /\ Sorted(t) = <<u, v, w>>
        /\ u[2] <= v[2] /\ v[2] <= w[2]
        /\ a \in {u, v, w} /\ b \in {u, v, w} /\ c \in {u, v, w}
  <2>1. a[2] \in Int /\ b[2] \in Int /\ c[2] \in Int
    BY <1>0
  <2>. QED
    BY <2>1, SortedIs
<1>2. /\ u \in Int \X Int /\ v \in Int \X Int /\ w \in Int \X Int
      /\ u[2] \in Int /\ v[2] \in Int /\ w[2] \in Int
      /\ u[2] \in Coordinate /\ w[2] \in Coordinate
  BY <1>0, <1>1
<1>3. v[2] < w[2]
  <2>1. v[2] # w[2]
    BY <1>1 DEF Faults
  <2>. QED
    BY <1>1, <1>2, <2>1
<1>. DEFINE Side(y) == IF y < v[2] THEN interpolate_x(u, v, y) ELSE interpolate_x(v, w, y)
            Far(y) == interpolate_x(u, w, y)
            Row(y) == ui_line(Side(y), y, Far(y), y)
            T == ui_triangle(t)
<1>4. T = UNION {Row(y) : y \in u[2] .. w[2]}
  BY <1>1 DEF ui_triangle
<1>5. ASSUME NEW y \in u[2] .. w[2]
      PROVE  Side(y) \in Int /\ Far(y) \in Int /\ y \in Int
  <2>1. y \in Int
    BY <1>2
  <2>2. Far(y) \in Int
    <3>1. u[2] # w[2]
      BY <1>1, <1>2, <1>3
    <3>. QED
      BY <1>2, <2>1, <3>1, InterpolateIs
  <2>3. CASE y < v[2]
    <3>1. u[2] # v[2]
      BY <1>2, <2>3
    <3>2. interpolate_x(u, v, y) \in Int
      BY <1>2, <2>1, <3>1, InterpolateIs
    <3>. QED
      BY <2>1, <2>2, <2>3, <3>2
  <2>4. CASE ~ (y < v[2])
    <3>1. v[2] # w[2]
      BY <1>2, <1>3
    <3>2. interpolate_x(v, w, y) \in Int
      BY <1>2, <2>1, <3>1, InterpolateIs
    <3>. QED
      BY <2>1, <2>2, <2>4, <3>2
  <2>. QED
    BY <2>3, <2>4
<1>6. /\ u[2] < v[2] => Side(u[2]) = u[1]
      /\ Far(u[2]) = u[1]
      /\ Side(v[2]) = v[1]
      /\ Side(w[2]) = w[1]
  <2>1. u[2] # w[2] /\ v[2] # w[2] /\ (u[2] < v[2] => u[2] # v[2])
    BY <1>1, <1>2, <1>3
  <2>2. interpolate_x(u, w, u[2]) = u[1]
    BY <1>2, <2>1, InterpolateIs
  <2>3. interpolate_x(v, w, v[2]) = v[1] /\ interpolate_x(v, w, w[2]) = w[1]
    BY <1>2, <2>1, InterpolateIs
  <2>4. u[2] < v[2] => interpolate_x(u, v, u[2]) = u[1]
    BY <1>2, <2>1, InterpolateIs
  <2>5. ~ (v[2] < v[2]) /\ ~ (w[2] < v[2])
    BY <1>2, <1>3
  <2>. QED
    BY <2>2, <2>3, <2>4, <2>5
<1>7. u[2] \in u[2] .. w[2] /\ v[2] \in u[2] .. w[2] /\ w[2] \in u[2] .. w[2]
  BY <1>1, <1>2, <1>3
<1>. HIDE DEF Side, Far, t
<1>8. ASSUME NEW y \in u[2] .. w[2], NEW s \in {Side(y), Far(y)}
      PROVE  <<s, y>> \in Screen => <<s, y>> \in T
  <2>1. <<s, y>> \in Screen => <<s, y>> \in Row(y)
    BY <1>5, RowFilled
  <2>. QED
    BY <1>4, <2>1
<1>9. ASSUME NEW p \in {u, v, w}
      PROVE  p \in Screen => p \in T
  <2>1. p = <<p[1], p[2]>>
    BY <1>2
  <2>2. p[1] \in {Side(p[2]), Far(p[2])} /\ p[2] \in u[2] .. w[2]
    BY <1>6, <1>7
  <2>3. <<p[1], p[2]>> \in Screen => <<p[1], p[2]>> \in T
    BY <1>8, <2>2
  <2>. QED
    BY <2>1, <2>3
<1>10. ASSUME NEW p \in T
       PROVE  \E y \in u[2] .. w[2] : \E s \in Int : p \in Row(y) /\ p = <<s, y % UINT16>>
  <2>1. PICK y \in u[2] .. w[2] : p \in Row(y)
    BY <1>4, <1>10
  <2>2. PICK from \in Int, to \in Int, n \in Int : from = Side(y) /\ to = Far(y) /\ n = y
    BY <1>5
  <2>3. p \in ui_line(from, n, to, n)
    BY <2>1, <2>2
  <2>4. \E s \in Int : p = <<s, n % UINT16>>
    BY <2>3, RowMember
  <2>. QED
    BY <2>1, <2>2, <2>4
<1>11. ASSUME NEW p \in T, NEW r \in T, p[2] = r[2]
       PROVE  \E y \in u[2] .. w[2] : \E s, q, z \in Int :
                p \in Row(y) /\ r \in Row(y) /\ p = <<s, z>> /\ r = <<q, z>>
  <2>1. PICK y \in u[2] .. w[2], s \in Int : p \in Row(y) /\ p = <<s, y % UINT16>>
    BY <1>10
  <2>2. PICK x \in u[2] .. w[2], q \in Int : r \in Row(x) /\ r = <<q, x % UINT16>>
    BY <1>10
  <2>3. y \in Coordinate /\ x \in Coordinate
    BY <1>2, Positive DEF Coordinate
  <2>4. y % UINT16 = x % UINT16
    BY <1>11, <2>1, <2>2
  <2>5. y = x
    BY <2>3, <2>4, RowsApart
  <2>6. PICK z \in Int : z = y % UINT16
    <3>1. y \in Int
      BY <1>5
    <3>. QED
      BY <3>1, Positive
  <2>. QED
    BY <2>1, <2>2, <2>5, <2>6
<1>12. ASSUME NEW p \in T, NEW r \in T, p[2] = r[2], NEW x \in p[1] .. r[1]
       PROVE  <<x, p[2]>> \in T
  <2>1. PICK y \in u[2] .. w[2], s \in Int, q \in Int, z \in Int :
          p \in Row(y) /\ r \in Row(y) /\ p = <<s, z>> /\ r = <<q, z>>
    BY <1>11, <1>12
  <2>2. p[1] = s /\ r[1] = q /\ p[2] = z
    BY <2>1
  <2>3. <<x, z>> \in Row(y)
    BY <1>5, <1>12, <2>1, <2>2, RowFilled
  <2>. QED
    BY <1>4, <2>2, <2>3
<1>13. ASSUME NEW p \in T, p \notin Screen \cup Spilled, NEW r \in T, r[2] = p[2]
       PROVE  r = p
  <2>1. PICK y \in u[2] .. w[2] : p \in Row(y) /\ r \in Row(y)
    BY <1>11, <1>13
  <2>. QED
    BY <1>5, <1>13, <2>1, RowFilled
<1>14. ASSUME NEW k \in 1 .. 3
       PROVE  t[k] \in {u, v, w}
  BY <1>1 DEF t
<1>. QED
  BY <1>9, <1>12, <1>13, <1>14
-----------------------------------------------------------------------------
\* A job stays what it is: one of Jobs.
LEMMA JobStays == LibrarySpec => [](job \in Jobs)
<1>1. LibraryInit => job \in Jobs
  BY DEF LibraryInit
<1>2. job \in Jobs /\ [FALSE]_job => (job \in Jobs)'
  OBVIOUS
<1>. QED
  BY <1>1, <1>2, PTL DEF LibrarySpec

\* On the screen each shape consists of the pixels it should, and off the screen of
\* those that oob and the untested points let through; a colour is mixed as it should
\* be, but where a translucent one is darker than the screen (ui.c, putpixel), for a
\* screen of any size and any arguments.
THEOREM LibraryPicturesExact == LibrarySpec => []PicturesExact
<1>1. ASSUME job \in Jobs
      PROVE  PicturesExact
  <2>1. job \in Calls
    BY <1>1, LibraryAssumption
  <2>. DEFINE pictures == {"ui_line", "ui_triangle", "ui_circle", "ui_draw", "putpixel"}
  <2>2. CASE job.fn = "ui_line"
    <3>1. job.from \in Int \X Int /\ job.to \in Int \X Int
      BY <2>1, <2>2, Positive DEF Calls, Point, Coordinate
    <3>2. LineJoinsEnds(job.from, job.to)
      BY <3>1, LineJoins
    <3>. QED
      BY <2>2, <3>2 DEF PicturesExact
  <2>3. CASE job.fn = "ui_triangle"
    <3>1. job.a \in Point /\ job.b \in Point /\ job.c \in Point
      BY <2>1, <2>3 DEF Calls
    <3>2. TriangleIsFilled(<<job.a, job.b, job.c>>)
      BY <3>1, TriangleFilled
    <3>. QED
      BY <2>3, <3>2 DEF PicturesExact
  <2>4. CASE job.fn = "ui_circle"
    <3>1. job.at[1] \in Int /\ job.at[2] \in Int /\ job.r \in Nat
      BY <2>1, <2>4, Positive DEF Calls, Point, Coordinate
    <3>2. CircleIsWhole(job.at[1], job.at[2], job.r)
      BY <3>1, CircleWhole
    <3>. QED
      BY <2>4, <3>2 DEF PicturesExact
  <2>5. CASE job.fn = "ui_draw"
    <3>1. job.at[1] \in Nat /\ job.at[2] \in Nat /\ job.size[1] \in Nat /\ job.size[2] \in Nat
      BY <2>1, <2>5, Positive DEF Calls
    <3>2. PictureIsCut(job.at[1], job.at[2], job.size[1], job.size[2])
      BY <3>1, PictureCut
    <3>. QED
      BY <2>5, <3>2 DEF PicturesExact
  <2>6. CASE job.fn = "putpixel"
    <3>1. job.c \in 0 .. LEVELS - 1 /\ job.bg \in 0 .. LEVELS - 1 /\ job.a \in 0 .. LEVELS - 1
      BY <2>1, <2>6 DEF Calls
    <3>2. MixesColour(job.c, job.bg, job.a)
      BY <3>1, MixesAll
    <3>. QED
      BY <2>6, <3>2 DEF PicturesExact
  <2>7. CASE job.fn \notin pictures
    BY <2>7 DEF PicturesExact
  <2>. QED
    BY <2>2, <2>3, <2>4, <2>5, <2>6, <2>7
<1>. QED
  BY <1>1, JobStays, PTL
-----------------------------------------------------------------------------
(* Names *)

\* The memory that format_entry works on, and the number of characters in it.
LEMMA FrameSize == Cardinality(0 .. 15) = 16
<1>1. 0 \in Int /\ 15 \in Int /\ ~ (0 > 15) /\ 15 - 0 + 1 = 16
  OBVIOUS
<1>2. Cardinality(0 .. 15) = 15 - 0 + 1
  BY <1>1, FS_Interval
<1>. QED
  BY <1>1, <1>2

\* A string ends at its first NUL.
LEMMA EndsAt ==
  ASSUME NEW mem, NEW n \in 0 .. 16,
         DOMAIN mem = 0 .. 15, mem[n] = NUL, \A k \in 0 .. n - 1 : mem[k] # NUL
  PROVE  strlen(mem, 0) = n
<1>. DEFINE End(m) == mem[0 + m] = NUL /\ \A k \in 0 .. m - 1 : mem[0 + k] # NUL
<1>1. strlen(mem, 0) = CHOOSE m \in 0 .. 16 : End(m)
  BY FrameSize DEF strlen
<1>2. End(n)
  <2>1. 0 + n = n /\ \A k \in 0 .. n - 1 : 0 + k = k
    OBVIOUS
  <2>. QED
    BY <2>1
<1>3. ASSUME NEW m \in 0 .. 16, End(m)
      PROVE  m = n
  <2>1. 0 + m = m /\ 0 + n = n
    OBVIOUS
  <2>2. CASE m < n
    <3>1. m \in 0 .. n - 1
      BY <2>2
    <3>. QED
      BY <1>2, <1>3, <2>1, <3>1
  <2>3. CASE n < m
    <3>1. n \in 0 .. m - 1
      BY <2>3
    <3>. QED
      BY <1>2, <1>3, <2>1, <3>1
  <2>. QED
    BY <2>2, <2>3
<1>. HIDE DEF End
<1>. QED
  BY <1>1, <1>2, <1>3

\* The memory after a string is copied to d and what is behind it filled.
Filled(mem, d, src, size) ==
  [a \in 0 .. 15 |-> IF a >= d + Len(src) + Len(src) /\ a < d + Len(src) + size THEN NUL
                     ELSE IF a >= d /\ a < d + Len(src) THEN src[a - d + 1]
                     ELSE mem[a]]

LEMMA FilledIs ==
  ASSUME NEW mem, NEW d \in Nat, NEW src, NEW size \in Nat,
         DOMAIN mem = 0 .. 15, Len(src) \in Nat
  PROVE  stpncpy(mem, d, src, size) = Filled(mem, d, src, size)
<1>. DEFINE n == Len(src)
            C == Copied(mem, d, src)
<1>1. C = [a \in 0 .. 15 |-> IF a >= d /\ a < d + n THEN src[a - d + 1] ELSE mem[a]]
  BY DEF Copied
<1>2. PICK end \in Nat : end = mempcpy(d, n) /\ end = d + n + n
  BY DEF mempcpy
<1>3. stpncpy(mem, d, src, size) = memset(C, end, size - n)
  BY <1>2 DEF stpncpy
<1>. HIDE DEF C, n
<1>4. DOMAIN C = 0 .. 15
  BY <1>1
<1>5. memset(C, end, size - n) =
        [a \in 0 .. 15 |-> IF a >= end /\ a < end + (size - n) THEN NUL ELSE C[a]]
  BY <1>4 DEF memset
<1>6. n \in Nat /\ end + (size - n) = d + n + size
  BY <1>2 DEF n
<1>7. ASSUME NEW a \in 0 .. 15
      PROVE  (IF a >= end /\ a < end + (size - n) THEN NUL ELSE C[a])
               = Filled(mem, d, src, size)[a]
  <2>1. C[a] = IF a >= d /\ a < d + n THEN src[a - d + 1] ELSE mem[a]
    BY <1>1
  <2>. QED
    BY <1>2, <1>6, <2>1 DEF Filled, n
<1>8. Filled(mem, d, src, size) = [a \in 0 .. 15 |-> Filled(mem, d, src, size)[a]]
  BY DEF Filled
<1>. QED
  BY <1>3, <1>5, <1>7, <1>8

\* strcat of one character fills one place.
LEMMA CopyFills ==
  ASSUME NEW mem, NEW d \in Nat, NEW c,
         DOMAIN mem = 0 .. 15
  PROVE  stpcpy(mem, d, <<c>>) = stpncpy(mem, d, <<c>>, 2)
BY DEF stpcpy, stpncpy

\* A name in the buffer: what find_entry compares, and what is behind it.
Named(f) == [a \in 0 .. 15 |->
               IF a < Len(f) THEN f[a + 1]
               ELSE IF a < 13 \/ (Len(f) = 6 /\ a = 13) \/ (Len(f) = 7 /\ a = 14) THEN NUL
               ELSE OTHERS]

LEMMA NamedIs ==
  ASSUME NEW f \in Seq(Char), Len(f) \in 1 .. 8
  PROVE  stpncpy(Blank, 0, f, 8) = Named(f)
<1>. DEFINE n == Len(f)
<1>1. Blank = [a \in 0 .. 15 |-> IF a >= 0 /\ a < 0 + 13 THEN NUL ELSE OTHERS]
  BY DEF Blank, Frame, memset
<1>2. stpncpy(Blank, 0, f, 8) = Filled(Blank, 0, f, 8)
  BY <1>1, FilledIs
<1>3. ASSUME NEW a \in 0 .. 15
      PROVE  Filled(Blank, 0, f, 8)[a] = Named(f)[a]
  <2>1. Blank[a] = IF a < 13 THEN NUL ELSE OTHERS
    BY <1>1
  <2>2. n \in 1 .. 8 /\ f[a - 0 + 1] = f[a + 1]
    OBVIOUS
  <2>3. Filled(Blank, 0, f, 8)[a] =
          IF a >= 0 + n + n /\ a < 0 + n + 8 THEN NUL
          ELSE IF a >= 0 /\ a < 0 + n THEN f[a - 0 + 1]
          ELSE Blank[a]
    BY DEF Filled
  <2>4. Named(f)[a] = IF a < n THEN f[a + 1]
                      ELSE IF a < 13 \/ (n = 6 /\ a = 13) \/ (n = 7 /\ a = 14) THEN NUL
                      ELSE OTHERS
    BY DEF Named
  <2>. HIDE DEF n
  <2>5. CASE a < n
    <3>1. ~ (a >= 0 + n + n) /\ a >= 0 /\ a < 0 + n
      BY <2>2, <2>5
    <3>. QED
      BY <2>2, <2>3, <2>4, <2>5, <3>1
  <2>6. CASE ~ (a < n) /\ a < 13
    <3>1. ~ (a < 0 + n)
      BY <2>2, <2>6
    <3>. QED
      BY <2>1, <2>3, <2>4, <2>6, <3>1
  <2>7. CASE ~ (a < n) /\ ~ (a < 13)
    <3>1. /\ ~ (a < 0 + n)
          /\ a >= 0 + n + n /\ a < 0 + n + 8 <=> (n = 6 /\ a = 13) \/ (n = 7 /\ a = 14)
      BY <2>2, <2>7
    <3>. QED
      BY <2>1, <2>3, <2>4, <2>7, <3>1
  <2>. QED
    BY <2>5, <2>6, <2>7
<1>. QED
  BY <1>2, <1>3 DEF Filled, Named

\* With a dot behind it.
Dotted(f) == [a \in 0 .. 15 |-> IF a = Len(f) THEN "." ELSE Named(f)[a]]

LEMMA DottedIs ==
  ASSUME NEW f \in Seq(Char), Len(f) \in 1 .. 8
  PROVE  strcat(Named(f), 0, <<".">>) = Dotted(f)
<1>. DEFINE n == Len(f)
            m == Named(f)
<1>1. n \in 1 .. 8 /\ DOMAIN m = 0 .. 15
  BY DEF Named
<1>2. \A k \in 0 .. 15 : m[k] = IF k < n THEN f[k + 1]
                                ELSE IF k < 13 \/ (n = 6 /\ k = 13) \/ (n = 7 /\ k = 14) THEN NUL
                                ELSE OTHERS
  BY DEF Named
<1>3. \A k \in 1 .. n : f[k] # NUL
  BY LibraryAssumption
<1>. HIDE DEF n, m
<1>4. strlen(m, 0) = n
  <2>1. m[n] = NUL
    BY SMTT(30), <1>1, <1>2
  <2>2. ASSUME NEW k \in 0 .. n - 1
        PROVE  m[k] # NUL
    <3>1. k \in 0 .. 15 /\ k < n /\ k + 1 \in 1 .. n
      BY <1>1
    <3>. QED
      BY <1>2, <1>3, <3>1
  <2>3. n \in 0 .. 16
    BY <1>1
  <2>. QED
    BY <1>1, <2>1, <2>2, <2>3, EndsAt
<1>5. 0 + n = n /\ n \in Nat
  BY <1>1
<1>6. strcat(m, 0, <<".">>) = stpcpy(m, n, <<".">>)
  BY <1>4, <1>5 DEF strcat
<1>7. stpcpy(m, n, <<".">>) = Filled(m, n, <<".">>, 2)
  <2>1. stpcpy(m, n, <<".">>) = stpncpy(m, n, <<".">>, 2)
    BY <1>1, <1>5, CopyFills
  <2>2. stpncpy(m, n, <<".">>, 2) = Filled(m, n, <<".">>, 2)
    BY <1>1, <1>5, FilledIs
  <2>. QED
    BY <2>1, <2>2
<1>8. ASSUME NEW a \in 0 .. 15
      PROVE  Filled(m, n, <<".">>, 2)[a] = Dotted(f)[a]
  <2>1. Filled(m, n, <<".">>, 2)[a] =
          IF a >= n + 1 + 1 /\ a < n + 1 + 2 THEN NUL
          ELSE IF a >= n /\ a < n + 1 THEN <<".">>[a - n + 1]
          ELSE m[a]
    BY DEF Filled
  <2>2. Dotted(f)[a] = IF a = n THEN "." ELSE m[a]
    BY DEF Dotted, n, m
  <2>3. CASE a = n
    <3>1. ~ (a >= n + 1 + 1) /\ a >= n /\ a < n + 1 /\ a - n + 1 = 1
      BY <1>1, <2>3
    <3>2. <<".">>[a - n + 1] = "."
      BY <3>1
    <3>. QED
      BY <2>1, <2>2, <2>3, <3>1, <3>2
  <2>4. CASE a = n + 2
    <3>1. m[a] = NUL
      BY <1>1, <1>2, <2>4
    <3>2. a # n /\ a >= n + 1 + 1 /\ a < n + 1 + 2
      BY <1>1, <2>4
    <3>. QED
      BY <2>1, <2>2, <3>1, <3>2
  <2>5. CASE a # n /\ a # n + 2
    <3>1. ~ (a >= n + 1 + 1 /\ a < n + 1 + 2) /\ ~ (a >= n /\ a < n + 1)
      BY <1>1, <2>5
    <3>. QED
      BY <2>1, <2>2, <2>5, <3>1
  <2>. QED
    BY <2>3, <2>4, <2>5
<1>9. Filled(m, n, <<".">>, 2) = Dotted(f)
  BY <1>8 DEF Filled, Dotted
<1>. QED
  BY <1>6, <1>7, <1>9 DEF m

\* And with the extension behind the dot.
Whole(f, e) == [a \in 0 .. 15 |->
                  IF a > Len(f) /\ a <= Len(f) + Len(e) THEN e[a - Len(f)]
                  ELSE IF Len(f) = 8 /\ Len(e) = 2 /\ a = 13 THEN NUL
                  ELSE Dotted(f)[a]]

LEMMA WholeIs ==
  ASSUME NEW f \in Seq(Char), NEW e \in Seq(Char), Len(f) \in 1 .. 8, Len(e) \in 1 .. 3
  PROVE  strncat(Dotted(f), 0, e, 3) = Whole(f, e)
<1>. DEFINE n == Len(f)
            k == Len(e)
            m == Dotted(f)
<1>1. n \in 1 .. 8 /\ k \in 1 .. 3 /\ DOMAIN m = 0 .. 15
  BY DEF Dotted
<1>2. \A a \in 0 .. 15 :
        m[a] = IF a = n THEN "." ELSE
               IF a < n THEN f[a + 1]
               ELSE IF a < 13 \/ (n = 6 /\ a = 13) \/ (n = 7 /\ a = 14) THEN NUL
               ELSE OTHERS
  BY DEF Dotted, Named
<1>3. \A a \in 1 .. n : f[a] # NUL
  BY LibraryAssumption
<1>. HIDE DEF n, k, m
<1>4. strlen(m, 0) = n + 1
  <2>1. m[n + 1] = NUL
    <3>1. n + 1 \in 0 .. 15 /\ n + 1 # n /\ ~ (n + 1 < n) /\ n + 1 < 13
      BY <1>1
    <3>. QED
      BY <1>2, <3>1
  <2>2. ASSUME NEW a \in 0 .. n
        PROVE  m[a] # NUL
    <3>1. a \in 0 .. 15 /\ (a = n \/ (a < n /\ a # n /\ a + 1 \in 1 .. n))
      BY <1>1
    <3>. QED
      BY <1>2, <1>3, <3>1 DEF NUL
  <2>3. n + 1 \in 0 .. 16 /\ 0 .. (n + 1) - 1 = 0 .. n
    BY <1>1
  <2>. QED
    BY <1>1, <2>1, <2>2, <2>3, EndsAt
<1>5. 0 + (n + 1) = n + 1 /\ n + 1 \in Nat /\ k \in Nat
  BY <1>1
<1>6. strncat(m, 0, e, 3) = stpncpy(m, n + 1, e, 3)
  BY <1>4, <1>5 DEF strncat
<1>7. stpncpy(m, n + 1, e, 3) = Filled(m, n + 1, e, 3)
  BY <1>1, <1>5, FilledIs DEF k
<1>8. ASSUME NEW a \in 0 .. 15
      PROVE  Filled(m, n + 1, e, 3)[a] = Whole(f, e)[a]
  <2>1. Filled(m, n + 1, e, 3)[a] =
          IF a >= n + 1 + k + k /\ a < n + 1 + k + 3 THEN NUL
          ELSE IF a >= n + 1 /\ a < n + 1 + k THEN e[a - (n + 1) + 1]
          ELSE m[a]
    BY DEF Filled, k
  <2>2. Whole(f, e)[a] = IF a > n /\ a <= n + k THEN e[a - n]
                         ELSE IF n = 8 /\ k = 2 /\ a = 13 THEN NUL
                         ELSE m[a]
    BY DEF Whole, n, k, m
  <2>3. CASE a > n /\ a <= n + k
    <3>1. /\ ~ (a >= n + 1 + k + k) /\ a >= n + 1 /\ a < n + 1 + k
          /\ a - (n + 1) + 1 = a - n
      BY <1>1, <2>3
    <3>. QED
      BY <2>1, <2>2, <2>3, <3>1
  <2>4. CASE ~ (a > n /\ a <= n + k) /\ a < 13
    <3>1. ~ (a >= n + 1 /\ a < n + 1 + k) /\ a # 13
      BY <1>1, <2>4
    <3>2. a >= n + 1 + k + k => m[a] = NUL
      <4>1. a >= n + 1 + k + k => a # n /\ ~ (a < n)
        BY <1>1
      <4>. QED
        BY <1>2, <2>4, <4>1
    <3>. QED
      BY <2>1, <2>2, <2>4, <3>1, <3>2
  <2>5. CASE ~ (a < 13)
    <3>1. ~ (a >= n + 1 /\ a < n + 1 + k) /\ ~ (a > n /\ a <= n + k)
      BY <1>1, <2>5
    <3>2. a >= n + 1 + k + k /\ a < n + 1 + k + 3 <=> n = 8 /\ k = 2 /\ a = 13
      BY <1>1, <2>5
    <3>. QED
      BY <2>1, <2>2, <3>1, <3>2
  <2>. QED
    BY <2>3, <2>4, <2>5
<1>9. Filled(m, n + 1, e, 3) = Whole(f, e)
  BY <1>8 DEF Filled, Whole
<1>. QED
  BY <1>6, <1>7, <1>9 DEF m

\* The buffer holds the name and its end, and a zero behind it is where it should be.
LEMMA EntryIs ==
  ASSUME NEW f \in Seq(Char), NEW e \in Seq(Char), Len(f) \in 1 .. 8, Len(e) \in 0 .. 3
  PROVE  NamesEntry(f, e)
<1>. DEFINE n == Len(f)
            k == Len(e)
            mem == format_entry(f, e)
            name == f \o IF e = <<>> THEN <<>> ELSE <<".">> \o e
            spilt == CASE n = 6 -> {13}
                       [] n = 7 -> {14}
                       [] n = 8 /\ k = 2 -> {13}
                       [] OTHER -> {}
            z == Len(name)
<1>1. n \in 1 .. 8 /\ k \in 0 .. 3 /\ (e = <<>> <=> k = 0)
  OBVIOUS
<1>2. \A a \in 1 .. n : f[a] # NUL
  BY LibraryAssumption
<1>3. \A a \in 1 .. k : e[a] # NUL
  BY LibraryAssumption
<1>4. mem = IF k = 0 THEN Named(f) ELSE Whole(f, e)
  <2>1. k > 0 => strncat(strcat(Named(f), 0, <<".">>), 0, e, 3) = Whole(f, e)
    BY <1>1, DottedIs, WholeIs
  <2>2. stpncpy(Blank, 0, f, 8) = Named(f)
    BY NamedIs
  <2>. QED
    BY <1>1, <2>1, <2>2 DEF format_entry
<1>5. /\ DOMAIN mem = 0 .. 15
      /\ \A a \in 0 .. 15 :
           mem[a] = IF k > 0 /\ a > n /\ a <= n + k THEN e[a - n]
                    ELSE IF k > 0 /\ n = 8 /\ k = 2 /\ a = 13 THEN NUL
                    ELSE IF k > 0 /\ a = n THEN "."
                    ELSE IF a < n THEN f[a + 1]
                    ELSE IF a < 13 \/ (n = 6 /\ a = 13) \/ (n = 7 /\ a = 14) THEN NUL
                    ELSE OTHERS
  <2>1. CASE k = 0
    <3>1. mem = Named(f)
      BY <1>4, <2>1
    <3>. HIDE DEF mem, k
    <3>. QED
      BY <2>1, <3>1 DEF Named
  <2>2. CASE k > 0
    <3>1. mem = Whole(f, e)
      BY <1>4, <2>2
    <3>2. \A a \in 0 .. 15 : Whole(f, e)[a] = IF a > n /\ a <= n + k THEN e[a - n]
                                              ELSE IF n = 8 /\ k = 2 /\ a = 13 THEN NUL
                                              ELSE Dotted(f)[a]
      BY DEF Whole
    <3>3. \A a \in 0 .. 15 : Dotted(f)[a] = IF a = n THEN "." ELSE Named(f)[a]
      BY DEF Dotted
    <3>4. \A a \in 0 .. 15 :
            Named(f)[a] = IF a < n THEN f[a + 1]
                          ELSE IF a < 13 \/ (n = 6 /\ a = 13) \/ (n = 7 /\ a = 14) THEN NUL
                          ELSE OTHERS
      BY DEF Named
    <3>5. DOMAIN Whole(f, e) = 0 .. 15
      BY DEF Whole
    <3>. HIDE DEF mem, k, n
    <3>. QED
      BY <2>2, <3>1, <3>2, <3>3, <3>4, <3>5
  <2>. QED
    BY <1>1, <2>1, <2>2
<1>6. /\ z = IF k = 0 THEN n ELSE n + 1 + k
      /\ \A a \in 1 .. z : name[a] = IF a <= n THEN f[a] ELSE IF a = n + 1 THEN "." ELSE e[a - n - 1]
  <2>1. CASE k = 0
    <3>1. name = f
      BY <1>1, <2>1
    <3>. QED
      BY <2>1, <3>1
  <2>2. CASE k > 0
    <3>1. name = f \o (<<".">> \o e)
      BY <1>1, <2>2
    <3>. DEFINE S == Char \cup {"."}
                d == <<".">>
                de == d \o e
    <3>2. f \in Seq(S) /\ e \in Seq(S) /\ d \in Seq(S)
      OBVIOUS
    <3>3. /\ Len(de) = 1 + k /\ de \in Seq(S)
          /\ \A a \in 1 .. 1 + k : de[a] = IF a <= 1 THEN "." ELSE e[a - 1]
      BY <3>2
    <3>. HIDE DEF de
    <3>4. /\ Len(f \o de) = n + (1 + k)
          /\ \A a \in 1 .. n + (1 + k) : (f \o de)[a] = IF a <= n THEN f[a] ELSE de[a - n]
      <4>1. f \in Seq(S) /\ de \in Seq(S) /\ Len(f) = n /\ Len(de) = 1 + k
        BY <3>2, <3>3
      <4>2. Len(f \o de) = Len(f) + Len(de)
        BY <4>1, ConcatProperties
      <4>3. \A a \in 1 .. Len(f) + Len(de) :
              (f \o de)[a] = IF a <= Len(f) THEN f[a] ELSE de[a - Len(f)]
        BY <4>1, ConcatProperties
      <4>. HIDE DEF n, k, S
      <4>. QED
        BY <4>1, <4>2, <4>3, Zenon
    <3>5. name = f \o de
      BY <3>1 DEF de
    <3>. HIDE DEF name, n, k
    <3>6. n + (1 + k) = n + 1 + k /\ n + 1 + k \in Nat
      BY <1>1
    <3>7. ASSUME NEW a \in 1 .. n + 1 + k
          PROVE  name[a] = IF a <= n THEN f[a] ELSE IF a = n + 1 THEN "." ELSE e[a - n - 1]
      <4>1. name[a] = IF a <= n THEN f[a] ELSE de[a - n]
        BY <3>4, <3>5, <3>6
      <4>2. CASE a <= n
        BY <4>1, <4>2
      <4>3. CASE a > n
        <5>1. a - n \in 1 .. 1 + k /\ (a - n <= 1 <=> a = n + 1) /\ ~ (a <= n)
          BY <1>1, <4>3
        <5>. QED
          BY <3>3, <4>1, <5>1
      <4>. QED
        BY <1>1, <4>2, <4>3
    <3>. QED
      BY <1>1, <2>2, <3>4, <3>5, <3>6, <3>7
  <2>. QED
    BY <1>1, <2>1, <2>2
<1>. HIDE DEF n, k, mem, name, z
<1>7. z \in 1 .. 12 /\ (k = 0 => z = n) /\ (k > 0 => z = n + 1 + k)
  BY <1>1, <1>6
<1>8. ASSUME NEW a \in 1 .. z
      PROVE  mem[a - 1] = name[a] /\ name[a] # NUL
  <2>1. name[a] = IF a <= n THEN f[a] ELSE IF a = n + 1 THEN "." ELSE e[a - n - 1]
    BY <1>6
  <2>2. a - 1 \in 0 .. 15 /\ a - 1 < 13 /\ (a - 1) + 1 = a
    BY <1>7
  <2>3. CASE a <= n
    <3>1. ~ (a - 1 > n) /\ a - 1 # 13 /\ a - 1 # n /\ a - 1 < n /\ a \in 1 .. n
      BY <1>1, <1>7, <2>3
    <3>. QED
      BY <1>2, <1>5, <2>1, <2>2, <2>3, <3>1
  <2>4. CASE a = n + 1
    <3>1. k > 0 /\ ~ (a - 1 > n) /\ a - 1 # 13 /\ a - 1 = n /\ ~ (a <= n)
      BY <1>1, <1>7, <2>4
    <3>. QED
      BY <1>5, <2>1, <2>2, <2>4, <3>1 DEF NUL
  <2>5. CASE a > n + 1
    <3>1. k > 0 /\ a - 1 > n /\ a - 1 <= n + k /\ a - 1 - n = a - n - 1 /\ ~ (a <= n) /\ a # n + 1
          /\ a - n - 1 \in 1 .. k
      BY <1>1, <1>7, <2>5
    <3>. QED
      BY <1>3, <1>5, <2>1, <2>2, <3>1
  <2>. QED
    BY <1>1, <2>3, <2>4, <2>5
<1>9. strlen(mem, 0) = z
  <2>1. mem[z] = NUL
    <3>1. z \in 0 .. 15 /\ ~ (k > 0 /\ z <= n + k) /\ ~ (k > 0 /\ z = n) /\ ~ (z < n) /\ z < 13
      BY <1>1, <1>7
    <3>. QED
      BY <1>5, <3>1
  <2>2. ASSUME NEW i \in 0 .. z - 1
        PROVE  mem[i] # NUL
    <3>1. i + 1 \in 1 .. z /\ (i + 1) - 1 = i
      BY <1>7
    <3>. QED
      BY <1>8, <3>1
  <2>3. z \in 0 .. 16
    BY <1>7
  <2>. QED
    BY <1>5, <2>1, <2>2, <2>3, EndsAt
<1>10. ASSUME NEW a \in 13 .. 15
       PROVE  mem[a] = IF a \in spilt THEN NUL ELSE OTHERS
  <2>1. a \in 0 .. 15 /\ ~ (a <= n + k) /\ a # n /\ ~ (a < n) /\ ~ (a < 13)
    BY <1>1
  <2>2. mem[a] = IF (n = 8 /\ k = 2 /\ a = 13) \/ (n = 6 /\ a = 13) \/ (n = 7 /\ a = 14) THEN NUL
                 ELSE OTHERS
    BY SMTT(30), <1>1, <1>5, <2>1
  <2>3. a \in spilt <=> (n = 8 /\ k = 2 /\ a = 13) \/ (n = 6 /\ a = 13) \/ (n = 7 /\ a = 14)
    BY <1>1
  <2>. QED
    BY <2>2, <2>3
<1>. QED
  BY <1>8, <1>9, <1>10 DEF NamesEntry, n, k, mem, name, z

\* The name that find_entry compares is the name of the entry, ended in the buffer;
\* format_entry writes a zero behind the buffer for names of six, seven and some of
\* eight characters, and nothing else.
THEOREM LibraryEntryNamed == LibrarySpec => []EntryNamed
<1>1. ASSUME job \in Jobs, job.fn = "format_entry"
      PROVE  NamesEntry(job.name, job.ext)
  <2>1. job.name \in Seq(Char) /\ job.ext \in Seq(Char)
    BY <1>1, LibraryAssumption DEF Calls
  <2>2. Len(job.name) \in 1 .. 8 /\ Len(job.ext) \in 0 .. 3
    BY <1>1, LibraryAssumption
  <2>. QED
    BY <2>1, <2>2, EntryIs
<1>2. job \in Jobs => EntryNamed
  BY <1>1 DEF EntryNamed
<1>. QED
  BY <1>2, JobStays, PTL
-----------------------------------------------------------------------------
(* Induction *)

\* A set of numbers that is not empty has a least one.
LEMMA Least ==
  ASSUME NEW T, T \subseteq Nat, T # {}
  PROVE  \E n \in T : \A k \in T : n <= k
<1>1. PICK n \in T : \A k \in T : ~ (<<k, n>> \in OpToRel(<, Nat))
  BY NatLessThanWellFounded, WFMin
<1>2. ASSUME NEW k \in T
      PROVE  n <= k
  <2>1. n \in Nat /\ k \in Nat
    OBVIOUS
  <2>2. ~ (<<k, n>> \in OpToRel(<, Nat))
    BY <1>1
  <2>3. k < n => <<k, n>> \in OpToRel(<, Nat)
    BY <2>1 DEF OpToRel
  <2>4. ~ (k < n)
    BY <2>2, <2>3, Zenon
  <2>. QED
    BY <2>1, <2>4
<1>. QED
  BY <1>2

LEMMA AllNumbers ==
  ASSUME NEW T, 0 \in T, \A n \in Nat : n \in T => n + 1 \in T
  PROVE  Nat \subseteq T
<1>. SUFFICES ASSUME Nat \ T # {}
              PROVE  FALSE
  OBVIOUS
<1>1. PICK n \in Nat \ T : \A k \in Nat \ T : n <= k
  BY Least
<1>2. n - 1 \in Nat /\ n - 1 \in T
  BY <1>1
<1>. QED
  BY <1>1, <1>2
-----------------------------------------------------------------------------
(* Numbers *)

\* The powers of b up to the n-th.
PowersTo(w, b, n) == /\ w = [k \in 0 .. n |-> w[k]]
                     /\ w[0] = 1
                     /\ \A k \in 1 .. n : w[k] = b * w[k - 1]

LEMMA PowersToExist ==
  ASSUME NEW b \in Nat
  PROVE  \A n \in Nat : \E w \in [0 .. n -> Nat] : PowersTo(w, b, n)
<1>. DEFINE T == {n \in Nat : \E w \in [0 .. n -> Nat] : PowersTo(w, b, n)}
<1>1. 0 \in T
  <2>. DEFINE w == [k \in 0 .. 0 |-> 1]
  <2>1. w \in [0 .. 0 -> Nat] /\ PowersTo(w, b, 0)
    BY DEF PowersTo
  <2>. QED
    BY <2>1
<1>2. ASSUME NEW n \in Nat, n \in T
      PROVE  n + 1 \in T
  <2>1. PICK w \in [0 .. n -> Nat] : PowersTo(w, b, n)
    BY <1>2
  <2>. DEFINE u == [k \in 0 .. n + 1 |-> IF k = n + 1 THEN b * w[n] ELSE w[k]]
  <2>2. u \in [0 .. n + 1 -> Nat]
    <3>1. b * w[n] \in Nat
      OBVIOUS
    <3>. QED
      BY <3>1
  <2>3. u[0] = 1
    BY <2>1 DEF PowersTo
  <2>4. ASSUME NEW k \in 1 .. n + 1
        PROVE  u[k] = b * u[k - 1]
    <3>1. k - 1 \in 0 .. n + 1 /\ k - 1 # n + 1 /\ u[k - 1] = w[k - 1]
      OBVIOUS
    <3>2. CASE k = n + 1
      <4>1. k - 1 = n /\ u[k] = b * w[n]
        BY <3>2
      <4>. HIDE DEF u
      <4>. QED
        BY <3>1, <4>1
    <3>3. CASE k \in 1 .. n
      <4>1. u[k] = w[k]
        BY <3>3
      <4>2. w[k] = b * w[k - 1]
        BY <2>1, <3>3 DEF PowersTo
      <4>. HIDE DEF u
      <4>. QED
        BY <3>1, <4>1, <4>2
    <3>. QED
      BY <3>2, <3>3
  <2>5. u = [k \in 0 .. n + 1 |-> u[k]]
    OBVIOUS
  <2>. HIDE DEF u
  <2>6. PowersTo(u, b, n + 1)
    BY <2>3, <2>4, <2>5 DEF PowersTo
  <2>. QED
    BY <2>2, <2>6
<1>. HIDE DEF T
<1>3. Nat \subseteq T
  BY <1>1, <1>2, AllNumbers
<1>. QED
  BY <1>3 DEF T

LEMMA PowersToAgree ==
  ASSUME NEW b \in Nat, NEW m \in Nat, NEW n \in Nat, NEW u, NEW w,
         PowersTo(u, b, m), PowersTo(w, b, n)
  PROVE  \A k \in Nat : k <= m /\ k <= n => u[k] = w[k]
<1>. DEFINE T == {k \in Nat : k <= m /\ k <= n => u[k] = w[k]}
<1>1. 0 \in T
  BY DEF PowersTo
<1>2. ASSUME NEW k \in Nat, k \in T
      PROVE  k + 1 \in T
  <2>. SUFFICES ASSUME k + 1 <= m, k + 1 <= n
                PROVE  u[k + 1] = w[k + 1]
    OBVIOUS
  <2>1. k + 1 \in 1 .. m /\ k + 1 \in 1 .. n /\ (k + 1) - 1 = k
    OBVIOUS
  <2>2. u[k + 1] = b * u[k] /\ w[k + 1] = b * w[k]
    BY <2>1 DEF PowersTo
  <2>3. u[k] = w[k]
    BY <1>2
  <2>. QED
    BY <2>2, <2>3
<1>. HIDE DEF T
<1>3. Nat \subseteq T
  BY <1>1, <1>2, AllNumbers
<1>. QED
  BY <1>3 DEF T

\* The function that Power defines.
Powers(b) == CHOOSE f : f = [k \in Nat |-> IF k = 0 THEN 1 ELSE b * f[k - 1]]

LEMMA PowerIs ==
  ASSUME NEW b \in Nat, NEW n
  PROVE  Power(b, n) = Powers(b)[n]
BY DEF Power, Powers

LEMMA PowerUnfolds ==
  ASSUME NEW b \in Nat
  PROVE  /\ Power(b, 0) = 1
         /\ \A n \in Nat : Power(b, n) \in Nat /\ Power(b, n + 1) = b * Power(b, n)
<1>. DEFINE part(n) == CHOOSE w \in [0 .. n -> Nat] : PowersTo(w, b, n)
            whole == [n \in Nat |-> part(n)[n]]
<1>1. \A n \in Nat : part(n) \in [0 .. n -> Nat] /\ PowersTo(part(n), b, n)
  BY PowersToExist
<1>. HIDE DEF part
<1>2. whole[0] = 1
  BY <1>1 DEF PowersTo
<1>3. ASSUME NEW n \in Nat, n # 0
      PROVE  whole[n] = b * whole[n - 1]
  <2>1. n - 1 \in Nat /\ n \in 1 .. n /\ n - 1 <= n - 1 /\ n - 1 <= n
    BY <1>3
  <2>2. part(n)[n] = b * part(n)[n - 1]
    BY <1>1, <2>1 DEF PowersTo
  <2>3. part(n)[n - 1] = part(n - 1)[n - 1]
    BY <1>1, <2>1, PowersToAgree
  <2>. QED
    BY <2>1, <2>2, <2>3
<1>. HIDE DEF whole
<1>4. whole = [k \in Nat |-> IF k = 0 THEN 1 ELSE b * whole[k - 1]]
  <2>1. whole = [k \in Nat |-> whole[k]]
    BY DEF whole
  <2>. QED
    BY <1>2, <1>3, <2>1
<1>5. Powers(b) = [k \in Nat |-> IF k = 0 THEN 1 ELSE b * Powers(b)[k - 1]]
  BY <1>4 DEF Powers
<1>6. Powers(b)[0] = 1 /\ \A k \in Nat : Powers(b)[k + 1] = b * Powers(b)[k]
  <2>1. \A k \in Nat : k + 1 \in Nat /\ k + 1 # 0 /\ (k + 1) - 1 = k
    OBVIOUS
  <2>. QED
    BY <1>5, <2>1
<1>7. \A k \in Nat : Powers(b)[k] \in Nat
  <2>. DEFINE T == {k \in Nat : Powers(b)[k] \in Nat}
  <2>1. 0 \in T
    BY <1>6
  <2>2. \A k \in Nat : k \in T => k + 1 \in T
    BY <1>6
  <2>. HIDE DEF T
  <2>3. Nat \subseteq T
    BY <2>1, <2>2, AllNumbers
  <2>. QED
    BY <2>3 DEF T
<1>. QED
  BY <1>6, <1>7, PowerIs

\* The powers of a number above 1 grow.
LEMMA PowerGrows ==
  ASSUME NEW b \in Nat, b >= 2
  PROVE  \A n \in Nat : Power(b, n) > n
<1>. DEFINE T == {n \in Nat : Power(b, n) > n}
<1>1. 0 \in T
  BY PowerUnfolds
<1>2. ASSUME NEW n \in Nat, n \in T
      PROVE  n + 1 \in T
  <2>1. PICK p \in Nat : p = Power(b, n) /\ Power(b, n + 1) = b * p /\ p >= n + 1
    BY <1>2, PowerUnfolds
  <2>2. 2 * p <= b * p
    BY TimesMonotone
  <2>. QED
    BY <2>1, <2>2
<1>. HIDE DEF T
<1>3. Nat \subseteq T
  BY <1>1, <1>2, AllNumbers
<1>. QED
  BY <1>3 DEF T

LEMMA PowersInOrder ==
  ASSUME NEW b \in Nat, NEW m \in Nat, NEW n \in Nat, b >= 2, m <= n
  PROVE  Power(b, m) <= Power(b, n)
<1>. DEFINE T == {d \in Nat : Power(b, m) <= Power(b, m + d)}
<1>1. 0 \in T
  <2>1. m + 0 = m /\ Power(b, m) \in Nat
    BY PowerUnfolds
  <2>. QED
    BY <2>1
<1>2. ASSUME NEW d \in Nat, d \in T
      PROVE  d + 1 \in T
  <2>1. m + d \in Nat /\ m + (d + 1) = (m + d) + 1
    OBVIOUS
  <2>2. PICK p \in Nat : p = Power(b, m + d) /\ Power(b, (m + d) + 1) = b * p
    BY <2>1, PowerUnfolds
  <2>3. 1 * p <= b * p
    BY TimesMonotone
  <2>4. Power(b, m) \in Nat /\ Power(b, m) <= p
    BY <1>2, <2>2, PowerUnfolds
  <2>5. Power(b, m + (d + 1)) = b * p /\ b * p \in Nat
    BY <2>1, <2>2
  <2>. QED
    BY <2>3, <2>4, <2>5
<1>. HIDE DEF T
<1>3. Nat \subseteq T
  BY <1>1, <1>2, AllNumbers
<1>4. n - m \in T /\ m + (n - m) = n
  BY <1>3
<1>. QED
  BY <1>4 DEF T

\* How many digits v has, 0 having none.
HasDigits(v, b, k) == IF v = 0 THEN k = 0 ELSE k > 0 /\ Power(b, k - 1) <= v /\ v < Power(b, k)

LEMMA DigitsExist ==
  ASSUME NEW b \in Nat, NEW v \in Nat, b >= 2
  PROVE  \E k \in 0 .. v : HasDigits(v, b, k)
<1>1. CASE v = 0
  BY <1>1 DEF HasDigits
<1>2. CASE v > 0
  <2>. DEFINE T == {k \in Nat : v < Power(b, k)}
  <2>1. v \in T
    BY PowerGrows, PowerUnfolds
  <2>2. ~ (0 \in T)
    BY <1>2, PowerUnfolds
  <2>. HIDE DEF T
  <2>3. PICK k \in T : \A m \in T : k <= m
    <3>1. T \subseteq Nat /\ T # {}
      BY <2>1 DEF T
    <3>. QED
      BY <3>1, Least
  <2>4. k \in Nat /\ k # 0 /\ k <= v /\ v < Power(b, k)
    BY <2>1, <2>2, <2>3 DEF T
  <2>5. k - 1 \in Nat /\ ~ (k - 1 \in T)
    BY <2>3, <2>4
  <2>6. Power(b, k - 1) \in Nat /\ Power(b, k - 1) <= v
    BY <2>5, PowerUnfolds DEF T
  <2>7. k \in 0 .. v /\ k > 0 /\ v # 0
    BY <1>2, <2>4
  <2>8. HasDigits(v, b, k)
    BY <2>4, <2>6, <2>7 DEF HasDigits
  <2>. QED
    BY <2>7, <2>8
<1>. QED
  BY <1>1, <1>2

LEMMA DigitsUnique ==
  ASSUME NEW b \in Nat, NEW v \in Nat, NEW k \in Nat, NEW m \in Nat, b >= 2,
         HasDigits(v, b, k), HasDigits(v, b, m)
  PROVE  k = m
<1>1. ASSUME NEW i \in Nat, NEW j \in Nat, HasDigits(v, b, i), HasDigits(v, b, j), i < j
      PROVE  FALSE
  <2>1. v # 0 /\ v < Power(b, i) /\ Power(b, j - 1) <= v
    BY <1>1 DEF HasDigits
  <2>2. j - 1 \in Nat /\ i <= j - 1
    BY <1>1
  <2>3. Power(b, i) <= Power(b, j - 1) /\ Power(b, i) \in Nat /\ Power(b, j - 1) \in Nat
    BY <2>2, PowersInOrder, PowerUnfolds
  <2>. QED
    BY <2>1, <2>3
<1>2. ~ (k < m) /\ ~ (m < k)
  BY <1>1
<1>. QED
  BY <1>2

\* Dividing twice is dividing by the product.
LEMMA DivideTwice ==
  ASSUME NEW a \in Nat \ {0}, NEW b \in Nat \ {0}, NEW v \in Nat
  PROVE  (v \div a) \div b = v \div (b * a)
<1>1. PICK q \in Int, m \in Nat : q = v \div a /\ m < a /\ v = q * a + m
  <2>1. v \div a \in Int /\ v % a \in 0 .. a - 1 /\ v = (v \div a) * a + (v % a)
    BY DivideAny
  <2>. QED
    BY <2>1
<1>2. PICK k \in Int, j \in Nat : k = q \div b /\ j < b /\ q = k * b + j
  <2>1. q \div b \in Int /\ q % b \in 0 .. b - 1 /\ q = (q \div b) * b + (q % b)
    BY DivideAny
  <2>. QED
    BY <2>1
<1>3. PICK r \in Nat : r = j * a + m
  OBVIOUS
<1>4. r < b * a
  <2>1. j * a <= (b - 1) * a
    <3>1. j \in Nat /\ b - 1 \in Nat /\ j <= b - 1 /\ a \in Nat
      BY <1>2
    <3>. QED
      BY <3>1, TimesMonotone
  <2>2. (b - 1) * a = b * a - a
    OBVIOUS
  <2>. QED
    BY <1>1, <1>3, <2>1, <2>2
<1>5. v = k * (b * a) + r
  <2>1. q * a = (k * b + j) * a
    BY <1>2
  <2>2. (k * b + j) * a = k * b * a + j * a
    OBVIOUS
  <2>3. k * b * a = k * (b * a)
    OBVIOUS
  <2>. QED
    BY <1>1, <1>3, <2>1, <2>2, <2>3
<1>6. PICK c \in Nat \ {0} : c = b * a
  OBVIOUS
<1>7. v \div c = k
  <2>1. v = k * c + r /\ r < c
    BY <1>4, <1>5, <1>6
  <2>. QED
    BY <2>1, DivideOnce
<1>. QED
  BY <1>1, <1>2, <1>6, <1>7

\* A number has one digit more than without its last.
LEMMA DigitsLess ==
  ASSUME NEW b \in Nat, NEW v \in Nat, NEW k \in Nat, b >= 2, v # 0, HasDigits(v, b, k)
  PROVE  /\ v \div b \in Nat /\ v \div b < v
         /\ k - 1 \in Nat /\ HasDigits(v \div b, b, k - 1)
<1>1. PICK q \in Int, m \in 0 .. b - 1 : q = v \div b /\ v = q * b + m
  <2>1. v \div b \in Int /\ v % b \in 0 .. b - 1 /\ v = (v \div b) * b + (v % b)
    BY DivideAny
  <2>. QED
    BY <2>1
<1>2. k > 0 /\ k - 1 \in Nat /\ Power(b, k - 1) <= v /\ v < Power(b, k)
  BY DEF HasDigits
<1>3. PICK p \in Nat : p = Power(b, k - 1) /\ Power(b, k) = b * p /\ p > k - 1
  <2>1. (k - 1) + 1 = k
    BY <1>2
  <2>. QED
    BY <1>2, <2>1, PowerUnfolds, PowerGrows
<1>4. q >= 0
  <2>1. v >= 0 * b
    OBVIOUS
  <2>. QED
    BY <1>1, <2>1, DivBounds
<1>5. q < v
  <2>1. q * 2 <= q * b
    BY <1>4, TimesMonotone
  <2>. QED
    BY <1>1, <1>4, <2>1
<1>6. q < p
  <2>1. ASSUME q >= p
        PROVE  FALSE
    <3>1. p * b <= q * b
      BY <1>4, <2>1, TimesMonotone
    <3>2. p * b = b * p
      OBVIOUS
    <3>. QED
      BY <1>1, <1>2, <1>3, <3>1, <3>2
  <2>. QED
    BY <2>1
<1>7. HasDigits(q, b, k - 1)
  <2>1. CASE k = 1
    <3>1. p = 1 /\ q = 0
      BY <1>3, <1>4, <1>6, <2>1, PowerUnfolds
    <3>. QED
      BY <2>1, <3>1 DEF HasDigits
  <2>2. CASE k > 1
    <3>1. k - 2 \in Nat /\ (k - 2) + 1 = k - 1 /\ (k - 1) - 1 = k - 2
      BY <2>2
    <3>2. PICK s \in Nat : s = Power(b, k - 2) /\ p = b * s /\ s > k - 2
      <4>1. Power(b, k - 2) \in Nat /\ Power(b, (k - 2) + 1) = b * Power(b, k - 2)
        BY <3>1, PowerUnfolds
      <4>2. Power(b, k - 2) > k - 2
        BY <3>1, PowerGrows
      <4>. QED
        BY <1>3, <3>1, <4>1, <4>2
    <3>3. v >= s * b
      <4>1. s * b = b * s
        OBVIOUS
      <4>. QED
        BY <1>2, <1>3, <3>2, <4>1
    <3>4. q >= s
      BY <1>1, <3>3, DivBounds
    <3>5. q # 0 /\ k - 1 > 0
      BY <2>2, <3>1, <3>2, <3>4
    <3>. QED
      BY <1>3, <1>6, <3>1, <3>2, <3>4, <3>5 DEF HasDigits
  <2>. QED
    BY <1>2, <2>1, <2>2
<1>. QED
  BY <1>1, <1>2, <1>4, <1>5, <1>7

\* The number of digits, each digit, and all of them with the last one first.
Size(v, b) == CHOOSE k \in Nat : HasDigits(v, b, k)
DigitAt(v, b, i) == Digits[((v \div Power(b, i)) % b) + 1]
Backward(v, b) == [p \in 1 .. Size(v, b) |-> DigitAt(v, b, p - 1)]
Glyph == {Digits[d] : d \in 1 .. 16}

LEMMA SizeIs ==
  ASSUME NEW b \in Nat, NEW v \in Nat, b >= 2
  PROVE  /\ Size(v, b) \in Nat /\ Size(v, b) <= v
         /\ HasDigits(v, b, Size(v, b))
         /\ \A k \in Nat : HasDigits(v, b, k) => k = Size(v, b)
<1>1. PICK k \in 0 .. v : HasDigits(v, b, k)
  BY DigitsExist
<1>2. k \in Nat
  OBVIOUS
<1>3. Size(v, b) \in Nat /\ HasDigits(v, b, Size(v, b))
  BY <1>1, <1>2 DEF Size
<1>4. \A m \in Nat : HasDigits(v, b, m) => m = Size(v, b)
  BY <1>3, DigitsUnique
<1>5. k = Size(v, b)
  BY <1>1, <1>2, <1>4
<1>. QED
  BY <1>3, <1>4, <1>5

LEMMA DigitAtIs ==
  ASSUME NEW b \in 2 .. 16, NEW v \in Nat, NEW i \in Nat
  PROVE  /\ DigitAt(v, b, i) \in Glyph
         /\ DigitAt(v, b, 0) = Digits[(v % b) + 1]
         /\ DigitAt(v \div b, b, i) = DigitAt(v, b, i + 1)
<1>1. b \in Nat /\ b >= 2
  OBVIOUS
<1>2. PICK p \in Nat \ {0} : p = Power(b, i) /\ Power(b, i + 1) = b * p
  <2>1. Power(b, i) \in Nat /\ Power(b, i + 1) = b * Power(b, i) /\ Power(b, i) > i
    BY <1>1, PowerUnfolds, PowerGrows
  <2>. QED
    BY <2>1
<1>3. DigitAt(v, b, i) \in Glyph
  <2>1. (v \div p) \in Int
    BY DivideAny
  <2>2. (v \div p) % b \in 0 .. b - 1
    BY <1>1, <2>1, DivideAny
  <2>3. ((v \div p) % b) + 1 \in 1 .. 16
    BY <2>2
  <2>. QED
    BY <1>2, <2>3 DEF DigitAt, Glyph
<1>4. DigitAt(v, b, 0) = Digits[(v % b) + 1]
  <2>1. Power(b, 0) = 1 /\ v \div 1 = v
    BY <1>1, PowerUnfolds
  <2>. QED
    BY <2>1 DEF DigitAt
<1>5. DigitAt(v \div b, b, i) = DigitAt(v, b, i + 1)
  <2>1. (v \div b) \div p = v \div (p * b) /\ p * b = b * p
    BY <1>1, DivideTwice
  <2>. QED
    BY <1>2, <2>1 DEF DigitAt
<1>. QED
  BY <1>3, <1>4, <1>5

LEMMA BackwardIsSeq ==
  ASSUME NEW b \in 2 .. 16, NEW v \in Nat
  PROVE  Backward(v, b) \in Seq(Glyph) /\ Len(Backward(v, b)) = Size(v, b)
<1>1. Size(v, b) \in Nat
  BY SizeIs
<1>2. \A p \in 1 .. Size(v, b) : DigitAt(v, b, p - 1) \in Glyph
  <2>. SUFFICES ASSUME NEW p \in 1 .. Size(v, b)
                PROVE  DigitAt(v, b, p - 1) \in Glyph
    OBVIOUS
  <2>1. p - 1 \in Nat
    BY <1>1
  <2>. QED
    BY <2>1, DigitAtIs
<1>3. Backward(v, b) \in [1 .. Size(v, b) -> Glyph]
  BY <1>2 DEF Backward
<1>. QED
  BY <1>1, <1>3

\* Two sequences, one behind the other.
LEMMA ConcatIs ==
  ASSUME NEW S, NEW s \in Seq(S), NEW t \in Seq(S)
  PROVE  /\ s \o t \in Seq(S) /\ Len(s \o t) = Len(s) + Len(t)
         /\ \A i \in 1 .. Len(s) : (s \o t)[i] = s[i]
         /\ \A i \in 1 .. Len(t) : (s \o t)[Len(s) + i] = t[i]
<1>1. PICK m \in Nat, n \in Nat : m = Len(s) /\ n = Len(t)
  OBVIOUS
<1>2. /\ s \o t \in Seq(S)
      /\ Len(s \o t) = Len(s) + Len(t)
      /\ \A i \in 1 .. Len(s) + Len(t) : (s \o t)[i] = IF i <= Len(s) THEN s[i] ELSE t[i - Len(s)]
  BY ConcatProperties
<1>3. \A i \in 1 .. m + n : (s \o t)[i] = IF i <= m THEN s[i] ELSE t[i - m]
  BY <1>1, <1>2
<1>4. ASSUME NEW i \in 1 .. m
      PROVE  (s \o t)[i] = s[i]
  <2>1. i \in 1 .. m + n /\ i <= m
    OBVIOUS
  <2>. QED
    BY <1>3, <2>1
<1>5. ASSUME NEW i \in 1 .. n
      PROVE  (s \o t)[m + i] = t[i]
  <2>1. m + i \in 1 .. m + n /\ ~ (m + i <= m) /\ (m + i) - m = i
    OBVIOUS
  <2>. QED
    BY <1>3, <2>1
<1>. QED
  BY <1>1, <1>2, <1>4, <1>5

\* The digits of a number are those of the number without its last, and the last.
LEMMA BackwardUnfolds ==
  ASSUME NEW b \in 2 .. 16, NEW v \in Nat, v # 0
  PROVE  Backward(v, b) = <<Digits[(v % b) + 1]>> \o Backward(v \div b, b)
<1>1. b \in Nat /\ b >= 2
  OBVIOUS
<1>2. PICK k \in Nat : k = Size(v, b) /\ HasDigits(v, b, k)
  BY <1>1, SizeIs
<1>3. PICK q \in Nat : q = v \div b /\ k - 1 \in Nat /\ HasDigits(q, b, k - 1)
  BY <1>1, <1>2, DigitsLess
<1>4. Size(q, b) = k - 1
  BY <1>1, <1>3, SizeIs
<1>. DEFINE s == Backward(v, b)
            t == Backward(q, b)
            d == <<DigitAt(v, b, 0)>>
<1>5. s \in Seq(Glyph) /\ Len(s) = k /\ t \in Seq(Glyph) /\ Len(t) = k - 1
  BY <1>2, <1>4, BackwardIsSeq
<1>6. d \in Seq(Glyph) /\ Len(d) = 1 /\ d[1] = DigitAt(v, b, 0)
  <2>1. 0 \in Nat
    OBVIOUS
  <2>2. DigitAt(v, b, 0) \in Glyph
    BY <2>1, DigitAtIs
  <2>. QED
    BY <2>2
<1>7. \A p \in 1 .. k : s[p] = DigitAt(v, b, p - 1)
  BY <1>2 DEF Backward
<1>8. \A p \in 1 .. k - 1 : t[p] = DigitAt(v, b, p)
  <2>. SUFFICES ASSUME NEW p \in 1 .. k - 1
                PROVE  t[p] = DigitAt(v, b, p)
    OBVIOUS
  <2>1. t[p] = DigitAt(q, b, p - 1)
    BY <1>4 DEF Backward
  <2>2. p - 1 \in Nat /\ (p - 1) + 1 = p
    OBVIOUS
  <2>3. DigitAt(v \div b, b, p - 1) = DigitAt(v, b, (p - 1) + 1)
    BY <2>2, DigitAtIs
  <2>. QED
    BY <1>3, <2>1, <2>2, <2>3
<1>. HIDE DEF s, t, d
<1>9. /\ d \o t \in Seq(Glyph) /\ Len(d \o t) = k
      /\ (d \o t)[1] = d[1]
      /\ \A p \in 1 .. k - 1 : (d \o t)[1 + p] = t[p]
  <2>1. /\ d \o t \in Seq(Glyph) /\ Len(d \o t) = Len(d) + Len(t)
        /\ \A p \in 1 .. Len(d) : (d \o t)[p] = d[p]
        /\ \A p \in 1 .. Len(t) : (d \o t)[Len(d) + p] = t[p]
    <3>1. d \in Seq(Glyph) /\ t \in Seq(Glyph)
      BY <1>5, <1>6
    <3>. QED
      BY <3>1, ConcatIs
  <2>. QED
    BY <1>3, <1>5, <1>6, <2>1
<1>10. ASSUME NEW p \in 1 .. k
       PROVE  s[p] = (d \o t)[p]
  <2>1. CASE p = 1
    BY <1>6, <1>7, <1>9, <2>1
  <2>2. CASE p > 1
    <3>1. p - 1 \in 1 .. k - 1 /\ 1 + (p - 1) = p
      BY <2>2
    <3>2. (d \o t)[1 + (p - 1)] = t[p - 1] /\ t[p - 1] = DigitAt(v, b, p - 1)
      BY <1>8, <1>9, <3>1
    <3>. QED
      BY <1>7, <3>1, <3>2
  <2>3. p = 1 \/ p > 1
    OBVIOUS
  <2>. QED
    BY <2>1, <2>2, <2>3
<1>11. s = d \o t
  BY <1>5, <1>9, <1>10, SeqEqual
<1>. QED
  BY <1>3, <1>11, DigitAtIs DEF s, t, d

\* What the loop of itoa does.
Lasts(b) == CHOOSE f : f = [v \in Nat |-> IF v = 0 THEN <<>> ELSE <<Digits[(v % b) + 1]>> \o f[v \div b]]

LEMMA LastFirstIs ==
  ASSUME NEW b \in 2 .. 16, NEW v \in Nat
  PROVE  LastFirst(v, b) = Backward(v, b)
<1>. DEFINE g == [n \in Nat |-> Backward(n, b)]
            f == Lasts(b)
            T == {n \in Nat : f[n] # Backward(n, b)}
<1>0. b \in Nat /\ b >= 2
  OBVIOUS
<1>1. Backward(0, b) = <<>>
  <2>1. HasDigits(0, b, 0)
    BY DEF HasDigits
  <2>2. Size(0, b) = 0
    BY <1>0, <2>1, SizeIs
  <2>3. Len(Backward(0, b)) = 0 /\ Backward(0, b) \in Seq(Glyph)
    BY <2>2, BackwardIsSeq
  <2>. QED
    BY <2>3, EmptySeq
<1>2. \A n \in Nat : n # 0 => n \div b \in Nat /\ n \div b < n
  BY <1>0, SizeIs, DigitsLess
<1>3. g = [n \in Nat |-> IF n = 0 THEN <<>> ELSE <<Digits[(n % b) + 1]>> \o g[n \div b]]
  <2>1. \A n \in Nat : n # 0 => g[n \div b] = Backward(n \div b, b)
    BY <1>2
  <2>. HIDE DEF g
  <2>2. \A n \in Nat : n # 0 => Backward(n, b) = <<Digits[(n % b) + 1]>> \o g[n \div b]
    BY <2>1, BackwardUnfolds
  <2>3. g = [n \in Nat |-> Backward(n, b)]
    BY DEF g
  <2>. QED
    BY <1>1, <2>2, <2>3
<1>. HIDE DEF g
<1>4. f = [n \in Nat |-> IF n = 0 THEN <<>> ELSE <<Digits[(n % b) + 1]>> \o f[n \div b]]
  BY <1>3 DEF Lasts
<1>. HIDE DEF f
<1>5. ASSUME T # {}
      PROVE  FALSE
  <2>1. T \subseteq Nat
    OBVIOUS
  <2>. HIDE DEF T
  <2>2. PICK n \in T : \A k \in T : n <= k
    BY <1>5, <2>1, Least
  <2>3. n \in Nat /\ f[n] # Backward(n, b)
    BY <2>2 DEF T
  <2>4. n # 0
    BY <1>1, <1>4, <2>3
  <2>5. n \div b \in Nat /\ n \div b < n
    BY <1>2, <2>3, <2>4
  <2>6. ~ (n \div b \in T)
    BY <2>2, <2>3, <2>5
  <2>7. f[n \div b] = Backward(n \div b, b)
    BY <2>5, <2>6 DEF T
  <2>8. f[n] = <<Digits[(n % b) + 1]>> \o f[n \div b]
    BY <1>4, <2>3, <2>4
  <2>9. Backward(n, b) = <<Digits[(n % b) + 1]>> \o Backward(n \div b, b)
    BY <2>3, <2>4, BackwardUnfolds
  <2>. QED
    BY <2>3, <2>7, <2>8, <2>9
<1>6. f[v] = Backward(v, b)
  BY <1>5
<1>7. LastFirst(v, b) = f[v]
  BY DEF LastFirst, Lasts, f
<1>. QED
  BY <1>6, <1>7

\* The numeral of a number has its digits the other way round; that of 0 has one.
Width(n, b) == IF n = 0 THEN 1 ELSE Size(n, b)
Forward(n, b) == [p \in 1 .. Width(n, b) |-> DigitAt(n, b, Width(n, b) - p)]

LEMMA WidthIs ==
  ASSUME NEW b \in 2 .. 16, NEW n \in Nat
  PROVE  /\ Width(n, b) \in Nat \ {0}
         /\ Forward(n, b) \in Seq(Glyph)
         /\ Len(Forward(n, b)) = Width(n, b)
<1>1. Width(n, b) \in Nat \ {0}
  <2>1. b \in Nat /\ b >= 2
    OBVIOUS
  <2>2. Size(n, b) \in Nat /\ HasDigits(n, b, Size(n, b))
    BY <2>1, SizeIs
  <2>. QED
    BY <2>2 DEF Width, HasDigits
<1>. DEFINE w == Width(n, b)
<1>2. ASSUME NEW p \in 1 .. w
      PROVE  DigitAt(n, b, w - p) \in Glyph
  <2>1. w - p \in Nat
    BY <1>1
  <2>. QED
    BY <2>1, DigitAtIs
<1>3. Forward(n, b) \in [1 .. w -> Glyph]
  BY <1>2 DEF Forward
<1>. HIDE DEF w
<1>4. w \in Nat
  BY <1>1 DEF w
<1>. QED
  BY <1>1, <1>3, <1>4 DEF w

LEMMA NumeralIs ==
  ASSUME NEW b \in 2 .. 16, NEW n \in Nat
  PROVE  Numeral(n, b) = Forward(n, b)
<1>. DEFINE Wide(k) == n < Power(b, k) /\ (k = 1 \/ n >= Power(b, k - 1))
            w == Width(n, b)
            size == CHOOSE k \in 1 .. n + 1 : Wide(k)
<1>0. b \in Nat /\ b >= 2
  OBVIOUS
<1>1. w \in Nat \ {0}
  BY WidthIs
<1>2. Power(b, 0) = 1 /\ Power(b, 1) > 1 /\ Power(b, 1) \in Nat
  <2>1. 1 \in Nat
    OBVIOUS
  <2>. QED
    BY <1>0, <2>1, PowerUnfolds, PowerGrows
<1>3. w \in 1 .. n + 1 /\ Wide(w)
  <2>1. CASE n = 0
    <3>1. w = 1
      BY <2>1 DEF Width
    <3>. QED
      BY <1>2, <2>1, <3>1
  <2>2. CASE n # 0
    <3>1. w = Size(n, b)
      BY <2>2 DEF Width
    <3>2. w <= n /\ HasDigits(n, b, w)
      BY <1>0, <3>1, SizeIs
    <3>3. Power(b, w - 1) <= n /\ n < Power(b, w)
      BY <2>2, <3>2 DEF HasDigits
    <3>4. w - 1 \in Nat
      BY <1>1
    <3>5. Power(b, w - 1) \in Nat
      BY <1>0, <3>4, PowerUnfolds
    <3>. HIDE DEF w
    <3>. QED
      BY <1>1, <3>2, <3>3, <3>5
  <2>. QED
    BY <2>1, <2>2
<1>4. ASSUME NEW k \in 1 .. n + 1, Wide(k)
      PROVE  k = w
  <2>1. CASE n = 0
    BY <2>1 DEF Width
  <2>2. CASE n # 0
    <3>1. k \in Nat /\ k > 0 /\ k - 1 \in Nat
      OBVIOUS
    <3>2. Power(b, k - 1) \in Nat
      BY <1>0, <3>1, PowerUnfolds
    <3>3. Power(b, k - 1) <= n
      <4>1. CASE k = 1
        <5>1. k - 1 = 0
          BY <4>1
        <5>. QED
          BY <1>2, <2>2, <5>1
      <4>2. CASE k # 1
        BY <1>4, <3>2, <4>2
      <4>. QED
        BY <4>1, <4>2
    <3>4. HasDigits(n, b, k)
      BY <1>4, <2>2, <3>1, <3>3 DEF HasDigits
    <3>5. k = Size(n, b)
      BY <1>0, <3>1, <3>4, SizeIs
    <3>. QED
      BY <2>2, <3>5 DEF Width
  <2>. QED
    BY <2>1, <2>2
<1>. HIDE DEF Wide, w
<1>5. size = w
  BY <1>3, <1>4
<1>6. Numeral(n, b) = [p \in 1 .. size |-> DigitAt(n, b, size - p)]
  BY DEF Numeral, DigitAt, Wide
<1>. HIDE DEF size
<1>. QED
  BY <1>5, <1>6 DEF Forward, w

\* The reversal turns a text around, except that of one with a sign the sign and
\* what is last, the first digit, stay where they are.
Turned(text, n) == [p \in 1 .. n |-> text[n - p + 1]]
TurnedBetween(text, n) == [p \in 1 .. n |-> IF p = 1 \/ p = n THEN text[p] ELSE text[n - p + 1]]

LEMMA ReversedIs ==
  ASSUME NEW text, NEW n \in Nat, Len(text) = n
  PROVE  /\ Reversed(text, FALSE) = Turned(text, n)
         /\ n >= 2 => Reversed(text, TRUE) = TurnedBetween(text, n)
<1>. DEFINE Swapped(from, j) == j >= from /\ j < n \div 2
            Result(from) == [p \in 1 .. n |->
                               IF Swapped(from, p - 1) \/ Swapped(from, n - p) THEN text[n - p + 1]
                               ELSE text[p]]
<1>1. Reversed(text, FALSE) = Result(0) /\ Reversed(text, TRUE) = Result(1)
  BY DEF Reversed, Start
<1>2. PICK h \in Nat, m \in 0 .. 1 : h = n \div 2 /\ n = 2 * h + m
  <2>1. n \div 2 \in Nat /\ n % 2 \in 0 .. 1 /\ n = 2 * (n \div 2) + (n % 2)
    OBVIOUS
  <2>. QED
    BY <2>1
<1>3. ASSUME NEW p \in 1 .. n
      PROVE  /\ Swapped(0, p - 1) \/ Swapped(0, n - p) \/ p = n - p + 1
             /\ n >= 2 => /\ p = 1 \/ p = n => ~ (Swapped(1, p - 1) \/ Swapped(1, n - p))
                          /\ p # 1 /\ p # n => \/ Swapped(1, p - 1) \/ Swapped(1, n - p)
                                               \/ p = n - p + 1
  BY <1>2
<1>4. \A p \in 1 .. n : Result(0)[p] = text[n - p + 1]
  <2>. SUFFICES ASSUME NEW p \in 1 .. n
                PROVE  Result(0)[p] = text[n - p + 1]
    OBVIOUS
  <2>1. Result(0)[p] = IF Swapped(0, p - 1) \/ Swapped(0, n - p) THEN text[n - p + 1] ELSE text[p]
    OBVIOUS
  <2>. HIDE DEF Result, Swapped
  <2>2. CASE Swapped(0, p - 1) \/ Swapped(0, n - p)
    BY <2>1, <2>2
  <2>3. CASE ~ (Swapped(0, p - 1) \/ Swapped(0, n - p))
    <3>1. p = n - p + 1
      BY <1>3, <2>3
    <3>2. text[p] = text[n - p + 1]
      BY <3>1
    <3>. QED
      BY <2>1, <2>3, <3>2
  <2>. QED
    BY <2>2, <2>3
<1>5. ASSUME n >= 2
      PROVE  \A p \in 1 .. n : Result(1)[p] = IF p = 1 \/ p = n THEN text[p] ELSE text[n - p + 1]
  <2>. SUFFICES ASSUME NEW p \in 1 .. n
                PROVE  Result(1)[p] = IF p = 1 \/ p = n THEN text[p] ELSE text[n - p + 1]
    OBVIOUS
  <2>1. Result(1)[p] = IF Swapped(1, p - 1) \/ Swapped(1, n - p) THEN text[n - p + 1] ELSE text[p]
    OBVIOUS
  <2>. HIDE DEF Result, Swapped
  <2>2. CASE p = 1 \/ p = n
    BY <1>3, <1>5, <2>1, <2>2
  <2>3. CASE ~ (p = 1 \/ p = n)
    <3>1. Swapped(1, p - 1) \/ Swapped(1, n - p) \/ p = n - p + 1
      BY <1>3, <1>5, <2>3
    <3>2. p = n - p + 1 => text[p] = text[n - p + 1]
      OBVIOUS
    <3>. QED
      BY <2>1, <2>3, <3>1, <3>2
  <2>. QED
    BY <2>2, <2>3
<1>6. \A i \in {0, 1} : Result(i) = [p \in 1 .. n |-> Result(i)[p]]
  OBVIOUS
<1>. HIDE DEF Result, Swapped
<1>7. Result(0) = Turned(text, n)
  BY <1>4, <1>6 DEF Turned
<1>8. n >= 2 => Result(1) = TurnedBetween(text, n)
  BY <1>5, <1>6 DEF TurnedBetween
<1>. QED
  BY <1>1, <1>7, <1>8

\* itoa of a number that is not negative, and of one that is.
LEMMA ItoaForward ==
  ASSUME NEW b \in 2 .. 16, NEW v \in Int, b = 16 \/ v >= 0
  PROVE  itoa(v, b) = Numeral(v % WORDS, b) /\ v % WORDS \in Nat
<1>1. PICK u \in Nat : u = v % WORDS
  BY TextAssumption
<1>. DEFINE neg == v < 0 /\ b # 16
            text == (IF neg THEN <<"-">> ELSE <<>>) \o LastFirst(u, b)
            B == Backward(u, b)
<1>2. ~ neg
  OBVIOUS
<1>3. itoa(v, b) = IF text = <<>> THEN <<"0">> ELSE Reversed(text, neg)
  BY <1>1, <1>2 DEF itoa
<1>4. PICK k \in Nat : k = Size(u, b) /\ HasDigits(u, b, k)
  <2>1. b \in Nat /\ b >= 2
    OBVIOUS
  <2>2. Size(u, b) \in Nat /\ HasDigits(u, b, Size(u, b))
    BY <2>1, SizeIs
  <2>. QED
    BY <2>2
<1>5. B \in Seq(Glyph) /\ Len(B) = k
  BY <1>4, BackwardIsSeq
<1>6. text = B
  <2>1. text = <<>> \o B
    BY <1>2, LastFirstIs
  <2>. HIDE DEF B
  <2>2. <<>> \o B = B
    BY <1>5, ConcatEmptySeq
  <2>. QED
    BY <2>1, <2>2
<1>7. neg = FALSE
  BY <1>2
<1>. HIDE DEF text, neg
<1>8. itoa(v, b) = IF B = <<>> THEN <<"0">> ELSE Reversed(B, FALSE)
  BY <1>3, <1>6, <1>7
<1>9. CASE u = 0
  <2>1. k = 0
    BY <1>4, <1>9 DEF HasDigits
  <2>. HIDE DEF B
  <2>2. B = <<>>
    BY <1>5, <2>1, EmptySeq
  <2>3. Width(u, b) = 1
    BY <1>9 DEF Width
  <2>4. Forward(u, b) = [p \in 1 .. 1 |-> DigitAt(u, b, 1 - p)]
    BY <2>3 DEF Forward
  <2>5. DigitAt(u, b, 0) = "0"
    <3>1. 0 \in Nat /\ u % b = 0
      BY <1>9
    <3>2. DigitAt(u, b, 0) = Digits[(u % b) + 1]
      BY <3>1, DigitAtIs
    <3>3. (u % b) + 1 = 1
      BY <3>1
    <3>. QED
      BY <3>2, <3>3 DEF Digits
  <2>6. \A p \in 1 .. 1 : 1 - p = 0
    OBVIOUS
  <2>7. Forward(u, b) = [p \in 1 .. 1 |-> "0"]
    BY <2>4, <2>5, <2>6
  <2>8. <<"0">> = [p \in 1 .. 1 |-> "0"]
    OBVIOUS
  <2>. QED
    BY <1>1, <1>8, <2>2, <2>7, <2>8, NumeralIs
<1>10. CASE u # 0
  <2>1. k > 0 /\ Width(u, b) = k
    BY <1>4, <1>10 DEF HasDigits, Width
  <2>2. B # <<>>
    <3>. HIDE DEF B
    <3>. QED
      BY <1>5, <2>1
  <2>3. Reversed(B, FALSE) = [p \in 1 .. k |-> B[k - p + 1]]
    <3>. HIDE DEF B
    <3>1. Len(B) = k
      BY <1>5
    <3>2. Reversed(B, FALSE) = Turned(B, k)
      BY <3>1, ReversedIs
    <3>. QED
      BY <3>2 DEF Turned
  <2>4. ASSUME NEW p \in 1 .. k
        PROVE  B[k - p + 1] = DigitAt(u, b, k - p)
    <3>1. k - p + 1 \in 1 .. k /\ (k - p + 1) - 1 = k - p
      OBVIOUS
    <3>2. B[k - p + 1] = DigitAt(u, b, (k - p + 1) - 1)
      BY <1>4, <3>1 DEF Backward
    <3>. QED
      BY <3>1, <3>2
  <2>5. Forward(u, b) = [p \in 1 .. k |-> DigitAt(u, b, k - p)]
    BY <2>1 DEF Forward
  <2>. HIDE DEF B
  <2>6. Reversed(B, FALSE) = Forward(u, b)
    BY <2>3, <2>4, <2>5
  <2>. QED
    BY <1>1, <1>8, <2>2, <2>6, NumeralIs
<1>. QED
  BY <1>9, <1>10

LEMMA ItoaSigned ==
  ASSUME NEW b \in 2 .. 15, NEW m \in Nat \ {0}, m < WORDS
  PROVE  itoa(- m, b) = (<<"-">> \o Tail(Numeral(m, b))) \o <<Head(Numeral(m, b))>>
<1>. DEFINE B == Backward(m, b)
            N == Forward(m, b)
            S == Glyph \cup {"-"}
            text == <<"-">> \o B
<1>0. b \in 2 .. 16 /\ b # 16 /\ m \in Nat
  OBVIOUS
<1>1. m % WORDS = m
  <2>1. WORDS \in Nat \ {0} /\ 0 * WORDS + m = m
    BY TextAssumption
  <2>. QED
    BY <2>1, DivideOnce
<1>2. PICK k \in Nat : k = Size(m, b) /\ k > 0 /\ k = Width(m, b)
  <2>1. Size(m, b) \in Nat /\ HasDigits(m, b, Size(m, b))
    BY <1>0, SizeIs
  <2>. QED
    BY <2>1 DEF HasDigits, Width
<1>3. B \in Seq(Glyph) /\ Len(B) = k /\ N \in Seq(Glyph) /\ Len(N) = k
  BY <1>0, <1>2, BackwardIsSeq, WidthIs
<1>4. \A p \in 1 .. k : B[p] = DigitAt(m, b, p - 1) /\ N[p] = DigitAt(m, b, k - p)
  BY <1>2 DEF Backward, Forward
<1>5. itoa(- m, b) = IF text = <<>> THEN <<"0">> ELSE Reversed(text, TRUE)
  <2>1. - m < 0 /\ - (- m) = m
    OBVIOUS
  <2>2. LastFirst(m, b) = B
    BY <1>0, LastFirstIs
  <2>. HIDE DEF B
  <2>3. (- m < 0 /\ b # 16) = TRUE
    BY <1>0, <2>1
  <2>. QED
    BY <1>1, <2>1, <2>2, <2>3 DEF itoa
<1>. HIDE DEF B, N
<1>6. B \in Seq(S) /\ N \in Seq(S) /\ <<"-">> \in Seq(S)
  BY <1>3
<1>7. /\ text \in Seq(S) /\ Len(text) = 1 + k
      /\ text[1] = "-"
      /\ \A p \in 1 .. k : text[1 + p] = B[p]
  <2>. DEFINE d == <<"-">>
  <2>1. d \in Seq(S) /\ B \in Seq(S) /\ Len(d) = 1 /\ d[1] = "-"
    BY <1>6
  <2>. HIDE DEF d, S
  <2>2. /\ d \o B \in Seq(S) /\ Len(d \o B) = Len(d) + Len(B)
        /\ \A i \in 1 .. Len(d) : (d \o B)[i] = d[i]
        /\ \A i \in 1 .. Len(B) : (d \o B)[Len(d) + i] = B[i]
    <3>1. d \in Seq(S) /\ B \in Seq(S)
      BY <2>1
    <3>. QED
      BY <3>1, ConcatIs
  <2>3. text = d \o B
    BY DEF d
  <2>. HIDE DEF text
  <2>. QED
    BY <1>3, <2>1, <2>2, <2>3
<1>. HIDE DEF text, S
<1>8. itoa(- m, b) = [p \in 1 .. 1 + k |-> IF p = 1 \/ p = 1 + k THEN text[p]
                                         ELSE text[(1 + k) - p + 1]]
  <2>1. text # <<>> /\ 1 + k >= 2 /\ 1 + k \in Nat
    BY <1>2, <1>7
  <2>2. Reversed(text, TRUE) = [p \in 1 .. 1 + k |-> IF p = 1 \/ p = 1 + k THEN text[p]
                                                    ELSE text[(1 + k) - p + 1]]
    <3>1. Len(text) = 1 + k
      BY <1>7
    <3>2. Reversed(text, TRUE) = TurnedBetween(text, 1 + k)
      BY <2>1, <3>1, ReversedIs
    <3>. QED
      BY <3>2 DEF TurnedBetween
  <2>. QED
    BY <1>5, <2>1, <2>2
<1>9. /\ itoa(- m, b)[1] = "-"
      /\ itoa(- m, b)[k + 1] = DigitAt(m, b, k - 1)
      /\ \A p \in 2 .. k : itoa(- m, b)[p] = DigitAt(m, b, k - p)
  <2>1. itoa(- m, b)[1] = "-"
    BY <1>2, <1>7, <1>8
  <2>2. itoa(- m, b)[k + 1] = DigitAt(m, b, k - 1)
    <3>1. k + 1 \in 1 .. 1 + k /\ k + 1 = 1 + k /\ k \in 1 .. k
      BY <1>2
    <3>2. text[1 + k] = DigitAt(m, b, k - 1)
      BY <1>4, <1>7, <3>1
    <3>. QED
      BY <1>8, <3>1, <3>2
  <2>3. ASSUME NEW p \in 2 .. k
        PROVE  itoa(- m, b)[p] = DigitAt(m, b, k - p)
    <3>1. /\ p \in 1 .. 1 + k /\ ~ (p = 1 \/ p = 1 + k)
          /\ (1 + k) - p + 1 = 1 + (k - p + 1) /\ k - p + 1 \in 1 .. k /\ (k - p + 1) - 1 = k - p
      OBVIOUS
    <3>2. itoa(- m, b)[p] = text[(1 + k) - p + 1]
      BY <1>8, <3>1
    <3>3. text[1 + (k - p + 1)] = B[k - p + 1]
      BY <1>7, <3>1
    <3>4. B[k - p + 1] = DigitAt(m, b, (k - p + 1) - 1)
      BY <1>4, <3>1
    <3>. QED
      BY <3>1, <3>2, <3>3, <3>4
  <2>. QED
    BY <2>1, <2>2, <2>3
<1>10. /\ itoa(- m, b) \in Seq(S)
       /\ Len(itoa(- m, b)) = k + 1
  <2>1. ASSUME NEW p \in 1 .. 1 + k
        PROVE  /\ text[p] \in S
               /\ p # 1 => text[(1 + k) - p + 1] \in S
    <3>1. Len(text) = 1 + k /\ text \in Seq(S) /\ (p # 1 => (1 + k) - p + 1 \in 1 .. 1 + k)
      BY <1>7
    <3>. QED
      BY <3>1, ElementOfSeq
  <2>2. itoa(- m, b) \in [1 .. 1 + k -> S]
    BY <1>8, <2>1
  <2>3. 1 + k \in Nat /\ 1 + k = k + 1
    OBVIOUS
  <2>. QED
    BY <2>2, <2>3
<1>. DEFINE h == <<Head(N)>>
            t == Tail(N)
            d == <<"-">>
            w == (d \o t) \o h
<1>11. /\ t \in Seq(S) /\ Len(t) = k - 1 /\ \A p \in 1 .. k - 1 : t[p] = N[p + 1]
       /\ h \in Seq(S) /\ Len(h) = 1 /\ h[1] = N[1]
       /\ d \in Seq(S) /\ Len(d) = 1 /\ d[1] = "-"
  <2>1. Len(N) = k /\ k # 0 /\ N \in Seq(S)
    BY <1>2, <1>3, <1>6
  <2>2. N # <<>>
    BY <2>1
  <2>3. /\ Head(N) = N[1] /\ Head(N) \in S
        /\ Tail(N) \in Seq(S) /\ Len(Tail(N)) = k - 1
        /\ \A p \in 1 .. k - 1 : Tail(N)[p] = N[p + 1]
    BY <2>1, <2>2, HeadTailProperties
  <2>4. "-" \in S
    BY DEF S
  <2>. QED
    BY <2>3, <2>4
<1>. HIDE DEF h, t, d
<1>12. /\ d \o t \in Seq(S) /\ Len(d \o t) = k
       /\ (d \o t)[1] = "-"
       /\ \A p \in 2 .. k : (d \o t)[p] = N[p]
  <2>1. /\ d \o t \in Seq(S) /\ Len(d \o t) = Len(d) + Len(t)
        /\ \A i \in 1 .. Len(d) : (d \o t)[i] = d[i]
        /\ \A i \in 1 .. Len(t) : (d \o t)[Len(d) + i] = t[i]
    <3>1. d \in Seq(S) /\ t \in Seq(S)
      BY <1>11
    <3>. QED
      BY <3>1, ConcatIs
  <2>2. Len(d \o t) = k /\ (d \o t)[1] = "-"
    BY <1>2, <1>11, <2>1
  <2>3. \A i \in 1 .. k - 1 : (d \o t)[1 + i] = N[i + 1]
    BY <1>11, <2>1
  <2>4. ASSUME NEW p \in 2 .. k
        PROVE  (d \o t)[p] = N[p]
    <3>1. p - 1 \in 1 .. k - 1 /\ 1 + (p - 1) = p /\ (p - 1) + 1 = p
      OBVIOUS
    <3>. QED
      BY <2>3, <3>1
  <2>. QED
    BY <2>1, <2>2, <2>4
<1>13. /\ w \in Seq(S) /\ Len(w) = k + 1
       /\ \A p \in 1 .. k : w[p] = (d \o t)[p]
       /\ w[k + 1] = N[1]
  <2>. DEFINE v == d \o t
  <2>. HIDE DEF v
  <2>1. /\ v \o h \in Seq(S) /\ Len(v \o h) = Len(v) + Len(h)
        /\ \A i \in 1 .. Len(v) : (v \o h)[i] = v[i]
        /\ \A i \in 1 .. Len(h) : (v \o h)[Len(v) + i] = h[i]
    <3>1. v \in Seq(S) /\ h \in Seq(S)
      BY <1>11, <1>12 DEF v
    <3>. QED
      BY <3>1, ConcatIs
  <2>2. w = v \o h /\ Len(v) = k
    BY <1>12 DEF v
  <2>3. Len(w) = k + 1 /\ w[k + 1] = N[1]
    BY <1>11, <2>1, <2>2
  <2>. HIDE DEF w
  <2>. QED
    BY <2>1, <2>2, <2>3 DEF v
<1>. HIDE DEF w
<1>14. ASSUME NEW p \in 1 .. k + 1
       PROVE  itoa(- m, b)[p] = w[p]
  <2>1. CASE p = 1
    <3>1. 1 \in 1 .. k
      BY <1>2
    <3>. QED
      BY <1>9, <1>12, <1>13, <2>1, <3>1
  <2>2. CASE p = k + 1
    <3>1. 1 \in 1 .. k
      BY <1>2
    <3>2. N[1] = DigitAt(m, b, k - 1)
      BY <1>4, <3>1
    <3>. QED
      BY <1>9, <1>13, <2>2, <3>2
  <2>3. CASE p # 1 /\ p # k + 1
    <3>1. p \in 2 .. k /\ p \in 1 .. k
      BY <2>3
    <3>2. w[p] = (d \o t)[p] /\ (d \o t)[p] = N[p]
      BY <1>12, <1>13, <3>1
    <3>3. N[p] = DigitAt(m, b, k - p)
      BY <1>4, <3>1
    <3>. QED
      BY <1>9, <2>3, <3>2, <3>3
  <2>. QED
    BY <2>1, <2>2, <2>3
<1>15. itoa(- m, b) = w
  <2>. DEFINE r == itoa(- m, b)
  <2>1. r \in Seq(S) /\ w \in Seq(S) /\ Len(r) = Len(w) /\ \A p \in 1 .. Len(r) : r[p] = w[p]
    BY <1>10, <1>13, <1>14
  <2>. HIDE DEF r
  <2>2. r = w
    BY <2>1, SeqEqual
  <2>. QED
    BY <2>2 DEF r
<1>16. Numeral(m, b) = N
  BY <1>0, NumeralIs DEF N
<1>. QED
  BY <1>15, <1>16 DEF w, d, t, h
-----------------------------------------------------------------------------
(* Text *)

\* The function that Joined defines, and what it begins with.
JoinedFrom(s) == CHOOSE f : f = [n \in 0 .. Len(s) |-> IF n = 0 THEN <<>> ELSE f[n - 1] \o s[n]]

JoinedTo(w, s, n) == /\ w = [k \in 0 .. n |-> w[k]]
                     /\ w[0] = <<>>
                     /\ \A k \in 1 .. n : w[k] = w[k - 1] \o s[k]

LEMMA JoinedToExists ==
  ASSUME NEW s
  PROVE  \A n \in Nat : \E w : JoinedTo(w, s, n)
<1>. DEFINE T == {n \in Nat : \E w : JoinedTo(w, s, n)}
<1>1. 0 \in T
  <2>. DEFINE w == [k \in 0 .. 0 |-> <<>>]
  <2>1. JoinedTo(w, s, 0)
    BY DEF JoinedTo
  <2>. QED
    BY <2>1
<1>2. ASSUME NEW n \in Nat, n \in T
      PROVE  n + 1 \in T
  <2>1. PICK w : JoinedTo(w, s, n)
    BY <1>2
  <2>. DEFINE u == [k \in 0 .. n + 1 |-> IF k = n + 1 THEN w[n] \o s[n + 1] ELSE w[k]]
  <2>2. u = [k \in 0 .. n + 1 |-> u[k]] /\ u[0] = <<>>
    BY <2>1 DEF JoinedTo
  <2>3. ASSUME NEW k \in 1 .. n + 1
        PROVE  u[k] = u[k - 1] \o s[k]
    <3>1. u[k - 1] = w[k - 1]
      OBVIOUS
    <3>2. CASE k = n + 1
      <4>1. k - 1 = n /\ u[k] = w[n] \o s[n + 1]
        BY <3>2
      <4>. HIDE DEF u
      <4>. QED
        BY <3>1, <3>2, <4>1
    <3>3. CASE k \in 1 .. n
      <4>1. u[k] = w[k]
        BY <3>3
      <4>2. w[k] = w[k - 1] \o s[k]
        BY <2>1, <3>3 DEF JoinedTo
      <4>. HIDE DEF u
      <4>. QED
        BY <3>1, <4>1, <4>2
    <3>4. k = n + 1 \/ k \in 1 .. n
      OBVIOUS
    <3>. HIDE DEF u
    <3>. QED
      BY <3>2, <3>3, <3>4, Zenon
  <2>. HIDE DEF u
  <2>4. JoinedTo(u, s, n + 1)
    BY <2>2, <2>3 DEF JoinedTo
  <2>. QED
    BY <2>4
<1>. HIDE DEF T
<1>3. Nat \subseteq T
  BY <1>1, <1>2, AllNumbers
<1>. QED
  BY <1>3 DEF T

LEMMA JoinedUnfolds ==
  ASSUME NEW S, NEW s \in Seq(Seq(S))
  PROVE  /\ Joined(s) = JoinedFrom(s)[Len(s)]
         /\ JoinedFrom(s)[0] = <<>>
         /\ \A n \in 1 .. Len(s) : JoinedFrom(s)[n] = JoinedFrom(s)[n - 1] \o s[n]
         /\ \A n \in 0 .. Len(s) : JoinedFrom(s)[n] \in Seq(S)
<1>. DEFINE z == Len(s)
            f == JoinedFrom(s)
<1>1. z \in Nat
  OBVIOUS
<1>2. PICK w : JoinedTo(w, s, z)
  BY <1>1, JoinedToExists
<1>3. w = [n \in 0 .. z |-> IF n = 0 THEN <<>> ELSE w[n - 1] \o s[n]]
  <2>. HIDE DEF z
  <2>1. \A n \in 0 .. z : n # 0 => w[n] = w[n - 1] \o s[n]
    <3>. SUFFICES ASSUME NEW n \in 0 .. z, n # 0
                  PROVE  w[n] = w[n - 1] \o s[n]
      OBVIOUS
    <3>1. n \in 1 .. z
      BY <1>1
    <3>2. \A k \in 1 .. z : w[k] = w[k - 1] \o s[k]
      BY <1>2 DEF JoinedTo
    <3>. QED
      BY <3>1, <3>2
  <2>2. w = [n \in 0 .. z |-> w[n]] /\ w[0] = <<>>
    BY <1>2 DEF JoinedTo
  <2>. QED
    BY <2>1, <2>2
<1>4. f = [n \in 0 .. z |-> IF n = 0 THEN <<>> ELSE f[n - 1] \o s[n]]
  BY <1>3 DEF JoinedFrom
<1>. HIDE DEF f
<1>5. f[0] = <<>> /\ \A n \in 1 .. z : f[n] = f[n - 1] \o s[n]
  <2>. HIDE DEF z
  <2>1. \A n \in 1 .. z : n \in 0 .. z /\ n # 0
    OBVIOUS
  <2>2. 0 \in 0 .. z
    BY <1>1
  <2>. QED
    BY <1>4, <2>1, <2>2
<1>6. \A n \in 1 .. z : s[n] \in Seq(S)
  OBVIOUS
<1>. HIDE DEF z
<1>7. \A n \in Nat : n <= z => f[n] \in Seq(S)
  <2>. DEFINE T == {n \in Nat : n <= z => f[n] \in Seq(S)}
  <2>1. 0 \in T
    <3>1. f[0] \in Seq(S)
      BY <1>5, EmptySeq
    <3>. QED
      BY <3>1
  <2>2. ASSUME NEW n \in Nat, n \in T
        PROVE  n + 1 \in T
    <3>. SUFFICES ASSUME n + 1 <= z
                  PROVE  f[n + 1] \in Seq(S)
      OBVIOUS
    <3>1. n + 1 \in 1 .. z /\ (n + 1) - 1 = n /\ n <= z
      BY <1>1
    <3>2. f[n + 1] = f[n] \o s[n + 1]
      BY <1>5, <3>1
    <3>3. f[n] \in Seq(S) /\ s[n + 1] \in Seq(S)
      BY <1>6, <2>2, <3>1
    <3>4. f[n] \o s[n + 1] \in Seq(S)
      BY <3>3, ConcatProperties
    <3>. QED
      BY <3>2, <3>4
  <2>. HIDE DEF T
  <2>3. Nat \subseteq T
    BY <2>1, <2>2, AllNumbers
  <2>. QED
    BY <2>3 DEF T
<1>8. Joined(s) = f[Len(s)]
  BY DEF Joined, JoinedFrom, f
<1>9. \A n \in 0 .. z : f[n] \in Seq(S)
  BY <1>1, <1>7
<1>. QED
  BY <1>5, <1>8, <1>9 DEF z, f

\* Where the k-th sequence is in them all.
LEMMA JoinedPiece ==
  ASSUME NEW S, NEW s \in Seq(Seq(S)), NEW k \in 1 .. Len(s)
  PROVE  /\ Len(JoinedFrom(s)[k]) = Len(JoinedFrom(s)[k - 1]) + Len(s[k])
         /\ Len(JoinedFrom(s)[k]) <= Len(Joined(s))
         /\ \A i \in 1 .. Len(s[k]) : Joined(s)[Len(JoinedFrom(s)[k - 1]) + i] = s[k][i]
<1>. DEFINE z == Len(s)
            f == JoinedFrom(s)
            g == s[k]
<1>1. /\ Joined(s) = f[z] /\ \A n \in 1 .. z : f[n] = f[n - 1] \o s[n]
      /\ \A n \in 0 .. z : f[n] \in Seq(S)
  BY JoinedUnfolds
<1>2. z \in Nat /\ k \in 1 .. z /\ \A n \in 1 .. z : s[n] \in Seq(S)
  OBVIOUS
<1>. HIDE DEF z, f
<1>3. /\ g \in Seq(S) /\ f[k - 1] \in Seq(S) /\ f[k] \in Seq(S)
      /\ f[k] = f[k - 1] \o g
  <2>1. k - 1 \in 0 .. z /\ k \in 0 .. z
    BY <1>2
  <2>. QED
    BY <1>1, <1>2, <2>1
<1>. HIDE DEF g
<1>4. /\ Len(f[k]) = Len(f[k - 1]) + Len(g)
      /\ \A i \in 1 .. Len(g) : f[k][Len(f[k - 1]) + i] = g[i]
  <2>1. f[k - 1] \in Seq(S) /\ g \in Seq(S)
    BY <1>3
  <2>2. /\ Len(f[k - 1] \o g) = Len(f[k - 1]) + Len(g)
        /\ \A i \in 1 .. Len(g) : (f[k - 1] \o g)[Len(f[k - 1]) + i] = g[i]
    BY <2>1, ConcatIs
  <2>. QED
    BY <1>3, <2>2
<1>. DEFINE T == {d \in Nat : k + d <= z =>
                     /\ Len(f[k]) <= Len(f[k + d])
                     /\ \A i \in 1 .. Len(f[k]) : f[k + d][i] = f[k][i]}
<1>5. 0 \in T
  <2>1. k + 0 = k /\ Len(f[k]) \in Nat
    BY <1>3
  <2>. QED
    BY <2>1
<1>6. ASSUME NEW d \in Nat, d \in T
      PROVE  d + 1 \in T
  <2>. SUFFICES ASSUME k + (d + 1) <= z
                PROVE  /\ Len(f[k]) <= Len(f[k + (d + 1)])
                       /\ \A i \in 1 .. Len(f[k]) : f[k + (d + 1)][i] = f[k][i]
    OBVIOUS
  <2>1. PICK n \in 1 .. z : n = k + (d + 1) /\ n - 1 = k + d /\ n - 1 \in 0 .. z /\ n - 1 <= z
    BY <1>2
  <2>2. PICK u \in Seq(S), v \in Seq(S) : u = f[n - 1] /\ v = s[n] /\ f[n] = u \o v
    BY <1>1, <1>2, <2>1
  <2>3. /\ Len(u \o v) = Len(u) + Len(v)
        /\ \A i \in 1 .. Len(u) : (u \o v)[i] = u[i]
    BY ConcatIs
  <2>4. Len(f[k]) <= Len(u) /\ \A i \in 1 .. Len(f[k]) : u[i] = f[k][i]
    <3>1. f[k + d] = u /\ k + d <= z
      BY <2>1, <2>2
    <3>. QED
      BY <1>6, <3>1
  <2>5. PICK m \in Nat, l \in Nat, j \in Nat :
          m = Len(f[k]) /\ l = Len(u) /\ j = Len(v) /\ Len(f[n]) = l + j
    <3>1. Len(f[k]) \in Nat
      BY <1>3
    <3>2. Len(u) \in Nat /\ Len(v) \in Nat
      OBVIOUS
    <3>3. Len(f[n]) = Len(u) + Len(v)
      BY <2>2, <2>3
    <3>. QED
      BY <3>1, <3>2, <3>3
  <2>6. m <= Len(f[n])
    BY <2>4, <2>5
  <2>7. ASSUME NEW i \in 1 .. m
        PROVE  f[n][i] = f[k][i]
    <3>1. i \in 1 .. l
      BY <2>4, <2>5
    <3>. QED
      BY <2>2, <2>3, <2>4, <2>5, <3>1
  <2>. QED
    BY <2>1, <2>5, <2>6, <2>7
<1>. HIDE DEF T
<1>7. Nat \subseteq T
  BY <1>5, <1>6, AllNumbers
<1>8. z - k \in Nat /\ z - k \in T /\ k + (z - k) = z
  BY <1>2, <1>7
<1>9. Len(f[k]) <= Len(f[z]) /\ \A i \in 1 .. Len(f[k]) : f[z][i] = f[k][i]
  BY <1>8 DEF T
<1>10. ASSUME NEW i \in 1 .. Len(g)
       PROVE  f[z][Len(f[k - 1]) + i] = g[i]
  <2>1. Len(f[k - 1]) \in Nat /\ Len(g) \in Nat
    BY <1>3
  <2>2. Len(f[k - 1]) + i \in 1 .. Len(f[k])
    BY <1>4, <2>1
  <2>. QED
    BY <1>4, <1>9, <2>2
<1>. QED
  BY <1>1, <1>4, <1>9, <1>10 DEF z, f, g

\* The state after each character of a format: the function that printf defines, and
\* what it begins with.
State(out, args, is_f) == [out |-> out, args |-> args, is_f |-> is_f]

PrintedFrom(format, args) ==
  CHOOSE f : f = [n \in 0 .. Len(format) |-> IF n = 0 THEN [out |-> <<>>, args |-> args, is_f |-> FALSE]
                                             ELSE Printed(f[n - 1], format[n])]

PrintedTo(w, format, args, n) == /\ w = [k \in 0 .. n |-> w[k]]
                                 /\ w[0] = State(<<>>, args, FALSE)
                                 /\ \A k \in 1 .. n : w[k] = Printed(w[k - 1], format[k])

LEMMA PrintedToExists ==
  ASSUME NEW format, NEW args
  PROVE  \A n \in Nat : \E w : PrintedTo(w, format, args, n)
<1>. DEFINE T == {n \in Nat : \E w : PrintedTo(w, format, args, n)}
<1>1. 0 \in T
  <2>. DEFINE w == [k \in 0 .. 0 |-> State(<<>>, args, FALSE)]
  <2>1. PrintedTo(w, format, args, 0)
    BY DEF PrintedTo
  <2>. QED
    BY <2>1
<1>2. ASSUME NEW n \in Nat, n \in T
      PROVE  n + 1 \in T
  <2>1. PICK w : PrintedTo(w, format, args, n)
    BY <1>2
  <2>. DEFINE u == [k \in 0 .. n + 1 |-> IF k = n + 1 THEN Printed(w[n], format[n + 1]) ELSE w[k]]
  <2>2. u = [k \in 0 .. n + 1 |-> u[k]] /\ u[0] = State(<<>>, args, FALSE)
    BY <2>1 DEF PrintedTo
  <2>3. ASSUME NEW k \in 1 .. n + 1
        PROVE  u[k] = Printed(u[k - 1], format[k])
    <3>1. u[k - 1] = w[k - 1]
      OBVIOUS
    <3>2. CASE k = n + 1
      <4>1. k - 1 = n /\ u[k] = Printed(w[n], format[n + 1])
        BY <3>2
      <4>. HIDE DEF u
      <4>. QED
        BY <3>1, <3>2, <4>1
    <3>3. CASE k \in 1 .. n
      <4>1. u[k] = w[k]
        BY <3>3
      <4>2. w[k] = Printed(w[k - 1], format[k])
        BY <2>1, <3>3 DEF PrintedTo
      <4>. HIDE DEF u
      <4>. QED
        BY <3>1, <4>1, <4>2
    <3>4. k = n + 1 \/ k \in 1 .. n
      OBVIOUS
    <3>. HIDE DEF u
    <3>. QED
      BY <3>2, <3>3, <3>4, Zenon
  <2>. HIDE DEF u
  <2>4. PrintedTo(u, format, args, n + 1)
    BY <2>2, <2>3 DEF PrintedTo
  <2>. QED
    BY <2>4
<1>. HIDE DEF T
<1>3. Nat \subseteq T
  BY <1>1, <1>2, AllNumbers
<1>. QED
  BY <1>3 DEF T

LEMMA PrintfUnfolds ==
  ASSUME NEW format, NEW args, Len(format) \in Nat
  PROVE  /\ printf(format, args) = PrintedFrom(format, args)[Len(format)].out
         /\ PrintedFrom(format, args)[0] = State(<<>>, args, FALSE)
         /\ \A n \in 1 .. Len(format) :
              PrintedFrom(format, args)[n] = Printed(PrintedFrom(format, args)[n - 1], format[n])
<1>. DEFINE z == Len(format)
            f == PrintedFrom(format, args)
<1>1. z \in Nat
  OBVIOUS
<1>2. PICK w : PrintedTo(w, format, args, z)
  BY <1>1, PrintedToExists
<1>3. w = [n \in 0 .. z |-> IF n = 0 THEN State(<<>>, args, FALSE) ELSE Printed(w[n - 1], format[n])]
  <2>. HIDE DEF z
  <2>1. \A n \in 0 .. z : n # 0 => w[n] = Printed(w[n - 1], format[n])
    <3>. SUFFICES ASSUME NEW n \in 0 .. z, n # 0
                  PROVE  w[n] = Printed(w[n - 1], format[n])
      OBVIOUS
    <3>1. n \in 1 .. z
      BY <1>1
    <3>2. \A k \in 1 .. z : w[k] = Printed(w[k - 1], format[k])
      BY <1>2 DEF PrintedTo
    <3>. QED
      BY <3>1, <3>2
  <2>2. w = [n \in 0 .. z |-> w[n]] /\ w[0] = State(<<>>, args, FALSE)
    BY <1>2 DEF PrintedTo
  <2>. QED
    BY <2>1, <2>2
<1>4. f = [n \in 0 .. z |-> IF n = 0 THEN State(<<>>, args, FALSE) ELSE Printed(f[n - 1], format[n])]
  BY <1>3 DEF PrintedFrom, State
<1>. HIDE DEF f
<1>5. f[0] = State(<<>>, args, FALSE) /\ \A n \in 1 .. z : f[n] = Printed(f[n - 1], format[n])
  <2>. HIDE DEF z
  <2>1. \A n \in 1 .. z : n \in 0 .. z /\ n # 0
    OBVIOUS
  <2>2. 0 \in 0 .. z
    BY <1>1
  <2>. QED
    BY <1>4, <2>1, <2>2
<1>6. printf(format, args) = f[Len(format)].out
  BY DEF printf, PrintedFrom, f
<1>. QED
  BY <1>5, <1>6 DEF z, f

LEMMA StateChanges ==
  ASSUME NEW out, NEW args, NEW f, NEW g, NEW c
  PROVE  /\ [State(out, args, f) EXCEPT !.out = Append(@, c)] = State(Append(out, c), args, f)
         /\ [State(out, args, f) EXCEPT !.is_f = g] = State(out, args, g)
BY DEF State

\* What one character does.
LEMMA PrintedIs ==
  ASSUME NEW out, NEW args, NEW c
  PROVE  /\ c # "%" => Printed(State(out, args, FALSE), c) = State(Append(out, c), args, FALSE)
         /\ c = "%" => Printed(State(out, args, FALSE), c) = State(out, args, TRUE)
         /\ Printed(State(out, args, TRUE), c) = Directive(State(out, args, TRUE), c)
<1>1. State(out, args, FALSE).is_f = FALSE /\ State(out, args, TRUE).is_f = TRUE
  BY DEF State
<1>2. PICK no, yes : no = FALSE /\ yes = TRUE
  OBVIOUS
<1>3. Printed(State(out, args, no), c) = IF no THEN Directive(State(out, args, no), c)
                                         ELSE IF c = "%" THEN State(out, args, TRUE)
                                         ELSE State(Append(out, c), args, no)
  <2>1. /\ [State(out, args, no) EXCEPT !.out = Append(@, c)] = State(Append(out, c), args, no)
        /\ [State(out, args, no) EXCEPT !.is_f = yes] = State(out, args, yes)
    BY StateChanges
  <2>2. [State(out, args, no) EXCEPT !.is_f = TRUE] = State(out, args, TRUE)
    BY <1>2, <2>1, Zenon
  <2>3. State(out, args, no).is_f = no
    BY DEF State
  <2>. QED
    BY <2>1, <2>2, <2>3, Zenon DEF Printed
<1>. QED
  BY <1>1, <1>2, <1>3, Zenon DEF Printed

\* What is printed, and what a format is made of.
Shown == Char \cup {"%", "-"} \cup Glyph
Sign == Char \cup {"%", "s", "c", "d", "x"}
Value == Char \cup Seq(Char) \cup Int32

LEMMA NumeralShown ==
  ASSUME NEW b \in 2 .. 16, NEW n \in Nat
  PROVE  Numeral(n, b) \in Seq(Glyph) /\ Numeral(n, b) # <<>>
<1>1. PICK w \in Nat \ {0} : w = Len(Forward(n, b)) /\ Forward(n, b) \in Seq(Glyph)
  BY WidthIs
<1>2. Numeral(n, b) = Forward(n, b)
  BY NumeralIs
<1>. QED
  BY <1>1, <1>2

\* The sequences of a smaller set are among those of a larger one.
LEMMA SeqOfMore ==
  ASSUME NEW S, NEW R, NEW s \in Seq(S), S \subseteq R
  PROVE  s \in Seq(R)
OBVIOUS

LEMMA Ints == \A i \in Int32 : i \in Int /\ i < WORDS /\ - i < WORDS
<1>1. PICK w \in Nat \ {0} : w = WORDS
  BY TextAssumption
<1>2. PICK h \in Nat : h = w \div 2 /\ 2 * h <= w
  <2>1. w \div 2 \in Nat /\ 2 * (w \div 2) <= w
    OBVIOUS
  <2>. QED
    BY <2>1
<1>3. Int32 = - h .. h - 1
  BY <1>1, <1>2 DEF Int32
<1>. QED
  BY <1>1, <1>2, <1>3

\* A directive prints what its piece does, and takes its arguments.
LEMMA DirectiveIs ==
  ASSUME NEW p \in Piece, NEW out, NEW args, p.kind # "text",
         ArgsOf(p) # <<>> => Head(args) = p.arg
  PROVE  /\ Directive(State(out, args, TRUE), p.kind) =
              State(out \o Output(p), IF ArgsOf(p) # <<>> THEN Tail(args) ELSE args, FALSE)
         /\ Output(p) \in Seq(Shown)
         /\ p.kind \in Sign
<1>. DEFINE c == p.kind
            takes == c \in {"c", "d", "x", "s"}
<1>1. takes <=> ArgsOf(p) # <<>>
  BY DEF ArgsOf
<1>2. takes => Head(args) = p.arg
  BY <1>1
<1>3. /\ c = "s" => p.arg \in Seq(Char)
      /\ c = "c" => p.arg \in Char
      /\ c = "d" \/ c = "x" => p.arg \in Int32
      /\ c \in Sign
  BY DEF Piece, Sign
<1>4. CASE c = "%"
  <2>1. Output(p) = <<"%">>
    BY <1>4 DEF Output
  <2>2. Output(p) \in Seq(Shown)
    BY <2>1 DEF Shown
  <2>3. Directive(State(out, args, TRUE), c) = State(out \o <<"%">>, args, FALSE)
    BY <1>4 DEF Directive, State
  <2>. QED
    BY <1>1, <1>3, <1>4, <2>1, <2>2, <2>3
<1>5. CASE c = "c"
  <2>1. Output(p) = <<p.arg>> /\ p.arg \in Char
    BY <1>3, <1>5 DEF Output
  <2>2. Output(p) \in Seq(Shown)
    BY <2>1 DEF Shown
  <2>3. Directive(State(out, args, TRUE), c) = State(out \o <<Head(args)>>, Tail(args), FALSE)
    BY <1>5 DEF Directive, State
  <2>4. Head(args) = p.arg /\ ArgsOf(p) # <<>>
    BY <1>1, <1>2, <1>5
  <2>. QED
    BY <1>3, <2>1, <2>2, <2>3, <2>4
<1>6. CASE c = "s"
  <2>1. Output(p) = p.arg /\ p.arg \in Seq(Char)
    BY <1>3, <1>6 DEF Output
  <2>2. Output(p) \in Seq(Shown)
    BY <2>1, SeqOfMore DEF Shown
  <2>3. Directive(State(out, args, TRUE), c) = State(out \o Head(args), Tail(args), FALSE)
    BY <1>6 DEF Directive, State
  <2>4. Head(args) = p.arg /\ ArgsOf(p) # <<>>
    BY <1>1, <1>2, <1>6
  <2>. QED
    BY <1>3, <2>1, <2>2, <2>3, <2>4
<1>7. CASE c = "x"
  <2>0. p.arg \in Int /\ 16 \in 2 .. 16
    BY <1>3, <1>7, Ints
  <2>1. Output(p) = Numeral(p.arg % WORDS, 16)
    BY <1>7 DEF Output
  <2>2. p.arg % WORDS \in Nat /\ itoa(p.arg, 16) = Numeral(p.arg % WORDS, 16)
    BY <2>0, ItoaForward
  <2>3. Output(p) \in Seq(Shown)
    <3>1. Output(p) \in Seq(Glyph) /\ Glyph \subseteq Shown
      BY <2>0, <2>1, <2>2, NumeralShown DEF Shown
    <3>. QED
      BY <3>1, SeqOfMore
  <2>4. Directive(State(out, args, TRUE), c) = State(out \o itoa(Head(args), 16), Tail(args), FALSE)
    BY <1>7 DEF Directive, State
  <2>5. Head(args) = p.arg /\ ArgsOf(p) # <<>>
    BY <1>1, <1>2, <1>7
  <2>. QED
    BY <1>3, <2>1, <2>2, <2>3, <2>4, <2>5
<1>8. CASE c = "d"
  <2>0. PICK i \in Int : i = p.arg /\ i < WORDS /\ - i < WORDS /\ 10 \in 2 .. 16
    BY <1>3, <1>8, Ints
  <2>1. Directive(State(out, args, TRUE), c) = State(out \o itoa(Head(args), 10), Tail(args), FALSE)
    BY <1>8 DEF Directive, State
  <2>2. Head(args) = p.arg /\ ArgsOf(p) # <<>>
    BY <1>1, <1>2, <1>8
  <2>3. CASE i >= 0
    <3>1. Output(p) = Numeral(i, 10)
      BY <1>8, <2>0, <2>3 DEF Output
    <3>2. i % WORDS = i
      <4>1. PICK w \in Nat \ {0} : w = WORDS
        BY TextAssumption
      <4>2. i \in Nat /\ i < w /\ 0 * w + i = i
        BY <2>0, <2>3, <4>1
      <4>3. (0 * w + i) % w = i
        BY <4>2, DivideOnce
      <4>. QED
        BY <4>1, <4>2, <4>3
    <3>3. itoa(i, 10) = Numeral(i, 10) /\ i \in Nat
      BY <2>0, <2>3, <3>2, ItoaForward
    <3>4. Output(p) \in Seq(Shown)
      <4>1. Output(p) \in Seq(Glyph) /\ Glyph \subseteq Shown
        BY <2>0, <3>1, <3>3, NumeralShown DEF Shown
      <4>. QED
        BY <4>1, SeqOfMore
    <3>. QED
      BY <1>3, <2>0, <2>1, <2>2, <3>1, <3>3, <3>4
  <2>4. CASE i < 0
    <3>. DEFINE N == Numeral(- i, 10)
    <3>1. Output(p) = (<<"-">> \o Tail(N)) \o <<Head(N)>>
      <4>1. /\ ~ (p.arg >= 0) /\ p.arg < 0
            /\ - p.arg = - i
        BY <2>0, <2>4
      <4>2. Output(p) = (<<"-">> \o Tail(Numeral(- p.arg, 10))) \o <<Head(Numeral(- p.arg, 10))>>
        BY <1>8, <4>1 DEF Output
      <4>. QED
        BY <4>1, <4>2
    <3>2. PICK m \in Nat \ {0} : m = - i /\ m < WORDS /\ - m = i
      BY <2>0, <2>4
    <3>3. itoa(- m, 10) = (<<"-">> \o Tail(Numeral(m, 10))) \o <<Head(Numeral(m, 10))>>
      <4>1. 10 \in 2 .. 15 /\ m < WORDS
        BY <3>2
      <4>. QED
        BY <4>1, ItoaSigned
    <3>4. N \in Seq(Glyph) /\ N # <<>>
      BY <2>0, <3>2, NumeralShown
    <3>. HIDE DEF N
    <3>5. Output(p) \in Seq(Shown)
      <4>1. Tail(N) \in Seq(Glyph) /\ Head(N) \in Glyph /\ Glyph \subseteq Shown /\ "-" \in Shown
        BY <3>4, HeadTailProperties DEF Shown
      <4>2. Tail(N) \in Seq(Shown)
        BY <4>1, SeqOfMore
      <4>3. <<"-">> \in Seq(Shown) /\ <<Head(N)>> \in Seq(Shown)
        BY <4>1
      <4>4. <<"-">> \o Tail(N) \in Seq(Shown)
        BY <4>2, <4>3, ConcatProperties
      <4>5. (<<"-">> \o Tail(N)) \o <<Head(N)>> \in Seq(Shown)
        BY <4>3, <4>4, ConcatProperties
      <4>. QED
        BY <3>1, <4>5
    <3>6. itoa(i, 10) = Output(p)
      BY <3>1, <3>2, <3>3 DEF N
    <3>. QED
      BY <1>3, <2>0, <2>1, <2>2, <3>5, <3>6
  <2>5. i >= 0 \/ i < 0
    OBVIOUS
  <2>. QED
    BY <2>3, <2>4, <2>5
<1>9. CASE c \notin {"%", "c", "d", "x", "s"}
  <2>1. Output(p) = <<>>
    BY <1>9 DEF Output
  <2>2. Output(p) \in Seq(Shown)
    BY <2>1, EmptySeq
  <2>3. Directive(State(out, args, TRUE), c) = State(out \o <<>>, args, FALSE)
    BY <1>9 DEF Directive, State
  <2>. QED
    BY <1>1, <1>3, <1>9, <2>1, <2>2, <2>3
<1>. QED
  BY <1>4, <1>5, <1>6, <1>7, <1>8, <1>9

\* What a piece contributes to the format, the arguments and the output.
LEMMA PieceIs ==
  ASSUME NEW p \in Piece
  PROVE  /\ FormatOf(p) \in Seq(Sign)
         /\ ArgsOf(p) \in Seq(Value)
         /\ Output(p) \in Seq(Shown)
         /\ p.kind = "text" => p.arg \in Seq(Char \ {"%"}) /\ FormatOf(p) = p.arg /\ Output(p) = p.arg
                                 /\ ArgsOf(p) = <<>>
         /\ p.kind # "text" => FormatOf(p) = <<"%", p.kind>>
         /\ ArgsOf(p) # <<>> => ArgsOf(p) = <<p.arg>>
<1>1. CASE p.kind = "text"
  <2>1. p.arg \in Seq(Char \ {"%"})
    BY <1>1 DEF Piece
  <2>2. FormatOf(p) = p.arg /\ Output(p) = p.arg /\ ArgsOf(p) = <<>>
    BY <1>1 DEF FormatOf, Output, ArgsOf
  <2>3. Char \ {"%"} \subseteq Sign /\ Char \ {"%"} \subseteq Shown
    BY DEF Sign, Shown
  <2>4. p.arg \in Seq(Sign) /\ p.arg \in Seq(Shown)
    BY <2>1, <2>3, SeqOfMore
  <2>5. ArgsOf(p) \in Seq(Value)
    BY <2>2, EmptySeq
  <2>. QED
    BY <1>1, <2>1, <2>2, <2>4, <2>5
<1>2. CASE p.kind # "text"
  <2>1. FormatOf(p) = <<"%", p.kind>>
    BY <1>2 DEF FormatOf
  <2>2. p.kind \in Sign /\ "%" \in Sign
    BY <1>2 DEF Piece, Sign
  <2>3. FormatOf(p) \in Seq(Sign)
    BY <2>1, <2>2
  <2>4. ArgsOf(p) # <<>> => ArgsOf(p) = <<p.arg>> /\ p.kind \in {"c", "d", "x", "s"}
    BY DEF ArgsOf
  <2>5. p.kind \in {"c", "d", "x", "s"} => p.arg \in Value
    BY DEF Piece, Value
  <2>6. ArgsOf(p) \in Seq(Value)
    <3>1. CASE ArgsOf(p) = <<>>
      BY <3>1, EmptySeq
    <3>2. CASE ArgsOf(p) # <<>>
      <4>1. ArgsOf(p) = <<p.arg>> /\ p.arg \in Value
        BY <2>4, <2>5, <3>2
      <4>2. <<p.arg>> \in Seq(Value)
        BY <4>1
      <4>. QED
        BY <4>1, <4>2
    <3>. QED
      BY <3>1, <3>2
  <2>7. Output(p) \in Seq(Shown)
    <3>. DEFINE args == <<p.arg>>
    <3>1. Head(args) = p.arg
      OBVIOUS
    <3>. HIDE DEF args
    <3>. QED
      BY <1>2, <3>1, DirectiveIs
  <2>. QED
    BY <1>2, <2>1, <2>3, <2>4, <2>6, <2>7
<1>. QED
  BY <1>1, <1>2

\* The arguments that are left when m are taken.
Rest(a, m) == [i \in 1 .. Len(a) - m |-> a[m + i]]

LEMMA RestIs ==
  ASSUME NEW S, NEW a \in Seq(S), NEW m \in Nat
  PROVE  /\ m <= Len(a) => Rest(a, m) \in Seq(S)
         /\ m < Len(a) => Head(Rest(a, m)) = a[m + 1] /\ Tail(Rest(a, m)) = Rest(a, m + 1)
         /\ m = 0 => Rest(a, m) = a
<1>1. PICK z \in Nat : z = Len(a) /\ a = [i \in 1 .. z |-> a[i]] /\ \A i \in 1 .. z : a[i] \in S
  OBVIOUS
<1>2. Rest(a, m) = [i \in 1 .. z - m |-> a[m + i]]
  BY <1>1 DEF Rest
<1>3. ASSUME m <= z
      PROVE  Rest(a, m) \in Seq(S) /\ Len(Rest(a, m)) = z - m
  <2>1. PICK n \in Nat : n = z - m
    BY <1>1, <1>3
  <2>2. \A i \in 1 .. n : a[m + i] \in S
    BY <1>1, <1>3, <2>1
  <2>3. Rest(a, m) = [i \in 1 .. n |-> a[m + i]]
    BY <1>2, <2>1
  <2>. QED
    BY <2>1, <2>2, <2>3
<1>4. ASSUME m < z
      PROVE  Head(Rest(a, m)) = a[m + 1] /\ Tail(Rest(a, m)) = Rest(a, m + 1)
  <2>1. PICK n \in Nat : n = z - m /\ n >= 1 /\ n - 1 = z - (m + 1)
    BY <1>1, <1>4
  <2>2. PICK r \in Seq(S) : r = Rest(a, m) /\ Len(r) = n /\ \A i \in 1 .. n : r[i] = a[m + i]
    <3>1. Rest(a, m) \in Seq(S) /\ Len(Rest(a, m)) = n
      BY <1>1, <1>3, <1>4, <2>1
    <3>2. Rest(a, m) = [i \in 1 .. n |-> a[m + i]]
      BY <1>2, <2>1
    <3>3. \A i \in 1 .. n : Rest(a, m)[i] = a[m + i]
      BY <3>2
    <3>. QED
      BY <3>1, <3>3
  <2>3. Head(r) = a[m + 1]
    <3>1. Head(r) = r[1] /\ 1 \in 1 .. n
      BY <2>1
    <3>. QED
      BY <2>2, <3>1
  <2>4. Tail(r) = [i \in 1 .. n - 1 |-> r[i + 1]]
    <3>1. Len(r) = n /\ r # <<>>
      BY <2>1, <2>2
    <3>2. Tail(r) \in Seq(S) /\ Len(Tail(r)) = n - 1 /\ \A i \in 1 .. n - 1 : Tail(r)[i] = r[i + 1]
      BY <3>1, HeadTailProperties
    <3>3. PICK u : u = Tail(r)
      OBVIOUS
    <3>4. u \in Seq(S) /\ Len(u) = n - 1 /\ \A i \in 1 .. n - 1 : u[i] = r[i + 1]
      BY <3>2, <3>3, Zenon
    <3>5. u = [i \in 1 .. Len(u) |-> u[i]]
      BY <3>4
    <3>6. u = [i \in 1 .. n - 1 |-> r[i + 1]]
      BY <3>4, <3>5, Zenon
    <3>. QED
      BY <3>3, <3>6, Zenon
  <2>5. Rest(a, m + 1) = [i \in 1 .. n - 1 |-> a[(m + 1) + i]]
    BY <1>1, <2>1 DEF Rest
  <2>6. ASSUME NEW i \in 1 .. n - 1
        PROVE  r[i + 1] = a[(m + 1) + i]
    <3>1. i + 1 \in 1 .. n /\ m + (i + 1) = (m + 1) + i
      BY <2>1
    <3>. QED
      BY <2>2, <3>1
  <2>. QED
    BY <2>2, <2>3, <2>4, <2>5, <2>6
<1>5. m = 0 => Rest(a, m) = a
  BY <1>1, <1>2
<1>. QED
  BY <1>1, <1>3, <1>4, <1>5

\* The first i elements of t behind o.
Part(o, t, i) == [j \in 1 .. Len(o) + i |-> IF j <= Len(o) THEN o[j] ELSE t[j - Len(o)]]

LEMMA PartIs ==
  ASSUME NEW S, NEW o \in Seq(S), NEW t \in Seq(S), NEW i \in 0 .. Len(t)
  PROVE  /\ Part(o, t, i) \in Seq(S)
         /\ i = 0 => Part(o, t, i) = o
         /\ i = Len(t) => Part(o, t, i) = o \o t
         /\ i < Len(t) => Append(Part(o, t, i), t[i + 1]) = Part(o, t, i + 1)
<1>1. PICK z \in Nat : z = Len(o) /\ o = [j \in 1 .. z |-> o[j]] /\ \A j \in 1 .. z : o[j] \in S
  OBVIOUS
<1>2. PICK l \in Nat : l = Len(t) /\ i \in 0 .. l /\ \A j \in 1 .. l : t[j] \in S
  OBVIOUS
<1>3. Part(o, t, i) = [j \in 1 .. z + i |-> IF j <= z THEN o[j] ELSE t[j - z]]
  BY <1>1 DEF Part
<1>4. Part(o, t, i) \in Seq(S) /\ Len(Part(o, t, i)) = z + i
  <2>1. PICK n \in Nat : n = z + i
    BY <1>1, <1>2
  <2>2. \A j \in 1 .. n : (IF j <= z THEN o[j] ELSE t[j - z]) \in S
    <3>. SUFFICES ASSUME NEW j \in 1 .. n
                  PROVE  (IF j <= z THEN o[j] ELSE t[j - z]) \in S
      OBVIOUS
    <3>1. j <= z => j \in 1 .. z
      BY <1>1
    <3>2. ~ (j <= z) => j - z \in 1 .. l
      BY <1>1, <1>2, <2>1
    <3>. QED
      BY <1>1, <1>2, <3>1, <3>2
  <2>3. Part(o, t, i) = [j \in 1 .. n |-> IF j <= z THEN o[j] ELSE t[j - z]]
    BY <1>3, <2>1
  <2>. QED
    BY <2>1, <2>2, <2>3
<1>5. ASSUME i = 0
      PROVE  Part(o, t, i) = o
  <2>1. Part(o, t, i) = [j \in 1 .. z |-> IF j <= z THEN o[j] ELSE t[j - z]]
    <3>1. z + i = z
      BY <1>1, <1>5
    <3>. QED
      BY <1>3, <3>1
  <2>2. \A j \in 1 .. z : j <= z
    BY <1>1
  <2>. QED
    BY <1>1, <2>1, <2>2
<1>6. ASSUME i = l
      PROVE  Part(o, t, i) = o \o t
  <2>1. o \o t = [j \in 1 .. z + l |-> IF j <= z THEN o[j] ELSE t[j - z]]
    BY <1>1, <1>2
  <2>. QED
    BY <1>3, <1>6, <2>1
<1>7. ASSUME i < l
      PROVE  Append(Part(o, t, i), t[i + 1]) = Part(o, t, i + 1)
  <2>. DEFINE r == Part(o, t, i)
              u == Part(o, t, i + 1)
  <2>1. PICK n \in Nat : n = z + i /\ n + 1 = z + (i + 1) /\ n >= z
    <3>1. i \in Nat /\ z \in Nat
      BY <1>2
    <3>2. z + i \in Nat /\ (z + i) + 1 = z + (i + 1) /\ z + i >= z
      BY <3>1
    <3>. QED
      BY <3>2
  <2>2. r \in Seq(S) /\ Len(r) = n /\ \A j \in 1 .. n : r[j] = IF j <= z THEN o[j] ELSE t[j - z]
    BY <1>3, <1>4, <2>1
  <2>3. u = [j \in 1 .. n + 1 |-> IF j <= z THEN o[j] ELSE t[j - z]]
    BY <1>1, <2>1 DEF Part
  <2>. HIDE DEF r, u
  <2>4. Append(r, t[i + 1]) = [j \in 1 .. n + 1 |-> IF j = n + 1 THEN t[i + 1] ELSE r[j]]
    BY <2>2
  <2>5. ASSUME NEW j \in 1 .. n + 1
        PROVE  (IF j = n + 1 THEN t[i + 1] ELSE r[j]) = IF j <= z THEN o[j] ELSE t[j - z]
    <3>1. CASE j = n + 1
      <4>1. ~ (j <= z) /\ j - z = i + 1
        BY <1>1, <1>2, <2>1, <3>1
      <4>. QED
        BY <3>1, <4>1
    <3>2. CASE j # n + 1
      <4>1. j \in 1 .. n
        BY <3>2
      <4>. QED
        BY <2>2, <3>2, <4>1
    <3>. QED
      BY <3>1, <3>2
  <2>. QED
    BY <2>3, <2>4, <2>5 DEF r, u
<1>. QED
  BY <1>2, <1>4, <1>5, <1>6, <1>7

\* What is in s behind its first m elements.
Contains(s, m, t) == /\ m + Len(t) <= Len(s)
                     /\ \A i \in 1 .. Len(t) : s[m + i] = t[i]

\* After m characters o is printed, the arguments r are left, and no directive is begun.
After(format, args, m, o, r) == PrintedFrom(format, args)[m] = State(o, r, FALSE)

\* Text without a percent sign is printed as it is.
LEMMA TextPrinted ==
  ASSUME NEW format, NEW args, NEW m \in Nat, NEW t \in Seq(Shown), NEW o \in Seq(Shown), NEW r,
         Len(format) \in Nat, Contains(format, m, t), \A i \in 1 .. Len(t) : t[i] # "%",
         After(format, args, m, o, r)
  PROVE  After(format, args, m + Len(t), o \o t, r)
<1>1. PICK l \in Nat : l = Len(t)
  OBVIOUS
<1>2. PICK z \in Nat : z = Len(format)
  OBVIOUS
<1>. DEFINE f == PrintedFrom(format, args)
<1>3. \A n \in 1 .. z : f[n] = Printed(f[n - 1], format[n])
  BY <1>2, PrintfUnfolds
<1>4. f[m] = State(o, r, FALSE)
  BY DEF After
<1>. HIDE DEF f
<1>. DEFINE D(i) == f[m + i] = State(Part(o, t, i), r, FALSE)
            T == {i \in Nat : i <= l => D(i)}
<1>5. 0 \in T
  <2>1. 0 \in 0 .. Len(t)
    BY <1>1
  <2>2. Part(o, t, 0) = o
    BY <2>1, PartIs
  <2>3. m + 0 = m
    OBVIOUS
  <2>4. D(0)
    BY <1>4, <2>2, <2>3
  <2>. HIDE DEF D
  <2>. QED
    BY <2>4
<1>6. ASSUME NEW i \in Nat, i \in T
      PROVE  i + 1 \in T
  <2>. HIDE DEF D
  <2>. SUFFICES ASSUME i + 1 <= l
                PROVE  D(i + 1)
    OBVIOUS
  <2>0. D(i)
    BY <1>1, <1>6
  <2>1. f[m + i] = State(Part(o, t, i), r, FALSE)
    BY <2>0 DEF D
  <2>2. PICK n \in 1 .. z : n = m + (i + 1) /\ n - 1 = m + i
    BY <1>1, <1>2 DEF Contains
  <2>3. format[n] = t[i + 1] /\ t[i + 1] # "%"
    <3>1. i + 1 \in 1 .. Len(t)
      BY <1>1
    <3>. QED
      BY <2>2, <3>1 DEF Contains
  <2>4. Append(Part(o, t, i), t[i + 1]) = Part(o, t, i + 1)
    <3>1. i \in 0 .. Len(t) /\ i < Len(t)
      BY <1>1
    <3>. QED
      BY <3>1, PartIs
  <2>5. f[n] = Printed(State(Part(o, t, i), r, FALSE), t[i + 1])
    BY <1>3, <2>1, <2>2, <2>3
  <2>6. Printed(State(Part(o, t, i), r, FALSE), t[i + 1]) = State(Append(Part(o, t, i), t[i + 1]), r, FALSE)
    BY <2>3, PrintedIs
  <2>7. f[m + (i + 1)] = State(Part(o, t, i + 1), r, FALSE)
    BY <2>2, <2>4, <2>5, <2>6
  <2>. QED
    BY <2>7 DEF D
<1>. HIDE DEF T
<1>7. Nat \subseteq T
  BY <1>5, <1>6, AllNumbers
<1>8. f[m + l] = State(Part(o, t, l), r, FALSE)
  <2>. HIDE DEF D
  <2>1. D(l)
    BY <1>1, <1>7 DEF T
  <2>. QED
    BY <2>1 DEF D
<1>9. Part(o, t, l) = o \o t
  <2>1. Len(t) \in 0 .. Len(t)
    BY <1>1
  <2>2. Part(o, t, Len(t)) = o \o t
    BY SMTT(30), <2>1, PartIs
  <2>. QED
    BY <1>1, <2>2
<1>. QED
  BY <1>1, <1>8, <1>9 DEF f, After

\* A directive is two characters of the format.
LEMMA DirectivePrinted ==
  ASSUME NEW p \in Piece, NEW format, NEW args, NEW m \in Nat, NEW o, NEW r, p.kind # "text",
         Len(format) \in Nat, m + 2 <= Len(format), format[m + 1] = "%", format[m + 2] = p.kind,
         ArgsOf(p) # <<>> => Head(r) = p.arg, After(format, args, m, o, r)
  PROVE  /\ ArgsOf(p) # <<>> => After(format, args, m + 2, o \o Output(p), Tail(r))
         /\ ArgsOf(p) = <<>> => After(format, args, m + 2, o \o Output(p), r)
<1>1. PICK z \in Nat : z = Len(format)
  OBVIOUS
<1>. DEFINE f == PrintedFrom(format, args)
<1>2. \A n \in 1 .. z : f[n] = Printed(f[n - 1], format[n])
  BY <1>1, PrintfUnfolds
<1>3. f[m] = State(o, r, FALSE)
  BY DEF After
<1>. HIDE DEF f
<1>4. /\ m + 1 \in 1 .. z /\ (m + 1) - 1 = m
      /\ m + 2 \in 1 .. z /\ (m + 2) - 1 = m + 1
  BY <1>1
<1>5. f[m + 1] = State(o, r, TRUE)
  <2>1. f[m + 1] = Printed(State(o, r, FALSE), "%")
    BY <1>2, <1>3, <1>4
  <2>. QED
    BY <2>1, PrintedIs
<1>6. f[m + 2] = Printed(State(o, r, TRUE), p.kind)
  BY <1>2, <1>4, <1>5
<1>7. Printed(State(o, r, TRUE), p.kind) = Directive(State(o, r, TRUE), p.kind)
  BY PrintedIs
<1>8. Directive(State(o, r, TRUE), p.kind)
        = State(o \o Output(p), IF ArgsOf(p) # <<>> THEN Tail(r) ELSE r, FALSE)
  BY DirectiveIs
<1>. QED
  BY <1>6, <1>7, <1>8 DEF f, After

\* What the pieces are made of, one by one.
Formats(ps) == [k \in DOMAIN ps |-> FormatOf(ps[k])]
ArgLists(ps) == [k \in DOMAIN ps |-> ArgsOf(ps[k])]
Outputs(ps) == [k \in DOMAIN ps |-> Output(ps[k])]

LEMMA PiecesAre ==
  ASSUME NEW ps \in Seq(Piece)
  PROVE  /\ Formats(ps) \in Seq(Seq(Sign)) /\ Len(Formats(ps)) = Len(ps)
         /\ ArgLists(ps) \in Seq(Seq(Value)) /\ Len(ArgLists(ps)) = Len(ps)
         /\ Outputs(ps) \in Seq(Seq(Shown)) /\ Len(Outputs(ps)) = Len(ps)
         /\ \A k \in 1 .. Len(ps) : /\ Formats(ps)[k] = FormatOf(ps[k])
                                    /\ ArgLists(ps)[k] = ArgsOf(ps[k])
                                    /\ Outputs(ps)[k] = Output(ps[k])
<1>1. PICK z \in Nat : z = Len(ps) /\ DOMAIN ps = 1 .. z /\ \A k \in 1 .. z : ps[k] \in Piece
  OBVIOUS
<1>2. \A k \in 1 .. z : FormatOf(ps[k]) \in Seq(Sign) /\ ArgsOf(ps[k]) \in Seq(Value)
                          /\ Output(ps[k]) \in Seq(Shown)
  BY <1>1, PieceIs
<1>3. /\ Formats(ps) = [k \in 1 .. z |-> FormatOf(ps[k])]
      /\ ArgLists(ps) = [k \in 1 .. z |-> ArgsOf(ps[k])]
      /\ Outputs(ps) = [k \in 1 .. z |-> Output(ps[k])]
  BY <1>1, Zenon DEF Formats, ArgLists, Outputs
<1>4. Formats(ps) \in Seq(Seq(Sign)) /\ Len(Formats(ps)) = z
  BY <1>2, <1>3
<1>5. ArgLists(ps) \in Seq(Seq(Value)) /\ Len(ArgLists(ps)) = z
  BY <1>2, <1>3
<1>6. Outputs(ps) \in Seq(Seq(Shown)) /\ Len(Outputs(ps)) = z
  BY <1>2, <1>3
<1>7. \A k \in 1 .. z : Formats(ps)[k] = FormatOf(ps[k]) /\ ArgLists(ps)[k] = ArgsOf(ps[k])
                          /\ Outputs(ps)[k] = Output(ps[k])
  BY <1>3
<1>. QED
  BY <1>1, <1>4, <1>5, <1>6, <1>7

\* A piece prints its output, and takes its arguments.
LEMMA PiecePrinted ==
  ASSUME NEW p \in Piece, NEW format, NEW a \in Seq(Value), NEW m \in Nat, NEW g \in Nat,
         NEW o \in Seq(Shown), Len(format) \in Nat,
         Contains(format, m, FormatOf(p)), Contains(a, g, ArgsOf(p)),
         After(format, a, m, o, Rest(a, g))
  PROVE  After(format, a, m + Len(FormatOf(p)), o \o Output(p), Rest(a, g + Len(ArgsOf(p))))
<1>0. PICK r : r = Rest(a, g) /\ After(format, a, m, o, r)
  OBVIOUS
<1>1. CASE p.kind = "text"
  <2>1. /\ FormatOf(p) = p.arg /\ Output(p) = p.arg /\ ArgsOf(p) = <<>>
        /\ p.arg \in Seq(Char \ {"%"})
    BY <1>1, PieceIs
  <2>2. PICK t \in Seq(Shown) : t = p.arg /\ \A i \in 1 .. Len(t) : t[i] # "%"
    <3>1. Output(p) \in Seq(Shown)
      BY PieceIs
    <3>2. \A i \in 1 .. Len(p.arg) : p.arg[i] # "%"
      BY <2>1
    <3>. QED
      BY <2>1, <3>1, <3>2
  <2>3. Contains(format, m, t)
    BY <2>1, <2>2
  <2>4. After(format, a, m + Len(t), o \o t, r)
    BY <1>0, <2>2, <2>3, TextPrinted
  <2>5. g + Len(ArgsOf(p)) = g
    BY <2>1
  <2>. QED
    BY <1>0, <2>1, <2>2, <2>4, <2>5
<1>2. CASE p.kind # "text"
  <2>1. FormatOf(p) = <<"%", p.kind>>
    BY <1>2, PieceIs
  <2>2. Len(FormatOf(p)) = 2 /\ FormatOf(p)[1] = "%" /\ FormatOf(p)[2] = p.kind
    BY <2>1
  <2>3. m + 2 <= Len(format) /\ format[m + 1] = "%" /\ format[m + 2] = p.kind
    <3>1. 1 \in 1 .. Len(FormatOf(p)) /\ 2 \in 1 .. Len(FormatOf(p))
      BY <2>2
    <3>. QED
      BY <2>2, <3>1 DEF Contains
  <2>4. CASE ArgsOf(p) = <<>>
    <3>1. g + Len(ArgsOf(p)) = g
      BY <2>4
    <3>2. After(format, a, m + 2, o \o Output(p), r)
      BY <1>0, <1>2, <2>3, <2>4, DirectivePrinted
    <3>. QED
      BY <1>0, <2>2, <3>1, <3>2
  <2>5. CASE ArgsOf(p) # <<>>
    <3>1. ArgsOf(p) = <<p.arg>>
      BY <2>5, PieceIs
    <3>2. Len(ArgsOf(p)) = 1 /\ ArgsOf(p)[1] = p.arg
      BY <3>1
    <3>3. g < Len(a) /\ a[g + 1] = p.arg
      <4>1. 1 \in 1 .. Len(ArgsOf(p)) /\ g + 1 <= Len(a)
        BY <3>2 DEF Contains
      <4>2. a[g + 1] = p.arg
        BY <3>2, <4>1 DEF Contains
      <4>3. Len(a) \in Nat
        OBVIOUS
      <4>. QED
        BY <4>1, <4>2, <4>3
    <3>4. Head(Rest(a, g)) = p.arg /\ Tail(Rest(a, g)) = Rest(a, g + 1)
      <4>1. Head(Rest(a, g)) = a[g + 1] /\ Tail(Rest(a, g)) = Rest(a, g + 1)
        BY <3>3, RestIs
      <4>. QED
        BY <3>3, <4>1, Zenon
    <3>5. After(format, a, m + 2, o \o Output(p), Tail(r))
      <4>1. Head(r) = p.arg
        BY <1>0, <3>4
      <4>. QED
        BY <1>0, <1>2, <2>3, <2>5, <4>1, DirectivePrinted
    <3>. QED
      BY <1>0, <2>2, <3>2, <3>4, <3>5, Zenon
  <2>. QED
    BY <2>4, <2>5
<1>. QED
  BY <1>1, <1>2

LEMMA PiecesPrinted ==
  ASSUME NEW ps \in Seq(Piece)
  PROVE  PrintsPieces(ps)
<1>. DEFINE S1 == Formats(ps)
            S2 == ArgLists(ps)
            S3 == Outputs(ps)
            F == Joined(S1)
            A == Joined(S2)
            x == JoinedFrom(S1)
            y == JoinedFrom(S2)
            w == JoinedFrom(S3)
            f == PrintedFrom(F, A)
<1>1. PICK z \in Nat : z = Len(ps) /\ \A k \in 1 .. z : ps[k] \in Piece
  OBVIOUS
<1>2. /\ S1 \in Seq(Seq(Sign)) /\ Len(S1) = z
      /\ S2 \in Seq(Seq(Value)) /\ Len(S2) = z
      /\ S3 \in Seq(Seq(Shown)) /\ Len(S3) = z
      /\ \A k \in 1 .. z : /\ S1[k] = FormatOf(ps[k])
                           /\ S2[k] = ArgsOf(ps[k])
                           /\ S3[k] = Output(ps[k])
  BY <1>1, PiecesAre
<1>3. PrintsPieces(ps) <=> printf(F, A) = Joined(S3)
  BY DEF PrintsPieces, Formats, ArgLists, Outputs
<1>. HIDE DEF S1, S2, S3
<1>4. /\ F = x[z] /\ x[0] = <<>>
      /\ \A k \in 0 .. z : x[k] \in Seq(Sign)
  BY <1>2, JoinedUnfolds
<1>5. /\ A = y[z] /\ y[0] = <<>>
      /\ \A k \in 0 .. z : y[k] \in Seq(Value)
  BY <1>2, JoinedUnfolds
<1>6. /\ Joined(S3) = w[z] /\ w[0] = <<>>
      /\ \A k \in 0 .. z : w[k] \in Seq(Shown)
      /\ \A k \in 1 .. z : w[k] = w[k - 1] \o S3[k]
  BY <1>2, JoinedUnfolds
<1>7. ASSUME NEW k \in 1 .. z
      PROVE  /\ Len(x[k]) = Len(x[k - 1]) + Len(S1[k])
             /\ Len(x[k]) <= Len(F)
             /\ \A i \in 1 .. Len(S1[k]) : F[Len(x[k - 1]) + i] = S1[k][i]
  <2>1. S1 \in Seq(Seq(Sign)) /\ k \in 1 .. Len(S1)
    BY <1>2
  <2>. QED
    BY <2>1, JoinedPiece
<1>8. ASSUME NEW k \in 1 .. z
      PROVE  /\ Len(y[k]) = Len(y[k - 1]) + Len(S2[k])
             /\ Len(y[k]) <= Len(A)
             /\ \A i \in 1 .. Len(S2[k]) : A[Len(y[k - 1]) + i] = S2[k][i]
  <2>1. S2 \in Seq(Seq(Value)) /\ k \in 1 .. Len(S2)
    BY <1>2
  <2>. QED
    BY <2>1, JoinedPiece
<1>9. F \in Seq(Sign) /\ A \in Seq(Value)
  BY <1>1, <1>4, <1>5
<1>. HIDE DEF x, y, w, F, A
<1>10. Len(F) \in Nat
  BY <1>9
<1>11. printf(F, A) = f[Len(F)].out /\ f[0] = State(<<>>, A, FALSE)
  BY <1>10, PrintfUnfolds
<1>. HIDE DEF f
<1>. DEFINE D(k) == After(F, A, Len(x[k]), w[k], Rest(A, Len(y[k])))
            T == {k \in Nat : k <= z => D(k)}
<1>12. D(0)
  <2>1. Len(x[0]) = 0 /\ Len(y[0]) = 0
    BY <1>4, <1>5
  <2>2. Rest(A, 0) = A
    BY <1>9, RestIs
  <2>. QED
    BY <1>6, <1>11, <2>1, <2>2 DEF After, f
<1>13. ASSUME NEW k \in 1 .. z, D(k - 1)
       PROVE  D(k)
  <2>. DEFINE p == ps[k]
              m == Len(x[k - 1])
              g == Len(y[k - 1])
              o == w[k - 1]
  <2>1. p \in Piece /\ S1[k] = FormatOf(p) /\ S2[k] = ArgsOf(p) /\ S3[k] = Output(p)
    BY <1>1, <1>2
  <2>2. k - 1 \in 0 .. z /\ k \in 0 .. z
    BY <1>1
  <2>3. m \in Nat /\ g \in Nat /\ o \in Seq(Shown)
    BY <1>4, <1>5, <1>6, <2>2
  <2>4. After(F, A, m, o, Rest(A, g))
    BY <1>13
  <2>. HIDE DEF p, D
  <2>5. /\ Len(x[k]) = m + Len(FormatOf(p)) /\ m + Len(FormatOf(p)) <= Len(F)
        /\ \A i \in 1 .. Len(FormatOf(p)) : F[m + i] = FormatOf(p)[i]
    BY <1>7, <2>1
  <2>6. /\ Len(y[k]) = g + Len(ArgsOf(p)) /\ g + Len(ArgsOf(p)) <= Len(A)
        /\ \A i \in 1 .. Len(ArgsOf(p)) : A[g + i] = ArgsOf(p)[i]
    BY <1>8, <2>1
  <2>7. w[k] = o \o Output(p)
    BY <1>6, <2>1
  <2>. HIDE DEF m, g, o
  <2>8. After(F, A, m + Len(FormatOf(p)), o \o Output(p), Rest(A, g + Len(ArgsOf(p))))
    <3>1. /\ p \in Piece /\ m \in Nat /\ g \in Nat /\ o \in Seq(Shown)
          /\ A \in Seq(Value) /\ Len(F) \in Nat
      BY <1>9, <1>10, <2>1, <2>3
    <3>2. Contains(F, m, FormatOf(p)) /\ Contains(A, g, ArgsOf(p))
      BY <2>5, <2>6 DEF Contains
    <3>. QED
      BY <2>4, <3>1, <3>2, PiecePrinted
  <2>. QED
    BY <2>5, <2>6, <2>7, <2>8 DEF D
<1>. HIDE DEF D
<1>14. ASSUME NEW k \in Nat, k \in T
       PROVE  k + 1 \in T
  <2>. SUFFICES ASSUME k + 1 <= z
                PROVE  D(k + 1)
    OBVIOUS
  <2>1. D(k) /\ k + 1 \in 1 .. z /\ (k + 1) - 1 = k
    BY <1>1, <1>14
  <2>. QED
    BY <1>13, <2>1
<1>15. 0 \in T
  BY <1>12
<1>. HIDE DEF T
<1>16. Nat \subseteq T
  BY <1>14, <1>15, AllNumbers
<1>17. D(z)
  BY <1>1, <1>16 DEF T
<1>18. f[Len(F)].out = w[z]
  BY <1>4, <1>17 DEF D, After, State, f
<1>. QED
  BY <1>3, <1>6, <1>11, <1>18

\* printf prints each piece of its format as it would print it alone, numbers in their
\* usual notation but for the first digit of a negative decimal one (printf, itoa): for
\* formats of any length, numbers of any width and any arguments.
THEOREM LibraryTextExact == LibrarySpec => []TextExact
<1>1. ASSUME job \in Jobs, job.fn = "printf"
      PROVE  PrintsPieces(job.pieces)
  <2>1. job.pieces \in Seq(Piece)
    BY <1>1, LibraryAssumption DEF Calls
  <2>. QED
    BY <2>1, PiecesPrinted
<1>2. job \in Jobs => TextExact
  BY <1>1 DEF TextExact
<1>. QED
  BY <1>2, JobStays, PTL
=============================================================================
