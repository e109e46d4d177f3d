------------------------ MODULE AddressSpacesProofs ------------------------
(***************************************************************************)
(* Every step of AddressSpaces keeps its inductive invariant.  Most steps  *)
(* are one call of map_page with a frame that was not given before, with   *)
(* something that is no frame, or with the frame of the kernel's heap;     *)
(* what such a call does to the tables is shown once.                      *)
(***************************************************************************)
EXTENDS AddressSpaces, TLAPS

USE DEF NULL, UNMAPPED, JUNK
-----------------------------------------------------------------------------
\* Frames are the numbers from ENTRIES on.
LEMMA FrameRange ==
  ASSUME frames \in Memories
  PROVE  /\ frames \in Nat \ {0}
         /\ Frame = ENTRIES .. ENTRIES + frames - 1
<1>1. frames \in Nat \ {0} /\ ENTRIES \in Nat \ {0}
  BY AddressAssumption
<1>2. ASSUME NEW f \in ENTRIES .. ENTRIES + frames - 1
      PROVE  f \in Frame
  <2>1. f - ENTRIES \in 0 .. frames - 1 /\ f = Address(f - ENTRIES)
    BY <1>1 DEF Address
  <2>. QED
    BY <2>1 DEF Frame
<1>3. Frame \subseteq ENTRIES .. ENTRIES + frames - 1
  BY <1>1 DEF Frame, Address
<1>. QED
  BY <1>1, <1>2, <1>3

\* What alloc_page returns when there is a frame left, and when there is none.
LEMMA Allocates ==
  ASSUME TypeOK
  PROVE  /\ IsLeft(given) => /\ alloc_page = Address(given) /\ alloc_page \in Frame
                             /\ After = given + 1 /\ given < frames
         /\ ~ IsLeft(given) => alloc_page = NULL /\ After = given /\ given = frames
         /\ given \in 0 .. frames /\ frames \in Nat \ {0}
<1>1. given \in 0 .. frames /\ frames \in Nat \ {0}
  BY FrameRange DEF TypeOK
<1>2. ASSUME given < frames PROVE Address(given) \in Frame
  <2>1. given \in 0 .. frames - 1
    BY <1>1, <1>2
  <2>. QED
    BY <2>1 DEF Frame
<1>. QED
  BY <1>1, <1>2 DEF IsLeft, alloc_page, After

\* The addresses are numbers, and no page outside Low is in the table of Low.
LEMMA Layout ==
  /\ ENTRIES \in Nat \ {0}
  /\ PAGE_SIZE \in Nat \ {0}
  /\ {FB_BASE, HEAP_BASE, STACK, WINDOW, FB_PAGES, HEAP_PAGES, TASK_HEAP} \subseteq Nat
  /\ FB_PAGES > 0 /\ TASK_HEAP > 0 /\ TASK_HEAP <= HEAP_PAGES
  /\ Low = 0 .. ENTRIES - 1
  /\ Framebuffer = FB_BASE .. FB_BASE + FB_PAGES - 1
  /\ Heap = HEAP_BASE .. HEAP_BASE + HEAP_PAGES - 1
  /\ Page \subseteq Nat
  /\ Low \subseteq Page /\ Framebuffer \subseteq Page /\ Heap \subseteq Page
  /\ UserPages \subseteq Page /\ STACK \in Page /\ WINDOW \in Page
<1>1. /\ ENTRIES \in Nat \ {0} /\ PAGE_SIZE \in Nat \ {0}
      /\ FB_BASE \in Nat /\ HEAP_BASE \in Nat /\ STACK \in Nat /\ WINDOW \in Nat
      /\ FB_PAGES \in Nat \ {0} /\ HEAP_PAGES \in Nat \ {0}
      /\ TASK_HEAP \in 1 .. HEAP_PAGES /\ UserPages \subseteq Nat
  BY AddressAssumption
<1>2. /\ Low = 0 .. ENTRIES - 1
      /\ Framebuffer = FB_BASE .. FB_BASE + FB_PAGES - 1
      /\ Heap = HEAP_BASE .. HEAP_BASE + HEAP_PAGES - 1
  BY DEF Low, Framebuffer, Heap
<1>3. Low \subseteq Nat /\ Framebuffer \subseteq Nat /\ Heap \subseteq Nat
  BY <1>1, <1>2
<1>4. Page \subseteq Nat
  BY <1>1, <1>3 DEF Page
<1>. QED
  BY <1>1, <1>2, <1>4 DEF Page

\* No two regions meet.
LEMMA Regions ==
  /\ \A v \in Framebuffer : v \notin Low /\ v \notin Heap /\ v \notin UserPages /\ v # STACK /\ v # WINDOW
  /\ \A v \in Heap : v \notin Low /\ v \notin UserPages /\ v # STACK /\ v # WINDOW
  /\ \A v \in UserPages : v \notin Low /\ v # STACK /\ v # WINDOW
  /\ STACK # WINDOW /\ STACK \notin Low /\ WINDOW \notin Low
BY LayoutAssumption

\* The table of the stack is nobody else's.
LEMMA Tables ==
  /\ \A v \in Page : TableOf(v) \in Table
  /\ 0 \in Table
  /\ \A v \in Page \ {STACK} : TableOf(v) # TableOf(STACK)
  /\ TableOf(STACK) # 0
<1>1. 0 \in Page \ {STACK} /\ TableOf(0) = 0
  BY Layout, Regions DEF TableOf
<1>2. \A v \in Page \ {STACK} : TableOf(v) # TableOf(STACK)
  BY LayoutAssumption
<1>. QED
  BY <1>1, <1>2 DEF Table

\* A number and another one that is larger by d or more are in different
\* multiples of d.
LEMMA DivStep ==
  ASSUME NEW d \in Nat \ {0}, NEW a \in Nat, NEW b \in Nat, a + d <= b
  PROVE  a \div d \in Nat /\ b \div d \in Nat /\ a \div d + 1 <= b \div d
<1>. DEFINE q == a \div d
            k == b \div d
<1>1. q \in Nat /\ k \in Nat /\ a >= q * d /\ b < k * d + d
  OBVIOUS
<1>. HIDE DEF q, k
<1>2. SUFFICES ASSUME k <= q
               PROVE  FALSE
  BY <1>1 DEF q, k
<1>3. k * d <= q * d
  BY <1>1, <1>2
<1>. QED
  BY <1>1, <1>3

\* The pages of a header.
LEMMA HeaderPages ==
  ASSUME NEW h \in Segment, h.p_offset + h.p_memsz > 0, h.p_filesz <= h.p_memsz
  PROVE  /\ h.page \in Nat
         /\ PagesOf(h) \in Nat \ {0}
<1>1. PAGE_SIZE \in Nat \ {0} /\ h.page \in Nat
  BY Layout DEF Segment
<1>2. h.p_offset \in Nat /\ h.p_filesz \in Nat /\ h.p_memsz \in Nat
  BY <1>1 DEF Segment
<1>. DEFINE b == h.p_offset + h.p_memsz + PAGE_SIZE - 1
<1>3. b \in Nat /\ 0 + PAGE_SIZE <= b /\ PagesOf(h) = b \div PAGE_SIZE
  BY <1>1, <1>2 DEF PagesOf
<1>4. PagesOf(h) \in Nat \ {0}
  <2>. HIDE DEF b
  <2>1. 0 \div PAGE_SIZE \in Nat /\ b \div PAGE_SIZE \in Nat /\ 0 \div PAGE_SIZE + 1 <= b \div PAGE_SIZE
    BY <1>1, <1>3, DivStep
  <2>. QED
    BY <2>1, <1>3
<1>. QED
  BY <1>1, <1>4

\* What is known of every header that is loaded.
LEMMA SegmentFacts ==
  ASSUME program \in Programs, NEW n \in DOMAIN program, program[n].kind = "load"
  PROVE  /\ program[n] \in Segment
         /\ PagesOf(program[n]) \in Nat \ {0}
         /\ program[n].page \in Nat
         /\ PagesIn(program[n]) \subseteq UserPages
         /\ program[n].page + PagesOf(program[n]) \notin Page \ UserPages
         /\ \A m \in 1 .. n - 1 : program[m].kind = "load" =>
              program[m].page + PagesOf(program[m]) <= program[n].page
<1>1. /\ program \in Seq(Segment)
      /\ program[n].p_offset + program[n].p_memsz > 0
      /\ program[n].p_filesz <= program[n].p_memsz
      /\ PagesIn(program[n]) \subseteq UserPages
      /\ program[n].page + PagesOf(program[n]) \notin Page \ UserPages
      /\ \A m \in 1 .. n - 1 : program[m].kind = "load" =>
           program[m].page + PagesOf(program[m]) <= program[n].page
  BY ProgramAssumption
<1>2. program[n] \in Segment
  BY <1>1
<1>. QED
  BY <1>1, <1>2, HeaderPages
-----------------------------------------------------------------------------
\* The contents of a page, byte by byte.
LEMMA BlankTyped == Blank \in Content
BY DEF Blank, Content

LEMMA StackPageTyped == StackPage \in Content
<1>1. STACK \in Nat /\ PAGE_SIZE \in Nat
  BY Layout
<1>2. ASSUME NEW o \in Offset PROVE STACK * PAGE_SIZE + o \in Nat
  BY <1>1 DEF Offset
<1>. QED
  BY <1>2 DEF StackPage, Content

LEMMA LoadedTyped ==
  ASSUME NEW h, NEW v \in Nat
  PROVE  Loaded(h, v) \in Content
<1>1. PAGE_SIZE \in Nat
  BY Layout
<1>2. ASSUME NEW o \in Offset PROVE v * PAGE_SIZE + o \in Nat
  BY <1>1 DEF Offset
<1>. QED
  BY <1>2 DEF Loaded, Content

\* A page that nobody has written to is loaded by fread or memset.
LEMMA WrittenIsLoaded ==
  ASSUME NEW h \in Segment, NEW v
  PROVE  Written(h, v, Blank) = Loaded(h, v)
<1>1. h.p_filesz = 0 => FileBytes(h) = {}
  <2>1. h.page \in Page /\ h.p_offset \in 0 .. PAGE_SIZE - 1 /\ PAGE_SIZE \in Nat \ {0}
    BY Layout DEF Segment
  <2>4. h.page \in Nat
    BY <2>1, Layout
  <2>3. h.page \in Nat /\ h.p_offset \in Nat
    BY <2>1, <2>4
  <2>2. p_vaddr(h) \in Nat
    BY <2>1, <2>3 DEF p_vaddr
  <2>. QED
    BY <2>2 DEF FileBytes
<1>2. ASSUME NEW o \in Offset
      PROVE  Blank[o] = JUNK
  BY DEF Blank
<1>3. ASSUME NEW o \in Offset, NEW a
      PROVE  (IF a \in FileBytes(h) THEN a ELSE IF a \in ZeroedBytes(h) THEN ZERO ELSE Blank[o])
             = (CASE a \in FileBytes(h) -> a
                  [] h.p_filesz = 0 /\ a \in Bytes(h) -> ZERO
                  [] OTHER -> JUNK)
  <2>1. CASE a \in FileBytes(h)
    BY <2>1, <1>1
  <2>2. CASE a \notin FileBytes(h)
    BY <2>2, <1>2 DEF ZeroedBytes
  <2>. QED
    BY <2>1, <2>2
<1>. QED
  BY <1>3 DEF Written, Loaded
-----------------------------------------------------------------------------
\* What map_page does to the tables.
LEMMA MapEffect ==
  ASSUME TypeOK, NEW s \in Space, NEW v \in Page, NEW phys, NEW n, map_page(s, phys, v, n)
  PROVE  /\ pt'[s][v] = phys
         /\ \A r \in Space, w \in Page : r # s \/ w # v => pt'[r][w] = pt[r][w]
         /\ \A r \in Space, t \in Table : r # s \/ t # TableOf(v) => pd'[r][t] = pd[r][t]
         /\ pd[s][TableOf(v)] # NULL => pd'[s][TableOf(v)] = pd[s][TableOf(v)] /\ given' = n
         /\ pd[s][TableOf(v)] = NULL => pd'[s][TableOf(v)] = Address(n) /\ given' = n + 1
         /\ pt' = [pt EXCEPT ![s][v] = phys]
         /\ pd' = [pd EXCEPT ![s][TableOf(v)] = pd'[s][TableOf(v)]]
<1>1. pt \in [Space -> [Page -> Frame \cup {NULL, UNMAPPED} \cup Low \cup Framebuffer]]
      /\ pd \in [Space -> [Table -> Frame \cup {NULL}]]
      /\ TableOf(v) \in Table
  BY Tables DEF TypeOK
<1>2. pt' = [pt EXCEPT ![s][v] = phys]
  BY DEF map_page
<1>3. /\ pt'[s][v] = phys
      /\ \A r \in Space, w \in Page : r # s \/ w # v => pt'[r][w] = pt[r][w]
  BY <1>1, <1>2
<1>4. CASE pd[s][TableOf(v)] # NULL
  BY <1>1, <1>2, <1>3, <1>4 DEF map_page, HasTable
<1>5. CASE pd[s][TableOf(v)] = NULL
  <2>1. pd' = [pd EXCEPT ![s][TableOf(v)] = Address(n)] /\ given' = n + 1
    BY <1>5 DEF map_page, HasTable, TableFrame
  <2>. QED
    BY <1>1, <1>2, <1>3, <1>5, <2>1
<1>. QED
  BY <1>4, <1>5

\* FramesApart and the last part of LoadOutcome, page by page.
PagesApart == \A r, q \in Space, w, u \in Page \ {WINDOW} :
                pt[r][w] = pt[q][u] /\ pt[r][w] \in Frame => w = u /\ (r = q \/ w \in Heap)

TablesApart == \A s \in Space, t \in Table : pd[s][t] # NULL =>
                 /\ \A r \in Space, w \in Page \ {WINDOW} : pt[r][w] # pd[s][t]
                 /\ \A r \in Space, u \in Table : pd[r][u] = pd[s][t] => r = s /\ u = t
                 /\ dir # pd[s][t]

DirectoryApart == dir # NULL => \A r \in Space, w \in Page \ {WINDOW} : pt[r][w] # dir

LEMMA ApartByPage == FramesApart <=> PagesApart /\ TablesApart /\ DirectoryApart
<1>1. \A r \in Space, w \in Page \ {WINDOW} : <<r, w>> \in Places
  BY DEF Places
<1>2. \A x \in Places : x[1] \in Space /\ x[2] \in Page \ {WINDOW} /\ x = <<x[1], x[2]>>
  BY DEF Places
<1>3. ASSUME FramesApart PROVE PagesApart
  <2>. SUFFICES ASSUME NEW r \in Space, NEW q \in Space,
                       NEW w \in Page \ {WINDOW}, NEW u \in Page \ {WINDOW},
                       pt[r][w] = pt[q][u] /\ pt[r][w] \in Frame
                PROVE  w = u /\ (r = q \/ w \in Heap)
    BY DEF PagesApart
  <2>1. <<r, w>> \in Places /\ <<q, u>> \in Places
    BY <1>1
  <2>2. <<r, w>> = <<q, u>> \/ (w = u /\ w \in Heap)
    BY <2>1, <1>3 DEF FramesApart
  <2>. QED
    BY <2>2
<1>4. ASSUME FramesApart PROVE TablesApart
  <2>. SUFFICES ASSUME NEW s \in Space, NEW t \in Table, pd[s][t] # NULL
                PROVE  /\ \A r \in Space, w \in Page \ {WINDOW} : pt[r][w] # pd[s][t]
                       /\ \A r \in Space, u \in Table : pd[r][u] = pd[s][t] => r = s /\ u = t
                       /\ dir # pd[s][t]
    BY DEF TablesApart
  <2>1. /\ \A x \in Places : pt[x[1]][x[2]] # pd[s][t]
        /\ \A r \in Space, u \in Table : pd[r][u] = pd[s][t] => r = s /\ u = t
        /\ dir # pd[s][t]
    BY <1>4 DEF FramesApart
  <2>2. ASSUME NEW r \in Space, NEW w \in Page \ {WINDOW} PROVE pt[r][w] # pd[s][t]
    <3>1. pt[<<r, w>>[1]][<<r, w>>[2]] # pd[s][t]
      BY <2>1, <1>1
    <3>. QED
      BY <3>1
  <2>. QED
    BY <2>1, <2>2
<1>6. ASSUME FramesApart PROVE DirectoryApart
  <2>. SUFFICES ASSUME dir # NULL, NEW r \in Space, NEW w \in Page \ {WINDOW}
                PROVE  pt[r][w] # dir
    BY DEF DirectoryApart
  <2>1. <<r, w>> \in Places
    BY <1>1
  <2>2. pt[<<r, w>>[1]][<<r, w>>[2]] # dir
    BY <1>6, <2>1 DEF FramesApart
  <2>. QED
    BY <2>2
<1>5. ASSUME PagesApart, TablesApart, DirectoryApart PROVE FramesApart
  <2>1. ASSUME NEW x \in Places, NEW y \in Places,
               pt[x[1]][x[2]] = pt[y[1]][y[2]], pt[x[1]][x[2]] \in Frame
        PROVE  x = y \/ (x[2] = y[2] /\ x[2] \in Heap)
    BY <1>2, <1>5, <2>1 DEF PagesApart
  <2>2. ASSUME NEW s \in Space, NEW t \in Table, pd[s][t] # NULL
        PROVE  /\ \A x \in Places : pt[x[1]][x[2]] # pd[s][t]
               /\ \A r \in Space, u \in Table : pd[r][u] = pd[s][t] => r = s /\ u = t
               /\ dir # pd[s][t]
    BY <1>2, <1>5, <2>2 DEF TablesApart
  <2>3. dir # NULL => \A x \in Places : pt[x[1]][x[2]] # dir
    BY <1>2, <1>5 DEF DirectoryApart
  <2>. QED
    BY <2>1, <2>2, <2>3 DEF FramesApart
<1>. QED
  BY <1>3, <1>4, <1>5, <1>6

LEMMA ApartNext == PagesApart' /\ TablesApart' /\ DirectoryApart' => FramesApart'
BY ApartByPage, PTL

\* A call of map_page with a fresh frame, with what is no frame, or with the
\* kernel's frame for a page of the heap.
MapsSafely(s, phys, v, n) ==
  /\ map_page(s, phys, v, n)
  /\ CanMap(s, v, n)
  /\ n <= frames
  /\ \/ phys = Address(given) /\ n = given + 1
     \/ phys \in {NULL, UNMAPPED} \cup Low \cup Framebuffer /\ n = given
     \/ s = "task" /\ v \in Heap /\ phys = pt["kernel"][v] /\ n = given
  /\ dir' # dir => dir' = phys /\ v = WINDOW /\ phys = Address(given) /\ n = given + 1

LEMMA MapType ==
  ASSUME TypeOK, UNCHANGED frames, NEW s \in Space, NEW v \in Page, NEW phys, NEW n,
         MapsSafely(s, phys, v, n)
  PROVE  /\ given \in Nat /\ n \in Nat /\ given <= n /\ n <= given'
         /\ given' \in 0 .. frames
         /\ Frame' = Frame
         /\ phys \in Frame \cup {NULL, UNMAPPED} \cup Low \cup Framebuffer
         /\ pd' \in [Space -> [Table -> Frame \cup {NULL}]]
         /\ pt' \in [Space -> [Page -> Frame \cup {NULL, UNMAPPED} \cup Low \cup Framebuffer]]
         /\ dir' \in Frame \cup {NULL}
<1>1. /\ given \in 0 .. frames /\ frames \in Nat \ {0}
      /\ Frame = ENTRIES .. ENTRIES + frames - 1
      /\ ENTRIES \in Nat \ {0}
  BY FrameRange, Layout DEF TypeOK
<1>2. pt \in [Space -> [Page -> Frame \cup {NULL, UNMAPPED} \cup Low \cup Framebuffer]]
      /\ pd \in [Space -> [Table -> Frame \cup {NULL}]]
      /\ dir \in Frame \cup {NULL}
      /\ TableOf(v) \in Table
  BY Tables DEF TypeOK
<1>3. n \in Nat /\ given <= n /\ n <= frames
  BY <1>1 DEF MapsSafely
<1>4. n < frames \/ pd[s][TableOf(v)] # NULL
  BY DEF MapsSafely, CanMap, HasTable, IsLeft
<1>5. /\ pd[s][TableOf(v)] # NULL => pd'[s][TableOf(v)] = pd[s][TableOf(v)] /\ given' = n
      /\ pd[s][TableOf(v)] = NULL => pd'[s][TableOf(v)] = Address(n) /\ given' = n + 1
      /\ pt' = [pt EXCEPT ![s][v] = phys]
      /\ pd' = [pd EXCEPT ![s][TableOf(v)] = pd'[s][TableOf(v)]]
  BY MapEffect DEF MapsSafely
<1>6. given' \in 0 .. frames /\ n <= given'
  BY <1>1, <1>3, <1>4, <1>5
<1>7. n < frames => Address(n) \in Frame
  BY <1>1, <1>3 DEF Address
<1>8. phys \in Frame \cup {NULL, UNMAPPED} \cup Low \cup Framebuffer
  <2>1. phys = Address(given) /\ n = given + 1 => phys \in Frame
    BY <1>1, <1>3 DEF Address
  <2>2. "kernel" \in Space
    BY DEF Space
  <2>. QED
    BY <1>2, <2>1, <2>2 DEF MapsSafely
<1>9. pd'[s][TableOf(v)] \in Frame \cup {NULL}
  BY <1>2, <1>4, <1>5, <1>7
<1>10. dir' \in Frame \cup {NULL}
  BY <1>1, <1>2, <1>3 DEF MapsSafely, Address
<1>11. Frame' = Frame
  BY DEF Frame, Address
<1>12. pd' \in [Space -> [Table -> Frame \cup {NULL}]]
  <2>. DEFINE T == Frame \cup {NULL}
            x == pd'[s][TableOf(v)]
  <2>1. x \in T /\ pd \in [Space -> [Table -> T]] /\ pd' = [pd EXCEPT ![s][TableOf(v)] = x]
    BY <1>2, <1>5, <1>9
  <2>. HIDE DEF T, x
  <2>2. pd' \in [Space -> [Table -> T]]
    BY <2>1
  <2>. QED
    BY <2>2 DEF T
<1>13. pt' \in [Space -> [Page -> Frame \cup {NULL, UNMAPPED} \cup Low \cup Framebuffer]]
  <2>. DEFINE T == Frame \cup {NULL, UNMAPPED} \cup Low \cup Framebuffer
  <2>1. phys \in T /\ pt \in [Space -> [Page -> T]] /\ pt' = [pt EXCEPT ![s][v] = phys]
    BY <1>2, <1>5, <1>8
  <2>. HIDE DEF T
  <2>2. pt' \in [Space -> [Page -> T]]
    BY <2>1
  <2>. QED
    BY <2>2 DEF T
<1>. QED
  BY <1>1, <1>3, <1>6, <1>8, <1>10, <1>11, <1>12, <1>13

LEMMA MapApart ==
  ASSUME TypeOK, NothingAhead, FramesApart, UNCHANGED frames,
         NEW s \in Space, NEW v \in Page, NEW phys, NEW n,
         MapsSafely(s, phys, v, n)
  PROVE  NothingAhead' /\ FramesApart'
<1>. DEFINE T == TableOf(v)
<1>1. /\ given \in 0 .. frames /\ frames \in Nat \ {0}
      /\ Frame = ENTRIES .. ENTRIES + frames - 1
      /\ ENTRIES \in Nat \ {0}
      /\ Low = 0 .. ENTRIES - 1
      /\ \A f \in Framebuffer : f \notin Frame
      /\ T \in Table
      /\ "kernel" \in Space
  BY FrameRange, Layout, Tables, LayoutAssumption DEF TypeOK, Space
<1>2. /\ given \in Nat /\ n \in Nat /\ given <= n /\ n <= given' /\ given' \in 0 .. frames
      /\ Frame' = Frame
  BY MapType
<1>3. /\ pt'[s][v] = phys
      /\ \A r \in Space, w \in Page : r # s \/ w # v => pt'[r][w] = pt[r][w]
      /\ \A r \in Space, t \in Table : r # s \/ t # T => pd'[r][t] = pd[r][t]
      /\ pd[s][T] # NULL => pd'[s][T] = pd[s][T] /\ given' = n
      /\ pd[s][T] = NULL => pd'[s][T] = Address(n) /\ given' = n + 1
  BY MapEffect DEF MapsSafely
<1>4. /\ \A r \in Space, w \in Page : pt[r][w] \in Frame => pt[r][w] < ENTRIES + given
      /\ \A r \in Space, t \in Table : pd[r][t] < ENTRIES + given
      /\ dir < ENTRIES + given
  BY DEF NothingAhead
<1>5. \/ phys = ENTRIES + given /\ n = given + 1
      \/ phys \notin Frame /\ n = given
      \/ s = "task" /\ v \in Heap /\ phys = pt["kernel"][v] /\ n = given
  BY <1>1 DEF MapsSafely, Address
<1>6. phys \in Frame => phys < ENTRIES + n
  BY <1>1, <1>2, <1>4, <1>5
<1>7. dir' = dir \/ (dir' = ENTRIES + given /\ v = WINDOW /\ n = given + 1)
  BY DEF MapsSafely, Address
<1>8. \A r \in Space, t \in Table : pd'[r][t] = pd[r][t] \/ (r = s /\ t = T /\ pd'[r][t] = ENTRIES + n /\ given' = n + 1)
  BY <1>3 DEF Address
<1>9. pd \in [Space -> [Table -> Frame \cup {NULL}]] /\ dir \in Frame \cup {NULL}
      /\ pt \in [Space -> [Page -> Frame \cup {NULL, UNMAPPED} \cup Low \cup Framebuffer]]
  BY DEF TypeOK
<1>. HIDE DEF T
<1>10. NothingAhead'
  <2>1. \A r \in Space, w \in Page : pt'[r][w] \in Frame => pt'[r][w] < ENTRIES + given'
    BY <1>1, <1>2, <1>3, <1>4, <1>6
  <2>2. \A r \in Space, t \in Table : pd'[r][t] < ENTRIES + given'
    BY <1>1, <1>2, <1>4, <1>8, <1>9
  <2>3. dir' < ENTRIES + given'
    BY <1>1, <1>2, <1>4, <1>7, <1>9
  <2>. QED
    BY <1>2, <2>1, <2>2, <2>3 DEF NothingAhead
<1>11. PagesApart /\ TablesApart /\ DirectoryApart
  BY ApartByPage
<1>12. PagesApart'
  <2>. SUFFICES ASSUME NEW r \in Space, NEW q \in Space,
                       NEW w \in Page \ {WINDOW}, NEW u \in Page \ {WINDOW},
                       pt'[r][w] = pt'[q][u], pt'[r][w] \in Frame
                PROVE  w = u /\ (r = q \/ w \in Heap)
    BY <1>2 DEF PagesApart
  <2>1. CASE r = s /\ w = v /\ q = s /\ u = v
    BY <2>1
  <2>2. CASE ~ (r = s /\ w = v) /\ ~ (q = s /\ u = v)
    BY <2>2, <1>3, <1>11 DEF PagesApart
  <2>3. CASE r = s /\ w = v /\ ~ (q = s /\ u = v)
    <3>1. pt[q][u] = phys /\ phys \in Frame
      BY <2>3, <1>3
    <3>2. phys < ENTRIES + given
      BY <3>1, <1>4
    <3>3. v \in Heap /\ phys = pt["kernel"][v]
      BY <3>1, <3>2, <1>1, <1>2, <1>5
    <3>. QED
      BY <2>3, <3>1, <3>3, <1>1, <1>11 DEF PagesApart
  <2>4. CASE ~ (r = s /\ w = v) /\ q = s /\ u = v
    <3>1. pt[r][w] = phys /\ phys \in Frame
      BY <2>4, <1>3
    <3>2. phys < ENTRIES + given
      BY <3>1, <1>4
    <3>3. v \in Heap /\ phys = pt["kernel"][v]
      BY <3>1, <3>2, <1>1, <1>2, <1>5
    <3>. QED
      BY <2>4, <3>1, <3>3, <1>1, <1>11 DEF PagesApart
  <2>. QED
    BY <2>1, <2>2, <2>3, <2>4
<1>13. TablesApart'
  <2>. SUFFICES ASSUME NEW r \in Space, NEW t \in Table, pd'[r][t] # NULL
                PROVE  /\ \A q \in Space, w \in Page \ {WINDOW} : pt'[q][w] # pd'[r][t]
                       /\ \A q \in Space, u \in Table : pd'[q][u] = pd'[r][t] => q = r /\ u = t
                       /\ dir' # pd'[r][t]
    BY DEF TablesApart
  <2>1. CASE pd'[r][t] = pd[r][t]
    <3>1. pd[r][t] \in Frame /\ pd[r][t] < ENTRIES + given
      BY <2>1, <1>4, <1>9
    <3>2. ASSUME NEW q \in Space, NEW w \in Page \ {WINDOW} PROVE pt'[q][w] # pd'[r][t]
      <4>1. CASE q = s /\ w = v
        <5>1. phys # pd[r][t]
          BY <3>1, <1>1, <1>2, <1>5, <1>11, <2>1, <4>1 DEF TablesApart
        <5>. QED
          BY <4>1, <5>1, <1>3, <2>1
      <4>2. CASE ~ (q = s /\ w = v)
        BY <4>2, <1>3, <2>1, <1>11 DEF TablesApart
      <4>. QED
        BY <4>1, <4>2
    <3>3. ASSUME NEW q \in Space, NEW u \in Table, pd'[q][u] = pd'[r][t] PROVE q = r /\ u = t
      <4>1. pd'[q][u] # ENTRIES + n
        BY <3>1, <3>3, <2>1, <1>1, <1>2
      <4>2. pd'[q][u] = pd[q][u]
        BY <4>1, <1>8
      <4>3. pd[q][u] = pd[r][t] /\ pd[r][t] # NULL
        BY <4>2, <3>3, <2>1
      <4>. QED
        BY <4>3, <1>11 DEF TablesApart
    <3>4. dir' # pd'[r][t]
      <4>1. dir # pd[r][t]
        <5>1. pd[r][t] # NULL
          BY <2>1
        <5>. QED
          BY <5>1, <1>11 DEF TablesApart
      <4>2. ENTRIES + given # pd[r][t]
        BY <3>1, <1>1, <1>2
      <4>. QED
        BY <4>1, <4>2, <2>1, <1>7
    <3>. QED
      BY <3>2, <3>3, <3>4
  <2>2. CASE pd'[r][t] # pd[r][t]
    <3>1. r = s /\ t = T /\ pd'[r][t] = ENTRIES + n /\ given' = n + 1
      BY <2>2, <1>8
    <3>2. ENTRIES + n \in Frame
      BY <3>1, <1>1, <1>2
    <3>3. ASSUME NEW q \in Space, NEW w \in Page \ {WINDOW} PROVE pt'[q][w] # ENTRIES + n
      <4>1. CASE q = s /\ w = v
        BY <4>1, <3>2, <1>1, <1>2, <1>3, <1>6
      <4>2. CASE ~ (q = s /\ w = v)
        BY <4>2, <3>2, <1>1, <1>2, <1>3, <1>4
      <4>. QED
        BY <4>1, <4>2
    <3>4. ASSUME NEW q \in Space, NEW u \in Table, pd'[q][u] = ENTRIES + n PROVE q = r /\ u = t
      <4>1. pd'[q][u] # pd[q][u]
        BY <3>4, <1>1, <1>2, <1>4, <1>9
      <4>. QED
        BY <4>1, <1>8, <3>1
    <3>5. dir' # ENTRIES + n
      BY <1>1, <1>2, <1>4, <1>7, <1>9
    <3>. QED
      BY <3>1, <3>3, <3>4, <3>5
  <2>. QED
    BY <2>1, <2>2
<1>14. DirectoryApart'
  <2>. SUFFICES ASSUME dir' # NULL, NEW r \in Space, NEW w \in Page \ {WINDOW}
                PROVE  pt'[r][w] # dir'
    BY DEF DirectoryApart
  <2>1. CASE dir' = dir
    <3>1. dir \in Frame /\ dir < ENTRIES + given
      BY <2>1, <1>4, <1>9
    <3>2. \A q \in Space, u \in Page \ {WINDOW} : pt[q][u] # dir
      BY <2>1, <1>11 DEF DirectoryApart
    <3>3. CASE r = s /\ w = v
      <4>1. phys # dir
        BY <3>1, <3>2, <3>3, <1>1, <1>2, <1>5
      <4>. QED
        BY <4>1, <2>1, <3>3, <1>3
    <3>4. CASE ~ (r = s /\ w = v)
      BY <2>1, <3>2, <3>4, <1>3
    <3>. QED
      BY <3>3, <3>4
  <2>2. CASE dir' = ENTRIES + given /\ v = WINDOW /\ n = given + 1
    <3>1. pt'[r][w] = pt[r][w]
      BY <2>2, <1>3
    <3>2. ENTRIES + given \in Frame
      BY <2>2, <1>1, <1>2
    <3>. QED
      BY <2>2, <3>1, <3>2, <1>1, <1>4
  <2>. QED
    BY <2>1, <2>2, <1>7
<1>. QED
  BY <1>10, <1>12, <1>13, <1>14, ApartNext
-----------------------------------------------------------------------------
\* What LoadOutcome says of NULL, page by page.
NullsByPage == \A s \in Space, v \in Page \ {WINDOW} :
                 pt[s][v] = NULL /\ v \notin Low => v \in Heap /\ given = frames

NullsInPlaces == \A x \in Places :
                   pt[x[1]][x[2]] = NULL /\ x[2] \notin Low => x[2] \in Heap /\ given = frames

LEMMA Nulls == NullsInPlaces <=> NullsByPage
<1>1. ASSUME NullsInPlaces, NEW s \in Space, NEW v \in Page \ {WINDOW}, pt[s][v] = NULL, v \notin Low
      PROVE  v \in Heap /\ given = frames
  <2>1. <<s, v>> \in Places
    BY DEF Places
  <2>2. pt[<<s, v>>[1]][<<s, v>>[2]] = NULL /\ <<s, v>>[2] \notin Low
    BY <1>1
  <2>3. <<s, v>>[2] \in Heap /\ given = frames
    BY <1>1, <2>1, <2>2 DEF NullsInPlaces
  <2>. QED
    BY <2>3
<1>2. ASSUME NullsByPage, NEW x \in Places, pt[x[1]][x[2]] = NULL, x[2] \notin Low
      PROVE  x[2] \in Heap /\ given = frames
  BY <1>2 DEF NullsByPage, Places
<1>. QED
  BY <1>1, <1>2 DEF NullsByPage, NullsInPlaces

LEMMA NullsNext == NullsByPage' => NullsInPlaces'
BY Nulls, PTL

LEMMA NullByPage ==
  ASSUME IInv, NEW s \in Space, NEW v \in Page \ {WINDOW}, pt[s][v] = NULL, v \notin Low
  PROVE  v \in Heap /\ given = frames
<1>1. NullsInPlaces
  BY DEF IInv, LoadOutcome, NullsInPlaces
<1>. QED
  BY <1>1, Nulls DEF NullsByPage

\* The sets of places, taken apart.
LEMMA Where ==
  /\ Booting = {"first_pt", "fb", "heap", "init_malloc", "parse", "create_pd"}
  /\ MakesTask = {"task_low", "task_fb", "task_heap"}
  /\ WorksOnSegment = {"mmap_kernel", "mmap_task", "read", "copy"}
  /\ Loads = {"mmap_kernel", "mmap_task", "read", "copy", "load", "create_task"}
  /\ Stopped = {"failed", "halted"}
BY DEF Booting, MakesTask, WorksOnSegment, Loads, Stopped

\* A step of main before it loads anything, on the kernel's own address space.
LEMMA BootStep ==
  ASSUME IInv, pc \in Booting, pc' \in Booting \ {"first_pt"},
         UNCHANGED <<frames, mem, dir, program, seg>>,
         TypeOK', NothingAhead', FramesApart',
         \A v \in Page : pt'["task"][v] = pt["task"][v],
         \A t \in Table : pd'["task"][t] = pd["task"][t],
         \A v \in UserPages : pt'["kernel"][v] = pt["kernel"][v],
         pc' = "fb" => i' < FB_PAGES,
         pc' = "heap" => i' < HEAP_PAGES,
         program \in NoPrograms => pc' # "create_pd",
         HeapMapped',
         \A v \in Page \ {WINDOW} : pt'["kernel"][v] = NULL /\ v \notin Low => v \in Heap /\ given' = frames
  PROVE  IInv'
<1>. USE Where, Layout
<1>1. LoopsInBounds'
  BY DEF IInv, LoopsInBounds
<1>2. dir = NULL /\ dir' = NULL
  BY DEF IInv, TaskSoFar
<1>3. /\ \A v \in Page : pt["task"][v] = UNMAPPED
      /\ \A t \in Table : pd["task"][t] = NULL
  BY DEF IInv, TaskSoFar
<1>4. TaskSoFar'
  <2>1. ~ HasTable("task", STACK)'
    BY <1>3, Tables DEF HasTable
  <2>. QED
    BY <1>2, <1>3, <2>1 DEF TaskSoFar, HasDirectory
<1>5. SegmentSoFar'
  BY DEF IInv, SegmentSoFar
<1>6. SegmentsLoaded' /\ TaskIsWhole'
  BY DEF SegmentsLoaded, TaskIsWhole
<1>7. LoadOutcome'
  <2>1. mem'[NULL] = Blank
    BY DEF IInv, LoadOutcome
  <2>2. ASSUME NEW s \in Space, NEW v \in Page \ {WINDOW}, pt'[s][v] = NULL, v \notin Low
        PROVE  v \in Heap /\ given' = frames'
    <3>1. CASE s = "kernel"
      BY <2>2, <3>1
    <3>2. CASE s = "task"
      <4>1. pt'["task"][v] = UNMAPPED
        BY <1>3
      <4>. QED
        BY SMTT(30), <2>2, <3>2, <4>1
    <3>. QED
      BY <3>1, <3>2 DEF Space
  <2>3. NullsInPlaces'
    BY <2>2, NullsNext DEF NullsByPage
  <2>. QED
    BY <1>2, <2>1, <2>3 DEF LoadOutcome, NullsInPlaces
<1>8. Untouched'
  <2>1. Frame' = Frame /\ \A f \in Frame : mem[f] = Blank
    BY DEF Frame, Address, IInv, Untouched
  <2>. QED
    BY <2>1 DEF Untouched
<1>. QED
  BY <1>1, <1>4, <1>5, <1>6, <1>7, <1>8 DEF IInv

\* A step that changes no table.
LEMMA StandsStill ==
  ASSUME TypeOK, NothingAhead, FramesApart, UNCHANGED <<frames, pd, pt, dir>>,
         given' = given \/ (given' = given + 1 /\ given' <= frames)
  PROVE  /\ Frame' = Frame /\ given' \in given .. frames
         /\ NothingAhead' /\ FramesApart'
<1>1. /\ given \in 0 .. frames /\ frames \in Nat \ {0}
      /\ Frame = ENTRIES .. ENTRIES + frames - 1
      /\ ENTRIES \in Nat \ {0}
  BY FrameRange, Layout DEF TypeOK
<1>2. Frame' = Frame
  BY DEF Frame, Address
<1>3. given' \in given .. frames
  BY <1>1
<1>4. FramesApart'
  BY <1>2 DEF FramesApart
<1>5. NothingAhead'
  <2>1. /\ pd \in [Space -> [Table -> Frame \cup {NULL}]] /\ dir \in Frame \cup {NULL}
    BY DEF TypeOK
  <2>. QED
    BY <1>1, <1>2, <1>3, <2>1 DEF NothingAhead
<1>. QED
  BY <1>2, <1>3, <1>4, <1>5

\* The table of Low, in a space that has no tables yet.
LEMMA MapLowSafe ==
  ASSUME TypeOK, NothingAhead, FramesApart, UNCHANGED <<frames, dir>>,
         NEW s \in Space, IsLeft(given), MapLow(s, alloc_page), given' = After,
         pd[s][0] = NULL
  PROVE  /\ Frame' = Frame
         /\ given' \in 0 .. frames /\ given' = given + 1
         /\ pd' \in [Space -> [Table -> Frame \cup {NULL}]]
         /\ pt' \in [Space -> [Page -> Frame \cup {NULL, UNMAPPED} \cup Low \cup Framebuffer]]
         /\ \A r \in Space, w \in Page :
              pt'[r][w] = IF r = s /\ w \in Low THEN w ELSE pt[r][w]
         /\ \A r \in Space, t \in Table :
              pd'[r][t] = IF r = s /\ t = 0 THEN ENTRIES + given ELSE pd[r][t]
         /\ NothingAhead' /\ FramesApart'
<1>1. /\ given \in 0 .. frames - 1 /\ frames \in Nat \ {0}
      /\ Frame = ENTRIES .. ENTRIES + frames - 1
      /\ ENTRIES \in Nat \ {0}
      /\ Low = 0 .. ENTRIES - 1
      /\ 0 \in Table
      /\ given' = given + 1
      /\ alloc_page = ENTRIES + given
  BY SMTT(30), FrameRange, Layout, Tables DEF TypeOK, IsLeft, After, alloc_page, Address
<1>2. /\ pd \in [Space -> [Table -> Frame \cup {NULL}]] /\ dir \in Frame \cup {NULL}
      /\ pt \in [Space -> [Page -> Frame \cup {NULL, UNMAPPED} \cup Low \cup Framebuffer]]
  BY DEF TypeOK
<1>3. /\ pd' = [pd EXCEPT ![s][0] = ENTRIES + given]
      /\ pt' = [pt EXCEPT ![s] = [v \in Page |-> IF v \in Low THEN v ELSE pt[s][v]]]
  BY <1>1, <1>2 DEF MapLow
<1>4. \A r \in Space, w \in Page : pt'[r][w] = IF r = s /\ w \in Low THEN w ELSE pt[r][w]
  BY <1>2, <1>3
<1>5. \A r \in Space, t \in Table : pd'[r][t] = IF r = s /\ t = 0 THEN ENTRIES + given ELSE pd[r][t]
  BY <1>2, <1>3
<1>6. Frame' = Frame
  BY DEF Frame, Address
<1>7. pd' \in [Space -> [Table -> Frame \cup {NULL}]]
  BY <1>1, <1>2, <1>3
<1>8. pt' \in [Space -> [Page -> Frame \cup {NULL, UNMAPPED} \cup Low \cup Framebuffer]]
  BY <1>2, <1>3
<1>9. NothingAhead'
  <2>1. ASSUME NEW r \in Space, NEW w \in Page, pt'[r][w] \in Frame
        PROVE  pt'[r][w] < ENTRIES + given'
    <3>1. CASE r = s /\ w \in Low
      BY <1>1, <1>4, <2>1, <3>1
    <3>2. CASE ~ (r = s /\ w \in Low)
      <4>1. pt'[r][w] = pt[r][w] /\ pt[r][w] < ENTRIES + given
        BY <1>4, <2>1, <3>2 DEF NothingAhead
      <4>. QED
        BY <1>1, <2>1, <4>1
    <3>. QED
      BY <3>1, <3>2
  <2>2. ASSUME NEW r \in Space, NEW t \in Table
        PROVE  pd'[r][t] < ENTRIES + given'
    <3>1. pd[r][t] < ENTRIES + given /\ pd[r][t] \in Nat
      BY <1>1, <1>2 DEF NothingAhead
    <3>. QED
      BY <1>1, <1>5, <3>1
  <2>3. dir' < ENTRIES + given'
    <3>1. dir' = dir /\ dir < ENTRIES + given /\ dir \in Nat
      BY <1>1, <1>2 DEF NothingAhead
    <3>. QED
      BY <1>1, <3>1
  <2>. QED
    BY <1>6, <2>1, <2>2, <2>3 DEF NothingAhead
<1>10. PagesApart /\ TablesApart /\ DirectoryApart
  BY ApartByPage
<1>11. PagesApart'
  BY <1>1, <1>4, <1>6, <1>10 DEF PagesApart
<1>12. TablesApart'
  <2>. SUFFICES ASSUME NEW r \in Space, NEW t \in Table, pd'[r][t] # NULL
                PROVE  /\ \A q \in Space, w \in Page \ {WINDOW} : pt'[q][w] # pd'[r][t]
                       /\ \A q \in Space, u \in Table : pd'[q][u] = pd'[r][t] => q = r /\ u = t
                       /\ dir' # pd'[r][t]
    BY DEF TablesApart
  <2>1. CASE r = s /\ t = 0
    <3>1. pd'[r][t] = ENTRIES + given /\ ENTRIES + given \in Frame
      BY <2>1, <1>1, <1>5
    <3>2. \A q \in Space, w \in Page : pt[q][w] # ENTRIES + given
      BY <1>1, <3>1 DEF NothingAhead
    <3>3. \A q \in Space, u \in Table : pd[q][u] # ENTRIES + given
      BY <1>1, <1>2 DEF NothingAhead
    <3>4. dir # ENTRIES + given
      BY <1>1, <1>2 DEF NothingAhead
    <3>5. \A q \in Space, w \in Page \ {WINDOW} : pt'[q][w] # pd'[r][t]
      BY <1>1, <1>4, <3>1, <3>2
    <3>6. \A q \in Space, u \in Table : pd'[q][u] = pd'[r][t] => q = r /\ u = t
      BY <1>5, <2>1, <3>1, <3>3, ZenonT(60)
    <3>. QED
      BY <3>1, <3>4, <3>5, <3>6
  <2>2. CASE ~ (r = s /\ t = 0)
    <3>1. pd'[r][t] = pd[r][t] /\ pd[r][t] \in Frame /\ pd[r][t] < ENTRIES + given
      BY <2>2, <1>2, <1>5 DEF NothingAhead
    <3>2. \A q \in Space, w \in Page \ {WINDOW} : pt[q][w] # pd[r][t]
      BY <3>1, <1>10 DEF TablesApart
    <3>3. \A q \in Space, u \in Table : pd[q][u] = pd[r][t] => q = r /\ u = t
      BY <3>1, <1>10 DEF TablesApart
    <3>4. dir # pd[r][t]
      BY <3>1, <1>10 DEF TablesApart
    <3>5. \A q \in Space, w \in Page \ {WINDOW} : pt'[q][w] # pd'[r][t]
      BY <3>1, <3>2, <1>1, <1>4
    <3>6. \A q \in Space, u \in Table : pd'[q][u] = pd'[r][t] => q = r /\ u = t
      BY <3>1, <3>3, <1>1, <1>2, <1>5
    <3>. QED
      BY <3>1, <3>4, <3>5, <3>6
  <2>. QED
    BY <2>1, <2>2
<1>13. DirectoryApart'
  <2>. SUFFICES ASSUME dir # NULL, NEW r \in Space, NEW w \in Page \ {WINDOW}
                PROVE  pt'[r][w] # dir
    BY DEF DirectoryApart
  <2>1. dir \in Frame /\ pt[r][w] # dir
    BY <1>2, <1>10 DEF DirectoryApart
  <2>. QED
    BY <2>1, <1>1, <1>4
<1>. QED
  BY <1>1, <1>4, <1>5, <1>6, <1>7, <1>8, <1>9, <1>11, <1>12, <1>13, ApartNext

\* A step that ends the loading, or the kernel.
LEMMA StopStep ==
  ASSUME pc' \in Stopped, UNCHANGED program, TypeOK', NothingAhead', FramesApart', LoadOutcome'
  PROVE  IInv'
<1>. USE Where
<1>1. LoopsInBounds' /\ HeapMapped' /\ TaskSoFar'
  BY DEF LoopsInBounds, HeapMapped, HasDirectory, TaskSoFar
<1>2. Untouched' /\ SegmentSoFar' /\ SegmentsLoaded' /\ TaskIsWhole'
  BY DEF Untouched, SegmentSoFar, SegmentsLoaded, TaskIsWhole
<1>. QED
  BY <1>1, <1>2 DEF IInv

\* A step of create_pd that has made another page of the task.
LEMMA MakeStep ==
  ASSUME IInv, pc \in {"create_pd"} \cup MakesTask, pc' \in MakesTask \cup {"load"},
         UNCHANGED <<frames, mem, program, seg>>, dir' # NULL, program \notin NoPrograms,
         TypeOK', NothingAhead', FramesApart',
         pc' = "task_fb" => i' < FB_PAGES,
         pc' = "task_heap" => i' < TASK_HEAP,
         \A v \in Page \ {WINDOW} : pt'["kernel"][v] = pt["kernel"][v],
         \A v \in Heap : pt'["kernel"][v] \in Frame,
         pd'["task"][TableOf(STACK)] = NULL,
         given <= given',
         pc' = "task_low" => /\ \A v \in Page : pt'["task"][v] = UNMAPPED
                             /\ \A t \in Table : pd'["task"][t] = NULL,
         pc' # "task_low" => \A v \in Low : pt'["task"][v] = v,
         pc' # "task_low" => \A v \in Framebuffer : Past("task_fb", FB_BASE, v)' => pt'["task"][v] = v,
         pc' \notin {"task_low", "task_fb"} =>
            \A v \in HEAP_BASE .. HEAP_BASE + TASK_HEAP - 1 :
              Past("task_heap", HEAP_BASE, v)' => pt'["task"][v] = pt'["kernel"][v],
         \A v \in Page \ {WINDOW} :
            pt'["task"][v] = NULL => v \in Low \/ (v \in Heap /\ given' = frames)
  PROVE  IInv'
<1>1. LoopsInBounds' /\ seg = 1
  BY Where DEF IInv, LoopsInBounds
<1>2. Frame' = Frame
  BY DEF Frame, Address
<1>3. HeapMapped'
  BY <1>2 DEF HeapMapped
<1>4. TaskSoFar'
  BY Where DEF TaskSoFar, HasDirectory, HasTable
<1>5. SegmentSoFar'
  <2>1. \A v \in UserPages : pt'["kernel"][v] = UNMAPPED
    BY Where, Layout, Regions DEF IInv, SegmentSoFar
  <2>. QED
    BY <2>1, Where DEF SegmentSoFar
<1>6. SegmentsLoaded' /\ TaskIsWhole'
  BY <1>1, Where DEF SegmentsLoaded, TaskIsWhole
<1>7. LoadOutcome'
  <2>1. mem'[NULL] = Blank
    BY DEF IInv, LoadOutcome
  <2>2. ASSUME NEW s \in Space, NEW v \in Page \ {WINDOW}, pt'[s][v] = NULL, v \notin Low
        PROVE  v \in Heap /\ given' = frames'
    <3>1. CASE s = "kernel"
      <4>1. v \in Heap /\ given = frames
        BY <2>2, <3>1, NullByPage
      <4>. QED
        BY <4>1, Allocates DEF IInv, TypeOK
    <3>2. CASE s = "task"
      BY <2>2, <3>2
    <3>. QED
      BY <3>1, <3>2 DEF Space
  <2>3. NullsInPlaces'
    BY <2>2, NullsNext DEF NullsByPage
  <2>. QED
    BY <2>1, <2>3, Where DEF LoadOutcome, NullsInPlaces
<1>8. Untouched'
  <2>1. \A f \in Frame : mem[f] = Blank
    BY Where DEF IInv, Untouched
  <2>. QED
    BY <1>2, <2>1 DEF Untouched
<1>. QED
  BY <1>1, <1>3, <1>4, <1>5, <1>6, <1>7, <1>8 DEF IInv
-----------------------------------------------------------------------------
\* One lemma for every action.
LEMMA FirstTableKeeps ==
  ASSUME IInv, FirstTable
  PROVE  IInv'
<1>. USE Where, Layout
<1>1. pc = "first_pt" /\ pc' = "fb" /\ i' = 0 /\ UNCHANGED <<frames, mem, dir, program, seg>>
  BY DEF FirstTable, Goto, loading
<1>2. TypeOK /\ NothingAhead /\ FramesApart /\ "kernel" \in Space /\ "task" \in Space
  BY DEF IInv, Space
<1>3. IsLeft(given) /\ pd["kernel"][0] = NULL /\ frames \in Nat /\ given = 0
  BY <1>1, <1>2, FrameRange, Tables, SMTT(30) DEF IInv, TypeOK, TaskSoFar, IsLeft
<1>4. MapLow("kernel", alloc_page) /\ given' = After
  BY DEF FirstTable
<1>5. /\ Frame' = Frame
      /\ given' \in 0 .. frames
      /\ pd' \in [Space -> [Table -> Frame \cup {NULL}]]
      /\ pt' \in [Space -> [Page -> Frame \cup {NULL, UNMAPPED} \cup Low \cup Framebuffer]]
      /\ \A r \in Space, w \in Page :
           pt'[r][w] = IF r = "kernel" /\ w \in Low THEN w ELSE pt[r][w]
      /\ \A r \in Space, t \in Table :
           pd'[r][t] = IF r = "kernel" /\ t = 0 THEN ENTRIES + given ELSE pd[r][t]
      /\ NothingAhead' /\ FramesApart'
  BY <1>1, <1>2, <1>3, <1>4, MapLowSafe
<1>6. TypeOK'
  BY <1>1, <1>2, <1>5 DEF TypeOK
<1>7. HeapMapped'
  BY <1>1 DEF HeapMapped, HasDirectory
<1>8. ASSUME NEW v \in Page \ {WINDOW}, pt'["kernel"][v] = NULL, v \notin Low
      PROVE  v \in Heap /\ given' = frames
  <2>1. pt["kernel"][v] = NULL
    BY <1>2, <1>5, <1>8
  <2>2. given = frames
    BY <2>1, <1>2, <1>8, NullByPage
  <2>. QED
    BY <2>2, <1>3 DEF IsLeft
<1>9. \A v \in UserPages : pt'["kernel"][v] = pt["kernel"][v]
  BY <1>2, <1>5, Regions
<1>10. /\ \A v \in Page : pt'["task"][v] = pt["task"][v]
       /\ \A t \in Table : pd'["task"][t] = pd["task"][t]
  BY <1>2, <1>5
<1>11. program \in NoPrograms => pc' # "create_pd"
  BY <1>1
<1>. QED
  BY <1>1, <1>5, <1>6, <1>7, <1>8, <1>9, <1>10, <1>11, BootStep

\* The loops of init_paging map pages of the kernel that no program is linked at.
LEMMA KernelMaps ==
  ASSUME IInv, pc \in {"fb", "heap"}, UNCHANGED <<frames, mem, dir, program, seg>>,
         pc' \in {"fb", "heap", "init_malloc"}, i' \in Nat,
         pc' = "fb" => i' < FB_PAGES,
         pc' = "heap" => i' < HEAP_PAGES,
         NEW v \in Framebuffer \cup Heap, NEW phys, NEW n, MapsSafely("kernel", phys, v, n),
         HeapMapped',
         phys = NULL => v \in Heap /\ given' = frames
  PROVE  IInv'
<1>. USE Where, Layout
<1>1. TypeOK /\ NothingAhead /\ FramesApart /\ "kernel" \in Space /\ "task" \in Space /\ v \in Page
  BY DEF IInv, Space
<1>2. /\ given \in Nat /\ n \in Nat /\ given <= n /\ n <= given'
      /\ given' \in 0 .. frames
      /\ Frame' = Frame
      /\ pd' \in [Space -> [Table -> Frame \cup {NULL}]]
      /\ pt' \in [Space -> [Page -> Frame \cup {NULL, UNMAPPED} \cup Low \cup Framebuffer]]
  BY <1>1, MapType
<1>3. NothingAhead' /\ FramesApart'
  BY <1>1, MapApart
<1>4. TypeOK'
  BY <1>1, <1>2 DEF TypeOK
<1>5. /\ pt'["kernel"][v] = phys
      /\ \A r \in Space, w \in Page : r # "kernel" \/ w # v => pt'[r][w] = pt[r][w]
      /\ \A r \in Space, t \in Table : r # "kernel" \/ t # TableOf(v) => pd'[r][t] = pd[r][t]
  BY SMTT(30), <1>1, MapEffect DEF MapsSafely
<1>6. ASSUME NEW w \in Page \ {WINDOW}, pt'["kernel"][w] = NULL, w \notin Low
      PROVE  w \in Heap /\ given' = frames
  <2>1. CASE w = v
    BY <2>1, <1>5, <1>6
  <2>2. CASE w # v
    <3>1. pt["kernel"][w] = NULL
      BY <2>2, <1>1, <1>5, <1>6
    <3>2. w \in Heap /\ given = frames
      BY <3>1, <1>1, <1>6, NullByPage
    <3>. QED
      BY <3>2, <1>2
  <2>. QED
    BY <2>1, <2>2
<1>7. \A w \in UserPages : pt'["kernel"][w] = pt["kernel"][w]
  BY <1>1, <1>5, Regions
<1>8. /\ \A w \in Page : pt'["task"][w] = pt["task"][w]
      /\ \A t \in Table : pd'["task"][t] = pd["task"][t]
  BY <1>1, <1>5
<1>. QED
  BY <1>3, <1>4, <1>6, <1>7, <1>8, BootStep

LEMMA MapFramebufferKeeps ==
  ASSUME IInv, MapFramebuffer
  PROVE  IInv'
<1>. USE Where, Layout
<1>. DEFINE v == FB_BASE + i
<1>1. /\ pc = "fb" /\ UNCHANGED <<frames, mem, dir, program, seg>>
      /\ i \in Nat /\ i < FB_PAGES /\ v \in Framebuffer
  BY SMTT(30) DEF MapFramebuffer, loading, IInv, TypeOK, LoopsInBounds
<1>2. v \in Page /\ v \notin Low /\ v # NULL
  BY SMTT(30), <1>1, Regions
<1>3. given \in 0 .. frames /\ frames \in Nat
  BY FrameRange DEF IInv, TypeOK
<1>4. CASE CanMap("kernel", v, given) /\ map_page("kernel", v, v, given) /\ Loop(FB_PAGES, "heap")
  <2>1. MapsSafely("kernel", v, v, given)
    BY <1>1, <1>3, <1>4 DEF MapsSafely
  <2>2. /\ pc' \in {"fb", "heap"} /\ i' \in Nat
        /\ pc' = "fb" => i' < FB_PAGES
        /\ pc' = "heap" => i' = 0
    BY <1>1, <1>4, SMTT(30) DEF Loop
  <2>3. HeapMapped'
    BY <1>1, <2>2 DEF HeapMapped, HasDirectory, Past
  <2>. QED
    BY SMTT(30), <1>1, <1>2, <2>1, <2>2, <2>3, KernelMaps
<1>5. CASE ~ CanMap("kernel", v, given) /\ Goto("init_malloc") /\ UNCHANGED <<given, pd, pt>>
  <2>1. given = frames
    BY <1>3, <1>5 DEF CanMap, IsLeft
  <2>2. NothingAhead' /\ FramesApart' /\ Frame' = Frame
    BY <1>1, <1>5, StandsStill DEF IInv
  <2>4. TypeOK'
    BY <1>1, <1>5, <2>2 DEF IInv, Goto, TypeOK
  <2>3. HeapMapped'
    BY <1>1, <1>3, <1>5, <2>1 DEF HeapMapped, HasDirectory, Goto
  <2>. QED
    BY <1>1, <1>5, <2>1, <2>2, <2>3, <2>4, NullByPage, BootStep DEF Goto, Space
<1>. QED
  BY <1>4, <1>5 DEF MapFramebuffer

LEMMA MapHeapKeeps ==
  ASSUME IInv, MapHeap
  PROVE  IInv'
<1>. USE Where, Layout
<1>. DEFINE v == HEAP_BASE + i
<1>1. /\ pc = "heap" /\ UNCHANGED <<frames, mem, dir, program, seg>>
      /\ i \in Nat /\ i < HEAP_PAGES /\ v \in Heap
      /\ Loop(HEAP_PAGES, "init_malloc")
  BY SMTT(30) DEF MapHeap, loading, IInv, TypeOK, LoopsInBounds
<1>2. /\ pc' \in {"heap", "init_malloc"} /\ i' \in Nat
      /\ pc' = "heap" => i' = i + 1 /\ i' < HEAP_PAGES
      /\ pc' = "init_malloc" => i + 1 >= HEAP_PAGES
  BY SMTT(30), <1>1 DEF Loop
<1>3. given \in 0 .. frames /\ frames \in Nat /\ "kernel" \in Space /\ v \in Page
  BY <1>1, FrameRange DEF IInv, TypeOK, Space
<1>4. given < frames => \A w \in Heap : w < v => pt["kernel"][w] \in Frame
  BY <1>1 DEF IInv, HeapMapped, HasDirectory, Past
<1>5. CASE CanMap("kernel", v, After) /\ map_page("kernel", alloc_page, v, After)
  <2>1. MapsSafely("kernel", alloc_page, v, After)
    BY <1>1, <1>3, <1>5 DEF MapsSafely, alloc_page, After, IsLeft, Address
  <2>2. /\ given' >= After /\ given' \in 0 .. frames /\ Frame' = Frame /\ After \in Nat
    BY <1>1, <1>3, <2>1, MapType DEF IInv
  <2>3. /\ pt'["kernel"][v] = alloc_page
        /\ \A w \in Page : w # v => pt'["kernel"][w] = pt["kernel"][w]
    BY <1>1, <1>3, <1>5, MapEffect, SMTT(30) DEF IInv
  <2>4. HeapMapped'
    <3>. SUFFICES ASSUME given' < frames, NEW w \in Heap, Past("heap", HEAP_BASE, w)'
                  PROVE  pt'["kernel"][w] \in Frame
      BY <1>1, <1>2, <2>2 DEF HeapMapped, HasDirectory
    <3>1. given < frames
      BY <1>3, <2>2 DEF After, IsLeft
    <3>3. alloc_page \in Frame
      BY <3>1, Allocates DEF IsLeft, IInv
    <3>2. w < v \/ w = v
      <4>1. pc' = "heap" => w < HEAP_BASE + i'
        BY DEF Past
      <4>2. w \in Nat /\ HEAP_BASE \in Nat /\ w < HEAP_BASE + HEAP_PAGES /\ HEAP_PAGES \in Nat
        OBVIOUS
      <4>3. i \in Nat /\ v = HEAP_BASE + i
        BY <1>1
      <4>4. CASE pc' = "heap"
        BY <4>1, <4>2, <4>3, <4>4, <1>2
      <4>5. CASE pc' = "init_malloc"
        BY <4>2, <4>3, <4>5, <1>2
      <4>. QED
        BY <4>4, <4>5, <1>2
    <3>. QED
      BY <1>4, <2>3, <3>1, <3>2, <3>3
  <2>5. alloc_page = NULL => given' = frames
    BY <1>3, <2>2 DEF alloc_page, After, IsLeft, Address
  <2>. QED
    BY <1>1, <1>2, <2>1, <2>4, <2>5, KernelMaps
<1>6. CASE ~ CanMap("kernel", v, After) /\ given' = After /\ UNCHANGED <<pd, pt>>
  <2>1. given' = frames /\ (given' = given \/ given' = given + 1)
    BY <1>3, <1>6 DEF CanMap, IsLeft, After
  <2>2. NothingAhead' /\ FramesApart' /\ Frame' = Frame
    BY <1>1, <1>3, <1>6, <2>1, StandsStill DEF IInv
  <2>3. TypeOK'
    BY <1>1, <1>2, <1>3, <1>6, <2>1, <2>2, SMTT(30) DEF IInv, TypeOK
  <2>4. HeapMapped'
    BY <1>1, <1>2, <1>3, <2>1, SMTT(30) DEF HeapMapped, HasDirectory
  <2>. QED
    BY <1>1, <1>2, <1>3, <1>6, <2>1, <2>2, <2>3, <2>4, NullByPage, BootStep
<1>. QED
  BY <1>5, <1>6 DEF MapHeap

LEMMA InitMallocKeeps ==
  ASSUME IInv, init_malloc
  PROVE  IInv'
<1>1. /\ pc = "init_malloc" /\ i' = 0
      /\ UNCHANGED <<frames, given, pd, pt, mem, dir, program, seg>>
  BY DEF init_malloc, Goto, loading
<1>2. NothingAhead' /\ FramesApart' /\ Frame' = Frame
  BY <1>1, StandsStill DEF IInv
<1>3. pc' = (IF pt["kernel"][HEAP_BASE] = UNMAPPED THEN "halted" ELSE "parse")
  BY DEF init_malloc, Goto
<1>4. TypeOK'
  BY <1>1, <1>2, <1>3 DEF IInv, TypeOK
<1>5. given < frames => \A v \in Heap : pt["kernel"][v] \in Frame
  BY <1>1, Where DEF IInv, HeapMapped, Past
<1>6. CASE pc' = "parse"
  <2>1. HeapMapped'
    BY <1>1, <1>2, <1>5, <1>6, Where DEF HeapMapped, HasDirectory
  <2>. QED
    BY <1>1, <1>2, <1>4, <1>6, <2>1, Where, BootStep, NullByPage DEF Space
<1>7. CASE pc' = "halted"
  <2>1. HEAP_BASE \in Heap
    BY Layout
  <2>2. given = frames
    <3>1. UNMAPPED \notin Frame
      BY FrameRange, Layout DEF IInv, TypeOK
    <3>2. ~ (given < frames)
      BY <1>3, <1>5, <1>7, <2>1, <3>1
    <3>. QED
      BY <3>2, Allocates DEF IInv
  <2>3. NullsInPlaces'
    BY <1>1 DEF IInv, LoadOutcome, NullsInPlaces
  <2>4. LoadOutcome'
    BY <1>1, <1>3, <1>7, <2>2, <2>3 DEF IInv, LoadOutcome, NullsInPlaces
  <2>. QED
    BY <1>1, <1>2, <1>4, <1>7, <2>4, Where, StopStep
<1>. QED
  BY <1>3, <1>6, <1>7

LEMMA ParseKeeps ==
  ASSUME IInv, parse_elf_header
  PROVE  IInv'
<1>1. /\ pc = "parse" /\ i' = 0
      /\ UNCHANGED <<frames, given, pd, pt, mem, dir, program, seg>>
  BY DEF parse_elf_header, Goto, loading
<1>2. NothingAhead' /\ FramesApart' /\ Frame' = Frame
  BY <1>1, StandsStill DEF IInv
<1>3. pc' = (IF program \in NoPrograms THEN "failed" ELSE "create_pd")
  BY DEF parse_elf_header, Goto
<1>4. TypeOK'
  BY <1>1, <1>2, <1>3 DEF IInv, TypeOK
<1>5. CASE pc' = "create_pd"
  <2>1. HeapMapped'
    BY <1>1, <1>2, <1>5, Where DEF IInv, HeapMapped, HasDirectory, Past
  <2>. QED
    BY <1>1, <1>2, <1>3, <1>4, <1>5, <2>1, Where, BootStep, NullByPage DEF Space
<1>6. CASE pc' = "failed"
  <2>1. program \in NoPrograms
    BY <1>3, <1>6
  <2>2. NullsInPlaces'
    BY <1>1 DEF IInv, LoadOutcome, NullsInPlaces
  <2>3. LoadOutcome'
    BY <1>1, <1>6, <2>1, <2>2 DEF IInv, LoadOutcome, NullsInPlaces
  <2>. QED
    BY <1>1, <1>2, <1>4, <1>6, <2>3, Where, StopStep
<1>. QED
  BY <1>3, <1>5, <1>6

\* create_pd gives up: memory is all gone.
LEMMA NoDirectoryKeeps ==
  ASSUME IInv, pc \in {"create_pd"} \cup MakesTask, NoDirectory, given' = After, given' = frames
  PROVE  IInv'
<1>1. /\ dir' = NULL /\ i' = 0 /\ UNCHANGED <<frames, pd, mem, program, seg>>
      /\ \/ pc' = "load" /\ pt' = [pt EXCEPT !["kernel"][WINDOW] = NULL]
         \/ pc' = "failed" /\ pt' = pt
  BY DEF NoDirectory, Goto
<1>2. /\ Frame' = Frame /\ frames \in Nat /\ given <= frames
      /\ pt \in [Space -> [Page -> Frame \cup {NULL, UNMAPPED} \cup Low \cup Framebuffer]]
      /\ pd \in [Space -> [Table -> Frame \cup {NULL}]]
      /\ Frame = ENTRIES .. ENTRIES + frames - 1 /\ ENTRIES \in Nat \ {0}
  <2>1. TypeOK
    BY DEF IInv
  <2>2. Frame' = Frame
    BY <1>1 DEF Frame, Address
  <2>3. frames \in Nat /\ given <= frames
    BY <2>1, Allocates
  <2>. QED
    BY <2>1, <2>2, <2>3, FrameRange, Layout DEF TypeOK
<1>3. /\ \A s \in Space, v \in Page \ {WINDOW} : pt'[s][v] = pt[s][v]
      /\ \A s \in Space, v \in Page : pt'[s][v] = pt[s][v] \/ pt'[s][v] = NULL
      /\ pt' \in [Space -> [Page -> Frame \cup {NULL, UNMAPPED} \cup Low \cup Framebuffer]]
  <2>1. CASE pt' = pt
    BY <1>2, <2>1
  <2>2. CASE pt' = [pt EXCEPT !["kernel"][WINDOW] = NULL]
    <3>1. WINDOW \in Page /\ "kernel" \in Space
      BY Layout DEF Space
    <3>2. pt' \in [Space -> [Page -> Frame \cup {NULL, UNMAPPED} \cup Low \cup Framebuffer]]
      BY <1>2, <2>2
    <3>3. \A s \in Space, v \in Page : v # WINDOW \/ s # "kernel" => pt'[s][v] = pt[s][v]
      BY <1>2, <2>2, <3>1
    <3>4. pt'["kernel"][WINDOW] = NULL
      BY <1>2, <2>2, <3>1
    <3>. QED
      BY <3>2, <3>3, <3>4
  <2>. QED
    BY <1>1, <2>1, <2>2
<1>4. TypeOK'
  BY <1>1, <1>2, <1>3, Allocates DEF IInv, TypeOK
<1>5. NothingAhead'
  <2>1. \A s \in Space, v \in Page : pt'[s][v] \in Frame => pt'[s][v] < ENTRIES + given'
    BY <1>2
  <2>. QED
    BY <1>1, <1>2, <2>1 DEF NothingAhead
<1>6. FramesApart'
  <2>1. PagesApart /\ TablesApart
    BY ApartByPage DEF IInv
  <2>4. DirectoryApart'
    BY <1>1 DEF DirectoryApart
  <2>2. PagesApart'
    BY <1>2, <1>3, <2>1 DEF PagesApart
  <2>3. TablesApart'
    BY <1>1, <1>3, <2>1 DEF TablesApart
  <2>. QED
    BY <2>2, <2>3, <2>4, ApartNext
<1>7. program \notin NoPrograms /\ seg = 1
  BY Where DEF IInv, LoopsInBounds
<1>8. LoadOutcome'
  <2>1. mem'[NULL] = Blank
    BY <1>1 DEF IInv, LoadOutcome
  <2>2. NullsInPlaces'
    <3>1. given' = frames'
      BY <1>1
    <3>. QED
      BY <1>3, <3>1, NullByPage, NullsNext DEF NullsByPage
  <2>. QED
    BY <1>1, <2>1, <2>2, Where DEF LoadOutcome, NullsInPlaces
<1>9. CASE pc' = "failed"
  BY <1>1, <1>4, <1>5, <1>6, <1>8, <1>9, StopStep, Where
<1>10. CASE pc' = "load"
  <2>1. LoopsInBounds' /\ HeapMapped'
    BY <1>1, <1>7, <1>10, Where DEF LoopsInBounds, HeapMapped, HasDirectory
  <2>2. TaskSoFar'
    BY <1>1, <1>7, <1>10, Where DEF IInv, TaskSoFar, HasDirectory, HasTable
  <2>3. SegmentSoFar'
    <3>1. \A v \in UserPages : pt'["kernel"][v] = UNMAPPED
      BY <1>3, Where, Layout, Regions DEF IInv, SegmentSoFar, Space
    <3>. QED
      BY <3>1, <1>10, Where DEF SegmentSoFar
  <2>4. SegmentsLoaded' /\ TaskIsWhole'
    BY <1>1, <1>7, <1>10, Where DEF SegmentsLoaded, TaskIsWhole
  <2>5. Untouched'
    <3>1. \A f \in Frame : mem[f] = Blank
      BY Where DEF IInv, Untouched
    <3>. QED
      BY <1>1, <1>2, <3>1 DEF Untouched
  <2>. QED
    BY <1>4, <1>5, <1>6, <1>8, <2>1, <2>2, <2>3, <2>4, <2>5 DEF IInv
<1>. QED
  BY <1>1, <1>9, <1>10

LEMMA TakeDirectoryKeeps ==
  ASSUME IInv, TakeDirectory
  PROVE  IInv'
<1>1. pc = "create_pd"
  BY DEF TakeDirectory
<1>2. TypeOK /\ NothingAhead /\ FramesApart /\ "kernel" \in Space /\ "task" \in Space /\ WINDOW \in Page
  BY Layout DEF IInv, Space
<1>3. CASE ~ (IsLeft(given) /\ CanMap("kernel", WINDOW, After)) /\ given' = After /\ NoDirectory
  <2>1. given' = frames
    BY <1>2, <1>3, Allocates DEF CanMap, IsLeft
  <2>. QED
    BY <1>1, <1>3, <2>1, NoDirectoryKeeps
<1>4. CASE /\ IsLeft(given)
           /\ CanMap("kernel", WINDOW, After)
           /\ map_page("kernel", alloc_page, WINDOW, After)
           /\ dir' = alloc_page
           /\ Goto("task_low")
           /\ UNCHANGED <<frames, mem, program, seg>>
  <2>1. /\ alloc_page = Address(given) /\ alloc_page \in Frame /\ After = given + 1 /\ given < frames
        /\ given \in 0 .. frames /\ frames \in Nat
    BY <1>2, <1>4, Allocates
  <2>2. MapsSafely("kernel", alloc_page, WINDOW, After)
    BY <1>4, <2>1 DEF MapsSafely
  <2>3. /\ given <= given' /\ given' \in 0 .. frames /\ Frame' = Frame
        /\ pd' \in [Space -> [Table -> Frame \cup {NULL}]]
        /\ pt' \in [Space -> [Page -> Frame \cup {NULL, UNMAPPED} \cup Low \cup Framebuffer]]
        /\ dir' \in Frame \cup {NULL}
    BY <1>2, <1>4, <2>1, <2>2, MapType
  <2>4. NothingAhead' /\ FramesApart'
    BY <1>2, <1>4, <2>2, MapApart
  <2>5. TypeOK'
    BY <1>4, <2>3 DEF IInv, TypeOK, Goto
  <2>6. /\ \A r \in Space, w \in Page : r # "kernel" \/ w # WINDOW => pt'[r][w] = pt[r][w]
        /\ \A r \in Space, u \in Table : r # "kernel" \/ u # TableOf(WINDOW) => pd'[r][u] = pd[r][u]
    BY <1>2, <1>4, MapEffect
  <2>7. /\ \A v \in Page : pt'["task"][v] = UNMAPPED
        /\ \A u \in Table : pd'["task"][u] = NULL
    BY <1>1, <1>2, <2>6, Where DEF IInv, TaskSoFar
  <2>8. \A v \in Heap : pt'["kernel"][v] \in Frame
    BY <1>1, <1>2, <2>1, <2>6, Where, Layout, Regions DEF IInv, HeapMapped, Past
  <2>9. dir' # NULL
    BY <1>2, <1>4, <2>1, FrameRange, Layout DEF TypeOK
  <2>10. program \notin NoPrograms
    BY <1>1, Where DEF IInv, LoopsInBounds
  <2>11. pc' = "task_low" /\ i' = 0
    BY <1>4 DEF Goto
  <2>12. \A v \in Page \ {WINDOW} : pt'["kernel"][v] = pt["kernel"][v]
    BY <1>2, <2>6
  <2>13. \A v \in Page \ {WINDOW} : pt'["task"][v] = NULL => v \in Low
    BY <2>7
  <2>14. pd'["task"][TableOf(STACK)] = NULL
    BY <2>7, Tables, Layout
  <2>. QED
    BY <1>1, <1>4, <2>3, <2>4, <2>5, <2>7, <2>8, <2>9, <2>10, <2>11, <2>12, <2>13, <2>14, MakeStep, Where
<1>. QED
  BY <1>3, <1>4 DEF TakeDirectory

LEMMA TaskLowKeeps ==
  ASSUME IInv, TaskLow
  PROVE  IInv'
<1>1. pc = "task_low" /\ dir # NULL /\ program \notin NoPrograms /\ seg = 1
  BY Where DEF TaskLow, IInv, TaskSoFar, LoopsInBounds
<1>2. TypeOK /\ NothingAhead /\ FramesApart /\ "kernel" \in Space /\ "task" \in Space
  BY DEF IInv, Space
<1>3. /\ \A v \in Page : pt["task"][v] = UNMAPPED
      /\ \A u \in Table : pd["task"][u] = NULL
  BY <1>1, Where DEF IInv, TaskSoFar
<1>4. CASE ~ IsLeft(given) /\ NoDirectory /\ UNCHANGED given
  <2>1. given' = After /\ given' = frames
    BY <1>2, <1>4, Allocates
  <2>. QED
    BY <1>1, <1>4, <2>1, Where, NoDirectoryKeeps
<1>5. CASE IsLeft(given) /\ MapLow("task", alloc_page) /\ given' = After /\ Goto("task_fb") /\ UNCHANGED loading
  <2>1. /\ pc' = "task_fb" /\ i' = 0 /\ UNCHANGED <<frames, mem, dir, program, seg>>
    BY <1>5 DEF Goto, loading
  <2>2. pd["task"][0] = NULL
    BY <1>3, Tables
  <2>3. /\ Frame' = Frame
        /\ given' \in 0 .. frames /\ given' = given + 1
        /\ pd' \in [Space -> [Table -> Frame \cup {NULL}]]
        /\ pt' \in [Space -> [Page -> Frame \cup {NULL, UNMAPPED} \cup Low \cup Framebuffer]]
        /\ \A r \in Space, w \in Page :
             pt'[r][w] = IF r = "task" /\ w \in Low THEN w ELSE pt[r][w]
        /\ \A r \in Space, u \in Table :
             pd'[r][u] = IF r = "task" /\ u = 0 THEN ENTRIES + given ELSE pd[r][u]
        /\ NothingAhead' /\ FramesApart'
    BY <1>2, <1>5, <2>1, <2>2, MapLowSafe
  <2>4. TypeOK'
    BY <2>1, <2>3, <1>2 DEF TypeOK
  <2>5. \A v \in Page : pt'["kernel"][v] = pt["kernel"][v]
    BY <1>2, <2>3
  <2>6. \A v \in Heap : pt'["kernel"][v] \in Frame
    BY <1>1, <2>5, Where, Layout DEF IInv, HeapMapped, HasDirectory, Past
  <2>7. pd'["task"][TableOf(STACK)] = NULL
    BY <1>2, <1>3, <2>3, Tables, Layout, SMTT(30)
  <2>8. \A v \in Low : pt'["task"][v] = v
    BY <1>2, <2>3, Layout
  <2>9. \A v \in Page \ {WINDOW} : pt'["task"][v] = NULL => v \in Low
    BY SMTT(30), <1>2, <1>3, <2>3
  <2>10. \A v \in Framebuffer : ~ Past("task_fb", FB_BASE, v)'
    BY <2>1, Layout DEF Past
  <2>11. given <= given'
    BY <2>3, Allocates, <1>2
  <2>12. 0 < FB_PAGES
    BY Layout
  <2>. QED
    BY <1>1, <2>1, <2>3, <2>4, <2>5, <2>6, <2>7, <2>8, <2>9, <2>10, <2>11, <2>12, MakeStep, Where
<1>. QED
  BY <1>4, <1>5 DEF TaskLow

\* The two loops of create_pd.
LEMMA TaskMapsKeeps ==
  ASSUME IInv, NEW v, NEW phys, NEW n, NEW to, TaskMaps(v, phys, n, to),
         \/ pc = "task_fb" /\ v = FB_BASE + i /\ phys = v /\ n = FB_PAGES /\ to = "task_heap"
         \/ pc = "task_heap" /\ v = HEAP_BASE + i /\ phys = pt["kernel"][v] /\ n = TASK_HEAP /\ to = "load"
  PROVE  IInv'
<1>1. /\ pc \in MakesTask /\ dir # NULL /\ program \notin NoPrograms /\ seg = 1
      /\ i \in Nat /\ (pc = "task_fb" => i < FB_PAGES) /\ (pc = "task_heap" => i < TASK_HEAP)
  BY Where DEF IInv, TypeOK, TaskSoFar, LoopsInBounds
<1>2. /\ TypeOK /\ NothingAhead /\ FramesApart /\ "kernel" \in Space /\ "task" \in Space
      /\ given \in 0 .. frames /\ frames \in Nat
  BY Allocates DEF IInv, Space
<1>3. /\ v \in Page /\ v # WINDOW /\ v # STACK /\ v \notin Low
      /\ pc = "task_fb" => v \in Framebuffer
      /\ pc = "task_heap" => v \in HEAP_BASE .. HEAP_BASE + TASK_HEAP - 1 /\ v \in Heap
  BY <1>1, Layout, Regions, SMTT(30)
<1>4. CASE ~ CanMap("task", v, given) /\ NoDirectory /\ UNCHANGED given
  <2>1. given' = After /\ given' = frames
    BY <1>2, <1>4, Allocates DEF CanMap, IsLeft
  <2>. QED
    BY <1>1, <1>4, <2>1, NoDirectoryKeeps
<1>5. CASE /\ CanMap("task", v, given)
           /\ map_page("task", phys, v, given)
           /\ Loop(n, to)
           /\ UNCHANGED loading
  <2>1. /\ UNCHANGED <<frames, mem, dir, program, seg>>
        /\ \/ pc' = pc /\ i' = i + 1 /\ i' < n
           \/ pc' = to /\ i' = 0 /\ i + 1 >= n
    BY SMTT(30), <1>1, <1>5, Layout DEF Loop, loading
  <2>2. MapsSafely("task", phys, v, given)
    BY <1>2, <1>3, <1>5, <2>1 DEF MapsSafely
  <2>3. /\ given <= given' /\ given' \in 0 .. frames /\ Frame' = Frame
        /\ pd' \in [Space -> [Table -> Frame \cup {NULL}]]
        /\ pt' \in [Space -> [Page -> Frame \cup {NULL, UNMAPPED} \cup Low \cup Framebuffer]]
    BY <1>2, <1>3, <2>1, <2>2, MapType
  <2>4. NothingAhead' /\ FramesApart'
    BY <1>2, <1>3, <2>1, <2>2, MapApart
  <2>5. TypeOK'
    <3>1. i' \in Nat /\ pc' \in MakesTask \cup {"load"}
      BY <1>1, <2>1, Where
    <3>. QED
      BY <2>1, <2>3, <3>1, <1>2, Where DEF TypeOK
  <2>6. /\ pt'["task"][v] = phys
        /\ \A r \in Space, w \in Page : r # "task" \/ w # v => pt'[r][w] = pt[r][w]
        /\ \A r \in Space, u \in Table : r # "task" \/ u # TableOf(v) => pd'[r][u] = pd[r][u]
    BY <1>2, <1>3, <1>5, MapEffect
  <2>7. \A w \in Page : pt'["kernel"][w] = pt["kernel"][w]
    BY <1>2, <2>6
  <2>8. \A w \in Heap : pt["kernel"][w] \in Frame
    BY <1>1, Where DEF IInv, HeapMapped, HasDirectory, Past
  <2>9. \A w \in Heap : pt'["kernel"][w] \in Frame
    BY <2>7, <2>8, Layout
  <2>10. pd'["task"][TableOf(STACK)] = NULL
    <3>1. pd["task"][TableOf(STACK)] = NULL
      BY <1>1, Where DEF IInv, TaskSoFar, HasTable
    <3>. QED
      BY <3>1, <1>2, <1>3, <2>6, Tables, Layout
  <2>11. HasDirectory
    BY <1>1, Where DEF HasDirectory
  <2>12. \A w \in Low : pt'["task"][w] = w
    <3>1. \A w \in Low : pt["task"][w] = w
      BY <1>1, <2>11 DEF IInv, TaskSoFar
    <3>. QED
      BY SMTT(30), <3>1, <1>2, <1>3, <2>6, Layout
  <2>13. \A w \in Framebuffer : Past("task_fb", FB_BASE, w)' => pt'["task"][w] = w
    <3>. SUFFICES ASSUME NEW w \in Framebuffer, Past("task_fb", FB_BASE, w)' PROVE pt'["task"][w] = w
      OBVIOUS
    <3>1. Past("task_fb", FB_BASE, w) \/ (pc = "task_fb" /\ w = v)
      <4>1. w \in Nat /\ FB_BASE \in Nat /\ FB_PAGES \in Nat /\ w < FB_BASE + FB_PAGES
        BY Layout
      <4>2. CASE pc' = pc /\ i' = i + 1
        <5>1. pc = "task_fb" => w < FB_BASE + (i + 1)
          BY <4>2 DEF Past
        <5>. QED
          BY <5>1, <4>1, <1>1 DEF Past
      <4>3. CASE pc' = to /\ i + 1 >= n
        <5>1. pc = "task_fb" => i + 1 >= FB_PAGES /\ v = FB_BASE + i
          BY <4>3
        <5>. QED
          BY <5>1, <4>1, <1>1 DEF Past
      <4>. QED
        BY <4>2, <4>3, <2>1
    <3>2. Past("task_fb", FB_BASE, w) => pt["task"][w] = w
      BY <1>1, <2>11 DEF IInv, TaskSoFar
    <3>3. CASE w = v
      BY <3>3, <2>6, <1>3, Regions
    <3>4. CASE w # v
      BY <3>1, <3>2, <3>4, <2>6, <1>2, Layout
    <3>. QED
      BY <3>3, <3>4
  <2>14. ASSUME pc' # "task_fb",
                NEW w \in HEAP_BASE .. HEAP_BASE + TASK_HEAP - 1, Past("task_heap", HEAP_BASE, w)'
         PROVE  pt'["task"][w] = pt'["kernel"][w]
    <3>1. w \in Heap /\ w \in Page /\ w \in Nat /\ w < HEAP_BASE + TASK_HEAP /\ w >= HEAP_BASE
      BY Layout
    <3>2. pc = "task_heap"
      <4>1. CASE pc = "task_fb"
        <5>1. pc' = "task_heap" /\ i' = 0
          BY <4>1, <2>1, <2>14
        <5>. QED
          BY <5>1, <3>1, <2>14, Layout DEF Past
      <4>. QED
        BY <4>1
    <3>7. HEAP_BASE \in Nat /\ TASK_HEAP \in Nat /\ i \in Nat
      BY <1>1, Layout
    <3>3. Past("task_heap", HEAP_BASE, w) \/ w = v
      <4>1. CASE pc' = pc /\ i' = i + 1
        <5>1. w < HEAP_BASE + (i + 1) /\ v = HEAP_BASE + i
          BY <3>2, <4>1, <2>14 DEF Past
        <5>2. w < HEAP_BASE + i \/ w = v
          BY <5>1, <3>1, <3>7
        <5>. QED
          BY <5>2 DEF Past
      <4>2. CASE pc' = to /\ i + 1 >= n
        <5>1. i + 1 >= TASK_HEAP /\ v = HEAP_BASE + i
          BY <3>2, <4>2
        <5>2. w < HEAP_BASE + i \/ w = v
          BY <5>1, <3>1, <3>7
        <5>. QED
          BY <5>2 DEF Past
      <4>. QED
        BY <4>1, <4>2, <2>1
    <3>4. Past("task_heap", HEAP_BASE, w) => pt["task"][w] = pt["kernel"][w]
      BY <1>1, <2>11, <3>2, Where DEF IInv, TaskSoFar
    <3>5. CASE w = v
      BY <3>5, <3>2, <2>6, <2>7, <3>1
    <3>6. CASE w # v
      BY <3>1, <3>3, <3>4, <3>6, <2>6, <2>7, <1>2
    <3>. QED
      BY <3>5, <3>6
  <2>15. ASSUME NEW w \in Page \ {WINDOW}, pt'["task"][w] = NULL
         PROVE  w \in Low \/ (w \in Heap /\ given' = frames)
    <3>1. CASE w = v
      <4>1. phys # NULL
        <5>1. pc = "task_fb" => v # NULL
          BY <1>3, Layout
        <5>2. pc = "task_heap" => phys \in Frame
          BY <2>8, <1>3
        <5>3. NULL \notin Frame
          BY FrameRange, Layout, <1>2 DEF TypeOK
        <5>. QED
          BY <5>1, <5>2, <5>3
      <4>. QED
        BY <3>1, <4>1, <2>6, <2>15
    <3>2. CASE w # v
      <4>1. pt["task"][w] = NULL
        BY <3>2, <2>6, <2>15, <1>2
      <4>2. w \notin Low => w \in Heap /\ given = frames
        BY <4>1, <1>2, NullByPage
      <4>. QED
        BY <4>2, <2>3, <1>2
    <3>. QED
      BY <3>1, <3>2
  <2>16. /\ pc' = "task_fb" => i' < FB_PAGES
         /\ pc' = "task_heap" => i' < TASK_HEAP
         /\ pc' \in {"task_fb", "task_heap", "load"}
    BY <2>1, Layout
  <2>. QED
    BY <1>1, <2>1, <2>3, <2>4, <2>5, <2>7, <2>9, <2>10, <2>12, <2>13, <2>14, <2>15, <2>16, MakeStep, Where
<1>. QED
  BY <1>4, <1>5 DEF TaskMaps

LEMMA TaskFramebufferKeeps ==
  ASSUME IInv, TaskFramebuffer
  PROVE  IInv'
BY TaskMapsKeeps DEF TaskFramebuffer

LEMMA TaskHeapKeeps ==
  ASSUME IInv, TaskHeap
  PROVE  IInv'
BY TaskMapsKeeps DEF TaskHeap
-----------------------------------------------------------------------------
\* A step of load_elf that goes on, and maps pages of programs only.
LEMMA LoadStep ==
  ASSUME IInv, pc \in Loads, pc' \in Loads, UNCHANGED <<frames, dir, program>>,
         TypeOK', NothingAhead', FramesApart', given <= given',
         LoopsInBounds', Untouched', SegmentSoFar', SegmentsLoaded',
         \A s \in Space, v \in Page \ UserPages : pt'[s][v] = pt[s][v],
         \A s \in Space, v \in UserPages : pt'[s][v] = pt[s][v] \/ pt'[s][v] # NULL,
         pd'["task"][TableOf(STACK)] = NULL,
         mem'[NULL] = Blank,
         pc' \in {"mmap_task", "read", "copy", "create_task"} => dir # NULL,
         dir = NULL => \A n \in 1 .. seg' - 1 : program[n].kind = "other"
  PROVE  IInv'
<1>1. /\ Frame' = Frame /\ "kernel" \in Space /\ "task" \in Space
      /\ program \notin NoPrograms
  BY Where DEF Frame, Address, Space, IInv, LoopsInBounds
<1>2. /\ given' \in 0 .. frames /\ given \in 0 .. frames /\ frames \in Nat
  BY FrameRange DEF IInv, TypeOK
<1>3. HasDirectory' <=> HasDirectory
  BY Where DEF HasDirectory
<1>4. \A v \in Heap : v \in Page \ UserPages
  BY Layout, Regions
<1>5. HeapMapped'
  BY <1>1, <1>3, <1>4, Where DEF IInv, HeapMapped, Past
<1>6. TaskSoFar'
  <2>1. \A v \in Low \cup Framebuffer : v \in Page \ UserPages
    BY Layout, Regions
  <2>2. \A v \in HEAP_BASE .. HEAP_BASE + TASK_HEAP - 1 : v \in Heap
    BY Layout
  <2>3. HasDirectory => /\ \A v \in Low : pt'["task"][v] = v
                        /\ \A v \in Framebuffer : pt'["task"][v] = v
                        /\ \A v \in HEAP_BASE .. HEAP_BASE + TASK_HEAP - 1 : pt'["task"][v] = pt'["kernel"][v]
    BY <1>1, <1>4, <2>1, <2>2, Where DEF IInv, TaskSoFar, Past
  <2>4. ~ HasTable("task", STACK)'
    BY DEF HasTable
  <2>5. dir = NULL => given' = frames
    BY <1>2, Where DEF IInv, TaskSoFar
  <2>. QED
    BY <1>3, <2>3, <2>4, <2>5, Where DEF TaskSoFar
<1>7. TaskIsWhole'
  BY Where DEF TaskIsWhole
<1>8. LoadOutcome'
  <2>1. ASSUME NEW s \in Space, NEW v \in Page \ {WINDOW}, pt'[s][v] = NULL, v \notin Low
        PROVE  v \in Heap /\ given' = frames'
    <3>1. pt[s][v] = NULL
      BY <2>1
    <3>2. v \in Heap /\ given = frames
      BY <2>1, <3>1, NullByPage
    <3>. QED
      BY <3>2, <1>2
  <2>2. NullsInPlaces'
    BY <2>1, NullsNext DEF NullsByPage
  <2>. QED
    BY <1>1, <2>2, Where DEF LoadOutcome, NullsInPlaces
<1>. QED
  BY <1>5, <1>6, <1>7, <1>8 DEF IInv

\* What holds whenever load_elf runs.
LEMMA LoadFacts ==
  ASSUME IInv, pc \in Loads
  PROVE  /\ program \in Programs /\ program \in Seq(Segment) /\ program \notin NoPrograms
         /\ Len(program) \in Nat /\ DOMAIN program = 1 .. Len(program)
         /\ seg \in 1 .. Len(program) + 1 /\ seg \in Nat
         /\ pd["task"][TableOf(STACK)] = NULL
         /\ mem[NULL] = Blank
         /\ \A f \in Frame : f >= ENTRIES + given => mem[f] = Blank
         /\ dir = NULL => given = frames /\ \A n \in 1 .. seg - 1 : program[n].kind = "other"
         /\ \A n \in 1 .. seg - 1 : program[n].kind = "load" =>
              \A v \in PagesIn(program[n]) : pt["task"][v] \in Frame /\ mem[pt["task"][v]] = Loaded(program[n], v)
<1>1. program \in Programs /\ program \notin NoPrograms /\ seg \in 1 .. Len(program) + 1
  BY Where DEF IInv, TypeOK, LoopsInBounds
<1>2. program \in Seq(Segment)
  BY <1>1, ProgramAssumption
<1>3. Len(program) \in Nat /\ DOMAIN program = 1 .. Len(program)
  BY <1>2
<1>4. pd["task"][TableOf(STACK)] = NULL /\ mem[NULL] = Blank
  BY Where DEF IInv, TaskSoFar, HasTable, LoadOutcome
<1>5. dir = NULL => given = frames /\ \A n \in 1 .. seg - 1 : program[n].kind = "other"
  BY DEF IInv, TaskSoFar
<1>6. \A n \in 1 .. seg - 1 : program[n].kind = "load" =>
        \A v \in PagesIn(program[n]) : pt["task"][v] \in Frame /\ mem[pt["task"][v]] = Loaded(program[n], v)
  BY DEF IInv, SegmentsLoaded
<1>7. \A f \in Frame : f >= ENTRIES + given => mem[f] = Blank
  BY DEF IInv, Untouched
<1>. QED
  BY <1>1, <1>2, <1>3, <1>4, <1>5, <1>6, <1>7

\* What load_elf does without writing to memory leaves the frames that are left alone.
LEMMA StaysUntouched ==
  ASSUME IInv, pc \in Loads, pc' \in Loads, UNCHANGED <<frames, mem>>, given' \in given .. frames
  PROVE  Untouched'
<1>1. /\ Frame = ENTRIES .. ENTRIES + frames - 1
      /\ ENTRIES \in Nat /\ frames \in Nat /\ given \in Nat
  BY FrameRange, Layout DEF IInv, TypeOK
<1>5. Frame' = Frame
  BY DEF Frame, Address
<1>2. \A f \in Frame : f >= ENTRIES + given => mem[f] = Blank
  BY LoadFacts
<1>3. \A f \in Frame' : f >= ENTRIES + given' => mem'[f] = Blank
  <2>1. given' >= given /\ given' \in Nat
    BY <1>1
  <2>2. ASSUME NEW f \in Frame, f >= ENTRIES + given' PROVE f >= ENTRIES + given
    <3>1. f \in Nat
      BY <1>1
    <3>2. \A x, y, e, z \in Nat : x >= e + y /\ y >= z => x >= e + z
      OBVIOUS
    <3>. QED
      BY <1>1, <2>1, <2>2, <3>1, <3>2, ZenonT(60)
  <2>. QED
    BY <1>2, <1>5, <2>2
<1>4. pc' \notin Booting \cup MakesTask
  BY Where
<1>. QED
  BY <1>3, <1>4 DEF Untouched

LEMMA NextHeaderKeeps ==
  ASSUME IInv, NextHeader
  PROVE  IInv'
<1>1. /\ pc = "load" /\ seg <= Len(program)
      /\ UNCHANGED <<frames, given, pd, pt, mem, dir, program>>
  BY DEF NextHeader
<1>2. /\ pc \in Loads /\ program \in Programs /\ program \in Seq(Segment) /\ program \notin NoPrograms
      /\ Len(program) \in Nat /\ DOMAIN program = 1 .. Len(program)
      /\ seg \in DOMAIN program /\ seg \in Nat
      /\ pd["task"][TableOf(STACK)] = NULL
      /\ mem[NULL] = Blank
      /\ dir = NULL => given = frames /\ \A n \in 1 .. seg - 1 : program[n].kind = "other"
      /\ \A n \in 1 .. seg - 1 : program[n].kind = "load" =>
           \A v \in PagesIn(program[n]) : pt["task"][v] \in Frame /\ mem[pt["task"][v]] = Loaded(program[n], v)
  BY <1>1, LoadFacts, Where
<1>3. NothingAhead' /\ FramesApart' /\ Frame' = Frame /\ given \in Nat
  BY <1>1, StandsStill, Allocates DEF IInv
<1>4. \A v \in UserPages : pt["kernel"][v] # UNMAPPED =>
        \E n \in DOMAIN program : /\ n < seg
                                  /\ program[n].kind = "load"
                                  /\ v < program[n].page + PagesOf(program[n])
  BY <1>1, Where DEF IInv, SegmentSoFar
<1>8. given' \in given .. frames
  BY <1>1, Allocates DEF IInv
<1>5. CASE header.kind = "load" /\ Goto("mmap_kernel") /\ UNCHANGED seg
  <2>1. pc' = "mmap_kernel" /\ i' = 0 /\ header' = header /\ program[seg].kind = "load"
    BY <1>1, <1>5 DEF Goto, header
  <2>2. TypeOK'
    BY <1>1, <1>3, <1>5, <2>1 DEF IInv, TypeOK
  <2>3. 0 < PagesOf(header) /\ header.page \in Nat
    BY <1>2, <2>1, SegmentFacts DEF header
  <2>4. LoopsInBounds'
    BY <1>1, <1>2, <1>5, <2>1, <2>3, Where DEF LoopsInBounds, LoadsSegment
  <2>5. SegmentSoFar'
    <3>1. \A v \in UserPages : pt'["kernel"][v] # UNMAPPED =>
            \E n \in DOMAIN program : n <= seg /\ program[n].kind = "load"
                                      /\ v < program[n].page + PagesOf(program[n])
      BY <1>1, <1>2, <1>4
    <3>2. \A v \in PagesIn(header) : ~ Past("mmap_kernel", header.page, v)'
      BY <2>1, <2>3 DEF Past, PagesIn
    <3>. QED
      BY <1>1, <1>5, <2>1, <3>1, <3>2, Where DEF SegmentSoFar
  <2>6. SegmentsLoaded'
    BY <1>1, <1>2, <1>3, <1>5 DEF SegmentsLoaded
  <2>7. Untouched'
    BY <1>1, <1>2, <1>8, <2>1, StaysUntouched, Where
  <2>. QED
    BY <1>1, <1>2, <1>3, <1>5, <2>1, <2>2, <2>4, <2>5, <2>6, <2>7, LoadStep, Where
<1>6. CASE header.kind = "other" /\ seg' = seg + 1 /\ UNCHANGED <<pc, i>>
  <2>1. TypeOK'
    <3>1. seg' \in 1 .. Len(program) + 1
      BY <1>1, <1>2, <1>6
    <3>. QED
      BY <1>1, <1>3, <1>6, <3>1 DEF IInv, TypeOK
  <2>2. LoopsInBounds'
    BY <1>1, <1>2, <1>6, Where DEF LoopsInBounds
  <2>3. SegmentSoFar'
    <3>1. \A v \in UserPages : pt'["kernel"][v] # UNMAPPED =>
            \E n \in DOMAIN program : n < seg' /\ program[n].kind = "load"
                                      /\ v < program[n].page + PagesOf(program[n])
      BY <1>1, <1>2, <1>4, <1>6
    <3>. QED
      BY <1>1, <1>6, <3>1, Where DEF SegmentSoFar
  <2>4. \A n \in 1 .. seg' - 1 : n \in 1 .. seg - 1 \/ (n = seg /\ program[n].kind = "other")
    BY <1>2, <1>6 DEF header
  <2>5. SegmentsLoaded'
    BY <1>1, <1>2, <1>3, <2>4 DEF SegmentsLoaded
  <2>6. dir = NULL => \A n \in 1 .. seg' - 1 : program[n].kind = "other"
    BY <1>2, <2>4
  <2>7. Untouched'
    BY <1>1, <1>2, <1>6, <1>8, StaysUntouched, Where
  <2>. QED
    BY <1>1, <1>2, <1>3, <1>6, <2>1, <2>2, <2>3, <2>5, <2>6, <2>7, LoadStep, Where
<1>7. CASE header.kind = "refused" /\ Goto("failed") /\ UNCHANGED seg
  <2>1. pc' = "failed" /\ i' = 0 /\ header' = header
    BY <1>1, <1>7 DEF Goto, header
  <2>2. TypeOK'
    BY <1>1, <1>3, <1>7, <2>1 DEF IInv, TypeOK
  <2>3. NullsInPlaces'
    BY <1>1 DEF IInv, LoadOutcome, NullsInPlaces
  <2>4. LoadOutcome'
    BY <1>1, <1>2, <1>7, <2>1, <2>3 DEF LoadOutcome, NullsInPlaces
  <2>. QED
    BY <1>1, <1>3, <2>1, <2>2, <2>4, StopStep, Where
<1>. QED
  BY <1>5, <1>6, <1>7 DEF NextHeader

LEMMA LastHeaderKeeps ==
  ASSUME IInv, LastHeader
  PROVE  IInv'
<1>1. /\ pc = "load" /\ seg > Len(program) /\ pc' = "create_task" /\ i' = 0
      /\ UNCHANGED <<frames, given, pd, pt, mem, dir, program, seg>>
  BY DEF LastHeader, Goto, loading
<1>2. /\ pc \in Loads /\ program \in Programs /\ program \notin NoPrograms
      /\ Len(program) \in Nat /\ DOMAIN program = 1 .. Len(program)
      /\ seg \in Nat
      /\ pd["task"][TableOf(STACK)] = NULL
      /\ mem[NULL] = Blank
      /\ dir = NULL => \A n \in 1 .. seg - 1 : program[n].kind = "other"
  BY <1>1, LoadFacts, Where
<1>3. NothingAhead' /\ FramesApart' /\ Frame' = Frame /\ given \in Nat
  BY <1>1, StandsStill, Allocates DEF IInv
<1>4. dir # NULL
  <2>1. PICK n \in DOMAIN program : program[n].kind # "other"
    BY <1>2, ProgramAssumption
  <2>2. n \in 1 .. seg - 1
    BY <1>1, <1>2
  <2>. QED
    BY <1>2, <2>1, <2>2
<1>5. TypeOK'
  BY <1>1, <1>3 DEF IInv, TypeOK
<1>6. LoopsInBounds'
  BY <1>1, <1>2, Where DEF LoopsInBounds
<1>7. SegmentSoFar'
  BY <1>1, Where DEF SegmentSoFar
<1>8. SegmentsLoaded'
  BY <1>1, <1>3, Where DEF IInv, SegmentsLoaded
<1>9. Untouched'
  <2>1. given' \in given .. frames
    BY <1>1, Allocates DEF IInv
  <2>. QED
    BY <1>1, <1>2, <2>1, StaysUntouched, Where
<1>. QED
  BY <1>1, <1>2, <1>3, <1>4, <1>5, <1>6, <1>7, <1>8, <1>9, LoadStep, Where

\* Of two segments the one that comes first in the file lies first.
LEMMA Ascending ==
  ASSUME program \in Programs, NEW m \in DOMAIN program, NEW n \in DOMAIN program, m < n,
         program[m].kind = "load", program[n].kind = "load",
         NEW w \in PagesIn(program[m]), NEW v \in PagesIn(program[n])
  PROVE  w \in UserPages /\ v \in UserPages /\ w < v
<1>1. /\ PagesOf(program[m]) \in Nat /\ program[m].page \in Nat
      /\ PagesOf(program[n]) \in Nat /\ program[n].page \in Nat
      /\ PagesIn(program[m]) \subseteq UserPages /\ PagesIn(program[n]) \subseteq UserPages
      /\ \A k \in 1 .. n - 1 : program[k].kind = "load" =>
           program[k].page + PagesOf(program[k]) <= program[n].page
  BY SegmentFacts
<1>2. DOMAIN program \subseteq Nat \ {0}
  BY ProgramAssumption
<1>3. m \in 1 .. n - 1
  BY <1>2
<1>4. program[m].page + PagesOf(program[m]) <= program[n].page
  BY <1>1, <1>3
<1>. QED
  BY <1>1, <1>4 DEF PagesIn

\* The segment that is worked on.
LEMMA SegmentWorkedOn ==
  ASSUME IInv, pc \in WorksOnSegment
  PROVE  /\ seg \in DOMAIN program /\ program[seg].kind = "load" /\ header = program[seg]
         /\ PagesOf(header) \in Nat \ {0} /\ header.page \in Nat /\ header \in Segment
         /\ PagesIn(header) \subseteq UserPages
         /\ header.page + PagesOf(header) \notin Page \ UserPages
         /\ \A n \in 1 .. seg - 1 : program[n].kind = "load" =>
              /\ n \in DOMAIN program
              /\ \A w \in PagesIn(program[n]), v \in PagesIn(header) : w \in UserPages /\ w < v
<1>1. /\ program \in Programs /\ Len(program) \in Nat /\ DOMAIN program = 1 .. Len(program)
      /\ seg \in Nat /\ seg \in 1 .. Len(program) + 1
  BY LoadFacts, Where
<1>2. seg \in DOMAIN program /\ program[seg].kind = "load" /\ header = program[seg]
  BY <1>1 DEF IInv, LoopsInBounds, LoadsSegment, header
<1>3. /\ PagesOf(header) \in Nat \ {0} /\ header.page \in Nat /\ header \in Segment
      /\ PagesIn(header) \subseteq UserPages
      /\ header.page + PagesOf(header) \notin Page \ UserPages
  BY <1>1, <1>2, SegmentFacts
<1>4. ASSUME NEW n \in 1 .. seg - 1, program[n].kind = "load"
      PROVE  /\ n \in DOMAIN program
             /\ \A w \in PagesIn(program[n]), v \in PagesIn(header) : w \in UserPages /\ w < v
  <2>1. n \in DOMAIN program /\ n < seg
    BY <1>1
  <2>. QED
    BY <1>1, <1>2, <1>4, <2>1, Ascending
<1>. QED
  BY <1>2, <1>3, <1>4

\* One page of a segment is mapped, in the kernel or in the task.
LEMMA MapsKeeps ==
  ASSUME IInv, NEW s, NEW to, Maps(s, header.page + i, to),
         \/ pc = "mmap_kernel" /\ s = "kernel" /\ to = "mmap_task"
         \/ pc = "mmap_task" /\ s = "task" /\ to = "read"
  PROVE  IInv'
<1>. DEFINE v == header.page + i
<1>1. pc \in WorksOnSegment /\ pc \in Loads /\ s \in Space
  BY Where DEF Space
<1>2. /\ seg \in DOMAIN program /\ program[seg].kind = "load" /\ header = program[seg]
      /\ PagesOf(header) \in Nat \ {0} /\ header.page \in Nat
      /\ PagesIn(header) \subseteq UserPages
      /\ \A n \in 1 .. seg - 1 : program[n].kind = "load" =>
           \A w \in PagesIn(program[n]), u \in PagesIn(header) : w \in UserPages /\ w < u
  BY <1>1, SegmentWorkedOn
<1>3. /\ program \in Programs /\ program \notin NoPrograms /\ seg \in Nat
      /\ pd["task"][TableOf(STACK)] = NULL
      /\ mem[NULL] = Blank
      /\ dir = NULL => given = frames /\ \A n \in 1 .. seg - 1 : program[n].kind = "other"
      /\ \A n \in 1 .. seg - 1 : program[n].kind = "load" =>
           \A w \in PagesIn(program[n]) : pt["task"][w] \in Frame /\ mem[pt["task"][w]] = Loaded(program[n], w)
  BY <1>1, LoadFacts
<1>4. /\ i \in Nat /\ i < PagesOf(header) /\ LoadsSegment
  <2>1. i \in Nat
    BY DEF IInv, TypeOK
  <2>2. /\ pc \in {"mmap_kernel", "mmap_task"} => i < PagesOf(header)
        /\ pc \in WorksOnSegment => LoadsSegment
    BY DEF IInv, LoopsInBounds
  <2>3. pc \in {"mmap_kernel", "mmap_task"}
    OBVIOUS
  <2>. QED
    BY <1>1, <2>1, <2>2, <2>3
<1>5. v \in PagesIn(header) /\ v \in UserPages /\ v \in Page /\ v # STACK /\ v # WINDOW /\ v \in Nat
  <2>1. v \in PagesIn(header)
    BY <1>2, <1>4 DEF PagesIn
  <2>2. v \in UserPages
    BY <1>2, <2>1
  <2>. HIDE DEF v
  <2>. QED
    BY <2>1, <2>2, Layout, Regions
<1>6. TypeOK /\ NothingAhead /\ FramesApart /\ UNCHANGED loading /\ "kernel" \in Space /\ "task" \in Space
  BY DEF Maps, IInv, Space
<1>7. /\ UNCHANGED <<frames, mem, dir, program, seg>> /\ header' = header
      /\ LoadsSegment' = LoadsSegment
  BY <1>6 DEF loading, header, LoadsSegment
<1>8. CASE ~ (IsLeft(given) /\ CanMap(s, v, After)) /\ given' = After /\ Goto("failed") /\ UNCHANGED <<pd, pt>>
  <2>1. /\ given' = frames /\ (given' = given \/ (given' = given + 1 /\ given' <= frames))
        /\ given \in 0 .. frames /\ frames \in Nat
    BY <1>6, <1>8, Allocates DEF CanMap, IsLeft
  <2>2. NothingAhead' /\ FramesApart' /\ Frame' = Frame
    BY <1>6, <1>7, <1>8, <2>1, StandsStill
  <2>3. TypeOK'
    BY <1>6, <1>7, <1>8, <2>1, <2>2 DEF TypeOK, Goto
  <2>4. NullsInPlaces'
    BY <1>7, <1>8, <2>1 DEF IInv, LoadOutcome, NullsInPlaces
  <2>5. LoadOutcome'
    BY <1>3, <1>7, <1>8, <2>1, <2>4 DEF LoadOutcome, NullsInPlaces, Goto
  <2>. QED
    BY <1>7, <1>8, <2>2, <2>3, <2>5, StopStep, Where DEF Goto
<1>9. CASE /\ IsLeft(given)
           /\ CanMap(s, v, After)
           /\ map_page(s, alloc_page, v, After)
           /\ Loop(PagesOf(header), to)
  <2>1. /\ alloc_page = Address(given) /\ alloc_page \in Frame /\ After = given + 1 /\ given < frames
        /\ given \in 0 .. frames /\ frames \in Nat
    BY <1>6, <1>9, Allocates
  <2>2. dir # NULL
    BY <1>3, <2>1
  <2>3. MapsSafely(s, alloc_page, v, After)
    BY <1>7, <1>9, <2>1 DEF MapsSafely
  <2>4. /\ given <= given' /\ given' \in 0 .. frames /\ Frame' = Frame
        /\ pd' \in [Space -> [Table -> Frame \cup {NULL}]]
        /\ pt' \in [Space -> [Page -> Frame \cup {NULL, UNMAPPED} \cup Low \cup Framebuffer]]
    <3>1. /\ given \in Nat /\ After \in Nat /\ given <= After /\ After <= given'
          /\ given' \in 0 .. frames /\ Frame' = Frame
          /\ pd' \in [Space -> [Table -> Frame \cup {NULL}]]
          /\ pt' \in [Space -> [Page -> Frame \cup {NULL, UNMAPPED} \cup Low \cup Framebuffer]]
      BY <1>1, <1>5, <1>6, <1>7, <2>3, MapType
    <3>. QED
      BY <3>1
  <2>5. NothingAhead' /\ FramesApart'
    BY <1>1, <1>5, <1>6, <1>7, <2>3, MapApart
  <2>6. /\ \/ pc' = pc /\ i' = i + 1 /\ i' < PagesOf(header)
           \/ pc' = to /\ i' = 0 /\ i + 1 >= PagesOf(header)
        /\ pc' \in {"mmap_kernel", "mmap_task", "read"} /\ i' \in Nat
    BY <1>2, <1>4, <1>9 DEF Loop
  <2>7. TypeOK'
    BY <1>6, <1>7, <2>4, <2>6 DEF TypeOK
  <2>8. /\ pt'[s][v] = alloc_page
        /\ \A r \in Space, w \in Page : r # s \/ w # v => pt'[r][w] = pt[r][w]
        /\ \A r \in Space, u \in Table : r # s \/ u # TableOf(v) => pd'[r][u] = pd[r][u]
    BY <1>1, <1>5, <1>6, <1>9, MapEffect
  <2>9. LoopsInBounds'
    BY <1>2, <1>3, <1>4, <1>7, <2>6, Where DEF LoopsInBounds
  <2>10. pd'["task"][TableOf(STACK)] = NULL
    BY <1>3, <1>5, <1>6, <2>8, Tables, Layout
  <2>11. SegmentsLoaded'
    <3>. SUFFICES ASSUME NEW n \in 1 .. seg - 1, program[n].kind = "load", NEW w \in PagesIn(program[n])
                  PROVE  pt'["task"][w] \in Frame /\ mem[pt'["task"][w]] = Loaded(program[n], w)
      BY <1>7, <2>4 DEF SegmentsLoaded
    <3>1. w \in UserPages /\ w < v
      BY <1>2, <1>5
    <3>4. w \in Page /\ w \in Nat
      BY <3>1, Layout
    <3>2. w \in Page /\ w # v
      BY <3>1, <3>4, <1>2, <1>4
    <3>3. pt'["task"][w] = pt["task"][w]
      BY <3>2, <2>8, <1>6
    <3>. QED
      BY <3>3, <1>3
  <2>14. mem[alloc_page] = Blank
    <3>1. alloc_page >= ENTRIES + given
      BY <2>1, Layout DEF Address
    <3>2. \A f \in Frame : f >= ENTRIES + given => mem[f] = Blank
      BY <1>1, LoadFacts
    <3>. QED
      BY <2>1, <3>1, <3>2
  <2>15. Untouched'
    BY <1>1, <1>7, <2>4, <2>6, StaysUntouched, Where
  <2>12. SegmentSoFar'
    <3>1. ASSUME NEW w \in UserPages, pt'["kernel"][w] # UNMAPPED
          PROVE  \E n \in DOMAIN program : /\ n <= seg /\ program[n].kind = "load"
                                           /\ w < program[n].page + PagesOf(program[n])
      <4>1. CASE pt["kernel"][w] # UNMAPPED
        BY <1>1, <4>1, Where DEF IInv, SegmentSoFar
      <4>2. CASE pt["kernel"][w] = UNMAPPED
        <5>1. w = v
          BY <4>2, <2>8, <3>1, <1>6, Layout
        <5>2. w < program[seg].page + PagesOf(program[seg])
          BY <5>1, <1>2, <1>4
        <5>. QED
          BY <5>2, <1>2, <1>3
      <4>. QED
        BY <4>1, <4>2
    <3>2. ASSUME NEW w \in PagesIn(header), NEW loop, loop \in {"mmap_kernel", "mmap_task"},
                 Past(loop, header.page, w)'
          PROVE  Past(loop, header.page, w) \/ (pc = loop /\ w = v)
      <4>1. w \in Nat /\ w < header.page + PagesOf(header)
        BY <1>2 DEF PagesIn
      <4>2. CASE pc # loop
        BY <4>2 DEF Past
      <4>3. CASE pc = loop /\ pc' = pc /\ i' = i + 1
        <5>1. w < header.page + (i + 1)
          BY <4>3, <3>2, <1>7 DEF Past
        <5>. QED
          BY <5>1, <4>1, <4>3, <1>2, <1>4 DEF Past
      <4>4. CASE pc = loop /\ i + 1 >= PagesOf(header)
        <5>1. w < header.page + (i + 1)
          BY <4>1, <4>4, <1>2, <1>4
        <5>2. w < header.page + i \/ w = v
          BY <5>1, <4>1, <1>2, <1>4
        <5>. QED
          BY <5>2, <4>4 DEF Past
      <4>. QED
        BY <4>2, <4>3, <4>4, <2>6
    <3>3. ASSUME NEW w \in PagesIn(header), Past("mmap_kernel", header.page, w)'
          PROVE  pt'["kernel"][w] \in Frame /\ mem[pt'["kernel"][w]] = Blank
      <4>1. w \in Page
        BY <1>2, Layout
      <4>2. Past("mmap_kernel", header.page, w) => /\ pt["kernel"][w] \in Frame
                                                   /\ mem[pt["kernel"][w]] = Blank
        BY <1>1 DEF IInv, SegmentSoFar
      <4>3. CASE s = "kernel" /\ w = v
        BY <4>3, <2>1, <2>8, <2>14
      <4>4. CASE ~ (s = "kernel" /\ w = v)
        <5>1. Past("mmap_kernel", header.page, w)
          BY <4>4, <3>2, <3>3
        <5>. QED
          BY <5>1, <4>1, <4>2, <4>4, <2>8, <1>6
      <4>. QED
        BY <4>3, <4>4
    <3>4. ASSUME NEW w \in PagesIn(header), pc' # "mmap_kernel", Past("mmap_task", header.page, w)'
          PROVE  pt'["task"][w] \in Frame
      <4>1. w \in Page /\ w \in Nat /\ w >= header.page
        BY SMTT(30), <1>2, Layout DEF PagesIn
      <4>2. s = "task" /\ pc = "mmap_task"
        <5>1. CASE pc = "mmap_kernel"
          <6>1. pc' = "mmap_task" /\ i' = 0
            BY <5>1, <2>6, <3>4
          <6>2. w < header.page + 0
            BY <6>1, <3>4, <1>7 DEF Past
          <6>. QED
            BY <6>2, <4>1, <1>2
        <5>. QED
          BY <5>1
      <4>3. Past("mmap_task", header.page, w) => pt["task"][w] \in Frame
        BY <1>1, <4>2 DEF IInv, SegmentSoFar
      <4>4. CASE w = v
        BY <4>2, <4>4, <2>1, <2>8
      <4>5. CASE w # v
        <5>1. Past("mmap_task", header.page, w)
          BY <4>5, <3>2, <3>4
        <5>. QED
          BY <5>1, <4>1, <4>3, <4>5, <2>8, <1>6
      <4>. QED
        BY <4>4, <4>5
    <3>. QED
      BY <3>1, <3>3, <3>4, <2>4, <2>6, <1>7, Where DEF SegmentSoFar
  <2>13. /\ \A r \in Space, w \in Page \ UserPages : pt'[r][w] = pt[r][w]
         /\ \A r \in Space, w \in UserPages : pt'[r][w] = pt[r][w] \/ pt'[r][w] # NULL
    <3>1. alloc_page # NULL
      BY <2>1, FrameRange, Layout, <1>6 DEF TypeOK
    <3>. QED
      BY <3>1, <2>8, <1>5, Layout
  <2>. QED
    BY <1>1, <1>3, <1>7, <2>2, <2>4, <2>5, <2>6, <2>7, <2>9, <2>10, <2>11, <2>12, <2>13, <2>15, LoadStep, Where
<1>. QED
  BY <1>8, <1>9 DEF Maps

LEMMA MmapKernelKeeps ==
  ASSUME IInv, MmapKernel
  PROVE  IInv'
BY MapsKeeps DEF MmapKernel

LEMMA MmapTaskKeeps ==
  ASSUME IInv, MmapTask
  PROVE  IInv'
BY MapsKeeps DEF MmapTask
-----------------------------------------------------------------------------
\* How many pages a length takes, against a loop that counts whole pages.
LEMMA WholePages ==
  ASSUME NEW d \in Nat \ {0}, NEW l \in Nat, NEW k \in Nat
  PROVE  LET q == (l + d - 1) \div d
         IN  /\ k * d <= l => k <= q
             /\ k * d <= l /\ k >= q => l % d = 0
             /\ k * d > l => q <= k
<1>. DEFINE q == (l + d - 1) \div d
<1>1. q \in Nat /\ l <= q * d /\ q * d <= l + d - 1
  OBVIOUS
<1>. HIDE DEF q
<1>2. ASSUME k * d <= l PROVE k <= q
  <2>. SUFFICES ASSUME q + 1 <= k PROVE FALSE
    BY <1>1
  <2>1. (q + 1) * d <= k * d
    BY <1>1
  <2>2. (q + 1) * d = q * d + d
    BY <1>1
  <2>. QED
    BY <1>1, <1>2, <2>1, <2>2
<1>3. ASSUME k * d <= l, k >= q PROVE l % d = 0
  <2>1. q * d <= k * d
    BY <1>1, <1>3
  <2>2. l = k * d
    BY <1>1, <1>3, <2>1
  <2>. DEFINE r == l % d
              m == l \div d
  <2>3. r \in Nat /\ r < d /\ m \in Nat /\ l = m * d + r
    OBVIOUS
  <2>. HIDE DEF r, m
  <2>4. SUFFICES ASSUME r > 0 PROVE FALSE
    BY <2>3 DEF r
  <2>5. m * d < k * d /\ k * d < m * d + d
    BY <2>2, <2>3, <2>4
  <2>6. m < k
    <3>. SUFFICES ASSUME k <= m PROVE FALSE
      BY <2>3
    <3>1. k * d <= m * d
      BY <2>3
    <3>. QED
      BY <2>3, <2>5, <3>1
  <2>7. (m + 1) * d <= k * d /\ (m + 1) * d = m * d + d
    BY <2>3, <2>6
  <2>. QED
    BY <2>3, <2>5, <2>7
<1>4. ASSUME k * d > l PROVE q <= k
  <2>. SUFFICES ASSUME k + 1 <= q PROVE FALSE
    BY <1>1
  <2>1. (k + 1) * d <= q * d /\ (k + 1) * d = k * d + d
    BY <1>1
  <2>. QED
    BY <1>1, <1>4, <2>1
<1>. QED
  BY <1>2, <1>3, <1>4 DEF q

LEMMA ReadSegmentKeeps ==
  ASSUME IInv, ReadSegment
  PROVE  IInv'
<1>1. /\ pc = "read" /\ pc' = "copy" /\ i' = 0
      /\ UNCHANGED <<frames, given, pd, pt, dir, program, seg>>
      /\ header' = header
      /\ pc \in WorksOnSegment /\ pc \in Loads
      /\ "kernel" \in Space /\ "task" \in Space
  BY Where DEF ReadSegment, Goto, header, Space
<1>2. /\ seg \in DOMAIN program /\ program[seg].kind = "load" /\ header = program[seg]
      /\ header \in Segment /\ header.page \in Nat /\ PagesOf(header) \in Nat
      /\ PagesIn(header) \subseteq UserPages
      /\ \A n \in 1 .. seg - 1 : program[n].kind = "load" =>
           \A w \in PagesIn(program[n]), u \in PagesIn(header) : w \in UserPages /\ w < u
  BY <1>1, SegmentWorkedOn
<1>3. /\ program \in Programs /\ program \notin NoPrograms /\ seg \in Nat
      /\ pd["task"][TableOf(STACK)] = NULL
      /\ mem[NULL] = Blank
      /\ dir = NULL => \A n \in 1 .. seg - 1 : program[n].kind = "other"
      /\ \A n \in 1 .. seg - 1 : program[n].kind = "load" =>
           \A w \in PagesIn(program[n]) : pt["task"][w] \in Frame /\ mem[pt["task"][w]] = Loaded(program[n], w)
  BY <1>1, LoadFacts
<1>4. NothingAhead' /\ FramesApart' /\ Frame' = Frame /\ given \in Nat
  BY <1>1, StandsStill, Allocates DEF IInv
<1>5. dir # NULL
  BY <1>1 DEF IInv, LoadOutcome
<1>6. /\ \A w \in PagesIn(header) : pt["kernel"][w] \in Frame /\ pt["task"][w] \in Frame
      /\ \A w \in PagesIn(header) : mem[pt["kernel"][w]] = Blank
      /\ \A w \in UserPages : pt["kernel"][w] # UNMAPPED =>
           \E n \in DOMAIN program : /\ n <= seg /\ program[n].kind = "load"
                                     /\ w < program[n].page + PagesOf(program[n])
  BY <1>1 DEF IInv, SegmentSoFar, Past
<1>7. \A w, u \in UserPages, r \in Space :
        pt["kernel"][w] = pt[r][u] /\ pt["kernel"][w] \in Frame => w = u /\ r = "kernel"
  BY <1>1, ApartByPage, Layout, Regions DEF IInv, PagesApart
<1>8. NULL \notin Frame
  BY FrameRange, Layout DEF IInv, TypeOK
<1>9. /\ mem \in [Frame \cup {NULL} -> Content]
      /\ mem' = [f \in Frame \cup {NULL} |->
                   IF \E w \in PagesIn(header) : pt["kernel"][w] = f
                   THEN Written(header, CHOOSE w \in PagesIn(header) : pt["kernel"][w] = f, mem[f])
                   ELSE mem[f]]
  BY DEF IInv, TypeOK, ReadSegment
<1>10. \A w \in PagesIn(header) : mem'[pt["kernel"][w]] = Loaded(header, w)
  <2>. SUFFICES ASSUME NEW w \in PagesIn(header)
                PROVE  mem'[pt["kernel"][w]] = Loaded(header, w)
    OBVIOUS
  <2>. DEFINE u == CHOOSE z \in PagesIn(header) : pt["kernel"][z] = pt["kernel"][w]
  <2>1. u \in PagesIn(header) /\ pt["kernel"][u] = pt["kernel"][w]
    OBVIOUS
  <2>2. pt["kernel"][w] \in Frame
    BY <1>2, <1>6
  <2>3. mem'[pt["kernel"][w]] = Written(header, u, mem[pt["kernel"][w]])
    BY <1>9, <2>2
  <2>. HIDE DEF u
  <2>4. u = w
    BY <2>1, <2>2, <1>1, <1>2, <1>7
  <2>5. mem[pt["kernel"][w]] = Blank
    BY <1>6
  <2>6. Written(header, w, Blank) = Loaded(header, w)
    BY <1>2, WrittenIsLoaded
  <2>. QED
    BY <2>3, <2>4, <2>5, <2>6
<1>11. \A f \in Frame \cup {NULL} : (\A w \in PagesIn(header) : pt["kernel"][w] # f) => mem'[f] = mem[f]
  BY <1>9
<1>12. mem'[NULL] = Blank
  BY <1>2, <1>3, <1>6, <1>8, <1>11
<1>13. mem' \in [Frame \cup {NULL} -> Content]
  <2>1. ASSUME NEW f \in Frame \cup {NULL} PROVE mem'[f] \in Content
    <3>1. CASE \E w \in PagesIn(header) : pt["kernel"][w] = f
      <4>1. PICK w \in PagesIn(header) : pt["kernel"][w] = f
        BY <3>1
      <4>2. w \in Nat
        BY <1>2, Layout
      <4>3. mem'[f] = Loaded(header, w)
        BY <4>1, <1>10
      <4>. QED
        BY <4>2, <4>3, LoadedTyped
    <3>2. CASE \A w \in PagesIn(header) : pt["kernel"][w] # f
      BY <3>2, <1>9, <1>11
    <3>. QED
      BY <3>1, <3>2
  <2>. QED
    BY <2>1, <1>9
<1>14. TypeOK'
  BY <1>1, <1>4, <1>13 DEF IInv, TypeOK
<1>15. LoopsInBounds'
  <2>1. LoadsSegment' /\ p_len' = p_len
    BY <1>1 DEF IInv, LoopsInBounds, LoadsSegment, p_len, header
  <2>2. 0 * PAGE_SIZE <= p_len
    BY <1>2, Layout, SMTT(30) DEF p_len, Segment
  <2>. QED
    BY <1>1, <1>3, <2>1, <2>2, Where DEF LoopsInBounds
<1>16. SegmentSoFar'
  <2>1. \A w \in PagesIn(header) : ~ (w < header.page + 0)
    BY <1>2 DEF PagesIn
  <2>2. \A w \in PagesIn(header) : pt["kernel"][w] \in Frame /\ pt["task"][w] \in Frame
    BY <1>6
  <2>. QED
    BY <1>1, <1>4, <1>6, <1>10, <2>1, <2>2, Where DEF SegmentSoFar
<1>17. SegmentsLoaded'
  <2>. SUFFICES ASSUME NEW n \in 1 .. seg - 1, program[n].kind = "load", NEW w \in PagesIn(program[n])
                PROVE  pt["task"][w] \in Frame /\ mem'[pt["task"][w]] = Loaded(program[n], w)
    BY <1>1, <1>4 DEF SegmentsLoaded
  <2>1. pt["task"][w] \in Frame /\ mem[pt["task"][w]] = Loaded(program[n], w)
    BY <1>3
  <2>2. ASSUME NEW u \in PagesIn(header) PROVE pt["kernel"][u] # pt["task"][w]
    <3>1. w \in UserPages /\ u \in UserPages
      BY <1>2
    <3>. QED
      BY <3>1, <2>1, <1>1, <1>7
  <2>. QED
    BY <2>1, <2>2, <1>11
<1>18. Untouched'
  <2>1. \A f \in Frame : f >= ENTRIES + given => mem[f] = Blank
    BY <1>1, LoadFacts
  <2>2. \A w \in PagesIn(header) : pt["kernel"][w] < ENTRIES + given
    <3>1. PagesIn(header) \subseteq Page
      BY <1>2, Layout
    <3>. QED
      BY <1>1, <1>6, <3>1 DEF IInv, NothingAhead
  <2>3. ASSUME NEW f \in Frame, f >= ENTRIES + given PROVE mem'[f] = Blank
    <3>1. ENTRIES \in Nat /\ f \in Nat
      BY FrameRange, Layout DEF IInv, TypeOK
    <3>2. ASSUME NEW w \in PagesIn(header) PROVE pt["kernel"][w] # f
      BY <2>2, <2>3, <3>1, <1>4
    <3>. QED
      BY <2>1, <2>3, <3>2, <1>11
  <2>. QED
    BY <1>1, <1>4, <2>3, Where DEF Untouched
<1>. QED
  BY <1>1, <1>3, <1>4, <1>5, <1>12, <1>14, <1>15, <1>16, <1>17, <1>18, LoadStep, Where

LEMMA CopyPageKeeps ==
  ASSUME IInv, CopyPage
  PROVE  IInv'
<1>. DEFINE v == header.page + i
            q == PagesOf(header)
            source == IF v \in Page THEN pt["kernel"][v] ELSE UNMAPPED
<1>1. /\ pc = "copy" /\ UNCHANGED <<frames, given, pd, pt, dir, program>>
      /\ pc \in WorksOnSegment /\ pc \in Loads
      /\ "kernel" \in Space /\ "task" \in Space
  BY Where DEF CopyPage, Space
<1>2. /\ seg \in DOMAIN program /\ program[seg].kind = "load" /\ header = program[seg]
      /\ header \in Segment /\ header.page \in Nat /\ q \in Nat \ {0}
      /\ PagesIn(header) \subseteq UserPages
      /\ header.page + q \notin Page \ UserPages
      /\ \A n \in 1 .. seg - 1 : program[n].kind = "load" =>
           \A w \in PagesIn(program[n]), u \in PagesIn(header) : w \in UserPages /\ w < u
  BY <1>1, SegmentWorkedOn
<1>3. /\ program \in Programs /\ program \notin NoPrograms /\ seg \in Nat
      /\ seg \in 1 .. Len(program) + 1
      /\ Len(program) \in Nat /\ DOMAIN program = 1 .. Len(program)
      /\ pd["task"][TableOf(STACK)] = NULL
      /\ mem[NULL] = Blank
      /\ \A n \in 1 .. seg - 1 : program[n].kind = "load" =>
           \A w \in PagesIn(program[n]) : pt["task"][w] \in Frame /\ mem[pt["task"][w]] = Loaded(program[n], w)
  BY <1>1, LoadFacts
<1>4. NothingAhead' /\ FramesApart' /\ Frame' = Frame /\ given \in Nat
  BY <1>1, StandsStill, Allocates DEF IInv
<1>5. dir # NULL
  BY <1>1 DEF IInv, LoadOutcome
<1>6. /\ \A w \in PagesIn(header) : pt["kernel"][w] \in Frame /\ pt["task"][w] \in Frame
      /\ \A w \in UserPages : pt["kernel"][w] # UNMAPPED =>
           \E n \in DOMAIN program : /\ n <= seg /\ program[n].kind = "load"
                                     /\ w < program[n].page + PagesOf(program[n])
      /\ \A w \in PagesIn(header) : /\ mem[pt["kernel"][w]] = Loaded(header, w)
                                    /\ w < v => mem[pt["task"][w]] = Loaded(header, w)
  BY <1>1 DEF IInv, SegmentSoFar, Past
<1>7. \A w, u \in UserPages, r \in Space :
        pt[r][w] = pt["task"][u] /\ pt[r][w] \in Frame => w = u /\ r = "task"
  BY <1>1, ApartByPage, Layout, Regions DEF IInv, PagesApart
<1>8. NULL \notin Frame /\ UNMAPPED \notin Frame
  BY FrameRange, Layout DEF IInv, TypeOK
<1>9. /\ mem \in [Frame \cup {NULL} -> Content]
      /\ i \in Nat /\ i * PAGE_SIZE <= p_len /\ LoadsSegment
  BY <1>1 DEF IInv, TypeOK, LoopsInBounds
<1>10. /\ p_len \in Nat /\ PAGE_SIZE \in Nat \ {0}
       /\ q = (p_len + PAGE_SIZE - 1) \div PAGE_SIZE
  <2>1. header.p_offset \in Nat /\ header.p_memsz \in Nat /\ PAGE_SIZE \in Nat \ {0}
    BY <1>2, Layout DEF Segment
  <2>. QED
    BY <2>1 DEF p_len, PagesOf
<1>11. /\ i <= q
       /\ i >= q => p_len % PAGE_SIZE = 0
       /\ (i + 1) * PAGE_SIZE > p_len => q <= i + 1
  <2>. HIDE DEF q
  <2>1. i + 1 \in Nat
    BY <1>9
  <2>2. i <= q /\ (i >= q => p_len % PAGE_SIZE = 0)
    BY <1>9, <1>10, WholePages
  <2>3. (i + 1) * PAGE_SIZE > p_len => q <= i + 1
    BY <1>10, <2>1, WholePages
  <2>. QED
    BY <2>2, <2>3
<1>12. source # UNMAPPED <=> i < q
  <2>1. ASSUME i < q PROVE source # UNMAPPED
    <3>1. v \in PagesIn(header)
      BY <1>2, <1>9, <2>1 DEF PagesIn
    <3>. QED
      BY <3>1, <1>2, <1>6, <1>8, Layout, ZenonT(60)
  <2>2. ASSUME i = q, source # UNMAPPED PROVE FALSE
    <3>1. v \in Page /\ pt["kernel"][v] # UNMAPPED
      BY <2>2
    <3>2. v \in UserPages
      BY <1>2, <2>2, <3>1
    <3>3. PICK n \in DOMAIN program : /\ n <= seg /\ program[n].kind = "load"
                                      /\ v < program[n].page + PagesOf(program[n])
      BY <1>6, <3>1, <3>2
    <3>4. CASE n = seg
      BY <1>2, <1>9, <2>2, <3>3, <3>4
    <3>5. CASE n < seg
      <4>1. n \in 1 .. seg - 1
        BY <1>3, <3>5
      <4>2. program[n].page + PagesOf(program[n]) <= header.page
        BY <1>2, <1>3, <3>3, <4>1, SegmentFacts
      <4>3. PagesOf(program[n]) \in Nat /\ program[n].page \in Nat
        BY <1>3, <3>3, SegmentFacts
      <4>. QED
        BY <1>2, <1>9, <3>3, <4>2, <4>3
    <3>. QED
      BY <1>3, <3>3, <3>4, <3>5
  <2>. QED
    BY <2>1, <2>2, <1>2, <1>9, <1>11
<1>13. CASE source = UNMAPPED /\ Goto("halted") /\ UNCHANGED <<mem, seg>>
  <2>1. pc' = "halted" /\ i' = 0 /\ LoadsSegment' /\ p_len' = p_len
    BY <1>1, <1>9, <1>13 DEF Goto, LoadsSegment, p_len, header
  <2>2. p_len % PAGE_SIZE = 0
    BY <1>2, <1>9, <1>11, <1>12, <1>13
  <2>3. NullsInPlaces'
    BY <1>1 DEF IInv, LoadOutcome, NullsInPlaces
  <2>4. LoadOutcome'
    BY <1>1, <1>3, <1>13, <2>1, <2>2, <2>3 DEF LoadOutcome, NullsInPlaces
  <2>5. TypeOK'
    BY <1>1, <1>4, <1>13, <2>1 DEF IInv, TypeOK
  <2>. QED
    BY <1>1, <1>4, <2>1, <2>4, <2>5, StopStep, Where
<1>14. CASE /\ source # UNMAPPED
            /\ mem' = [mem EXCEPT ![Target(v)] = mem[source]]
            /\ \/ /\ (i + 1) * PAGE_SIZE <= p_len
                  /\ i' = i + 1
                  /\ UNCHANGED <<pc, seg>>
               \/ /\ (i + 1) * PAGE_SIZE > p_len
                  /\ Goto("load")
                  /\ seg' = seg + 1
  <2>1. v \in PagesIn(header) /\ v \in UserPages /\ v \in Page
    <3>1. i < q
      BY <1>12, <1>14
    <3>2. v \in PagesIn(header)
      BY <3>1, <1>2, <1>9 DEF PagesIn
    <3>. QED
      BY <3>2, <1>2, Layout
  <2>2. /\ pt["kernel"][v] \in Frame /\ pt["task"][v] \in Frame
        /\ source = pt["kernel"][v] /\ Target(v) = pt["task"][v]
    BY <2>1, <1>6, <1>8 DEF Target
  <2>3. /\ mem' = [mem EXCEPT ![pt["task"][v]] = mem[pt["kernel"][v]]]
        /\ mem' \in [Frame \cup {NULL} -> Content]
        /\ mem'[pt["task"][v]] = mem[pt["kernel"][v]]
        /\ \A f \in Frame \cup {NULL} : f # pt["task"][v] => mem'[f] = mem[f]
    BY <2>2, <1>9, <1>14
  <2>4. mem'[NULL] = Blank
    BY <2>2, <2>3, <1>3, <1>8
  <2>5. \A w \in UserPages, r \in Space : pt[r][w] \in Frame /\ (w # v \/ r # "task") =>
          mem'[pt[r][w]] = mem[pt[r][w]]
    BY <2>1, <2>3, <1>7
  <2>6. \A w \in PagesIn(header) : mem'[pt["kernel"][w]] = Loaded(header, w)
    <3>. SUFFICES ASSUME NEW w \in PagesIn(header)
                  PROVE  mem'[pt["kernel"][w]] = Loaded(header, w)
      OBVIOUS
    <3>1. w \in UserPages /\ pt["kernel"][w] \in Frame
      BY <1>2, <1>6
    <3>2. mem'[pt["kernel"][w]] = mem[pt["kernel"][w]]
      BY <3>1, <2>5, <1>1
    <3>. QED
      BY <3>2, <1>6
  <2>7. \A w \in PagesIn(header) : w < v + 1 => mem'[pt["task"][w]] = Loaded(header, w)
    <3>. SUFFICES ASSUME NEW w \in PagesIn(header), w < v + 1
                  PROVE  mem'[pt["task"][w]] = Loaded(header, w)
      OBVIOUS
    <3>1. CASE w = v
      <4>1. mem[pt["kernel"][v]] = Loaded(header, v)
        BY <2>1, <1>6
      <4>. QED
        BY <3>1, <4>1, <2>3
    <3>2. CASE w # v
      <4>1. w < v
        <5>1. w \in Nat
          BY <1>2, Layout
        <5>. QED
          BY <5>1, <3>2, <1>2, <1>9
      <4>2. w \in UserPages /\ pt["task"][w] \in Frame
        BY <1>2, <1>6
      <4>3. mem'[pt["task"][w]] = mem[pt["task"][w]]
        BY <4>2, <3>2, <2>5, <1>1
      <4>4. mem[pt["task"][w]] = Loaded(header, w)
        BY <4>1, <1>6
      <4>. QED
        BY <4>3, <4>4
    <3>. QED
      BY <3>1, <3>2
  <2>8. \A n \in 1 .. seg - 1 : program[n].kind = "load" =>
          \A w \in PagesIn(program[n]) : pt["task"][w] \in Frame /\ mem'[pt["task"][w]] = Loaded(program[n], w)
    <3>. SUFFICES ASSUME NEW n \in 1 .. seg - 1, program[n].kind = "load", NEW w \in PagesIn(program[n])
                  PROVE  pt["task"][w] \in Frame /\ mem'[pt["task"][w]] = Loaded(program[n], w)
      OBVIOUS
    <3>1. pt["task"][w] \in Frame /\ mem[pt["task"][w]] = Loaded(program[n], w)
      BY <1>3
    <3>2. w \in UserPages /\ w < v
      BY <1>2, <2>1
    <3>3. w \in Nat /\ w # v
      BY <3>2, <1>2, <1>9, Layout
    <3>. QED
      BY <3>1, <3>2, <3>3, <2>5, <1>1
  <2>11. \A f \in Frame : f >= ENTRIES + given => mem'[f] = Blank
    <3>. SUFFICES ASSUME NEW f \in Frame, f >= ENTRIES + given PROVE mem'[f] = Blank
      OBVIOUS
    <3>1. mem[f] = Blank
      BY <1>1, LoadFacts
    <3>2. pt["task"][v] < ENTRIES + given
      BY <1>1, <2>1, <2>2 DEF IInv, NothingAhead
    <3>3. f \in Nat /\ ENTRIES \in Nat /\ pt["task"][v] \in Nat
      <4>1. Frame \subseteq Nat /\ ENTRIES \in Nat
        BY FrameRange, Layout DEF IInv, TypeOK
      <4>. HIDE DEF v
      <4>. QED
        BY <4>1, <2>2
    <3>4. f # pt["task"][v]
      BY <3>2, <3>3, <1>4
    <3>. QED
      BY <3>1, <3>4, <2>3
  <2>12. ASSUME pc' \in Loads PROVE Untouched'
    BY <1>1, <1>4, <2>11, <2>12, Where DEF Untouched
  <2>9. CASE /\ (i + 1) * PAGE_SIZE <= p_len
             /\ i' = i + 1
             /\ UNCHANGED <<pc, seg>>
    <3>1. /\ header' = header /\ p_len' = p_len /\ LoadsSegment'
      BY <1>1, <1>9, <2>9 DEF header, p_len, LoadsSegment
    <3>2. TypeOK'
      BY <1>1, <1>4, <1>9, <2>3, <2>9 DEF IInv, TypeOK
    <3>3. LoopsInBounds'
      BY <1>1, <1>3, <2>9, <3>1, Where DEF LoopsInBounds
    <3>4. header.page + (i + 1) = v + 1
      BY <1>2, <1>9
    <3>5. SegmentSoFar'
      BY <1>1, <1>4, <1>6, <2>6, <2>7, <2>9, <3>1, <3>4, Where DEF SegmentSoFar
    <3>6. SegmentsLoaded'
      BY <1>1, <1>4, <2>8, <2>9 DEF SegmentsLoaded
    <3>7. Untouched'
      BY <1>1, <2>9, <2>12
    <3>. QED
      BY <1>1, <1>3, <1>4, <1>5, <2>4, <2>9, <3>7, <3>2, <3>3, <3>5, <3>6, LoadStep, Where
  <2>10. CASE /\ (i + 1) * PAGE_SIZE > p_len
              /\ Goto("load")
              /\ seg' = seg + 1
    <3>1. pc' = "load" /\ i' = 0 /\ seg' \in 1 .. Len(program) + 1
      BY <1>2, <1>3, <2>10 DEF Goto
    <3>2. TypeOK'
      BY <1>1, <1>4, <2>3, <3>1 DEF IInv, TypeOK
    <3>3. LoopsInBounds'
      BY <1>1, <1>3, <3>1, Where DEF LoopsInBounds
    <3>4. SegmentSoFar'
      <4>1. \A n \in DOMAIN program : n <= seg => n < seg'
        BY <1>3, <2>10
      <4>. QED
        BY <1>1, <1>6, <3>1, <4>1, Where DEF SegmentSoFar
    <3>5. \A w \in PagesIn(header) : w < v + 1 /\ pt["task"][w] \in Frame
      <4>1. q <= i + 1
        BY <1>11, <2>10
      <4>2. \A w \in PagesIn(header) : w \in Nat /\ w < header.page + q
        BY <1>2 DEF PagesIn
      <4>. QED
        BY <4>1, <4>2, <1>2, <1>6, <1>9
    <3>6. SegmentsLoaded'
      <4>1. \A n \in 1 .. seg' - 1 : n \in 1 .. seg - 1 \/ n = seg
        BY <1>3, <2>10
      <4>. QED
        BY <1>1, <1>2, <1>4, <2>7, <2>8, <3>5, <4>1 DEF SegmentsLoaded
    <3>7. Untouched'
      BY <2>12, <3>1, Where
    <3>8. /\ \A s \in Space, w \in Page \ UserPages : pt'[s][w] = pt[s][w]
          /\ \A s \in Space, w \in UserPages : pt'[s][w] = pt[s][w] \/ pt'[s][w] # NULL
          /\ pd'["task"][TableOf(STACK)] = NULL
          /\ given <= given'
      BY <1>1, <1>3, <1>4
    <3>. HIDE DEF v, q, source
    <3>. QED
      BY <1>1, <1>4, <1>5, <2>4, <3>7, <3>1, <3>2, <3>3, <3>4, <3>6, <3>8, LoadStep, Where
  <2>. QED
    BY <1>14, <2>9, <2>10
<1>. QED
  BY <1>13, <1>14 DEF CopyPage
-----------------------------------------------------------------------------
\* A step that ends with a task that runs: the pages it had keep their frames
\* and their contents, and the stack is there.
LEMMA RunStep ==
  ASSUME IInv, pc \in {"create_task", "running"}, pc' = "running",
         UNCHANGED <<frames, dir, program, seg>>,
         TypeOK', NothingAhead', FramesApart', given <= given',
         \A s \in Space, v \in Page \ (UserPages \cup {STACK}) : pt'[s][v] = pt[s][v],
         \A s \in Space, v \in UserPages \cup {STACK} : pt'[s][v] = pt[s][v] \/ pt'[s][v] # NULL,
         \A v \in UserPages : pt["task"][v] \in Frame =>
           pt'["task"][v] = pt["task"][v] /\ mem'[pt["task"][v]] = mem[pt["task"][v]],
         pt'["task"][STACK] \in Frame, mem'[pt'["task"][STACK]] = StackPage,
         mem'[NULL] = Blank
  PROVE  IInv'
<1>1. /\ Frame' = Frame /\ "kernel" \in Space /\ "task" \in Space
      /\ program \in Programs /\ program \notin NoPrograms /\ dir # NULL
      /\ given' \in 0 .. frames /\ given \in 0 .. frames /\ frames \in Nat
      /\ seg \in Nat /\ seg > Len(program)
  <2>1. given \in 0 .. frames /\ frames \in Nat
    BY FrameRange DEF IInv, TypeOK
  <2>2. given' \in 0 .. frames
    BY DEF TypeOK
  <2>3. program \in Programs /\ seg \in Nat
    BY DEF IInv, TypeOK
  <2>. QED
    BY <2>1, <2>2, <2>3, Where DEF Frame, Address, Space, IInv, LoopsInBounds, LoadOutcome
<1>2. DOMAIN program = 1 .. Len(program) /\ Len(program) \in Nat
  BY <1>1, ProgramAssumption
<1>3. HasDirectory /\ HasDirectory'
  BY <1>1, Where DEF HasDirectory
<1>4. \A n \in DOMAIN program : program[n].kind = "load" =>
        \A w \in PagesIn(program[n]) : pt'["task"][w] \in Frame /\ mem'[pt'["task"][w]] = Loaded(program[n], w)
  <2>. SUFFICES ASSUME NEW n \in DOMAIN program, program[n].kind = "load", NEW w \in PagesIn(program[n])
                PROVE  pt'["task"][w] \in Frame /\ mem'[pt'["task"][w]] = Loaded(program[n], w)
    OBVIOUS
  <2>1. n \in 1 .. seg - 1
    BY <1>1, <1>2
  <2>2. pt["task"][w] \in Frame /\ mem[pt["task"][w]] = Loaded(program[n], w)
    BY <2>1, Where DEF IInv, SegmentsLoaded
  <2>3. w \in UserPages
    BY <1>1, SegmentFacts
  <2>. QED
    BY <2>2, <2>3
<1>5. /\ \A v \in Heap : v \in Page \ (UserPages \cup {STACK})
      /\ \A v \in Low \cup Framebuffer : v \in Page \ (UserPages \cup {STACK})
      /\ \A v \in HEAP_BASE .. HEAP_BASE + TASK_HEAP - 1 : v \in Heap
  BY Layout, Regions, SMTT(30)
<1>6. \A v \in Heap : pt'["kernel"][v] \in Frame
  BY <1>1, <1>3, <1>5 DEF IInv, HeapMapped, Past
<1>7. /\ \A v \in Low : pt'["task"][v] = v
      /\ \A v \in Framebuffer : pt'["task"][v] = v
      /\ \A v \in HEAP_BASE .. HEAP_BASE + TASK_HEAP - 1 : pt'["task"][v] = pt'["kernel"][v]
  BY <1>1, <1>3, <1>5 DEF IInv, TaskSoFar, Past
<1>8. LoopsInBounds' /\ HeapMapped'
  BY <1>1, <1>6, Where DEF LoopsInBounds, HeapMapped
<1>9. TaskSoFar'
  BY <1>7, Where DEF TaskSoFar
<1>10. SegmentSoFar'
  BY Where DEF SegmentSoFar
<1>11. SegmentsLoaded'
  <2>1. \A n \in 1 .. seg - 1 : n \in DOMAIN program
    <3>1. seg \in 1 .. Len(program) + 1
      BY DEF IInv, TypeOK
    <3>. QED
      BY <1>2, <3>1
  <2>. QED
    BY <1>1, <1>4, <2>1 DEF SegmentsLoaded
<1>12. TaskIsWhole'
  <2>1. \A k \in HEAP_BASE .. HEAP_BASE + TASK_HEAP - 1 :
          pt'["task"][k] = pt'["kernel"][k] /\ pt'["task"][k] \in Frame
    BY <1>5, <1>6, <1>7
  <2>. QED
    BY <1>1, <1>4, <1>7, <2>1 DEF TaskIsWhole
<1>13. LoadOutcome'
  <2>1. ASSUME NEW s \in Space, NEW v \in Page \ {WINDOW}, pt'[s][v] = NULL, v \notin Low
        PROVE  v \in Heap /\ given' = frames'
    <3>1. pt[s][v] = NULL
      BY <2>1
    <3>2. v \in Heap /\ given = frames
      BY <2>1, <3>1, NullByPage
    <3>. QED
      BY <3>2, <1>1
  <2>2. NullsInPlaces'
    BY <2>1, NullsNext DEF NullsByPage
  <2>. QED
    BY <1>1, <2>2, Where DEF LoadOutcome, NullsInPlaces
<1>14. Untouched'
  BY Where DEF Untouched
<1>. QED
  BY <1>8, <1>9, <1>10, <1>11, <1>12, <1>13, <1>14 DEF IInv

LEMMA CreateTaskKeeps ==
  ASSUME IInv, CreateTask
  PROVE  IInv'
<1>1. /\ pc = "create_task" /\ pc \in Loads /\ UNCHANGED <<frames, dir, program, seg>>
      /\ TypeOK /\ NothingAhead /\ FramesApart /\ "kernel" \in Space /\ "task" \in Space
      /\ STACK \in Page /\ STACK # WINDOW /\ WINDOW \in Page
  BY Where, Layout, Regions DEF CreateTask, IInv, Space
<1>2. /\ program \in Programs /\ program \notin NoPrograms /\ mem[NULL] = Blank
      /\ pd["task"][TableOf(STACK)] = NULL
  BY <1>1, LoadFacts
<1>3. given \in 0 .. frames /\ frames \in Nat
  BY <1>1, Allocates
<1>4. CASE ~ CanMap("task", STACK, After) /\ given' = After /\ Goto("failed") /\ UNCHANGED <<pd, pt, mem>>
  <2>1. given' = frames /\ (given' = given \/ (given' = given + 1 /\ given' <= frames))
    BY <1>1, <1>3, <1>4, Allocates DEF CanMap, IsLeft
  <2>2. NothingAhead' /\ FramesApart' /\ Frame' = Frame
    BY <1>1, <1>4, <2>1, StandsStill
  <2>3. TypeOK'
    BY <1>1, <1>3, <1>4, <2>1, <2>2 DEF TypeOK, Goto
  <2>4. NullsInPlaces'
    BY <1>1, <1>4, <2>1 DEF IInv, LoadOutcome, NullsInPlaces
  <2>5. LoadOutcome'
    BY <1>1, <1>2, <1>4, <2>1, <2>4 DEF LoadOutcome, NullsInPlaces, Goto
  <2>. QED
    BY <1>1, <1>4, <2>2, <2>3, <2>5, StopStep, Where DEF Goto
<1>5. CASE /\ CanMap("task", STACK, After)
           /\ map_page("task", alloc_page, STACK, After)
           /\ mem' = [mem EXCEPT ![alloc_page] = StackPage]
           /\ Goto("running")
  <2>1. IsLeft(given)
    <3>1. IsLeft(After)
      BY <1>2, <1>5 DEF CanMap, HasTable
    <3>. QED
      BY <3>1, <1>3 DEF IsLeft, After
  <2>2. /\ alloc_page = ENTRIES + given /\ alloc_page \in Frame /\ After = given + 1 /\ given < frames
        /\ alloc_page = Address(given)
    BY <1>1, <2>1, Allocates DEF Address
  <2>3. MapsSafely("task", alloc_page, STACK, After)
    BY <1>1, <1>3, <1>5, <2>2 DEF MapsSafely
  <2>4. /\ given <= given' /\ given' \in 0 .. frames /\ Frame' = Frame
        /\ pd' \in [Space -> [Table -> Frame \cup {NULL}]]
        /\ pt' \in [Space -> [Page -> Frame \cup {NULL, UNMAPPED} \cup Low \cup Framebuffer]]
    <3>1. /\ given \in Nat /\ After \in Nat /\ given <= After /\ After <= given'
          /\ given' \in 0 .. frames /\ Frame' = Frame
          /\ pd' \in [Space -> [Table -> Frame \cup {NULL}]]
          /\ pt' \in [Space -> [Page -> Frame \cup {NULL, UNMAPPED} \cup Low \cup Framebuffer]]
      BY <1>1, <2>3, MapType
    <3>. QED
      BY <3>1
  <2>5. NothingAhead' /\ FramesApart'
    BY <1>1, <2>3, MapApart
  <2>6. /\ mem \in [Frame \cup {NULL} -> Content]
        /\ mem' \in [Frame \cup {NULL} -> Content]
        /\ mem'[alloc_page] = StackPage
        /\ \A f \in Frame \cup {NULL} : f # alloc_page => mem'[f] = mem[f]
    <3>1. mem \in [Frame \cup {NULL} -> Content]
      BY <1>1 DEF TypeOK
    <3>. QED
      BY <1>5, <2>2, <3>1, StackPageTyped
  <2>7. TypeOK'
    BY <1>1, <1>5, <2>4, <2>6 DEF TypeOK, Goto
  <2>8. /\ pt'["task"][STACK] = alloc_page
        /\ \A r \in Space, w \in Page : r # "task" \/ w # STACK => pt'[r][w] = pt[r][w]
    BY <1>1, <1>5, MapEffect
  <2>9. alloc_page # NULL /\ mem'[NULL] = Blank
    <3>1. NULL \notin Frame
      BY <1>1, FrameRange, Layout DEF TypeOK
    <3>. QED
      BY <3>1, <1>2, <2>2, <2>6
  <2>10. ASSUME NEW v \in UserPages, pt["task"][v] \in Frame
         PROVE  pt'["task"][v] = pt["task"][v] /\ mem'[pt["task"][v]] = mem[pt["task"][v]]
    <3>1. v \in Page /\ v # STACK
      BY Layout, Regions
    <3>2. pt["task"][v] < ENTRIES + given
      BY <1>1, <2>10, <3>1 DEF NothingAhead
    <3>3. pt["task"][v] # alloc_page
      BY <3>2, <2>2, <1>3, Layout
    <3>. QED
      BY <3>1, <3>3, <2>6, <2>8, <2>10, <1>1
  <2>11. /\ \A s \in Space, v \in Page \ (UserPages \cup {STACK}) : pt'[s][v] = pt[s][v]
         /\ \A s \in Space, v \in UserPages \cup {STACK} : pt'[s][v] = pt[s][v] \/ pt'[s][v] # NULL
    BY <2>8, <2>9, Layout
  <2>12. pt'["task"][STACK] \in Frame /\ mem'[pt'["task"][STACK]] = StackPage
    BY <2>2, <2>6, <2>8
  <2>13. pc' = "running"
    BY <1>5 DEF Goto
  <2>. QED
    BY <1>1, <2>4, <2>5, <2>7, <2>9, <2>10, <2>11, <2>12, <2>13, RunStep
<1>. QED
  BY <1>4, <1>5 DEF CreateTask

LEMMA mmapKeeps ==
  ASSUME IInv, NEW v \in UserPages, mmap(v)
  PROVE  IInv'
<1>1. /\ pc = "running" /\ pc' = pc /\ i' = i /\ UNCHANGED <<frames, mem, dir, program, seg>>
      /\ pt["task"][v] = UNMAPPED
      /\ TypeOK /\ NothingAhead /\ FramesApart /\ "task" \in Space
      /\ v \in Page /\ v # WINDOW /\ v # STACK
  BY Layout, Regions DEF mmap, loading, IInv, Space
<1>2. /\ given \in 0 .. frames /\ frames \in Nat
      /\ pt["task"][STACK] \in Frame /\ mem[pt["task"][STACK]] = StackPage /\ mem[NULL] = Blank
      /\ NULL \notin Frame /\ UNMAPPED \notin Frame
  <2>1. given \in 0 .. frames /\ frames \in Nat
    BY <1>1, Allocates
  <2>2. pt["task"][STACK] \in Frame /\ mem[pt["task"][STACK]] = StackPage /\ mem[NULL] = Blank
    BY <1>1 DEF IInv, TaskIsWhole, LoadOutcome
  <2>3. NULL \notin Frame /\ UNMAPPED \notin Frame
    BY <1>1, FrameRange, Layout DEF TypeOK
  <2>. QED
    BY <2>1, <2>2, <2>3
<1>3. CASE ~ (IsLeft(given) /\ CanMap("task", v, After)) /\ given' = After /\ UNCHANGED <<pd, pt>>
  <2>1. given' = given \/ (given' = given + 1 /\ given' <= frames)
    BY <1>1, <1>2, <1>3, Allocates
  <2>2. NothingAhead' /\ FramesApart' /\ Frame' = Frame /\ given' \in given .. frames
    BY <1>1, <1>3, <2>1, StandsStill
  <2>3. given <= given' /\ given' \in 0 .. frames
    BY <1>2, <2>2
  <2>4. TypeOK'
    BY <1>1, <1>3, <2>2, <2>3 DEF TypeOK
  <2>. QED
    BY <1>1, <1>2, <1>3, <2>2, <2>3, <2>4, RunStep
<1>4. CASE IsLeft(given) /\ CanMap("task", v, After) /\ map_page("task", alloc_page, v, After)
  <2>1. /\ alloc_page = Address(given) /\ alloc_page \in Frame /\ After = given + 1 /\ given < frames
    BY <1>1, <1>4, Allocates
  <2>2. MapsSafely("task", alloc_page, v, After)
    BY <1>1, <1>2, <1>4, <2>1 DEF MapsSafely
  <2>3. /\ given <= given' /\ given' \in 0 .. frames /\ Frame' = Frame
        /\ pd' \in [Space -> [Table -> Frame \cup {NULL}]]
        /\ pt' \in [Space -> [Page -> Frame \cup {NULL, UNMAPPED} \cup Low \cup Framebuffer]]
    <3>1. /\ given \in Nat /\ After \in Nat /\ given <= After /\ After <= given'
          /\ given' \in 0 .. frames /\ Frame' = Frame
          /\ pd' \in [Space -> [Table -> Frame \cup {NULL}]]
          /\ pt' \in [Space -> [Page -> Frame \cup {NULL, UNMAPPED} \cup Low \cup Framebuffer]]
      BY <1>1, <2>2, MapType
    <3>. QED
      BY <3>1
  <2>4. NothingAhead' /\ FramesApart'
    BY <1>1, <2>2, MapApart
  <2>5. TypeOK'
    BY <1>1, <2>3 DEF TypeOK
  <2>6. /\ pt'["task"][v] = alloc_page /\ alloc_page # NULL
        /\ \A r \in Space, w \in Page : r # "task" \/ w # v => pt'[r][w] = pt[r][w]
    BY <1>1, <1>2, <1>4, <2>1, MapEffect
  <2>7. \A w \in UserPages : pt["task"][w] \in Frame =>
          pt'["task"][w] = pt["task"][w] /\ mem'[pt["task"][w]] = mem[pt["task"][w]]
    BY <1>1, <1>2, <2>6, Layout
  <2>8. /\ \A s \in Space, w \in Page \ (UserPages \cup {STACK}) : pt'[s][w] = pt[s][w]
        /\ \A s \in Space, w \in UserPages \cup {STACK} : pt'[s][w] = pt[s][w] \/ pt'[s][w] # NULL
    BY <2>6, Layout
  <2>9. pt'["task"][STACK] \in Frame /\ mem'[pt'["task"][STACK]] = StackPage
    BY <1>1, <1>2, <2>6, Layout
  <2>. QED
    BY <1>1, <1>2, <2>3, <2>4, <2>5, <2>7, <2>8, <2>9, RunStep
<1>. QED
  BY <1>3, <1>4 DEF mmap
-----------------------------------------------------------------------------
LEMMA InitIInv == Init => IInv
<1>. SUFFICES ASSUME Init
              PROVE  IInv
  OBVIOUS
<1>1. /\ frames \in Nat \ {0} /\ Frame = ENTRIES .. ENTRIES + frames - 1 /\ ENTRIES \in Nat \ {0}
  BY FrameRange, Layout DEF Init
<1>2. /\ pc = "first_pt" /\ given = 0 /\ seg = 1 /\ i = 0 /\ dir = NULL
      /\ \A s \in Space, v \in Page : pt[s][v] = UNMAPPED
      /\ \A s \in Space, t \in Table : pd[s][t] = NULL
      /\ "kernel" \in Space /\ "task" \in Space
  BY DEF Init, Space
<1>3. TypeOK
  <2>1. program \in Programs /\ Len(program) \in Nat
    BY ProgramAssumption DEF Init
  <2>2. seg \in 1 .. Len(program) + 1
    BY <2>1, <1>2
  <2>3. mem \in [Frame \cup {NULL} -> Content]
    BY BlankTyped DEF Init
  <2>. QED
    BY <2>1, <2>2, <2>3, <1>1, <1>2 DEF Init, TypeOK
<1>4. NothingAhead
  BY <1>1, <1>2 DEF NothingAhead
<1>5. FramesApart
  <2>1. PagesApart /\ TablesApart /\ DirectoryApart
    BY <1>1, <1>2 DEF PagesApart, TablesApart, DirectoryApart
  <2>. QED
    BY <2>1, ApartByPage
<1>6. LoopsInBounds /\ HeapMapped
  BY <1>2, Where DEF LoopsInBounds, HeapMapped, HasDirectory
<1>7. TaskSoFar
  BY <1>2, Where, Tables, Layout DEF TaskSoFar, HasDirectory, HasTable
<1>8. SegmentSoFar
  BY <1>2, Where, Layout DEF SegmentSoFar
<1>9. SegmentsLoaded /\ TaskIsWhole
  BY <1>2, Where DEF SegmentsLoaded, TaskIsWhole
<1>10. LoadOutcome
  <2>1. NullsInPlaces
    BY <1>2, Nulls DEF NullsByPage
  <2>2. mem[NULL] = Blank
    BY DEF Init
  <2>. QED
    BY <1>2, <2>1, <2>2, Where DEF LoadOutcome, NullsInPlaces
<1>11. Untouched
  BY <1>2, Where DEF Init, Untouched
<1>. QED
  BY <1>3, <1>4, <1>5, <1>6, <1>7, <1>8, <1>9, <1>10, <1>11 DEF IInv

LEMMA StutterKeeps ==
  ASSUME IInv, UNCHANGED vars
  PROVE  IInv'
<1>1. Frame' = Frame /\ header' = header /\ LoadsSegment' = LoadsSegment /\ p_len' = p_len
  BY DEF vars, Frame, Address, header, LoadsSegment, p_len
<1>2. TypeOK' /\ NothingAhead' /\ FramesApart'
  BY <1>1 DEF vars, IInv, TypeOK, NothingAhead, FramesApart
<1>3. LoopsInBounds' /\ HeapMapped' /\ TaskSoFar'
  BY <1>1 DEF vars, IInv, LoopsInBounds, HeapMapped, TaskSoFar, HasDirectory, HasTable, Past
<1>4. SegmentSoFar' /\ SegmentsLoaded' /\ TaskIsWhole' /\ Untouched'
  BY <1>1 DEF vars, IInv, SegmentSoFar, SegmentsLoaded, TaskIsWhole, Past, Untouched
<1>5. LoadOutcome'
  BY <1>1 DEF vars, IInv, LoadOutcome
<1>. QED
  BY <1>2, <1>3, <1>4, <1>5 DEF IInv

LEMMA NextKeeps ==
  ASSUME IInv, [Next]_vars
  PROVE  IInv'
<1>1. CASE FirstTable
  BY <1>1, FirstTableKeeps
<1>2. CASE MapFramebuffer
  BY <1>2, MapFramebufferKeeps
<1>3. CASE MapHeap
  BY <1>3, MapHeapKeeps
<1>4. CASE init_malloc
  BY <1>4, InitMallocKeeps
<1>5. CASE parse_elf_header
  BY <1>5, ParseKeeps
<1>6. CASE TakeDirectory
  BY <1>6, TakeDirectoryKeeps
<1>7. CASE TaskLow
  BY <1>7, TaskLowKeeps
<1>8. CASE TaskFramebuffer
  BY <1>8, TaskFramebufferKeeps
<1>9. CASE TaskHeap
  BY <1>9, TaskHeapKeeps
<1>10. CASE NextHeader
  BY <1>10, NextHeaderKeeps
<1>11. CASE LastHeader
  BY <1>11, LastHeaderKeeps
<1>12. CASE MmapKernel
  BY <1>12, MmapKernelKeeps
<1>13. CASE MmapTask
  BY <1>13, MmapTaskKeeps
<1>14. CASE ReadSegment
  BY <1>14, ReadSegmentKeeps
<1>15. CASE CopyPage
  BY <1>15, CopyPageKeeps
<1>16. CASE CreateTask
  BY <1>16, CreateTaskKeeps
<1>17. ASSUME NEW v \in UserPages, mmap(v) PROVE IInv'
  BY <1>17, mmapKeeps
<1>18. CASE UNCHANGED vars
  BY <1>18, StutterKeeps
<1>. QED
  BY <1>1, <1>2, <1>3, <1>4, <1>5, <1>6, <1>7, <1>8, <1>9, <1>10, <1>11, <1>12, <1>13,
     <1>14, <1>15, <1>16, <1>17, <1>18 DEF Next

LEMMA AlwaysIInv == Spec => []IInv
<1>1. Init => IInv
  BY InitIInv
<1>2. IInv /\ [Next]_vars => IInv'
  BY NextKeeps
<1>. QED
  BY <1>1, <1>2, PTL DEF Spec
-----------------------------------------------------------------------------
\* Page directories, page tables and frames stay what they are, wherever memory
\* runs out, and for programs of any number of segments.
THEOREM AddressSpacesTypeCorrect == Spec => []TypeOK
<1>1. IInv => TypeOK
  BY DEF IInv
<1>. QED
  BY <1>1, AlwaysIInv, PTL

\* A task that create_task has started has every page of every segment, with the
\* bytes of the file, zeros in a segment that has none, and what was there before
\* only behind the bytes of the file; and its stack, the screen and its part of the
\* kernel's heap.
THEOREM StartedTasksAreWhole == Spec => []TaskIsWhole
<1>1. IInv => TaskIsWhole
  BY DEF IInv
<1>. QED
  BY <1>1, AlwaysIInv, PTL

\* No frame that alloc_page has handed out serves two purposes, in either
\* address space, whatever a failed step of create_pd or load_elf leaves behind.
THEOREM NoFrameServesTwice == Spec => []FramesApart
<1>1. IInv => FramesApart
  BY DEF IInv
<1>. QED
  BY <1>1, AlwaysIInv, PTL

\* load_elf fails only for a reason, faults only in the two ways known, and
\* frame 0 gets neither a page of a program nor a stack.
THEOREM LoadingEndsWell == Spec => []LoadOutcome
<1>1. IInv => LoadOutcome
  BY DEF IInv
<1>. QED
  BY <1>1, AlwaysIInv, PTL
=============================================================================
