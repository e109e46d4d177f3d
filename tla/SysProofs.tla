------------------------------ MODULE SysProofs ------------------------------
(***************************************************************************)
(* Three parts of the kernel.  The page-frame allocator of Frames, for     *)
(* every memory size, page size and width of a bitmap element.  The cursor *)
(* of Terminal, for every size of glyph and screen: whoever else moves it  *)
(* between two accesses of main, the row it is in does not end below the   *)
(* screen once main is out of new_line, and where a glyph may be drawn     *)
(* that is not on the screen.  And the division of LongLong,               *)
(* which is exact for every width.  The invariant of its loop: the bits of *)
(* num taken so far are a number t, and t is the quotient so far times den *)
(* plus the remainder.  That the remainder is at most t is also why        *)
(* shifting it never loses a bit, even when den is so large that twice a   *)
(* remainder would not fit into a word.                                    *)
(***************************************************************************)
EXTENDS Frames, Terminal, LongLong, TLAPS

\* The frames are numbered from 0, and the last one ends inside the RAM.
LEMMA MaxPagesFits ==
  /\ MAX_PAGES \in Nat
  /\ ALLOC_START + MAX_PAGES * PAGE_SIZE <= AvailableMemory
<1> DEFINE room == AvailableMemory - ALLOC_START
<1>1. /\ room \in Nat
      /\ PAGE_SIZE \in Nat
      /\ PAGE_SIZE > 0
  BY FramesAssumption
<1>2. /\ room \div PAGE_SIZE \in Nat
      /\ (room \div PAGE_SIZE) * PAGE_SIZE <= room
  <2> HIDE DEF room
  <2> QED  BY <1>1, SMTT(30)
<1>3. MAX_PAGES = room \div PAGE_SIZE
  BY DEF MAX_PAGES
<1> HIDE DEF MAX_PAGES
<1>4. /\ MAX_PAGES \in Nat
      /\ MAX_PAGES * PAGE_SIZE <= room
  BY <1>2, <1>3
<1>5. MAX_PAGES * PAGE_SIZE \in Nat
  BY <1>1, <1>4
<1>6. ALLOC_START \in Nat /\ AvailableMemory \in Nat
  BY FramesAssumption
<1> QED
  <2> DEFINE bytes == MAX_PAGES * PAGE_SIZE
  <2>1. bytes \in Nat /\ bytes <= AvailableMemory - ALLOC_START
    BY <1>4, <1>5
  <2> HIDE DEF bytes
  <2>2. ALLOC_START + bytes <= AvailableMemory
    BY <2>1, <1>6
  <2> QED  BY <2>2, <1>4 DEF bytes

\* The byte that holds bit f does not start after bit f.
LEMMA ByteStart ==
  ASSUME NEW f \in Nat
  PROVE  /\ f \div ByteBits \in Nat
         /\ (f \div ByteBits) * ByteBits <= f
<1>1. ByteBits \in Nat /\ ByteBits > 0
  BY FramesAssumption
<1> QED  BY <1>1, SMTT(30)
-----------------------------------------------------------------------------
\* What a step that marks and returns the first frame found leaves behind.
LEMMA MarkFirst ==
  ASSUME IInv, NEW f \in Frame,
         f \notin memory_bitmap,
         \A j \in Frame : j < f => j \in memory_bitmap,
         set_page_used(f),
         Return(f)
  PROVE  /\ memory_bitmap' \subseteq Frame
         /\ current_idx' \in Nat
         /\ grants' \in [Frame -> Nat]
         /\ answer' \in Frame
         /\ GrantedOnce'
         /\ HintSound'
<1>1. f \in Nat
  BY MaxPagesFits DEF Frame
<1>2. /\ f \div ByteBits \in Nat
      /\ (f \div ByteBits) * ByteBits <= f
  BY <1>1, ByteStart
<1>3. memory_bitmap' = memory_bitmap \cup {f} /\ current_idx' = f \div ByteBits
  BY DEF set_page_used
<1>4. memory_bitmap' \subseteq Frame /\ current_idx' \in Nat
  BY <1>2, <1>3 DEF IInv, TypeOK
<1>5. grants' \in [Frame -> Nat] /\ answer' \in Frame
  BY DEF Return, IInv, TypeOK
<1>6. GrantedOnce'
  BY <1>3 DEF GrantedOnce, IInv, TypeOK, Return
<1>7. HintSound'
  <2> SUFFICES ASSUME NEW k \in Frame, k < current_idx' * ByteBits
               PROVE  k \in memory_bitmap'
    BY DEF HintSound
  <2> DEFINE start == (f \div ByteBits) * ByteBits
  <2>1. start \in Int
    BY <1>2, FramesAssumption
  <2>2. k < start
    BY <1>3
  <2>3. start <= f
    BY <1>2
  <2>4. k \in Int
    BY DEF Frame
  <2> HIDE DEF start
  <2>5. k < f
    BY <1>1, <2>1, <2>2, <2>3, <2>4
  <2> QED  BY <1>3, <2>5
<1> QED  BY <1>4, <1>5, <1>6, <1>7

\* When the hint is sound, the first frame the loop finds is the lowest free
\* one: nothing below the place where the search starts is free.
LEMMA FirstFoundIsLowest ==
  ASSUME IInv, NEW f \in Found, StopsAt(f)
  PROVE  /\ f \in Frame
         /\ f \notin memory_bitmap
         /\ f >= current_idx * ByteBits
         /\ \A j \in Frame : j < f => j \in memory_bitmap
<1> DEFINE start == current_idx * ByteBits
<1>1. start \in Nat
  BY FramesAssumption DEF IInv, TypeOK
<1>2. MAX_PAGES \in Nat
  BY MaxPagesFits
<1>3. f \in start .. MAX_PAGES - 1 /\ f \notin memory_bitmap
  BY DEF Found, is_page_used
<1>4. \A j \in start .. MAX_PAGES - 1 : j \notin memory_bitmap => f <= j
  BY DEF StopsAt, Found, is_page_used
<1>5. \A j \in Frame : j < start => j \in memory_bitmap
  BY DEF IInv, HintSound
<1> HIDE DEF start
<1>6. f \in Frame /\ f >= start
  BY <1>1, <1>2, <1>3 DEF Frame
<1>7. ASSUME NEW j \in Frame, j < f
      PROVE  j \in memory_bitmap
  BY <1>1, <1>2, <1>3, <1>4, <1>5, <1>7 DEF Frame
<1> QED  BY <1>3, <1>6, <1>7 DEF start
-----------------------------------------------------------------------------
\* The allocator's initial state satisfies the inductive invariant.
LEMMA InitIInv == Init => IInv
<1> SUFFICES ASSUME Init PROVE IInv
  OBVIOUS
<1>1. TypeOK
  BY DEF Init, TypeOK
<1>2. GrantedOnce
  BY DEF Init, GrantedOnce
<1>3. HintSound
  BY MaxPagesFits, FramesAssumption DEF Init, HintSound, Frame
<1>4. CandStillFree /\ CandIsLowest
  BY DEF Init, CandStillFree, CandIsLowest
<1> QED  BY <1>1, <1>2, <1>3, <1>4 DEF IInv

\* Every step of the allocator preserves it.
LEMMA NextIInv == IInv /\ [Next]_vars => IInv'
<1> SUFFICES ASSUME IInv, [Next]_vars PROVE IInv'
  OBVIOUS
<1> USE DEF IInv
<1>1. CASE MainProbe
  <2>1. PICK f \in Found : StopsAt(f) /\ cand' = f
    BY <1>1 DEF MainProbe
  <2>2. /\ f \in Frame
        /\ f \notin memory_bitmap
        /\ f >= current_idx * ByteBits
        /\ \A j \in Frame : j < f => j \in memory_bitmap
    BY <2>1, FirstFoundIsLowest
  <2>3. phase = "load" /\ UNCHANGED <<memory_bitmap, current_idx, phase, grants, answer>>
    BY <1>1 DEF MainProbe, MainMayAllocate
  <2> QED
    BY <2>1, <2>2, <2>3
    DEF TypeOK, GrantedOnce, HintSound, CandStillFree, CandIsLowest
<1>2. CASE MainMark
  <2>1. /\ cand # NULL
        /\ set_page_used(cand)
        /\ Return(cand)
        /\ cand' = NULL
        /\ phase' = phase
    BY <1>2 DEF MainMark
  <2>2. cand \in Frame
    BY <2>1 DEF TypeOK
  <2>3. cand \notin memory_bitmap /\ \A j \in Frame : j < cand => j \in memory_bitmap
    BY <2>1 DEF CandStillFree, CandIsLowest
  <2>4. /\ memory_bitmap' \subseteq Frame
        /\ current_idx' \in Nat
        /\ grants' \in [Frame -> Nat]
        /\ answer' \in Frame
        /\ GrantedOnce'
        /\ HintSound'
    BY <2>1, <2>2, <2>3, MarkFirst
  <2> QED
    BY <2>1, <2>4 DEF TypeOK, CandStillFree, CandIsLowest
<1>3. CASE SyscallAlloc
  <2>1. PICK f \in Found : StopsAt(f) /\ set_page_used(f) /\ Return(f)
    BY <1>3 DEF SyscallAlloc
  <2>2. /\ f \in Frame
        /\ f \notin memory_bitmap
        /\ \A j \in Frame : j < f => j \in memory_bitmap
    BY <2>1, FirstFoundIsLowest
  <2>3. /\ memory_bitmap' \subseteq Frame
        /\ current_idx' \in Nat
        /\ grants' \in [Frame -> Nat]
        /\ answer' \in Frame
        /\ GrantedOnce'
        /\ HintSound'
    BY <2>1, <2>2, MarkFirst
  <2>4. cand' = cand /\ phase' = phase /\ phase = "run"
    BY <1>3 DEF SyscallAlloc
  <2>5. cand = NULL
    BY <2>4 DEF CandStillFree
  <2> QED
    BY <2>3, <2>4, <2>5 DEF TypeOK, CandStillFree, CandIsLowest
<1>4. CASE MainRefused \/ SyscallRefused
  BY <1>4
  DEF MainRefused, SyscallRefused, OutOfFrames,
      TypeOK, GrantedOnce, HintSound, CandStillFree, CandIsLowest
<1>5. CASE TaskCreated
  BY <1>5
  DEF TaskCreated, TypeOK, GrantedOnce, HintSound, CandStillFree, CandIsLowest
<1>6. CASE UNCHANGED vars
  BY <1>6
  DEF vars, TypeOK, GrantedOnce, HintSound, CandStillFree, CandIsLowest
<1> QED
  BY <1>1, <1>2, <1>3, <1>4, <1>5, <1>6 DEF Next

\* Type correctness of the bitmap, the hint and main's candidate.
THEOREM FramesTypeCorrect == Spec => []TypeOK
<1>1. IInv => TypeOK
  BY DEF IInv
<1> QED  BY <1>1, InitIInv, NextIInv, PTL DEF Spec

\* No frame is handed out twice, whatever the interleaving of main's two-step
\* allocation with the mmap system calls.
THEOREM FramesGrantedOnce == Spec => []GrantedOnce
<1>1. IInv => GrantedOnce
  BY DEF IInv
<1> QED  BY <1>1, InitIInv, NextIInv, PTL DEF Spec

\* The hint never hides a free frame from the search.
THEOREM FramesHintSound == Spec => []HintSound
<1>1. IInv => HintSound
  BY DEF IInv
<1> QED  BY <1>1, InitIInv, NextIInv, PTL DEF Spec

\* Every frame handed out is RAM above the identity-mapped kernel area.
THEOREM FramesAreInRam == Spec => []FramesInRam
<1>1. ASSUME NEW f \in Frame
      PROVE  /\ Address(f) >= ALLOC_START
             /\ Address(f) + PAGE_SIZE <= AvailableMemory
  <2> DEFINE below == f * PAGE_SIZE
             all   == MAX_PAGES * PAGE_SIZE
  <2>1. MAX_PAGES \in Nat /\ ALLOC_START + all <= AvailableMemory
    BY MaxPagesFits
  <2>2. PAGE_SIZE \in Nat /\ ALLOC_START \in Nat /\ AvailableMemory \in Nat
    BY FramesAssumption
  <2>3. f \in Nat /\ f + 1 <= MAX_PAGES
    BY <2>1 DEF Frame
  <2>4. below \in Nat /\ all \in Nat /\ below + PAGE_SIZE <= all
    BY <2>1, <2>2, <2>3, SMTT(30)
  <2>5. Address(f) = ALLOC_START + below
    BY DEF Address
  <2> HIDE DEF below, all
  <2> QED  BY <2>1, <2>2, <2>4, <2>5
<1>2. TypeOK => FramesInRam
  BY <1>1 DEF TypeOK, FramesInRam
<1> QED  BY <1>2, FramesTypeCorrect, PTL

\* The bitmap allocator implements the stock of frames it promises to be.
THEOREM FramesImplementsSource == Spec => ImplementsFrameSource
<1>1. Init => Source!Init
  BY DEF Init, Source!Init
<1>2. IInv /\ [Next]_vars => [Source!Next]_(Source!vars)
  <2> SUFFICES ASSUME IInv, [Next]_vars
               PROVE  Source!Next \/ UNCHANGED Source!vars
    BY DEF Source!vars
  <2>1. CASE MainProbe
    BY <2>1 DEF MainProbe, Source!vars
  <2>2. CASE MainMark
    <3>1. cand \in Frame /\ cand \notin memory_bitmap
      BY <2>2 DEF MainMark, IInv, TypeOK, CandStillFree
    <3>2. memory_bitmap' = memory_bitmap \cup {cand} /\ answer' = cand
      BY <2>2 DEF MainMark, set_page_used, Return
    <3>3. Source!Grant
      BY <3>1, <3>2 DEF Source!Grant
    <3> QED  BY <3>3 DEF Source!Next
  <2>3. CASE SyscallAlloc
    <3>1. PICK f \in Found : StopsAt(f) /\ set_page_used(f) /\ Return(f)
      BY <2>3 DEF SyscallAlloc
    <3>2. f \in Frame /\ f \notin memory_bitmap
      BY <3>1, FirstFoundIsLowest
    <3>3. memory_bitmap' = memory_bitmap \cup {f} /\ answer' = f
      BY <3>1 DEF set_page_used, Return
    <3>4. Source!Grant
      BY <3>2, <3>3 DEF Source!Grant
    <3> QED  BY <3>4 DEF Source!Next
  <2>4. CASE MainRefused \/ SyscallRefused
    <3>1. Found = {} /\ answer' = NULL /\ UNCHANGED memory_bitmap
      BY <2>4 DEF MainRefused, SyscallRefused, OutOfFrames
    <3>2. ASSUME NEW f \in Frame
          PROVE  f \in memory_bitmap
      <4> DEFINE start == current_idx * ByteBits
      <4>1. start \in Nat
        BY FramesAssumption DEF IInv, TypeOK
      <4>2. f < start => f \in memory_bitmap
        BY DEF IInv, HintSound
      <4>3. f \in start .. MAX_PAGES - 1 => f \in memory_bitmap
        BY <3>1 DEF Found, is_page_used
      <4>4. f \in Nat /\ f <= MAX_PAGES - 1 /\ MAX_PAGES \in Nat
        BY MaxPagesFits DEF Frame
      <4> HIDE DEF start
      <4> QED  BY <4>1, <4>2, <4>3, <4>4
    <3>3. Source!Refuse
      BY <3>1, <3>2 DEF Source!Refuse
    <3> QED  BY <3>3 DEF Source!Next
  <2>5. CASE TaskCreated
    BY <2>5 DEF TaskCreated, Source!vars
  <2>6. CASE UNCHANGED vars
    BY <2>6 DEF vars, Source!vars
  <2> QED  BY <2>1, <2>2, <2>3, <2>4, <2>5, <2>6 DEF Next
<1> QED
  BY <1>1, <1>2, InitIInv, NextIInv, PTL DEF Spec, ImplementsFrameSource, Source!Spec
-----------------------------------------------------------------------------
\* The row a glyph can be drawn in that is the last on the screen.
Lowest == SCR_HEIGHT - FONT_HEIGHT

\* Between its two assignments main may have left the cursor a row too low; it has
\* loaded a row that was not, before the first, and not lower, before the second.
RowInv == /\ scr_y <= Lowest + FONT_HEIGHT
          /\ ~ InNewLine => scr_y <= Lowest
          /\ pc = "storeY" => reg <= Lowest
          /\ pc = "storeUp" => reg <= Lowest + FONT_HEIGHT

\* main stores a column it has loaded, and draws only pixels of its glyph.
AccessInv == /\ pc = "storeX" => reg \in Nat
             /\ pc = "draw" => dots < GlyphSize

ScreenInv == TerminalTypeOK /\ AccessInv /\ RowInv
-----------------------------------------------------------------------------
\* A glyph has a pixel.
LEMMA GlyphSizePositive == GlyphSize \in Nat /\ GlyphSize > 0
  BY TerminalAssumption, Z3 DEF GlyphSize

\* Every pixel of a glyph is at a column and a row.
LEMMA DotType ==
  ASSUME TerminalTypeOK, NEW n \in Nat
  PROVE  Dot(n) \in [x : Nat, y : Int]
<1>1. n % FONT_WIDTH \in Nat
  BY TerminalAssumption
<1>2. n \div FONT_WIDTH \in Int
  BY TerminalAssumption
<1>. QED
  BY <1>1, <1>2 DEF Dot, TerminalTypeOK

\* The system starts in a state of the invariant.
LEMMA InitScreenInv == TerminalInit => ScreenInv
  BY TerminalAssumption, GlyphSizePositive
  DEF TerminalInit, ScreenInv, TerminalTypeOK, AccessInv, RowInv, InNewLine, Lowest

\* A new row, begun with interrupts disabled, leaves the cursor where it may be.
LEMMA NewLineRow ==
  ASSUME ScreenInv, new_line, UNCHANGED <<pc, reg, dots>>
  PROVE  /\ scr_x' \in Nat
         /\ scr_y' \in Int
         /\ AccessInv'
         /\ RowInv'
  BY TerminalAssumption, GlyphSizePositive
  DEF ScreenInv, TerminalTypeOK, AccessInv, RowInv, InNewLine, Lowest, new_line, TooLow, GlyphSize

\* Every step of every actor keeps the invariant.
LEMMA NextScreenInv == ScreenInv /\ [TerminalNext]_terminal => ScreenInv'
<1>. SUFFICES ASSUME ScreenInv, [TerminalNext]_terminal
              PROVE  ScreenInv'
  OBVIOUS
<1>. USE TerminalAssumption, GlyphSizePositive
<1>1. CASE Newline
  <2>1. TerminalTypeOK'
    BY <1>1, NewLineRow DEF Newline, ScreenInv, TerminalTypeOK
  <2>. QED
    BY <1>1, <2>1, NewLineRow DEF Newline, ScreenInv
<1>2. CASE Letter
  <2>1. drawn' \subseteq [x : Nat, y : Int]
    BY <1>2, DotType DEF Letter, ScreenInv
  <2>2. CASE new_line
    <3>1. TerminalTypeOK'
      BY <1>2, <2>1, <2>2, NewLineRow DEF Letter, ScreenInv, TerminalTypeOK
    <3>. QED
      BY <1>2, <2>2, <3>1, NewLineRow DEF Letter, ScreenInv
  <2>3. CASE scr_x' = scr_x + FONT_WIDTH /\ scr_y' = scr_y
    BY <1>2, <2>1, <2>3
    DEF Letter, ScreenInv, TerminalTypeOK, AccessInv, RowInv, InNewLine, Lowest
  <2>. QED
    BY <1>2, <2>2, <2>3 DEF Letter
<1>3. CASE backspace
  BY <1>3
  DEF backspace, CanGoBack, ScreenInv, TerminalTypeOK, AccessInv, RowInv, InNewLine, Lowest
<1>4. CASE puts
  BY <1>4 DEF puts, Goes, ScreenInv, TerminalTypeOK, AccessInv, RowInv, InNewLine, Lowest
<1>5. CASE Draw
  <2>1. Dot(dots) \in [x : Nat, y : Int]
    BY DotType DEF ScreenInv, TerminalTypeOK
  <2>2. dots + 1 \in 0 .. GlyphSize
    BY <1>5 DEF Draw, Goes, ScreenInv, TerminalTypeOK, AccessInv
  <2>3. pc' \in {"loadX", "draw"} /\ (pc' = "draw" => dots' < GlyphSize)
    BY <1>5, <2>2 DEF Draw, Goes
  <2>. QED
    BY <1>5, <2>1, <2>2, <2>3
    DEF Draw, Goes, ScreenInv, TerminalTypeOK, AccessInv, RowInv, InNewLine, Lowest
<1>6. CASE LoadX
  BY <1>6 DEF LoadX, Goes, ScreenInv, TerminalTypeOK, AccessInv, RowInv, InNewLine, Lowest
<1>7. CASE StoreX
  BY <1>7 DEF StoreX, Goes, ScreenInv, TerminalTypeOK, AccessInv, RowInv, InNewLine, Lowest
<1>8. CASE TestX
  BY <1>8 DEF TestX, Goes, ScreenInv, TerminalTypeOK, AccessInv, RowInv, InNewLine, Lowest
<1>9. CASE LoadY
  BY <1>9 DEF LoadY, Goes, ScreenInv, TerminalTypeOK, AccessInv, RowInv, InNewLine, Lowest
<1>10. CASE StoreY
  BY <1>10 DEF StoreY, Goes, ScreenInv, TerminalTypeOK, AccessInv, RowInv, InNewLine, Lowest
<1>11. CASE ZeroX
  BY <1>11 DEF ZeroX, Goes, ScreenInv, TerminalTypeOK, AccessInv, RowInv, InNewLine, Lowest
<1>12. CASE TestY
  BY <1>12 DEF TestY, TooLow, Goes, ScreenInv, TerminalTypeOK, AccessInv, RowInv, InNewLine, Lowest
<1>13. CASE LoadUp
  BY <1>13 DEF LoadUp, Goes, ScreenInv, TerminalTypeOK, AccessInv, RowInv, InNewLine, Lowest
<1>14. CASE StoreUp
  BY <1>14 DEF StoreUp, Goes, ScreenInv, TerminalTypeOK, AccessInv, RowInv, InNewLine, Lowest
<1>15. CASE UNCHANGED terminal
  BY <1>15 DEF terminal, ScreenInv, TerminalTypeOK, AccessInv, RowInv, InNewLine, Lowest
<1>. QED
  BY <1>1, <1>2, <1>3, <1>4, <1>5, <1>6, <1>7, <1>8, <1>9, <1>10, <1>11, <1>12, <1>13,
     <1>14, <1>15 DEF TerminalNext, main
-----------------------------------------------------------------------------
(* Where glyphs are drawn. *)

Aligned(x) == x % FONT_WIDTH = 0

\* Unless something has happened to the row, the cursor is at a whole number of
\* glyphs, and at the edge only from when main has put it there to when it has
\* begun the next row.  The column that main is about to store is one to draw at.
ColumnInv ==
  trouble = {} => /\ Aligned(scr_x)
                  /\ scr_x <= SCR_WIDTH
                  /\ scr_x = SCR_WIDTH => pc \in {"testX", "loadY", "storeY", "zeroX"}
                  /\ pc = "storeX" => Aligned(reg) /\ reg < SCR_WIDTH

\* A multiple, and the next one.
LEMMA Multiple ==
  ASSUME NEW d \in Nat \ {0}, NEW x \in Nat, x % d = 0
  PROVE  /\ (x + d) % d = 0
         /\ \A y \in Nat : y % d = 0 /\ x < y => x + d <= y
<1>. DEFINE k == x \div d
<1>1. k \in Nat /\ x = k * d
  OBVIOUS
<1>. HIDE DEF k
<1>2. (x + d) % d = 0
  <2>. DEFINE z == x + d
              m == z \div d
              rest == z % d
  <2>1. m \in Nat /\ rest \in Nat /\ rest < d /\ z = m * d + rest /\ z \in Nat
    OBVIOUS
  <2>2. z = (k + 1) * d
    BY <1>1
  <2>. HIDE DEF z, m, rest
  <2>3. m <= k + 1
    <3>. SUFFICES ASSUME k + 1 < m PROVE FALSE
      BY <1>1, <2>1
    <3>1. (k + 2) * d <= m * d /\ (k + 2) * d = (k + 1) * d + d
      BY <1>1, <2>1
    <3>. QED
      BY <2>1, <2>2, <3>1, <1>1
  <2>4. m >= k + 1
    <3>. SUFFICES ASSUME m <= k PROVE FALSE
      BY <1>1, <2>1
    <3>1. m * d <= k * d /\ (k + 1) * d = k * d + d
      BY <1>1, <2>1
    <3>. QED
      BY <2>1, <2>2, <3>1, <1>1
  <2>5. m = k + 1
    BY <2>1, <2>3, <2>4, <1>1
  <2>6. rest = 0
    BY <2>1, <2>2, <2>5
  <2>. QED
    BY <2>6 DEF rest, z
<1>3. ASSUME NEW y \in Nat, y % d = 0, x < y
      PROVE  x + d <= y
  <2>. DEFINE m == y \div d
  <2>1. m \in Nat /\ y = m * d
    BY <1>3
  <2>. HIDE DEF m
  <2>2. k < m
    <3>. SUFFICES ASSUME m <= k PROVE FALSE
      BY <1>1, <2>1
    <3>1. m * d <= k * d
      BY <1>1, <2>1
    <3>. QED
      BY <1>1, <1>3, <2>1, <3>1
  <2>3. (k + 1) * d <= m * d /\ (k + 1) * d = k * d + d
    BY <1>1, <2>1, <2>2
  <2>. QED
    BY <1>1, <2>1, <2>3
<1>. QED
  BY <1>2, <1>3

\* A column of glyphs that is not the edge is a glyph before it.
LEMMA Columns ==
  ASSUME NEW x \in Nat, Aligned(x)
  PROVE  /\ Aligned(x + FONT_WIDTH) /\ Aligned(0)
         /\ x < SCR_WIDTH => x + FONT_WIDTH <= SCR_WIDTH
<1>1. FONT_WIDTH \in Nat \ {0} /\ SCR_WIDTH \in Nat /\ SCR_WIDTH % FONT_WIDTH = 0 /\ x % FONT_WIDTH = 0
  BY TerminalAssumption DEF Aligned
<1>2. 0 % FONT_WIDTH = 0
  BY <1>1
<1>3. (x + FONT_WIDTH) % FONT_WIDTH = 0
  BY <1>1, Multiple
<1>4. x < SCR_WIDTH => x + FONT_WIDTH <= SCR_WIDTH
  BY <1>1, Multiple
<1>. QED
  BY <1>2, <1>3, <1>4 DEF Aligned

\* A pixel of a glyph is less than a glyph away from the cursor.
LEMMA DotNear ==
  ASSUME TerminalTypeOK, NEW n \in 0 .. GlyphSize - 1
  PROVE  /\ Dot(n).x \in Nat /\ Dot(n).x < scr_x + FONT_WIDTH
         /\ Dot(n).y \in Int /\ Dot(n).y < scr_y + FONT_HEIGHT
<1>1. FONT_WIDTH \in Nat \ {0} /\ FONT_HEIGHT \in Nat \ {0} /\ n \in Nat
      /\ scr_x \in Nat /\ scr_y \in Int
  BY TerminalAssumption, GlyphSizePositive DEF TerminalTypeOK
<1>2. n % FONT_WIDTH \in Nat /\ n % FONT_WIDTH < FONT_WIDTH
  BY <1>1
<1>3. n \div FONT_WIDTH \in Nat /\ n \div FONT_WIDTH < FONT_HEIGHT
  <2>. DEFINE k == n \div FONT_WIDTH
  <2>1. k \in Nat /\ k * FONT_WIDTH <= n
    BY <1>1
  <2>2. n < FONT_HEIGHT * FONT_WIDTH
    BY <1>1, GlyphSizePositive DEF GlyphSize
  <2>. HIDE DEF k
  <2>3. SUFFICES ASSUME k >= FONT_HEIGHT PROVE FALSE
    BY <1>1, <2>1 DEF k
  <2>4. FONT_HEIGHT * FONT_WIDTH <= k * FONT_WIDTH
    BY <1>1, <2>1, <2>3
  <2>. QED
    BY <1>1, <2>1, <2>2, <2>4
<1>. QED
  BY <1>1, <1>2, <1>3 DEF Dot

\* The column that every step leaves behind.
LEMMA NextColumnInv ==
  ASSUME ScreenInv, ColumnInv, [TerminalNext]_terminal
  PROVE  ColumnInv'
<1>1. /\ FONT_WIDTH \in Nat \ {0} /\ SCR_WIDTH \in Nat \ {0} /\ scr_x \in Nat
      /\ (pc = "storeX" => reg \in Nat)
  BY TerminalAssumption DEF ScreenInv, TerminalTypeOK, AccessInv
<1>2. /\ Aligned(0) /\ 0 < SCR_WIDTH
      /\ Aligned(scr_x) => Aligned(scr_x + FONT_WIDTH) /\ (scr_x < SCR_WIDTH => scr_x + FONT_WIDTH <= SCR_WIDTH)
      /\ pc = "storeX" /\ Aligned(reg) =>
           Aligned(reg + FONT_WIDTH) /\ (reg < SCR_WIDTH => reg + FONT_WIDTH <= SCR_WIDTH)
  <2>1. Aligned(0)
    BY <1>1 DEF Aligned
  <2>2. \A x \in Nat : Aligned(x) =>
          Aligned(x + FONT_WIDTH) /\ (x < SCR_WIDTH => x + FONT_WIDTH <= SCR_WIDTH)
    BY Columns
  <2>. QED
    BY <1>1, <2>1, <2>2
<1>. HIDE DEF Aligned
<1>3. CASE Newline
  BY <1>1, <1>2, <1>3 DEF Newline, new_line, Stale, ColumnInv
<1>4. CASE Letter
  <2>1. trouble' = {} => trouble = {} /\ scr_x # SCR_WIDTH
    BY <1>4 DEF Letter, AtEdge
  <2>2. CASE new_line
    BY <1>1, <1>2, <1>4, <2>1, <2>2 DEF Letter, new_line, ColumnInv
  <2>3. CASE ~ AtEdge(scr_x + FONT_WIDTH) /\ scr_x' = scr_x + FONT_WIDTH
    BY <1>1, <1>2, <1>4, <2>1, <2>3 DEF Letter, AtEdge, ColumnInv
  <2>. QED
    BY <1>4, <2>2, <2>3 DEF Letter
<1>5. CASE backspace
  <2>1. trouble' = {} => trouble = {} /\ UNCHANGED <<scr_x, pc, reg>>
    BY <1>5 DEF backspace
  <2>. QED
    BY <2>1 DEF ColumnInv
<1>6. CASE puts
  BY <1>1, <1>6 DEF puts, Goes, ColumnInv
<1>7. CASE Draw
  BY <1>7 DEF Draw, Goes, ColumnInv
<1>8. CASE LoadX
  BY <1>1, <1>8 DEF LoadX, Goes, ColumnInv
<1>9. CASE StoreX
  BY <1>1, <1>2, <1>9 DEF StoreX, Goes, ColumnInv
<1>10. CASE TestX
  BY <1>10 DEF TestX, AtEdge, Goes, ColumnInv
<1>11. CASE LoadY
  BY <1>11 DEF LoadY, Goes, ColumnInv
<1>12. CASE StoreY
  BY <1>12 DEF StoreY, Goes, ColumnInv
<1>13. CASE ZeroX
  BY <1>1, <1>2, <1>13 DEF ZeroX, Goes, ColumnInv
<1>14. CASE TestY
  BY <1>14 DEF TestY, Goes, ColumnInv
<1>15. CASE LoadUp
  BY <1>15 DEF LoadUp, Goes, ColumnInv
<1>16. CASE StoreUp
  BY <1>16 DEF StoreUp, Goes, ColumnInv
<1>17. CASE UNCHANGED terminal
  BY <1>17 DEF terminal, ColumnInv
<1>. QED
  BY <1>3, <1>4, <1>5, <1>6, <1>7, <1>8, <1>9, <1>10, <1>11, <1>12, <1>13, <1>14, <1>15,
     <1>16, <1>17 DEF TerminalNext, main

\* What a step draws is on the screen, with the exceptions.
LEMMA NextTextOnScreen ==
  ASSUME ScreenInv, ColumnInv, TextOnScreen, [TerminalNext]_terminal
  PROVE  TextOnScreen'
<1>1. /\ FONT_WIDTH \in Nat \ {0} /\ SCR_WIDTH \in Nat \ {0} /\ scr_x \in Nat
      /\ FONT_HEIGHT \in Nat \ {0} /\ SCR_HEIGHT \in Nat \ {0} /\ scr_y \in Int
  BY TerminalAssumption DEF ScreenInv, TerminalTypeOK
<1>2. ASSUME NEW n \in 0 .. GlyphSize - 1
      PROVE  /\ trouble = {} /\ scr_x < SCR_WIDTH => Dot(n).x < SCR_WIDTH
             /\ ~ InNewLine => Dot(n).y < SCR_HEIGHT
  <2>1. /\ Dot(n).x \in Nat /\ Dot(n).x < scr_x + FONT_WIDTH
        /\ Dot(n).y \in Int /\ Dot(n).y < scr_y + FONT_HEIGHT
    BY DotNear DEF ScreenInv
  <2>2. ~ InNewLine => scr_y + FONT_HEIGHT <= SCR_HEIGHT
    BY <1>1 DEF ScreenInv, RowInv, Lowest
  <2>3. trouble = {} /\ scr_x < SCR_WIDTH => scr_x + FONT_WIDTH <= SCR_WIDTH
    BY <1>1, Columns DEF ColumnInv
  <2>. QED
    BY <1>1, <2>1, <2>2, <2>3
<1>3. CASE Letter
  <2>1. /\ drawn' = {Dot(n) : n \in 0 .. GlyphSize - 1}
        /\ pc' = pc
        /\ trouble' = {} => trouble = {} /\ scr_x # SCR_WIDTH
    BY <1>3 DEF Letter, AtEdge
  <2>2. trouble' = {} => trouble = {} /\ scr_x < SCR_WIDTH
    BY <1>1, <2>1 DEF ColumnInv
  <2>. QED
    BY <1>2, <2>1, <2>2 DEF TextOnScreen, InNewLine
<1>4. CASE Draw
  <2>1. /\ drawn' = {Dot(dots)} /\ trouble' = trouble /\ pc = "draw" /\ ~ InNewLine
        /\ dots \in 0 .. GlyphSize - 1
    BY <1>4, GlyphSizePositive DEF Draw, Goes, InNewLine, ScreenInv, TerminalTypeOK, AccessInv
  <2>2. trouble = {} => scr_x < SCR_WIDTH
    BY <1>1, <2>1 DEF ColumnInv
  <2>3. Dot(dots).y < SCR_HEIGHT /\ (trouble' # {} \/ Dot(dots).x < SCR_WIDTH)
    BY <1>2, <2>1, <2>2
  <2>. QED
    BY <2>1, <2>3 DEF TextOnScreen
<1>5. CASE UNCHANGED terminal
  BY <1>5 DEF terminal, TextOnScreen, InNewLine
<1>6. CASE drawn' = {}
  BY <1>6 DEF TextOnScreen
<1>7. Newline \/ backspace \/ puts \/ LoadX \/ StoreX \/ TestX \/ LoadY \/ StoreY \/ ZeroX
        \/ TestY \/ LoadUp \/ StoreUp => drawn' = {}
  BY DEF Newline, backspace, puts, LoadX, StoreX, TestX, LoadY, StoreY, ZeroX, TestY, LoadUp, StoreUp
<1>. QED
  BY <1>3, <1>4, <1>5, <1>6, <1>7 DEF TerminalNext, main

LEMMA InitColumnInv == TerminalInit => ColumnInv /\ TextOnScreen
<1>1. 0 % FONT_WIDTH = 0 /\ 0 < SCR_WIDTH
  BY TerminalAssumption
<1>. QED
  BY <1>1, TerminalAssumption DEF TerminalInit, ColumnInv, TextOnScreen, Aligned
-----------------------------------------------------------------------------
\* Cursor, glyph and what main has loaded keep their types.
THEOREM TerminalTypeCorrect == TerminalSpec => []TerminalTypeOK
<1>1. ScreenInv => TerminalTypeOK
  BY DEF ScreenInv
<1>. QED
  BY InitScreenInv, NextScreenInv, <1>1, PTL DEF TerminalSpec

\* On no screen is the cursor left in a row that ends below it, however puts, the
\* echo of a key, an erasure and the write of a program interleave.
THEOREM TerminalRowOnScreen == TerminalSpec => []RowOnScreen
<1>1. ScreenInv => RowOnScreen
  BY TerminalAssumption DEF ScreenInv, TerminalTypeOK, RowInv, Lowest, RowOnScreen
<1>. QED
  BY InitScreenInv, NextScreenInv, <1>1, PTL DEF TerminalSpec

\* Nothing is drawn beside the screen or below it, but for the two ways in which
\* the interrupts of keyboard and programs make putchar miss the edge.
THEOREM TerminalTextOnScreen == TerminalSpec => []TextOnScreen
<1>. DEFINE J == ScreenInv /\ ColumnInv /\ TextOnScreen
<1>1. TerminalInit => J
  BY InitScreenInv, InitColumnInv
<1>2. J /\ [TerminalNext]_terminal => J'
  BY NextScreenInv, NextColumnInv, NextTextOnScreen
<1>3. J => TextOnScreen
  OBVIOUS
<1>. QED
  BY <1>1, <1>2, <1>3, PTL DEF TerminalSpec
-----------------------------------------------------------------------------
\* Quotient and remainder, and that no other numbers are.
LEMMA DivMod ==
  ASSUME NEW b \in Nat \ {0}, NEW x \in Nat
  PROVE  x \div b \in Nat /\ x % b \in Nat /\ x % b < b /\ x = (x \div b) * b + (x % b)
OBVIOUS

\* A number with a remainder below b is divided in one way only.
LEMMA DivUnique ==
  ASSUME NEW b \in Nat \ {0}, NEW k \in Nat, NEW m \in Nat, m < b
  PROVE  (k * b + m) \div b = k /\ (k * b + m) % b = m
OBVIOUS

\* The upper half decides an order.
LEMMA HighFirst ==
  ASSUME NEW b \in Nat \ {0}, NEW h \in Nat, NEW k \in Nat, h < k,
         NEW l \in Nat, NEW m \in Nat, l < b, m < b
  PROVE  h * b + l < k * b + m
<1>1. k * b >= (h + 1) * b  OBVIOUS
<1>2. QED  BY <1>1

\* sub64 on the halves of two numbers.
LEMMA SubHalves ==
  ASSUME NEW B \in Nat \ {0}, NEW ah \in 0 .. B - 1, NEW al \in 0 .. B - 1,
         NEW bh \in 0 .. B - 1, NEW bl \in 0 .. B - 1, ah * B + al >= bh * B + bl,
         NEW lo, NEW hi,
         lo = (al - bl) % B,
         hi = (ah - bh - (IF lo > al THEN 1 ELSE 0)) % B
  PROVE  /\ lo \in 0 .. B - 1 /\ hi \in 0 .. B - 1
         /\ hi * B + lo = (ah * B + al) - (bh * B + bl)
<1>1. ah >= bh
  <2>1. SUFFICES ASSUME ah < bh PROVE FALSE
    OBVIOUS
  <2>2. (bh - ah) * B >= B
    BY <2>1
  <2>3. QED
    BY <2>2
<1>2. CASE al >= bl
  <2>1. lo = al - bl
    BY <1>2
  <2>2. hi = ah - bh
    BY <1>1, <1>2, <2>1
  <2>3. QED
    BY <1>1, <1>2, <2>1, <2>2
<1>3. CASE al < bl
  <2>1. lo = al - bl + B
    BY <1>3
  <2>2. ah # bh
    BY <1>3
  <2>3. hi = ah - bh - 1
    <3>1. hi = (ah - bh - 1) % B
      BY <2>1, <1>3
    <3>2. ah - bh - 1 \in 0 .. B - 1
      BY <1>1, <2>2
    <3>3. QED
      BY <3>1, <3>2
  <2>4. QED
    BY <1>1, <1>3, <2>1, <2>2, <2>3
<1>4. QED
  BY <1>2, <1>3
\* neg64.
LEMMA NegHalves ==
  ASSUME NEW B \in Nat \ {0}, NEW ah \in 0 .. B - 1, NEW al \in 0 .. B - 1,
         NEW lo, NEW hi,
         lo = (B - al) % B,
         hi = (B - 1 - ah + (IF lo = 0 THEN 1 ELSE 0)) % B
  PROVE  /\ lo \in 0 .. B - 1 /\ hi \in 0 .. B - 1
         /\ hi * B + lo = IF ah * B + al = 0 THEN 0 ELSE B * B - (ah * B + al)
<1>1. CASE al # 0
  <2>1. lo = B - al
    BY <1>1
  <2>2. hi = B - 1 - ah
    BY <1>1, <2>1
  <2>3. ah * B + al # 0
    BY <1>1
  <2>4. hi * B + lo = B * B - (ah * B + al)
    BY <2>1, <2>2
  <2>5. QED
    BY <1>1, <2>1, <2>2, <2>3, <2>4
<1>2. CASE al = 0 /\ ah # 0
  <2>1. lo = 0
    BY <1>2
  <2>2. hi = B - ah
    <3>1. hi = (B - ah) % B
      BY <1>2, <2>1
    <3>2. QED
      BY <1>2, <3>1
  <2>3. ah * B + al # 0
    BY <1>2
  <2>4. hi * B + lo = B * B - (ah * B + al)
    BY <1>2, <2>1, <2>2
  <2>5. QED
    BY <1>2, <2>1, <2>2, <2>3, <2>4
<1>3. CASE al = 0 /\ ah = 0
  <2>1. lo = 0
    BY <1>3
  <2>2. hi = 0
    <3>1. hi = B % B
      BY <1>3, <2>1
    <3>2. QED
      BY <3>1
  <2>3. QED
    BY <1>3, <2>1, <2>2
<1>4. QED
  BY <1>1, <1>2, <1>3
\* Number x is t, bit b of weight w, and s below that bit.
Bits(x, t, b, s, w) == x = t * (2 * w) + b * w + s /\ s < w

\* The weight is a multiple of a half's, or divides it.
Above(w, B, h) == w = B * h
Below(w, B, c) == B = c * (2 * w)

\* getbit64 in the upper half: b is the bit behind the t taken already.
LEMMA BitHigh ==
  ASSUME NEW B \in Nat \ {0}, NEW h \in Nat \ {0}, NEW t \in Nat, NEW b \in 0 .. 1,
         NEW s \in Nat, NEW x \in Nat, NEW w \in Nat,
         Bits(x, t, b, s, w), Above(w, B, h)
  PROVE  ((x \div B) \div h) % 2 = b
<1>0. s < B * h /\ x = t * (2 * (B * h)) + b * (B * h) + s
  BY DEF Bits, Above
<1> DEFINE u == s \div B
           v == s % B
<1>1. u \in Nat /\ v \in Nat /\ v < B /\ s = u * B + v
  OBVIOUS
<1> HIDE DEF u, v
<1>2. u < h
  <2>1. SUFFICES ASSUME u >= h PROVE FALSE
    BY <1>1
  <2>2. u * B >= h * B
    BY <1>1, <2>1
  <2>3. QED
    BY <1>0, <1>1, <2>2
<1>3. x = ((2 * t + b) * h + u) * B + v
  <2>1. t * (2 * (B * h)) = (2 * t) * h * B /\ b * (B * h) = b * h * B
    OBVIOUS
  <2>2. ((2 * t + b) * h + u) * B = (2 * t) * h * B + b * h * B + u * B
    BY <1>1
  <2>3. QED
    BY <1>0, <1>1, <2>1, <2>2
<1>4. PICK k \in Nat : k = 2 * t + b
  OBVIOUS
<1>5. PICK n \in Nat : n = k * h + u
  BY <1>1, <1>4
<1>6. x \div B = n
  BY <1>1, <1>3, <1>4, <1>5, DivUnique
<1>7. n \div h = k
  BY <1>1, <1>2, <1>5, DivUnique
<1>8. k % 2 = b
  BY <1>4
<1>9. QED
  BY <1>6, <1>7, <1>8

\* And in the lower half.
LEMMA BitLow ==
  ASSUME NEW B \in Nat \ {0}, NEW p \in Nat \ {0}, NEW c \in Nat,
         NEW t \in Nat, NEW b \in 0 .. 1, NEW s \in Nat, NEW x \in Nat,
         Bits(x, t, b, s, p), Below(p, B, c)
  PROVE  ((x % B) \div p) % 2 = b
<1>0. s < p /\ x = t * (2 * p) + b * p + s /\ B = c * (2 * p)
  BY DEF Bits, Below
<1> DEFINE y == x \div B
           l == x % B
<1>1. y \in Nat /\ l \in Nat /\ x = y * B + l
  BY DivMod
<1> HIDE DEF y, l
<1>2. PICK d \in Int : d = t - y * c
  BY <1>1
<1>3. l = d * (2 * p) + b * p + s
  <2>1. y * B = y * c * (2 * p)
    BY <1>0, <1>1
  <2>2. d * (2 * p) = t * (2 * p) - y * c * (2 * p)
    BY <1>1, <1>2
  <2>3. QED
    BY <1>0, <1>1, <2>1, <2>2
<1>4. d >= 0
  <2>1. SUFFICES ASSUME d <= -1 PROVE FALSE
    BY <1>2
  <2>2. d * (2 * p) <= -1 * (2 * p)
    BY <1>2, <2>1
  <2>3. b * p + s < 2 * p
    BY <1>0
  <2>4. QED
    BY <1>1, <1>3, <2>2, <2>3
<1>5. PICK k \in Nat : k = 2 * d + b
  BY <1>2, <1>4
<1>6. l = k * p + s
  BY <1>2, <1>3, <1>5
<1>7. l \div p = k
  BY <1>0, <1>1, <1>6, DivUnique
<1>8. k % 2 = b
  BY <1>2, <1>4, <1>5
<1>9. QED
  BY <1>7, <1>8 DEF l
-----------------------------------------------------------------------------
\* The powers of two that the operations use.
LEMMA Powers ==
  /\ HALF \in Nat \ {0}
  /\ BITS \in Nat
  /\ 2^HALF \in Nat \ {0}
  /\ 2^BITS = 2^HALF * 2^HALF
  /\ 2^BITS \in Nat \ {0}
  /\ 2^(HALF - 1) \in Nat \ {0}
  /\ 2^HALF = 2 * 2^(HALF - 1)
  /\ 2^(BITS - 1) \in Nat \ {0}
  /\ 2^BITS = 2 * 2^(BITS - 1)
<1>1. HALF \in Nat \ {0} /\ BITS \in Nat /\ HALF - 1 \in 0 .. BITS - 1 /\ BITS - 1 \in 0 .. BITS - 1
  BY LongLongAssumption DEF BITS
<1>2. HALF - 1 + 1 = HALF /\ BITS - 1 + 1 = BITS
  BY <1>1
<1>3. 2^HALF = 2 * 2^(HALF - 1) /\ 2^BITS = 2 * 2^(BITS - 1)
  BY <1>1, <1>2, LongLongAssumption
<1>4. HALF \in 0 .. BITS /\ BITS \in 0 .. BITS /\ HALF - 1 \in 0 .. BITS /\ BITS - 1 \in 0 .. BITS
  BY <1>1 DEF BITS
<1>5. QED
  BY <1>1, <1>3, <1>4, LongLongAssumption

\* Two halves are a word.
LEMMA ValueType ==
  ASSUME NEW a \in Pair
  PROVE  /\ a.hi \in 0 .. 2^HALF - 1
         /\ a.lo \in 0 .. 2^HALF - 1
         /\ Value(a) = a.hi * 2^HALF + a.lo
         /\ Value(a) \in Word
<1>1. a.hi \in 0 .. 2^HALF - 1 /\ a.lo \in 0 .. 2^HALF - 1
  BY DEF Pair, HalfWord
<1> DEFINE B == 2^HALF
<1>2. B \in Nat \ {0} /\ 2^BITS = B * B /\ a.hi \in 0 .. B - 1 /\ a.lo \in 0 .. B - 1
  BY <1>1, Powers
<1>3. Value(a) = a.hi * B + a.lo
  BY DEF Value
<1> HIDE DEF B
<1>4. a.hi * B + a.lo \in Nat
  BY <1>2
<1>5. a.hi * B <= (B - 1) * B
  BY <1>2
<1>6. a.hi * B + a.lo < B * B
  BY <1>2, <1>5
<1>7. Value(a) \in 0 .. 2^BITS - 1
  BY <1>2, <1>3, <1>4, <1>6
<1>8. QED
  BY <1>1, <1>7, <1>3 DEF Word, B

\* Taking a word apart and putting it together is taking it as it was.
LEMMA SplitValue ==
  ASSUME NEW x \in Word
  PROVE  Split(x) \in Pair /\ Value(Split(x)) = x
<1> DEFINE B == 2^HALF
<1>1. B \in Nat \ {0} /\ 2^BITS = B * B /\ x \in Nat /\ x < 2^BITS
  BY Powers DEF Word
<1>2. Split(x) = [hi |-> x \div B, lo |-> x % B]
  BY DEF Split, HI32, LO32
<1>3. HalfWord = 0 .. B - 1 /\ \A p : Value(p) = p.hi * B + p.lo
  BY DEF HalfWord, Value
<1> HIDE DEF B
<1>4. x = B * (x \div B) + (x % B) /\ x % B \in 0 .. B - 1 /\ x \div B \in Nat
  BY <1>1, DivMod
<1>5. x \div B < B
  <2>1. SUFFICES ASSUME x \div B >= B PROVE FALSE
    BY <1>1, <1>4
  <2>2. B * (x \div B) >= B * B
    BY <2>1, <1>1, <1>4
  <2>3. QED
    BY <2>2, <1>1, <1>4
<1>6. QED
  BY <1>1, <1>2, <1>3, <1>4, <1>5 DEF Pair

\* sub64 subtracts, whether the lower half borrows or not.
LEMMA Sub64 ==
  ASSUME NEW a \in Pair, NEW b \in Pair, Value(a) >= Value(b)
  PROVE  sub64(a, b) \in Pair /\ Value(sub64(a, b)) = Value(a) - Value(b)
<1>1. PICK B \in Nat \ {0} : B = 2^HALF
  BY Powers
<1>2. PICK ah \in 0 .. B - 1, al \in 0 .. B - 1 : a = [hi |-> ah, lo |-> al]
  BY <1>1 DEF Pair, HalfWord
<1>3. PICK bh \in 0 .. B - 1, bl \in 0 .. B - 1 : b = [hi |-> bh, lo |-> bl]
  BY <1>1 DEF Pair, HalfWord
<1>4. PICK lo, hi : /\ lo = (al - bl) % B
                    /\ hi = (ah - bh - (IF lo > al THEN 1 ELSE 0)) % B
  OBVIOUS
<1>5. sub64(a, b) = [hi |-> hi, lo |-> lo]
  BY <1>1, <1>2, <1>3, <1>4 DEF sub64, Borrow
<1>6. Value(a) = ah * B + al /\ Value(b) = bh * B + bl
  BY <1>1, <1>2, <1>3 DEF Value
<1>7. ah * B + al >= bh * B + bl
  BY <1>6
<1>8. /\ lo \in 0 .. B - 1 /\ hi \in 0 .. B - 1
      /\ hi * B + lo = (ah * B + al) - (bh * B + bl)
  BY <1>4, <1>7, SubHalves
<1>9. QED
  BY <1>1, <1>5, <1>6, <1>8 DEF Value, Pair, HalfWord

\* ge64 compares the words, not only the halves.
LEMMA Ge64 ==
  ASSUME NEW a \in Pair, NEW b \in Pair
  PROVE  ge64(a, b) <=> Value(a) >= Value(b)
<1>1. PICK B \in Nat \ {0} : B = 2^HALF
  BY Powers
<1>2. PICK ah \in 0 .. B - 1, al \in 0 .. B - 1 : a = [hi |-> ah, lo |-> al]
  BY <1>1 DEF Pair, HalfWord
<1>3. PICK bh \in 0 .. B - 1, bl \in 0 .. B - 1 : b = [hi |-> bh, lo |-> bl]
  BY <1>1 DEF Pair, HalfWord
<1>4. Value(a) = ah * B + al /\ Value(b) = bh * B + bl
  BY <1>1, <1>2, <1>3 DEF Value
<1>5. ge64(a, b) <=> IF ah # bh THEN ah > bh ELSE al >= bl
  BY <1>2, <1>3 DEF ge64
<1>6. ah < bh => ah * B + al < bh * B + bl
  BY HighFirst
<1>7. bh < ah => bh * B + bl < ah * B + al
  BY HighFirst
<1>8. ah = bh => (ah * B + al >= bh * B + bl <=> al >= bl)
  OBVIOUS
<1>9. CASE ah = bh
  BY <1>4, <1>5, <1>8, <1>9
<1>10. CASE ah < bh
  BY <1>4, <1>5, <1>6, <1>10
<1>11. CASE bh < ah
  BY <1>4, <1>5, <1>7, <1>11
<1>12. QED
  BY <1>9, <1>10, <1>11

\* shl1_64 doubles a word that is less than half of them, and leaves room for a bit.
LEMMA Shl1_64 ==
  ASSUME NEW a \in Pair, 2 * Value(a) < 2^BITS, NEW bit \in 0 .. 1, NEW s,
         s = [hi |-> shl1_64(a).hi, lo |-> shl1_64(a).lo + bit]
  PROVE  s \in Pair /\ Value(s) = 2 * Value(a) + bit
<1>1. PICK H \in Nat \ {0}, B \in Nat \ {0} : B = 2^HALF /\ H = 2^(HALF - 1) /\ B = 2 * H
  BY Powers
<1>2. PICK ah \in 0 .. B - 1, al \in 0 .. B - 1 : a = [hi |-> ah, lo |-> al]
  BY <1>1 DEF Pair, HalfWord
<1>3. PICK lo, hi : /\ lo = (2 * al) % B
                    /\ hi = ((2 * ah) % B) + (al \div H)
  OBVIOUS
<1>4. s = [hi |-> hi, lo |-> lo + bit]
  BY <1>1, <1>2, <1>3 DEF shl1_64
<1>5. Value(a) = ah * B + al
  BY <1>1, <1>2 DEF Value
<1>6. 2 * (ah * B + al) < B * B
  BY <1>1, <1>5, Powers
<1>a. B = 2 * H
  BY <1>1
<1>b. 2 * ah < B
  <2>1. SUFFICES ASSUME 2 * ah >= B PROVE FALSE
    OBVIOUS
  <2>2. 2 * ah * B >= B * B
    BY <2>1
  <2>3. QED
    BY <1>6, <2>2
<1>c. (2 * ah) % B = 2 * ah
  BY <1>b
<1>7. /\ lo + bit \in 0 .. B - 1 /\ hi \in 0 .. B - 1
      /\ hi * B + (lo + bit) = 2 * (ah * B + al) + bit
  <2>1. CASE al < H
    <3>1. al \div H = 0
      BY <2>1
    <3>2. PICK e \in 0 .. B - 1 : e = 2 * al
      BY <1>a, <2>1
    <3>3. e % B = e
      OBVIOUS
    <3>4. QED
      BY <1>3, <1>a, <1>b, <1>c, <2>1, <3>1, <3>2, <3>3
  <2>2. CASE al >= H
    <3>1. al \div H = 1
      BY <1>a, <2>2
    <3>2. (2 * al) % B = 2 * al - B
      BY <1>a, <2>2
    <3>3. QED
      BY <1>3, <1>a, <1>b, <1>c, <2>2, <3>1, <3>2
  <2>3. QED
    BY <2>1, <2>2
<1>8. QED
  BY <1>1, <1>4, <1>5, <1>7 DEF Value, Pair, HalfWord

\* neg64 is the complement, also of the least number.
LEMMA Neg64 ==
  ASSUME NEW a \in Pair
  PROVE  /\ neg64(a) \in Pair
         /\ Value(neg64(a)) = IF Value(a) = 0 THEN 0 ELSE 2^BITS - Value(a)
<1>1. PICK B \in Nat \ {0} : B = 2^HALF
  BY Powers
<1>2. PICK ah \in 0 .. B - 1, al \in 0 .. B - 1 : a = [hi |-> ah, lo |-> al]
  BY <1>1 DEF Pair, HalfWord
<1>3. PICK lo, hi : /\ lo = (B - al) % B
                    /\ hi = (B - 1 - ah + (IF lo = 0 THEN 1 ELSE 0)) % B
  OBVIOUS
<1>4. neg64(a) = [hi |-> hi, lo |-> lo]
  BY <1>1, <1>2, <1>3 DEF neg64
<1>5. Value(a) = ah * B + al /\ 2^BITS = B * B
  BY <1>1, <1>2, Powers DEF Value
<1>6. /\ lo \in 0 .. B - 1 /\ hi \in 0 .. B - 1
      /\ hi * B + lo = IF ah * B + al = 0 THEN 0 ELSE B * B - (ah * B + al)
  BY <1>3, NegHalves
<1>7. QED
  BY <1>1, <1>4, <1>5, <1>6 DEF Value, Pair, HalfWord

\* The arguments of udiv64 are words, and those of the call but for the sign.
LEMMA MagnitudeWord ==
  ASSUME NEW x \in Word
  PROVE  Magnitude(x) \in Word /\ Magnitude(x) = IF Negative(x) THEN 2^BITS - x ELSE x
<1>1. CASE ~ Negative(x)
  BY <1>1 DEF Magnitude
<1>2. CASE Negative(x)
  <2>1. x \in Nat /\ x > 0 /\ x < 2^BITS /\ 2^BITS \in Nat
    BY <1>2, Powers DEF Negative, Word
  <2>2. Value(neg64(Split(x))) = 2^BITS - x
    BY <2>1, SplitValue, Neg64
  <2>3. QED
    BY <1>2, <2>1, <2>2 DEF Magnitude, Word
<1>3. QED
  BY <1>1, <1>2
-----------------------------------------------------------------------------
\* The turns of the loop done, and the weight of the last bit taken.
Turns == IF i > BITS THEN BITS ELSE i
Weight == 2^(BITS - Turns)

\* The weight of that bit in its half.
Scale == /\ Turns <= HALF => 2^HALF * 2^(HALF - Turns) = Weight
         /\ Turns >= HALF => \E c \in Nat : 2^HALF = c * Weight

\* There is room in q for the bits to come.
Room == /\ Turns <= HALF => q.lo = 0 /\ q.hi + 2^(HALF - Turns) <= 2^HALF
        /\ Turns >= HALF => q.lo + Weight <= 2^HALF

\* t is k times d and rem; in a division by zero, all the bits of k are set.
Quotient(d, t, k, w, top, rem) == IF d = 0 THEN k * w + w = top /\ rem = t
                                  ELSE t = k * d + rem /\ rem < d

\* t is the number that the bits taken are, k the quotient so far.
Partial == \E t, k, s \in Nat : /\ num = t * Weight + s
                               /\ s < Weight
                               /\ Value(q) = k * Weight
                               /\ Quotient(den, t, k, Weight, 2^BITS, Value(r))

Returned == i > BITS =>
              ret = [q |-> Sign(Negative(call.num) # Negative(call.den), Value(q)),
                     r |-> Sign(Negative(call.num), Value(r))]

DivideInv == DivideTypeOK /\ Scale /\ Room /\ Partial /\ Returned

\* udiv64 is called with words, and with 0 only if the caller divides by 0.
LEMMA WordsOfCall ==
  ASSUME DivideTypeOK
  PROVE  num \in Word /\ den \in Word /\ (den = 0 <=> call.den = 0)
<1>1. call.num \in Word /\ call.den \in Word
  BY DEF DivideTypeOK
<1>2. num \in Word /\ den \in Word /\ den = IF Negative(call.den) THEN 2^BITS - call.den ELSE call.den
  BY <1>1, MagnitudeWord DEF num, den
<1>3. QED
  BY <1>1, <1>2, Powers DEF Word, Negative

\* A sign put back leaves a word.
LEMMA SignWord ==
  ASSUME NEW x \in Word, NEW negate \in BOOLEAN
  PROVE  Sign(negate, x) \in Word /\ Sign(negate, x) = IF negate /\ x # 0 THEN 2^BITS - x ELSE x
<1>1. PICK N \in Nat \ {0} : N = 2^BITS
  BY Powers
<1>2. x \in 0 .. N - 1
  BY <1>1 DEF Word
<1>3. (N - x) % N = IF x = 0 THEN 0 ELSE N - x
  <2>1. N % N = 0
    BY <1>1
  <2>2. x # 0 => (N - x) % N = N - x
    BY <1>2
  <2>3. QED
    BY <1>2, <2>1, <2>2
<1>4. CASE negate
  <2>1. Sign(negate, x) = (N - x) % N
    BY <1>1, <1>4 DEF Sign
  <2>2. Word = 0 .. N - 1
    BY <1>1 DEF Word
  <2>3. Sign(negate, x) = IF x = 0 THEN 0 ELSE N - x
    BY <1>3, <2>1
  <2>4. Sign(negate, x) \in Word
    BY <1>2, <2>2, <2>3
  <2>5. Sign(negate, x) = IF x # 0 THEN 2^BITS - x ELSE x
    BY <1>1, <2>3
  <2>6. QED
    BY <1>4, <2>4, <2>5, Zenon
<1>5. CASE ~ negate
  BY <1>5 DEF Sign
<1>6. QED
  BY <1>4, <1>5

\* Before the first turn no bit is taken, and the quotient is 0.
LEMMA InitDivideInv == DivideInit => DivideInv
<1> SUFFICES ASSUME DivideInit PROVE DivideInv
  OBVIOUS
<1>1. Split(0) \in Pair /\ Value(Split(0)) = 0 /\ 0 \in Word
  <2>1. 0 \in Word
    BY Powers DEF Word
  <2>2. QED
    BY <2>1, SplitValue
<1>2. DivideTypeOK
  <2>1. call \in [signed : BOOLEAN, num : Word, den : Word]
    BY LongLongAssumption DEF DivideInit
  <2>2. ret \in [q : Word, r : Word]
    BY <1>1 DEF DivideInit, NONE
  <2>3. QED
    BY <1>1, <2>1, <2>2, Powers DEF DivideInit, DivideTypeOK
<1>3. Turns = 0 /\ Weight = 2^BITS /\ i = 0 /\ ~ (i > BITS) /\ ~ (Turns >= HALF)
  BY Powers DEF DivideInit, Turns, Weight
<1>4. q.lo = 0 /\ q.hi = 0
  <2>1. PICK B \in Nat \ {0} : B = 2^HALF
    BY Powers
  <2>2. 0 \div B = 0 /\ 0 % B = 0
    OBVIOUS
  <2>3. QED
    BY <2>1, <2>2 DEF DivideInit, Split, HI32, LO32
<1>5. HALF - Turns = HALF
  BY <1>3, Powers
<1>6. Scale
  BY <1>3, <1>5, Powers DEF Scale
<1>7. Room
  BY <1>3, <1>4, <1>5, Powers DEF Room
<1>8. Partial
  <2>1. num \in Word /\ den \in Word
    BY <1>2, WordsOfCall
  <2>2. num \in Nat /\ den \in Nat /\ num < Weight /\ Weight \in Nat
    BY <1>3, <2>1, Powers DEF Word
  <2>3. Value(q) = 0 /\ Value(r) = 0
    BY <1>1 DEF DivideInit
  <2>4. num = 0 * Weight + num /\ 0 = 0 * Weight /\ 0 = 0 * den + 0
    BY <2>2
  <2>5. Quotient(den, 0, 0, Weight, 2^BITS, Value(r))
    BY <1>3, <2>2, <2>3, <2>4 DEF Quotient
  <2>6. QED
    BY <2>2, <2>3, <2>4, <2>5 DEF Partial
<1>9. Returned
  BY <1>3 DEF Returned
<1>10. QED
  BY <1>2, <1>6, <1>7, <1>8, <1>9 DEF DivideInv

\* A turn of the loop begins: bit b of n is the next one.
Loop(n, d, t, k, s, b, p, top, rem) == /\ Bits(n, t, b, s, p)
                                       /\ Quotient(d, t, k, 2 * p, top, rem)
                                       /\ n < top

\* One turn of the loop, as far as it is arithmetic: the weight goes from 2 * p to p.
LEMMA TurnOfLoop ==
  ASSUME NEW p \in Nat \ {0}, NEW t \in Nat, NEW k \in Nat, NEW s \in Nat, NEW b \in 0 .. 1,
         NEW n \in Nat, NEW d \in Nat, NEW rem \in Nat, NEW top \in Nat,
         Loop(n, d, t, k, s, b, p, top, rem)
  PROVE  /\ 2 * rem < top
         /\ n = (2 * t + b) * p + s
         /\ 2 * rem + b >= d =>
              Quotient(d, 2 * t + b, 2 * k + 1, p, top, 2 * rem + b - d)
         /\ 2 * rem + b < d => Quotient(d, 2 * t + b, 2 * k, p, top, 2 * rem + b)
<1>0. /\ s < p
      /\ n = t * (2 * p) + b * p + s
      /\ IF d = 0 THEN k * (2 * p) + 2 * p = top /\ rem = t ELSE t = k * d + rem /\ rem < d
      /\ n < top
  BY DEF Loop, Bits, Quotient
<1>1. rem <= t
  <2>1. k * d >= 0
    OBVIOUS
  <2>2. QED
    BY <1>0, <2>1
<1>2. 2 * t <= t * (2 * p)
  <2>1. t * p >= t
    OBVIOUS
  <2>2. QED
    BY <2>1
<1>3. b * p >= 0
  OBVIOUS
<1>4. 2 * rem < top
  BY <1>0, <1>1, <1>2, <1>3
<1>5. n = (2 * t + b) * p + s
  BY <1>0
<1>6. ASSUME 2 * rem + b >= d
      PROVE  Quotient(d, 2 * t + b, 2 * k + 1, p, top, 2 * rem + b - d)
  <2>2. CASE d = 0
    BY <1>0, <2>2 DEF Quotient
  <2>3. CASE d # 0
    <3>1. (2 * k + 1) * d = 2 * (k * d) + d
      OBVIOUS
    <3>2. QED
      BY <1>0, <2>3, <3>1 DEF Quotient
  <2>4. QED
    BY <2>2, <2>3
<1>7. ASSUME 2 * rem + b < d
      PROVE  Quotient(d, 2 * t + b, 2 * k, p, top, 2 * rem + b)
  <2>1. d # 0
    BY <1>7
  <2>2. (2 * k) * d = 2 * (k * d)
    OBVIOUS
  <2>3. QED
    BY <1>0, <1>7, <2>1, <2>2 DEF Quotient
<1>8. QED
  BY <1>4, <1>5, <1>6, <1>7

\* The weights before and after a turn, in the word and in the half.
LEMMA WeightTurn ==
  ASSUME DivideInv, i < BITS
  PROVE  /\ Turns = i /\ i \in 0 .. BITS - 1
         /\ 2^(BITS - 1 - i) \in Nat \ {0}
         /\ Weight = 2 * 2^(BITS - 1 - i)
         /\ i < HALF => /\ 2^(HALF - 1 - i) \in Nat \ {0}
                        /\ 2^(HALF - i) = 2 * 2^(HALF - 1 - i)
                        /\ 2^HALF * 2^(HALF - 1 - i) = 2^(BITS - 1 - i)
<1>1. i \in 0 .. BITS - 1 /\ Turns = i
  BY Powers DEF DivideInv, DivideTypeOK, Turns
<1>2. BITS - 1 - i \in 0 .. BITS - 1 /\ BITS - 1 - i + 1 = BITS - i
  BY <1>1, Powers
<1>3. 2^(BITS - 1 - i) \in Nat \ {0} /\ 2^(BITS - i) = 2 * 2^(BITS - 1 - i)
  BY <1>2, LongLongAssumption, Powers
<1>4. ASSUME i < HALF
      PROVE  /\ 2^(HALF - 1 - i) \in Nat \ {0}
             /\ 2^(HALF - i) = 2 * 2^(HALF - 1 - i)
             /\ 2^HALF * 2^(HALF - 1 - i) = 2^(BITS - 1 - i)
  <2>1. HALF - 1 - i \in 0 .. BITS - 1 /\ HALF - 1 - i + 1 = HALF - i /\ HALF - 1 - i \in 0 .. BITS
    BY <1>1, <1>4, Powers DEF BITS
  <2>2. 2^(HALF - 1 - i) \in Nat \ {0} /\ 2^(HALF - i) = 2 * 2^(HALF - 1 - i)
    BY <2>1, LongLongAssumption
  <2>3. 2^HALF * 2^(HALF - i) = 2^(BITS - i)
    BY <1>1, <1>4, Powers DEF DivideInv, Scale, Weight
  <2>4. PICK B \in Nat, h \in Nat, p \in Nat : B = 2^HALF /\ h = 2^(HALF - 1 - i) /\ p = 2^(BITS - 1 - i)
    BY <1>3, <2>2, Powers
  <2>5. B * (2 * h) = 2 * p
    BY <1>3, <2>2, <2>3, <2>4
  <2>6. B * h = p
    BY <2>5
  <2>7. QED
    BY <2>2, <2>4, <2>6
<1>5. QED
  BY <1>1, <1>3, <1>4 DEF Weight

\* getbit64 reads the bit that follows the ones taken, in either half.
LEMMA GetBit ==
  ASSUME DivideInv, i < BITS, NEW t \in Nat, NEW b \in 0 .. 1, NEW s \in Nat, s < 2^(BITS - 1 - i),
         num = t * (2 * 2^(BITS - 1 - i)) + b * 2^(BITS - 1 - i) + s
  PROVE  getbit64(num, i) = b
<1>1. PICK p \in Nat \ {0}, B \in Nat \ {0}, x \in Nat :
        /\ p = 2^(BITS - 1 - i) /\ B = 2^HALF /\ x = num
        /\ s < p
        /\ x = t * (2 * p) + b * p + s
  BY WeightTurn, WordsOfCall, Powers DEF DivideInv, Word
<1>2. CASE i < HALF
  <2>1. PICK h \in Nat \ {0} : h = 2^(HALF - 1 - i) /\ B * h = p
    BY <1>1, <1>2, WeightTurn
  <2>2. Bits(x, t, b, s, p) /\ Above(p, B, h)
    BY <1>1, <2>1 DEF Bits, Above
  <2>3. ((x \div B) \div h) % 2 = b
    BY <2>2, BitHigh
  <2>4. QED
    BY <1>1, <1>2, <2>1, <2>3 DEF getbit64, HI32
<1>3. CASE i >= HALF
  <2>1. PICK c \in Nat : 2^HALF = c * Weight
    BY <1>3, WeightTurn DEF DivideInv, Scale
  <2>2. Below(p, B, c)
    BY <1>1, <2>1, WeightTurn DEF Below
  <2>3. Bits(x, t, b, s, p)
    BY <1>1 DEF Bits
  <2>4. ((x % B) \div p) % 2 = b
    BY <2>2, <2>3, BitLow
  <2>5. QED
    BY <1>1, <1>3, <2>4, Powers, WeightTurn DEF getbit64, LO32
<1>4. QED
  BY <1>2, <1>3, Powers, WeightTurn

\* Setting the bit adds its weight.
LEMMA SetBit ==
  ASSUME DivideInv, i < BITS
  PROVE  WithBit \in Pair /\ Value(WithBit) = Value(q) + 2^(BITS - 1 - i)
<1>1. PICK B \in Nat \ {0}, p \in Nat \ {0} : B = 2^HALF /\ p = 2^(BITS - 1 - i)
  BY Powers, WeightTurn
<1>2. PICK qh \in 0 .. B - 1, ql \in 0 .. B - 1 : q = [hi |-> qh, lo |-> ql]
  BY <1>1 DEF DivideInv, DivideTypeOK, Pair, HalfWord
<1>3. Value(q) = qh * B + ql
  BY <1>1, <1>2 DEF Value
<1>4. CASE i < HALF
  <2>1. PICK h \in Nat \ {0} : h = 2^(HALF - 1 - i) /\ B * h = p /\ 2^(HALF - i) = 2 * h
    BY <1>1, <1>4, WeightTurn
  <2>2. qh + 2 * h <= B
    BY <1>1, <1>2, <1>4, <2>1, WeightTurn, Powers DEF DivideInv, Room
  <2>3. WithBit = [hi |-> qh + h, lo |-> ql]
    BY <1>2, <1>4, <2>1 DEF WithBit
  <2>4. qh + h \in 0 .. B - 1
    BY <2>2
  <2>5. (qh + h) * B + ql = qh * B + ql + p
    <3>1. B * h = p
      BY <2>1
    <3>2. QED
      BY <3>1
  <2>6. QED
    BY <1>1, <1>3, <2>3, <2>4, <2>5 DEF Value, Pair, HalfWord
<1>5. CASE i >= HALF
  <2>1. ql + 2 * p <= B
    BY <1>1, <1>2, <1>5, WeightTurn, Powers DEF DivideInv, Room
  <2>2. WithBit = [hi |-> qh, lo |-> ql + p]
    BY <1>1, <1>2, <1>5, WeightTurn, Powers DEF WithBit
  <2>3. ql + p \in 0 .. B - 1
    BY <2>1
  <2>4. QED
    BY <1>1, <1>3, <2>2, <2>3 DEF Value, Pair, HalfWord
<1>6. QED
  BY <1>4, <1>5, WeightTurn, Powers

\* A turn halves the weight, and the bits of q below it are still clear.
LEMMA UdivKeepsScale ==
  ASSUME DivideInv, udiv64
  PROVE  /\ Turns' = i + 1
         /\ Weight' = 2^(BITS - 1 - i)
         /\ Scale'
         /\ Room'
<1>1. i < BITS /\ i' = i + 1 /\ i \in 0 .. BITS - 1 /\ (q' = q \/ q' = WithBit)
  BY WeightTurn DEF udiv64
<1>2. BITS \in Nat /\ HALF \in Nat \ {0}
  BY Powers
<1>3. Turns' = i + 1
  BY <1>1, <1>2 DEF Turns
<1>4. BITS - (i + 1) = BITS - 1 - i /\ HALF - (i + 1) = HALF - 1 - i
  BY <1>1, <1>2
<1>5. Weight' = 2^(BITS - 1 - i)
  BY <1>3, <1>4 DEF Weight
<1>6. PICK B \in Nat \ {0}, p \in Nat \ {0} : B = 2^HALF /\ p = 2^(BITS - 1 - i)
  BY <1>1, Powers, WeightTurn
<1>7. i + 1 = HALF => B = p
  <2>1. SUFFICES ASSUME i + 1 = HALF PROVE B = p
    OBVIOUS
  <2>2. i < HALF /\ HALF - 1 - i = 0
    BY <1>1, <1>2, <2>1
  <2>3. B * 2^(HALF - 1 - i) = p
    BY <1>1, <1>6, <2>2, WeightTurn
  <2>4. 2^(HALF - 1 - i) = 1
    BY <2>2, LongLongAssumption
  <2>5. QED
    BY <2>3, <2>4
<1>8. Scale'
  <2>1. i + 1 <= HALF => 2^HALF * 2^(HALF - (i + 1)) = p
    BY <1>1, <1>2, <1>4, <1>6, WeightTurn
  <2>2. ASSUME i + 1 >= HALF PROVE \E c \in Nat : 2^HALF = c * p
    <3>1. CASE i + 1 = HALF
      <4>1. 2^HALF = 1 * p
        BY <1>6, <1>7, <3>1
      <4>2. QED
        BY <4>1
    <3>2. CASE i >= HALF
      <4>1. PICK c \in Nat : 2^HALF = c * (2 * p)
        BY <1>1, <1>6, <3>2, WeightTurn DEF DivideInv, Scale
      <4>2. PICK e \in Nat : e = 2 * c
        OBVIOUS
      <4>3. 2^HALF = e * p
        BY <1>6, <4>1, <4>2
      <4>4. QED
        BY <4>3
    <3>3. QED
      BY <1>1, <1>2, <2>2, <3>1, <3>2
  <2>3. QED
    BY <1>3, <1>5, <1>6, <2>1, <2>2 DEF Scale
<1>9. Room'
  <2>1. PICK qh \in 0 .. B - 1, ql \in 0 .. B - 1 : q = [hi |-> qh, lo |-> ql]
    BY <1>6 DEF DivideInv, DivideTypeOK, Pair, HalfWord
  <2>2. ASSUME i < HALF
        PROVE  /\ q'.lo = 0
               /\ q'.hi + 2^(HALF - 1 - i) <= B
    <3>1. PICK h \in Nat \ {0} : h = 2^(HALF - 1 - i) /\ 2^(HALF - i) = 2 * h
      BY <1>1, <2>2, WeightTurn
    <3>2. qh + 2 * h <= B /\ ql = 0
      BY <1>1, <1>2, <1>6, <2>1, <2>2, <3>1, WeightTurn DEF DivideInv, Room
    <3>3. WithBit = [hi |-> qh + h, lo |-> ql]
      BY <2>1, <2>2, <3>1 DEF WithBit
    <3>4. QED
      BY <1>1, <2>1, <3>1, <3>2, <3>3
  <2>3. ASSUME i >= HALF
        PROVE  q'.lo + p <= B
    <3>1. ql + 2 * p <= B
      BY <1>1, <1>6, <2>1, <2>3, WeightTurn DEF DivideInv, Room
    <3>2. WithBit = [hi |-> qh, lo |-> ql + p]
      BY <1>1, <1>2, <1>6, <2>1, <2>3 DEF WithBit
    <3>3. QED
      BY <1>1, <2>1, <3>1, <3>2
  <2>4. i + 1 <= HALF => q'.lo = 0 /\ q'.hi + 2^(HALF - (i + 1)) <= 2^HALF
    BY <1>1, <1>2, <1>4, <1>6, <2>2
  <2>5. i + 1 >= HALF => q'.lo + p <= 2^HALF
    <3>1. CASE i + 1 = HALF
      BY <1>1, <1>2, <1>6, <1>7, <2>2, <3>1
    <3>2. CASE i >= HALF
      BY <1>6, <2>3, <3>2
    <3>3. QED
      BY <1>1, <1>2, <3>1, <3>2
  <2>6. QED
    BY <1>3, <1>5, <1>6, <2>4, <2>5 DEF Room
<1>10. QED
  BY <1>3, <1>5, <1>8, <1>9

\* A turn takes the next bit: the shifted remainder fits, and so does the difference.
LEMMA UdivKeepsPartial ==
  ASSUME DivideInv, udiv64
  PROVE  Partial' /\ q' \in Pair /\ r' \in Pair
<1>1. i < BITS /\ call' = call
  BY DEF udiv64
<1>2. num' = num /\ den' = den
  BY <1>1 DEF num, den, Magnitude, Negative
<1>3. q \in Pair /\ r \in Pair /\ num \in Word /\ den \in Word
  BY WordsOfCall DEF DivideInv, DivideTypeOK
<1>4. PICK p \in Nat \ {0}, top \in Nat \ {0}, n \in Nat, d \in Nat, rem \in Nat, quot \in Nat :
        /\ p = 2^(BITS - 1 - i) /\ top = 2^BITS /\ n = num /\ d = den
        /\ rem = Value(r) /\ quot = Value(q)
  <2>1. 2^(BITS - 1 - i) \in Nat \ {0} /\ 2^BITS \in Nat \ {0}
    BY <1>1, Powers, WeightTurn
  <2>2. num \in Nat /\ den \in Nat
    BY <1>3, Powers DEF Word
  <2>3. Value(r) \in Nat
    BY <1>3, ValueType, Powers DEF Word
  <2>4. Value(q) \in Nat
    BY <1>3, ValueType, Powers DEF Word
  <2>5. QED
    BY <2>1, <2>2, <2>3, <2>4
<1>5. PICK t \in Nat, k \in Nat, s0 \in Nat :
        /\ n = t * (2 * p) + s0
        /\ s0 < 2 * p
        /\ quot = k * (2 * p)
        /\ Quotient(d, t, k, 2 * p, top, rem)
  BY <1>1, <1>4, WeightTurn DEF DivideInv, Partial
<1>6. PICK b \in 0 .. 1, s \in Nat : s0 = b * p + s /\ s < p
  <2>1. CASE s0 < p
    <3>1. s0 = 0 * p + s0
      OBVIOUS
    <3>2. QED
      BY <2>1, <3>1
  <2>2. CASE s0 >= p
    <3>1. s0 = 1 * p + (s0 - p) /\ s0 - p \in Nat /\ s0 - p < p
      BY <1>5, <2>2
    <3>2. QED
      BY <3>1
  <2>3. QED
    BY <2>1, <2>2
<1>7. Bits(n, t, b, s, p)
  BY <1>5, <1>6 DEF Bits
<1>8. n < top
  BY <1>3, <1>4 DEF Word
<1>9. /\ 2 * rem < top
      /\ n = (2 * t + b) * p + s
      /\ 2 * rem + b >= d => Quotient(d, 2 * t + b, 2 * k + 1, p, top, 2 * rem + b - d)
      /\ 2 * rem + b < d => Quotient(d, 2 * t + b, 2 * k, p, top, 2 * rem + b)
  <2>1. Loop(n, d, t, k, s, b, p, top, rem)
    BY <1>5, <1>7, <1>8 DEF Loop
  <2>2. QED
    BY <2>1, TurnOfLoop
<1>10. getbit64(num, i) = b
  <2>1. s < 2^(BITS - 1 - i)
    BY <1>4, <1>6
  <2>2. num = t * (2 * 2^(BITS - 1 - i)) + b * 2^(BITS - 1 - i) + s
    BY <1>4, <1>7 DEF Bits
  <2>3. QED
    BY <1>1, <2>1, <2>2, GetBit
<1>11. Shifted \in Pair /\ Value(Shifted) = 2 * rem + b
  <2>1. Shifted = [hi |-> shl1_64(r).hi, lo |-> shl1_64(r).lo + b]
    BY <1>10 DEF Shifted
  <2>2. 2 * Value(r) < 2^BITS
    BY <1>4, <1>9
  <2>3. QED
    BY <1>3, <1>4, <2>1, <2>2, Shl1_64
<1>12. Split(den) \in Pair /\ Value(Split(den)) = d
  BY <1>3, <1>4, SplitValue
<1>13. ge64(Shifted, Split(den)) <=> 2 * rem + b >= d
  BY <1>11, <1>12, Ge64
<1>14. Weight' = p
  BY <1>4, UdivKeepsScale
<1>15. PICK t1 \in Nat : t1 = 2 * t + b
  OBVIOUS
<1>16. n = t1 * p + s /\ s < p
  BY <1>6, <1>9, <1>15
<1>17. CASE ge64(Shifted, Split(den))
  <2>1. q' = WithBit /\ r' = sub64(Shifted, Split(den))
    BY <1>17 DEF udiv64
  <2>2. 2 * rem + b >= d
    BY <1>13, <1>17
  <2>3. r' \in Pair /\ Value(r') = 2 * rem + b - d
    BY <1>11, <1>12, <2>1, <2>2, Sub64
  <2>4. q' \in Pair /\ Value(q') = quot + p
    BY <1>1, <1>4, <2>1, SetBit
  <2>5. PICK k1 \in Nat : k1 = 2 * k + 1
    OBVIOUS
  <2>6. quot + p = k1 * p
    BY <1>5, <2>5
  <2>7. Quotient(d, t1, k1, p, top, 2 * rem + b - d)
    BY <1>9, <1>15, <2>2, <2>5
  <2>8. QED
    BY <1>2, <1>4, <1>14, <1>16, <2>3, <2>4, <2>6, <2>7 DEF Partial, Value
<1>18. CASE ~ ge64(Shifted, Split(den))
  <2>1. q' = q /\ r' = Shifted
    BY <1>18 DEF udiv64
  <2>2. 2 * rem + b < d
    BY <1>13, <1>18
  <2>3. PICK k1 \in Nat : k1 = 2 * k
    OBVIOUS
  <2>4. quot = k1 * p
    BY <1>5, <2>3
  <2>5. Quotient(d, t1, k1, p, top, 2 * rem + b)
    BY <1>9, <1>15, <2>2, <2>3
  <2>6. Value(q') = quot /\ Value(r') = 2 * rem + b
    BY <1>4, <1>11, <2>1
  <2>7. QED
    BY <1>2, <1>3, <1>4, <1>11, <1>14, <1>16, <2>1, <2>4, <2>5, <2>6 DEF Partial, Value
<1>19. QED
  BY <1>17, <1>18

\* A turn of the loop preserves the invariant.
LEMMA UdivKeepsInv ==
  ASSUME DivideInv, udiv64
  PROVE  DivideInv'
<1>1. i < BITS /\ i' = i + 1 /\ i \in 0 .. BITS - 1 /\ call' = call /\ ret' = ret
  BY WeightTurn DEF udiv64
<1>2. i' \in 0 .. BITS + 1 /\ ~ (i' > BITS)
  BY <1>1, Powers
<1>3. DivideTypeOK'
  BY <1>1, <1>2, UdivKeepsPartial DEF DivideInv, DivideTypeOK
<1>4. Returned'
  BY <1>2 DEF Returned
<1>5. QED
  BY <1>3, <1>4, UdivKeepsPartial, UdivKeepsScale DEF DivideInv

\* After the last turn only the signs are put back.
LEMMA IdivKeepsInv ==
  ASSUME DivideInv, idiv64
  PROVE  DivideInv'
<1>1. i = BITS /\ i' = BITS + 1 /\ call' = call /\ q' = q /\ r' = r
  BY DEF idiv64
<1>2. Turns' = Turns
  BY <1>1, Powers DEF Turns
<1>3. Weight' = Weight
  BY <1>2 DEF Weight
<1>4. ret' = [q |-> Sign(Negative(call.num) # Negative(call.den), Value(q)),
              r |-> Sign(Negative(call.num), Value(r))]
  BY DEF idiv64
<1>5. ret' \in [q : Word, r : Word]
  <2>1. Value(q) \in Word /\ Value(r) \in Word
    BY ValueType DEF DivideInv, DivideTypeOK
  <2>2. Negative(call.num) \in BOOLEAN
    <3>1. call.signed \in BOOLEAN /\ call.num \in Word
      BY DEF DivideInv, DivideTypeOK
    <3>2. QED
      BY <3>1 DEF Negative
  <2>3. (Negative(call.num) # Negative(call.den)) \in BOOLEAN
    OBVIOUS
  <2>4. Sign(Negative(call.num) # Negative(call.den), Value(q)) \in Word
    BY <2>1, <2>3, SignWord
  <2>5. Sign(Negative(call.num), Value(r)) \in Word
    BY <2>1, <2>2, SignWord
  <2>6. QED
    BY <1>4, <2>4, <2>5
<1>6. DivideTypeOK'
  <2>1. i' \in 0 .. BITS + 1
    BY <1>1, Powers
  <2>2. QED
    BY <1>1, <1>5, <2>1 DEF DivideInv, DivideTypeOK
<1>7. Scale'
  BY <1>2, <1>3 DEF DivideInv, Scale
<1>8. Room'
  BY <1>1, <1>2, <1>3 DEF DivideInv, Room
<1>9. num' = num /\ den' = den
  BY <1>1 DEF num, den, Magnitude, Negative
<1>10. Partial'
  BY <1>1, <1>3, <1>9 DEF DivideInv, Partial, Value
<1>11. Returned'
  BY <1>1, <1>4 DEF Returned, Negative, Value
<1>12. QED
  BY <1>6, <1>7, <1>8, <1>10, <1>11 DEF DivideInv

\* So does a step that changes nothing.
LEMMA Stutter ==
  ASSUME DivideInv, UNCHANGED dividing
  PROVE  DivideInv'
<1>1. call' = call /\ i' = i /\ q' = q /\ r' = r /\ ret' = ret
  BY DEF dividing
<1>2. Turns' = Turns /\ Weight' = Weight
  BY <1>1 DEF Turns, Weight
<1>3. num' = num /\ den' = den
  BY <1>1 DEF num, den, Magnitude, Negative
<1>4. DivideTypeOK' /\ Scale' /\ Room' /\ Returned'
  BY <1>1, <1>2 DEF DivideInv, DivideTypeOK, Scale, Room, Returned, Negative, Value
<1>5. Partial'
  BY <1>1, <1>2, <1>3 DEF DivideInv, Partial, Value
<1>6. QED
  BY <1>4, <1>5 DEF DivideInv

\* And so every step of a call.
LEMMA NextDivideInv == DivideInv /\ [DivideNext]_dividing => DivideInv'
BY UdivKeepsInv, IdivKeepsInv, Stutter DEF DivideNext
-----------------------------------------------------------------------------
\* The absolute values of n and d divided, and the signs of the result.
Unsigned(n, d, k, rem) == d # 0 /\ Abs(n) = k * Abs(d) + rem /\ rem < Abs(d)
SignedQuotient(n, d, k) == IF (n < 0) # (d < 0) THEN - k ELSE k
SignedRemainder(n, rem) == IF n < 0 THEN - rem ELSE rem

\* With the signs put back it is a division of n by d.
LEMMA Signs ==
  ASSUME NEW n \in Int, NEW d \in Int, NEW k \in Nat, NEW rem \in Nat, Unsigned(n, d, k, rem)
  PROVE  /\ Abs(SignedRemainder(n, rem)) < Abs(d)
         /\ SignedRemainder(n, rem) # 0 => (SignedRemainder(n, rem) < 0 <=> n < 0)
         /\ n = SignedQuotient(n, d, k) * d + SignedRemainder(n, rem)
<1>0. PICK un \in Nat, ud \in Nat, quot \in Int, left \in Int :
        /\ un = Abs(n) /\ ud = Abs(d) /\ d # 0 /\ un = k * ud + rem /\ rem < ud
        /\ quot = SignedQuotient(n, d, k) /\ left = SignedRemainder(n, rem)
        /\ quot = IF (n < 0) # (d < 0) THEN - k ELSE k
        /\ left = IF n < 0 THEN - rem ELSE rem
  <2>1. Abs(n) \in Nat /\ Abs(d) \in Nat
    BY DEF Abs
  <2>2. SignedQuotient(n, d, k) \in Int /\ SignedRemainder(n, rem) \in Int
    BY DEF SignedQuotient, SignedRemainder
  <2>3. QED
    BY <2>1, <2>2 DEF Unsigned, SignedQuotient, SignedRemainder
<1>1. Abs(left) = rem
  BY <1>0 DEF Abs
<1>2. un = IF n < 0 THEN - n ELSE n
  BY <1>0 DEF Abs
<1>3. ud = IF d < 0 THEN - d ELSE d
  BY <1>0 DEF Abs
<1>4. left # 0 => (left < 0 <=> n < 0)
  <2>1. n >= 0 => left >= 0
    BY <1>0
  <2>2. n < 0 => left <= 0
    BY <1>0
  <2>3. QED
    BY <2>1, <2>2
<1>5. n = quot * d + left
  <2>1. (- k) * (- d) = k * d /\ (- k) * d = - (k * d) /\ k * (- d) = - (k * d)
    OBVIOUS
  <2>2. CASE n < 0 /\ d < 0
    BY <1>0, <1>2, <1>3, <2>1, <2>2
  <2>3. CASE n < 0 /\ d >= 0
    BY <1>0, <1>2, <1>3, <2>1, <2>3
  <2>4. CASE n >= 0 /\ d < 0
    BY <1>0, <1>2, <1>3, <2>1, <2>4
  <2>5. CASE n >= 0 /\ d >= 0
    BY <1>0, <1>2, <1>3, <2>1, <2>5
  <2>6. QED
    BY <2>2, <2>3, <2>4, <2>5
<1>6. QED
  BY <1>0, <1>1, <1>4, <1>5

\* Magnitude is the absolute value.
LEMMA MagnitudeNumber ==
  ASSUME DivideTypeOK, NEW x \in Word
  PROVE  /\ Number(x) \in Int
         /\ Negative(x) <=> Number(x) < 0
         /\ Magnitude(x) = Abs(Number(x))
         /\ Magnitude(x) \in Nat
         /\ call.signed => Magnitude(x) <= 2^(BITS - 1)
         /\ Negative(x) => call.signed
<1>1. PICK M \in Nat \ {0} : M = 2^(BITS - 1) /\ 2^BITS = 2 * M
  BY Powers
<1>2. x \in 0 .. 2 * M - 1
  BY <1>1 DEF Word
<1>3. Magnitude(x) = IF Negative(x) THEN 2 * M - x ELSE x
  BY <1>1, MagnitudeWord
<1>4. CASE Negative(x)
  <2>1. call.signed /\ x >= M
    BY <1>1, <1>4 DEF Negative
  <2>2. Number(x) = x - 2 * M /\ Magnitude(x) = 2 * M - x
    BY <1>1, <1>3, <1>4 DEF Number
  <2>3. Number(x) \in Int /\ Number(x) < 0 /\ 2 * M - x \in Nat /\ 2 * M - x <= M
    BY <1>2, <2>1, <2>2
  <2>4. Abs(Number(x)) = 2 * M - x
    BY <1>2, <2>2, <2>3 DEF Abs
  <2>5. QED
    BY <1>1, <1>4, <2>1, <2>2, <2>3, <2>4
<1>5. CASE ~ Negative(x)
  <2>1. Number(x) = x /\ Magnitude(x) = x
    BY <1>3, <1>5 DEF Number
  <2>2. call.signed => x < M
    <3>1. call.signed => ~ (x >= M)
      BY <1>1, <1>5 DEF Negative
    <3>2. QED
      BY <1>2, <3>1
  <2>3. ~ (x < 0) /\ x \in Nat /\ x \in Int /\ Abs(x) = x /\ (x < M => x <= M)
    BY <1>2 DEF Abs
  <2>4. QED
    BY <1>1, <1>5, <2>1, <2>2, <2>3
<1>6. QED
  BY <1>4, <1>5

\* A sign put back gives the number, if there is one.
LEMMA SignNumber ==
  ASSUME DivideTypeOK, NEW x \in Word, NEW negate \in BOOLEAN, negate => call.signed,
         call.signed => x < 2^(BITS - 1) \/ (negate /\ x = 2^(BITS - 1))
  PROVE  Number(Sign(negate, x)) = IF negate THEN - x ELSE x
<1>1. PICK M \in Nat \ {0} : M = 2^(BITS - 1) /\ 2^BITS = 2 * M
  BY Powers
<1>2. x \in 0 .. 2 * M - 1
  BY <1>1 DEF Word
<1>3. Sign(negate, x) = IF negate /\ x # 0 THEN 2 * M - x ELSE x
  BY <1>1, SignWord
<1>4. CASE negate /\ x # 0
  <2>1. Sign(negate, x) = 2 * M - x
    BY <1>3, <1>4
  <2>2. x <= M
    BY <1>1, <1>2, <1>4
  <2>3. 2 * M - x >= M
    BY <1>2, <2>2
  <2>4. Negative(2 * M - x)
    BY <1>1, <1>4, <2>3 DEF Negative
  <2>5. Number(2 * M - x) = 2 * M - x - 2 * M
    BY <1>1, <2>4 DEF Number
  <2>6. Number(2 * M - x) = - x
    BY <1>2, <2>5
  <2>7. negate
    BY <1>4
  <2>8. QED
    BY <2>1, <2>6, <2>7, Zenon
<1>5. CASE ~ (negate /\ x # 0)
  <2>1. Sign(negate, x) = x
    BY <1>3, <1>5
  <2>2. ~ Negative(x)
    BY <1>1, <1>2, <1>5 DEF Negative
  <2>3. Number(x) = x
    BY <2>2 DEF Number
  <2>4. QED
    BY <1>2, <1>5, <2>1, <2>3
<1>6. QED
  BY <1>4, <1>5

\* What the loop leaves when all bits of the dividend are taken.
LEMMA LoopDone ==
  ASSUME DivideInv, i = BITS + 1
  PROVE  /\ Value(q) \in Word /\ Value(r) \in Word /\ num \in Nat /\ den \in Nat
         /\ den = 0 => Value(q) = 2^BITS - 1 /\ Value(r) = num
         /\ den # 0 => num = Value(q) * den + Value(r) /\ Value(r) < den
<1>1. Value(q) \in Word /\ Value(r) \in Word
  BY ValueType DEF DivideInv, DivideTypeOK
<1>2. num \in Nat /\ den \in Nat
  BY WordsOfCall, Powers DEF DivideInv, Word
<1>3. PICK N \in Nat \ {0} : N = 2^BITS
  BY Powers
<1>4. Weight = 1
  <2>1. Turns = BITS /\ BITS - Turns = 0
    BY Powers DEF Turns
  <2>2. QED
    BY <2>1, LongLongAssumption DEF Weight
<1>5. PICK t, k, s \in Nat : /\ num = t * 1 + s
                             /\ s < 1
                             /\ Value(q) = k * 1
                             /\ Quotient(den, t, k, 1, N, Value(r))
  BY <1>3, <1>4 DEF DivideInv, Partial
<1>6. num = t /\ Value(q) = k
  BY <1>2, <1>5
<1>7. den = 0 => Value(q) = N - 1 /\ Value(r) = num
  <2>1. den = 0 => k * 1 + 1 = N /\ Value(r) = t
    BY <1>5 DEF Quotient
  <2>2. QED
    BY <1>3, <1>6, <2>1
<1>8. den # 0 => num = Value(q) * den + Value(r) /\ Value(r) < den
  BY <1>5, <1>6 DEF Quotient
<1>9. QED
  BY <1>1, <1>2, <1>3, <1>7, <1>8

\* The quotient is no larger than the dividend, and as large as a half of the words
\* only if that is the dividend and the divisor is 1.
LEMMA SmallQuotient ==
  ASSUME NEW n \in Nat, NEW d \in Nat \ {0}, NEW k \in Nat, NEW rem \in Nat, NEW M \in Nat \ {0},
         n = k * d + rem, n <= M
  PROVE  k <= M /\ (k = M => d = 1 /\ n = M)
<1>1. k * d >= k
  OBVIOUS
<1>2. k <= n
  BY <1>1
<1>3. ASSUME k = M PROVE d = 1 /\ n = M
  <2>1. k * d <= k
    BY <1>1, <1>3
  <2>2. ~ (d >= 2)
    <3>1. SUFFICES ASSUME d >= 2 PROVE FALSE
      OBVIOUS
    <3>2. k * d >= k * 2
      BY <3>1
    <3>3. QED
      BY <1>3, <2>1, <3>2
  <2>3. QED
    BY <1>2, <1>3, <2>2
<1>4. QED
  BY <1>2, <1>3

\* A call by zero returns all ones, with a sign, and the dividend.
LEMMA ByZero ==
  ASSUME DivideInv, i = BITS + 1, Number(call.den) = 0
  PROVE  ret.q = Sign(Negative(call.num), 2^BITS - 1) /\ Number(ret.r) = Number(call.num)
<1>1. call.num \in Word /\ call.den \in Word
  BY DEF DivideInv, DivideTypeOK
<1>2. /\ Negative(call.num) <=> Number(call.num) < 0
      /\ num = Abs(Number(call.num)) /\ num \in Nat /\ Number(call.num) \in Int
      /\ call.signed => num <= 2^(BITS - 1)
      /\ Negative(call.num) => call.signed
  BY <1>1, MagnitudeNumber DEF DivideInv, num
<1>3. den = 0 /\ ~ Negative(call.den)
  <2>1. den = Abs(0) /\ (Negative(call.den) <=> 0 < 0)
    BY <1>1, MagnitudeNumber DEF DivideInv, den
  <2>2. QED
    BY <2>1 DEF Abs
<1>4. Value(q) = 2^BITS - 1 /\ Value(r) = num /\ Value(r) \in Word
  BY <1>3, LoopDone
<1>5. (Negative(call.num) # Negative(call.den)) = Negative(call.num)
  <2>1. Negative(call.num) \in BOOLEAN /\ Negative(call.den) = FALSE
    <3>1. call.signed \in BOOLEAN
      BY DEF DivideInv, DivideTypeOK
    <3>2. QED
      BY <1>1, <1>3, <3>1 DEF Negative
  <2>2. QED
    BY <2>1
<1>6. ret = [q |-> Sign(Negative(call.num), 2^BITS - 1), r |-> Sign(Negative(call.num), num)]
  BY <1>4, <1>5, Powers DEF DivideInv, Returned
<1>7. Number(Sign(Negative(call.num), num)) = IF Negative(call.num) THEN - num ELSE num
  <2>1. Negative(call.num) \in BOOLEAN
    <3>1. call.signed \in BOOLEAN
      BY DEF DivideInv, DivideTypeOK
    <3>2. QED
      BY <1>1, <3>1 DEF Negative
  <2>2. call.signed => num < 2^(BITS - 1) \/ (Negative(call.num) /\ num = 2^(BITS - 1))
    <3>1. PICK M \in Nat \ {0} : M = 2^(BITS - 1) /\ 2^BITS = 2 * M
      BY Powers
    <3>2. CASE Negative(call.num)
      BY <1>2, <3>1, <3>2
    <3>3. CASE ~ Negative(call.num)
      <4>1. call.signed => call.num < M
        BY <1>1, <3>1, <3>3 DEF Negative, Word
      <4>2. num = call.num
        BY <3>3 DEF num, Magnitude
      <4>3. QED
        BY <3>1, <4>1, <4>2
    <3>4. QED
      BY <3>2, <3>3
  <2>3. num \in Word
    BY <1>4
  <2>4. QED
    BY <1>2, <2>1, <2>2, <2>3, SignNumber DEF DivideInv
<1>8. (IF Negative(call.num) THEN - num ELSE num) = Number(call.num)
  <2>1. PICK n \in Int : n = Number(call.num) /\ num = Abs(n) /\ (Negative(call.num) <=> n < 0)
    BY <1>2
  <2>2. Abs(n) = IF n < 0 THEN - n ELSE n
    BY DEF Abs
  <2>3. CASE n < 0
    BY <2>1, <2>2, <2>3
  <2>4. CASE ~ (n < 0)
    BY <2>1, <2>2, <2>4
  <2>5. QED
    BY <2>3, <2>4
<1>9. QED
  BY <1>6, <1>7, <1>8

\* What the invariant says of a call that has returned is that its result is exact.
LEMMA DivideInvExact == DivideInv => DivisionExact
<1> SUFFICES ASSUME DivideInv, i = BITS + 1, Number(call.den) # 0
             PROVE  /\ Abs(Number(ret.r)) < Abs(Number(call.den))
                    /\ Number(ret.r) # 0 => (Number(ret.r) < 0 <=> Number(call.num) < 0)
                    /\ ~ Overflows => Number(call.num) = Number(ret.q) * Number(call.den) + Number(ret.r)
  BY ByZero DEF DivisionExact
<1>1. call.num \in Word /\ call.den \in Word /\ call.signed \in BOOLEAN /\ DivideTypeOK
  BY DEF DivideInv, DivideTypeOK
<1>2. PICK n \in Int, d \in Int, un \in Nat, ud \in Nat :
        /\ n = Number(call.num) /\ d = Number(call.den) /\ un = num /\ ud = den
        /\ un = Abs(n) /\ ud = Abs(d)
        /\ Negative(call.num) <=> n < 0
        /\ Negative(call.den) <=> d < 0
        /\ call.signed => un <= 2^(BITS - 1)
        /\ n < 0 => call.signed
        /\ d < 0 => call.signed
  BY <1>1, MagnitudeNumber DEF num, den
<1>3. d # 0 /\ ud # 0
  BY <1>2 DEF Abs
<1>4. PICK k \in Nat, rem \in Nat :
        /\ k = Value(q) /\ rem = Value(r) /\ un = k * ud + rem /\ rem < ud
        /\ k \in Word /\ rem \in Word
  BY <1>2, <1>3, LoopDone, Powers DEF Word
<1>5. PICK M \in Nat \ {0} : M = 2^(BITS - 1) /\ 2^BITS = 2 * M
  BY Powers
<1> DEFINE quot == SignedQuotient(n, d, k)
           left == SignedRemainder(n, rem)
<1>6. /\ Abs(left) < Abs(d)
      /\ left # 0 => (left < 0 <=> n < 0)
      /\ n = quot * d + left
  <2>1. Unsigned(n, d, k, rem)
    BY <1>2, <1>3, <1>4 DEF Unsigned
  <2>2. QED
    BY <2>1, Signs
<1>7. Negative(call.num) = (n < 0) /\ Negative(call.den) = (d < 0)
  <2>1. Negative(call.num) \in BOOLEAN /\ Negative(call.den) \in BOOLEAN
    BY <1>1 DEF Negative
  <2>2. QED
    BY <1>2, <2>1
<1>8. ret.q = Sign((n < 0) # (d < 0), k) /\ ret.r = Sign(n < 0, rem)
  BY <1>4, <1>7, Powers DEF DivideInv, Returned
<1>9. Number(ret.r) = left
  <2>1. call.signed => ud <= M
    <3>1. den \in Nat /\ (call.signed => den <= 2^(BITS - 1))
      BY <1>1, MagnitudeNumber DEF den
    <3>2. QED
      BY <1>2, <1>5, <3>1
  <2>2. call.signed => rem < 2^(BITS - 1)
    BY <1>4, <1>5, <2>1
  <2>3. (n < 0) \in BOOLEAN
    OBVIOUS
  <2>4. Number(Sign(n < 0, rem)) = IF n < 0 THEN - rem ELSE rem
    BY <1>1, <1>2, <1>4, <2>2, <2>3, SignNumber
  <2>5. QED
    BY <1>8, <2>4 DEF SignedRemainder
<1>10. ~ Overflows => Number(ret.q) = quot
  <2> SUFFICES ASSUME ~ Overflows PROVE Number(ret.q) = quot
    OBVIOUS
  <2>1. ((n < 0) # (d < 0)) => call.signed
    BY <1>2
  <2>2. ASSUME call.signed PROVE k < M \/ (((n < 0) # (d < 0)) /\ k = M)
    <3>1. k <= M /\ (k = M => ud = 1 /\ un = M)
      BY <1>2, <1>3, <1>4, <1>5, <2>2, SmallQuotient
    <3>2. SUFFICES ASSUME k = M, ~ ((n < 0) # (d < 0)) PROVE FALSE
      BY <1>4, <3>1
    <3>3. ud = 1 /\ un = M
      BY <3>1, <3>2
    <3>4. CASE n < 0
      <4>1. d < 0
        BY <3>2, <3>4
      <4>2. d = -1 /\ n = - M
        BY <1>2, <3>3, <3>4, <4>1 DEF Abs
      <4>3. call.num - 2 * M = - M
        BY <1>2, <1>5, <3>4, <4>2 DEF Number
      <4>4. call.num \in Int
        BY <1>1, <1>5 DEF Word
      <4>5. call.num = M
        BY <4>3, <4>4
      <4>6. QED
        BY <1>2, <1>5, <2>2, <4>2, <4>5 DEF Overflows
    <3>5. CASE ~ (n < 0)
      <4>1. n = M
        BY <1>2, <3>3, <3>5 DEF Abs
      <4>2. n = call.num
        BY <1>2, <3>5 DEF Number
      <4>3. Negative(call.num)
        BY <1>5, <2>2, <4>1, <4>2 DEF Negative
      <4>4. QED
        BY <1>2, <3>5, <4>3
    <3>6. QED
      BY <3>4, <3>5
  <2>3. Number(Sign((n < 0) # (d < 0), k)) = IF (n < 0) # (d < 0) THEN - k ELSE k
    <3>1. ((n < 0) # (d < 0)) \in BOOLEAN
      OBVIOUS
    <3>2. QED
      BY <1>1, <1>4, <1>5, <2>1, <2>2, <3>1, SignNumber
  <2>4. QED
    BY <1>8, <2>3 DEF SignedQuotient
<1>11. QED
  BY <1>2, <1>6, <1>9, <1>10
-----------------------------------------------------------------------------
\* The halves of every word stay halves: no shift, borrow or carry leaves them.
THEOREM LongLongTypeCorrect == DivideSpec => []DivideTypeOK
<1>1. DivideInv => DivideTypeOK
  BY DEF DivideInv
<1>2. QED
  BY <1>1, InitDivideInv, NextDivideInv, PTL DEF DivideSpec

\* Division of words of any even width is exact, signed or not.
THEOREM LongLongExact == DivideSpec => []DivisionExact
BY InitDivideInv, NextDivideInv, DivideInvExact, PTL DEF DivideSpec
=============================================================================
