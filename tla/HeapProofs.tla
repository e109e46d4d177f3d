----------------------------- MODULE HeapProofs -----------------------------
(***************************************************************************)
(* Proofs about the kernel heap, for every arena, header size and set of   *)
(* requested sizes.  The inductive invariant IInv of module Heap says that *)
(* the list tiles the arena; the first three lemmas show that the three    *)
(* ways of changing the list (cut a block, change a flag, join two blocks) *)
(* keep it tiled, the rest follows the actions.                            *)
(***************************************************************************)
EXTENDS Heap, TLAPS

\* The list of headers is well typed: the part of TypeOK about it.
ListOK == /\ DOMAIN block \subseteq Nat
          /\ START_ADDR \in DOMAIN block
          /\ block \in [DOMAIN block -> Block]

\* A block is longer than its header is, and not empty.
LEMMA Lengths ==
  ASSUME ListOK, NEW b \in DOMAIN block
  PROVE  /\ b \in Nat
         /\ block[b].size \in Nat
         /\ block[b].free \in BOOLEAN
         /\ block[b].next \in Nat \cup {NULL}
         /\ EndOf(b) = b + HDR + block[b].size
         /\ EndOf(b) \in Nat
         /\ b < EndOf(b)
  BY HeapAssumption DEF ListOK, Block, EndOf

\* Cutting a free block that is large enough leaves the arena tiled.
LEMMA SplitTiles ==
  ASSUME ListOK, Tiled, want \in Nat,
         NEW b \in DOMAIN block, WorthSplitting(b),
         block' = Split(b)
  PROVE  /\ DOMAIN block' = DOMAIN block \cup {b + HDR + want}
         /\ b + HDR + want \notin DOMAIN block
         /\ block'[b] = [size |-> want, free |-> FALSE, next |-> b + HDR + want]
         /\ block'[b + HDR + want] = [size |-> block[b].size - want - HDR,
                                      free |-> TRUE, next |-> block[b].next]
         /\ \A c \in DOMAIN block \ {b} : block'[c] = block[c]
         /\ ListOK'
         /\ Tiled'
<1>n. PICK n : n = b + HDR + want
  OBVIOUS
<1>1. /\ HDR \in Nat /\ HDR > 0 /\ MARGIN \in Nat /\ NULL \notin Int
      /\ START_ADDR \in Nat /\ INITIAL_SIZE \in Nat
  BY HeapAssumption
<1>2. /\ b \in Nat /\ block[b].size \in Nat /\ EndOf(b) = b + HDR + block[b].size
      /\ block[b].next \in Nat \cup {NULL}
  BY Lengths
<1>3. block[b].size >= want + HDR + MARGIN
  BY DEF WorthSplitting
<1>4. n \in Nat /\ b < n /\ n + HDR <= EndOf(b)
  BY <1>n, <1>1, <1>2, <1>3
<1>5. n \notin DOMAIN block
  <2> SUFFICES ASSUME n \in DOMAIN block PROVE FALSE
    OBVIOUS
  <2>1. EndOf(b) <= n
    BY <1>4 DEF Tiled, Disjoint
  <2> QED  BY <2>1, <1>1, <1>2, <1>4
<1>6. /\ DOMAIN block' = DOMAIN block \cup {n}
      /\ block'[b] = [size |-> want, free |-> FALSE, next |-> n]
      /\ block'[n] = [size |-> block[b].size - want - HDR,
                      free |-> TRUE, next |-> block[b].next]
      /\ \A c \in DOMAIN block \ {b} : block'[c] = block[c]
  <2>1. b # n
    BY <1>5
  <2>2. block' = [a \in DOMAIN block \cup {n} |->
         IF a = b THEN [size |-> want, free |-> FALSE, next |-> n]
         ELSE IF a = n THEN [size |-> block[b].size - want - HDR,
                             free |-> TRUE, next |-> block[b].next]
         ELSE block[a]]
    BY <1>n DEF Split
  <2> QED  BY <2>1, <2>2, <1>5
<1>7. block[b].size - want - HDR \in Nat
  BY <1>1, <1>2, <1>3
<1>8. ListOK'
  <2>1. DOMAIN block' \subseteq Nat /\ START_ADDR \in DOMAIN block'
    BY <1>4, <1>6 DEF ListOK
  <2>2. block' = [a \in DOMAIN block' |-> block'[a]]
    BY DEF Split
  <2>3. ASSUME NEW a \in DOMAIN block'
        PROVE  block'[a] \in Block
    <3>1. CASE a = b
      BY <3>1, <1>4, <1>6 DEF Block
    <3>2. CASE a = n
      BY <3>2, <1>2, <1>6, <1>7 DEF Block
    <3>3. CASE a \in DOMAIN block \ {b}
      BY <3>3, <1>6 DEF ListOK
    <3> QED  BY <3>1, <3>2, <3>3, <1>6
  <2> QED  BY <2>1, <2>2, <2>3 DEF ListOK
<1>9. /\ EndOf(b)' = n
      /\ EndOf(n)' = EndOf(b)
      /\ \A c \in DOMAIN block \ {b} : EndOf(c)' = EndOf(c)
  <2>1. EndOf(b)' = b + HDR + want
    BY <1>6 DEF EndOf
  <2>2. EndOf(n)' = n + HDR + (block[b].size - want - HDR)
    BY <1>6 DEF EndOf
  <2>3. n + HDR + (block[b].size - want - HDR) = b + HDR + block[b].size
    BY <1>n, <1>1, <1>2
  <2>4. \A c \in DOMAIN block \ {b} : EndOf(c)' = EndOf(c)
    BY <1>6 DEF EndOf
  <2> QED  BY <2>1, <2>2, <2>3, <2>4, <1>n, <1>2
<1>10. Linked'
  <2> SUFFICES ASSUME NEW c \in DOMAIN block'
               PROVE  IF block'[c].next = NULL
                      THEN EndOf(c)' = ArenaEnd
                      ELSE block'[c].next \in DOMAIN block' /\ EndOf(c)' = block'[c].next
    BY DEF Linked, ArenaEnd
  <2>1. CASE c = b
    BY <2>1, <1>1, <1>4, <1>6, <1>9
  <2>2. CASE c = n
    BY <2>2, <1>6, <1>9 DEF Tiled, Linked
  <2>3. CASE c \in DOMAIN block \ {b}
    BY <2>3, <1>6, <1>9 DEF Tiled, Linked
  <2> QED  BY <2>1, <2>2, <2>3, <1>6
<1>11. Disjoint'
  <2> SUFFICES ASSUME NEW c \in DOMAIN block', NEW d \in DOMAIN block', c < d
               PROVE  EndOf(c)' <= d
    BY DEF Disjoint
  <2>1. \A e \in DOMAIN block : e \in Nat /\ EndOf(e) \in Nat
    BY Lengths
  <2>2. \A e \in DOMAIN block : /\ e < b => EndOf(e) <= b
                                /\ b < e => EndOf(b) <= e
    BY DEF Tiled, Disjoint
  <2>3. CASE c = b
    <3>1. CASE d = n
      BY <2>3, <3>1, <1>4, <1>9
    <3>2. CASE d \in DOMAIN block
      <4>1. EndOf(b) <= d
        BY <2>2, <2>3, <3>2
      <4>2. n <= EndOf(b)
        BY <2>1, <1>1, <1>4
      <4> QED  BY <2>1, <2>3, <3>2, <4>1, <4>2, <1>4, <1>9
    <3> QED  BY <3>1, <3>2, <1>6
  <2>4. CASE c = n
    <3>1. d \in DOMAIN block /\ d # b
      BY <2>1, <2>4, <1>2, <1>4, <1>6
    <3>2. b < d
      BY <2>1, <2>4, <3>1, <1>2, <1>4
    <3>3. EndOf(b) <= d
      BY <2>2, <3>1, <3>2
    <3> QED  BY <2>4, <3>3, <1>9
  <2>5. CASE c \in DOMAIN block \ {b}
    <3>1. CASE d = n
      <4>1. c < b
        BY <2>1, <2>2, <2>5, <3>1, <1>1, <1>2, <1>4
      <4>2. EndOf(c) <= b
        BY <2>2, <2>5, <4>1
      <4> QED  BY <2>1, <2>5, <3>1, <4>2, <1>2, <1>4, <1>9
    <3>2. CASE d \in DOMAIN block
      BY <2>5, <3>2, <1>9 DEF Tiled, Disjoint
    <3> QED  BY <3>1, <3>2, <1>6
  <2> QED  BY <2>3, <2>4, <2>5, <1>6
<1>12. Inside'
  <2> SUFFICES ASSUME NEW c \in DOMAIN block'
               PROVE  START_ADDR <= c /\ EndOf(c)' <= ArenaEnd
    BY DEF Inside, ArenaEnd
  <2>1. START_ADDR <= b /\ EndOf(b) <= ArenaEnd /\ ArenaEnd \in Nat
    BY <1>1 DEF Tiled, Inside, ArenaEnd
  <2>2. CASE c = b
    <3>1. n <= ArenaEnd
      BY <2>1, <1>1, <1>2, <1>4
    <3> QED  BY <2>1, <2>2, <3>1, <1>9
  <2>3. CASE c = n
    <3>1. START_ADDR <= n
      BY <2>1, <1>1, <1>2, <1>4
    <3> QED  BY <2>1, <2>3, <3>1, <1>9
  <2>4. CASE c \in DOMAIN block \ {b}
    BY <2>4, <1>9 DEF Tiled, Inside
  <2> QED  BY <2>2, <2>3, <2>4, <1>6
<1>13. Covering'
  <2> SUFFICES ASSUME NEW x \in START_ADDR .. ArenaEnd - 1
               PROVE  \E c \in DOMAIN block' : c <= x /\ x < EndOf(c)'
    BY DEF Covering, ArenaEnd
  <2>1. PICK c \in DOMAIN block : c <= x /\ x < EndOf(c)
    BY DEF Tiled, Covering
  <2>2. x \in Int
    OBVIOUS
  <2>3. CASE c # b
    BY <2>1, <2>3, <1>6, <1>9
  <2>4. CASE c = b /\ x < n
    BY <2>1, <2>4, <1>6, <1>9
  <2>5. CASE c = b /\ ~ (x < n)
    <3>1. n <= x
      BY <2>2, <2>5, <1>4
    <3> QED  BY <2>1, <2>5, <3>1, <1>6, <1>9
  <2> QED  BY <2>3, <2>4, <2>5
<1> QED
  BY <1>n, <1>5, <1>6, <1>8, <1>10, <1>11, <1>12, <1>13 DEF Tiled

\* Setting or clearing the flag of a block moves no block.
LEMMA FlagTiles ==
  ASSUME ListOK, Tiled, NEW b \in DOMAIN block, NEW v \in BOOLEAN,
         block' = SetFree(b, v)
  PROVE  /\ DOMAIN block' = DOMAIN block
         /\ \A c \in DOMAIN block : /\ block'[c].size = block[c].size
                                    /\ block'[c].next = block[c].next
                                    /\ block'[c].free = IF c = b THEN v ELSE block[c].free
                                    /\ EndOf(c)' = EndOf(c)
         /\ ListOK'
         /\ Tiled'
<1>1. DOMAIN block' = DOMAIN block /\ block \in [DOMAIN block -> Block]
  BY DEF ListOK, SetFree
<1>2. \A c \in DOMAIN block : /\ block'[c].size = block[c].size
                              /\ block'[c].next = block[c].next
                              /\ block'[c].free = IF c = b THEN v ELSE block[c].free
  BY <1>1 DEF Block, SetFree
<1>3. ListOK'
  <2>1. DOMAIN block' \subseteq Nat /\ START_ADDR \in DOMAIN block'
    BY <1>1 DEF ListOK
  <2>2. block' \in [DOMAIN block -> Block]
    BY <1>1 DEF SetFree, Block
  <2> QED  BY <2>1, <2>2, <1>1 DEF ListOK
<1>4. \A c \in DOMAIN block : EndOf(c)' = EndOf(c)
  BY <1>2 DEF EndOf
<1>5. Linked'
  BY <1>1, <1>2, <1>4 DEF Tiled, Linked, ArenaEnd
<1>6. Disjoint'
  BY <1>1, <1>4 DEF Tiled, Disjoint
<1>7. Inside'
  BY <1>1, <1>4 DEF Tiled, Inside, ArenaEnd
<1>8. Covering'
  BY <1>1, <1>4 DEF Tiled, Covering, ArenaEnd
<1> QED  BY <1>1, <1>2, <1>3, <1>4, <1>5, <1>6, <1>7, <1>8 DEF Tiled

\* A block that swallows its successor leaves the arena tiled.
LEMMA JoinTiles ==
  ASSUME ListOK, Tiled,
         NEW b \in DOMAIN block, NEW n,
         n = block[b].next, n # NULL,
         block' = Joined(b)
  PROVE  /\ n \in DOMAIN block /\ n # b /\ b < n
         /\ DOMAIN block' = DOMAIN block \ {n}
         /\ block'[b].free = TRUE
         /\ block'[b].next = block[n].next
         /\ block'[b].size \in Nat
         /\ \A c \in DOMAIN block \ {b, n} : block'[c] = block[c]
         /\ ListOK'
         /\ Tiled'
<1>1. /\ HDR \in Nat /\ HDR > 0 /\ NULL \notin Int /\ START_ADDR \in Nat
      /\ INITIAL_SIZE \in Nat
  BY HeapAssumption
<1>2. \A e \in DOMAIN block : /\ e \in Nat
                              /\ block[e].size \in Nat
                              /\ block[e].next \in Nat \cup {NULL}
                              /\ EndOf(e) = e + HDR + block[e].size
                              /\ EndOf(e) \in Nat
                              /\ e < EndOf(e)
  BY Lengths
<1>3. n \in DOMAIN block /\ EndOf(b) = n
  BY DEF Tiled, Linked
<1>4. b < n /\ n < EndOf(n)
  BY <1>2, <1>3
<1>5. /\ DOMAIN block' = DOMAIN block \ {n}
      /\ b # n
      /\ block'[b] = [size |-> block[b].size + HDR + block[n].size,
                      free |-> TRUE, next |-> block[n].next]
      /\ \A c \in DOMAIN block \ {b, n} : block'[c] = block[c]
  <2>1. b # n
    BY <1>2, <1>4
  <2> QED  BY <2>1 DEF Joined
<1>6. block[b].size + HDR + block[n].size \in Nat
  BY <1>1, <1>2, <1>3
<1>7. /\ EndOf(b)' = EndOf(n)
      /\ \A c \in DOMAIN block \ {b, n} : EndOf(c)' = EndOf(c)
  <2>1. EndOf(b)' = b + HDR + (block[b].size + HDR + block[n].size)
    BY <1>5 DEF EndOf
  <2>2. EndOf(n) = n + HDR + block[n].size /\ n = b + HDR + block[b].size
    BY <1>2, <1>3
  <2>3. \A c \in DOMAIN block \ {b, n} : EndOf(c)' = EndOf(c)
    BY <1>5 DEF EndOf
  <2> QED  BY <2>1, <2>2, <2>3, <1>1, <1>2, <1>3
<1>8. ListOK'
  <2>2. n # START_ADDR
    BY <1>1, <1>2, <1>3, <1>4 DEF Tiled, Inside
  <2>3. DOMAIN block' \subseteq Nat /\ START_ADDR \in DOMAIN block'
    BY <2>2, <1>5 DEF ListOK
  <2>4. block' = [a \in DOMAIN block' |-> block'[a]]
    BY DEF Joined
  <2>5. ASSUME NEW a \in DOMAIN block'
        PROVE  block'[a] \in Block
    <3>1. CASE a = b
      BY <3>1, <1>2, <1>3, <1>5, <1>6 DEF Block
    <3>2. CASE a # b
      BY <3>2, <1>5 DEF ListOK
    <3> QED  BY <3>1, <3>2
  <2> QED  BY <2>3, <2>4, <2>5 DEF ListOK
\* Nothing else points at the header that goes away.
<1>9. \A c \in DOMAIN block \ {b} : block[c].next # n
  <2> SUFFICES ASSUME NEW c \in DOMAIN block \ {b}, block[c].next = n
               PROVE  FALSE
    OBVIOUS
  <2>1. EndOf(c) = n
    BY <1>1, <1>2, <1>3 DEF Tiled, Linked
  <2>2. CASE c < b
    <3>1. EndOf(c) <= b
      BY <2>2 DEF Tiled, Disjoint
    <3> QED  BY <3>1, <2>1, <1>2, <1>3, <1>4
  <2>3. CASE b < c
    <3>1. EndOf(b) <= c
      BY <2>3 DEF Tiled, Disjoint
    <3> QED  BY <3>1, <2>1, <1>2, <1>3, <1>4
  <2> QED  BY <2>2, <2>3, <1>2
<1>10. Linked'
  <2> SUFFICES ASSUME NEW c \in DOMAIN block'
               PROVE  IF block'[c].next = NULL
                      THEN EndOf(c)' = ArenaEnd
                      ELSE block'[c].next \in DOMAIN block' /\ EndOf(c)' = block'[c].next
    BY DEF Linked, ArenaEnd
  <2>1. CASE c = b
    <3>1. block[n].next # n
      BY <1>3, <1>5, <1>9
    <3> QED  BY <2>1, <3>1, <1>3, <1>5, <1>7 DEF Tiled, Linked
  <2>2. CASE c # b
    BY <2>2, <1>5, <1>7, <1>9 DEF Tiled, Linked
  <2> QED  BY <2>1, <2>2
<1>11. Disjoint'
  <2> SUFFICES ASSUME NEW c \in DOMAIN block', NEW d \in DOMAIN block', c < d
               PROVE  EndOf(c)' <= d
    BY DEF Disjoint
  <2>1. c \in DOMAIN block /\ d \in DOMAIN block /\ c # n /\ d # n
    BY <1>5
  <2>2. CASE c = b
    <3>1. n <= d
      BY <2>1, <2>2, <1>3 DEF Tiled, Disjoint
    <3>2. n < d
      BY <2>1, <3>1, <1>2, <1>3
    <3>3. EndOf(n) <= d
      BY <2>1, <3>2, <1>3 DEF Tiled, Disjoint
    <3> QED  BY <2>2, <3>3, <1>7
  <2>3. CASE c # b
    BY <2>1, <2>3, <1>7 DEF Tiled, Disjoint
  <2> QED  BY <2>2, <2>3
<1>12. Inside'
  <2> SUFFICES ASSUME NEW c \in DOMAIN block'
               PROVE  START_ADDR <= c /\ EndOf(c)' <= ArenaEnd
    BY DEF Inside, ArenaEnd
  <2> QED  BY <1>3, <1>5, <1>7 DEF Tiled, Inside
<1>13. Covering'
  <2> SUFFICES ASSUME NEW x \in START_ADDR .. ArenaEnd - 1
               PROVE  \E c \in DOMAIN block' : c <= x /\ x < EndOf(c)'
    BY DEF Covering, ArenaEnd
  <2>1. PICK c \in DOMAIN block : c <= x /\ x < EndOf(c)
    BY DEF Tiled, Covering
  <2>2. x \in Int
    OBVIOUS
  <2>3. CASE c = b
    <3>1. x < EndOf(n)
      BY <2>1, <2>2, <2>3, <1>2, <1>3, <1>4
    <3> QED  BY <2>1, <2>3, <3>1, <1>5, <1>7
  <2>4. CASE c = n
    <3>1. b <= x
      BY <2>1, <2>2, <2>4, <1>2, <1>3, <1>4
    <3> QED  BY <2>1, <2>4, <3>1, <1>5, <1>7
  <2>5. CASE c # b /\ c # n
    BY <2>1, <2>5, <1>5, <1>7
  <2> QED  BY <2>3, <2>4, <2>5
<1> QED
  BY <1>3, <1>4, <1>5, <1>6, <1>8, <1>10, <1>11, <1>12, <1>13 DEF Tiled
-----------------------------------------------------------------------------
\* The arena as init_malloc leaves it satisfies the invariant.
LEMMA HeapInit == Init => IInv
<1> SUFFICES ASSUME Init PROVE IInv
  OBVIOUS
<1>1. /\ HDR \in Nat /\ HDR > 0 /\ NULL \notin Int
      /\ START_ADDR \in Nat /\ INITIAL_SIZE \in Nat
  BY HeapAssumption
<1>2. /\ DOMAIN block = {START_ADDR}
      /\ block[START_ADDR] = [size |-> INITIAL_SIZE, free |-> TRUE, next |-> NULL]
      /\ block = [b \in {START_ADDR} |-> [size |-> INITIAL_SIZE, free |-> TRUE, next |-> NULL]]
  BY DEF Init, init_malloc
<1>3. DOMAIN held = {} /\ held \in [DOMAIN held -> Nat]
  BY DEF Init
<1>4. TypeOK
  BY <1>1, <1>2, <1>3 DEF Init, TypeOK, Block
<1>5. EndOf(START_ADDR) = ArenaEnd /\ ArenaEnd \in Nat /\ START_ADDR < ArenaEnd
  BY <1>1, <1>2 DEF EndOf, ArenaEnd
<1>6. Tiled
  <2>1. Linked /\ Disjoint /\ Inside
    BY <1>1, <1>2, <1>5 DEF Linked, Disjoint, Inside
  <2>2. Covering
    BY <1>1, <1>2, <1>5 DEF Covering
  <2> QED  BY <2>1, <2>2 DEF Tiled
<1>7. HeldAreLive /\ NoFreeNeighbours /\ PassedTooSmall
  BY <1>2, <1>3 DEF Init, HeldAreLive, NoFreeNeighbours, PassedTooSmall
<1> QED  BY <1>4, <1>6, <1>7 DEF IInv

\* Nothing of the list is below its head.
LEMMA HeadIsLowest ==
  ASSUME ListOK, Tiled
  PROVE  \A b \in DOMAIN block : ~ (b < START_ADDR)
<1>1. \A b \in DOMAIN block : b \in Nat /\ START_ADDR <= b
  BY Lengths DEF Tiled, Inside
<1> QED  BY <1>1, HeapAssumption

\* The blocks below the successor of b are those below b, and b; without a
\* successor, b is the last block.
LEMMA BelowSuccessor ==
  ASSUME ListOK, Tiled, NEW b \in DOMAIN block, NEW c \in DOMAIN block,
         block[b].next = NULL \/ c < block[b].next
  PROVE  c = b \/ c < b
<1> SUFFICES ASSUME b < c PROVE FALSE
  BY Lengths
<1>1. EndOf(b) <= c
  BY DEF Tiled, Disjoint
<1>2. EndOf(b) \in Nat /\ c \in Nat /\ c < EndOf(c) /\ EndOf(c) \in Nat
  BY Lengths
<1>3. CASE block[b].next = NULL
  <2>1. EndOf(b) = ArenaEnd /\ EndOf(c) <= ArenaEnd
    BY <1>3 DEF Tiled, Linked, Inside
  <2> QED  BY <2>1, <1>1, <1>2
<1>4. CASE block[b].next # NULL
  <2>1. EndOf(b) = block[b].next
    BY <1>4 DEF Tiled, Linked
  <2> QED  BY <2>1, <1>1, <1>2, <1>4
<1> QED  BY <1>3, <1>4

\* A call that starts a search.
LEMMA SearchStarts ==
  ASSUME IInv, pc = "idle",
         pc' = "walk", cur' = START_ADDR, want' \in Sizes,
         old' \in DOMAIN held \cup {NULL},
         UNCHANGED <<block, ret, held>>
  PROVE  IInv'
<1>1. ListOK /\ Tiled
  BY DEF IInv, TypeOK, ListOK
<1>2. TypeOK'
  BY HeapAssumption DEF IInv, TypeOK
<1>3. Tiled'
  BY DEF IInv, Tiled, Linked, Disjoint, Inside, Covering, EndOf, ArenaEnd
<1>4. HeldAreLive'
  BY DEF IInv, HeldAreLive
<1>5. NoFreeNeighbours'
  BY DEF IInv, NoFreeNeighbours, Joinable
<1>6. PassedTooSmall'
  <2>1. START_ADDR # NULL
    BY HeapAssumption
  <2> QED  BY <1>1, <2>1, HeadIsLowest DEF PassedTooSmall
<1> QED  BY <1>2, <1>3, <1>4, <1>5, <1>6 DEF IInv

\* The search moves on.
LEMMA TryNextKeeps == IInv /\ TryNext => IInv'
<1> SUFFICES ASSUME IInv, TryNext PROVE IInv'
  OBVIOUS
<1>1. ListOK /\ Tiled /\ cur \in DOMAIN block /\ cur # NULL /\ want \in Nat
  BY DEF IInv, TypeOK, ListOK, TryNext
<1>2. /\ cur' = block[cur].next /\ pc = "walk" /\ ~ Fits(cur)
      /\ UNCHANGED <<block, pc, want, old, ret, held>>
  BY DEF TryNext, NextToTry
<1>3. TypeOK'
  <2>1. block[cur].next \in DOMAIN block \cup {NULL}
    BY <1>1 DEF Tiled, Linked
  <2> QED  BY <1>2, <2>1 DEF IInv, TypeOK
<1>4. Tiled'
  BY <1>2 DEF IInv, Tiled, Linked, Disjoint, Inside, Covering, EndOf, ArenaEnd
<1>5. HeldAreLive' /\ NoFreeNeighbours'
  BY <1>2 DEF IInv, HeldAreLive, NoFreeNeighbours, Joinable
<1>6. PassedTooSmall'
  <2> SUFFICES ASSUME NEW b \in DOMAIN block, block[b].free,
                      block[cur].next = NULL \/ b < block[cur].next
               PROVE  block[b].size < want
    BY <1>2 DEF PassedTooSmall
  <2>1. b = cur \/ b < cur
    BY <1>1, BelowSuccessor
  <2>2. CASE b = cur
    BY <1>1, <1>2, <2>2, Lengths DEF Fits
  <2>3. CASE b < cur
    BY <1>2, <2>3 DEF IInv, PassedTooSmall
  <2> QED  BY <2>1, <2>2, <2>3
<1> QED  BY <1>3, <1>4, <1>5, <1>6 DEF IInv

\* What Take does to the list, whether it splits the block or not.
LEMMA TakeEffect ==
  ASSUME IInv, Take, NEW b, b = cur
  PROVE  /\ b \in DOMAIN block /\ block[b].free /\ block[b].size >= want
         /\ pc = "walk" /\ want \in Nat
         /\ ListOK' /\ Tiled'
         /\ DOMAIN block \subseteq DOMAIN block'
         /\ block'[b].free = FALSE
         /\ block'[b].size >= want
         /\ \A c \in DOMAIN block \ {b} : block'[c] = block[c]
         /\ \A c \in DOMAIN block' \ DOMAIN block :
               /\ block'[c].free
               /\ c \notin DOMAIN block
               /\ block'[c].next = block[b].next
               /\ block'[b].next = c
         /\ DOMAIN block' = DOMAIN block => block'[b].next = block[b].next
         /\ \A c, d \in DOMAIN block' \ DOMAIN block : c = d
<1>1. /\ ListOK /\ Tiled /\ b \in DOMAIN block /\ want \in Nat
      /\ block[b].free /\ block[b].size >= want /\ pc = "walk"
  BY DEF IInv, TypeOK, ListOK, Take, Fits
<1>2. CASE WorthSplitting(b)
  <2>1. block' = Split(b)
    BY <1>2 DEF Take
  <2>2. PICK n : n = b + HDR + want
    OBVIOUS
  <2>3. /\ DOMAIN block' = DOMAIN block \cup {n}
        /\ n \notin DOMAIN block
        /\ block'[b] = [size |-> want, free |-> FALSE, next |-> n]
        /\ block'[n] = [size |-> block[b].size - want - HDR,
                        free |-> TRUE, next |-> block[b].next]
        /\ \A c \in DOMAIN block \ {b} : block'[c] = block[c]
        /\ ListOK'
        /\ Tiled'
    BY <1>1, <1>2, <2>1, <2>2, SplitTiles
  <2> QED  BY <1>1, <2>3
<1>3. CASE ~ WorthSplitting(b)
  <2>1. block' = SetFree(b, FALSE)
    BY <1>3 DEF Take
  <2>2. /\ DOMAIN block' = DOMAIN block
        /\ \A c \in DOMAIN block : /\ block'[c].size = block[c].size
                                   /\ block'[c].next = block[c].next
                                   /\ block'[c].free = IF c = b THEN FALSE ELSE block[c].free
        /\ ListOK'
        /\ Tiled'
    BY <1>1, <2>1, FlagTiles
  <2>3. \A c \in DOMAIN block \ {b} : block'[c] = block[c]
    BY <2>1 DEF SetFree
  <2> QED  BY <1>1, <2>2, <2>3
<1> QED  BY <1>2, <1>3

\* A block is taken.
LEMMA TakeKeeps == IInv /\ Take => IInv'
<1> SUFFICES ASSUME IInv, Take PROVE IInv'
  OBVIOUS
<1>b. PICK b : b = cur
  OBVIOUS
<1>1. /\ b \in DOMAIN block /\ block[b].free /\ block[b].size >= want
      /\ pc = "walk" /\ want \in Nat
      /\ ListOK' /\ Tiled'
      /\ DOMAIN block \subseteq DOMAIN block'
      /\ block'[b].free = FALSE
      /\ block'[b].size >= want
      /\ \A c \in DOMAIN block \ {b} : block'[c] = block[c]
      /\ \A c \in DOMAIN block' \ DOMAIN block :
            /\ block'[c].free
            /\ block'[c].next = block[b].next
            /\ block'[b].next = c
      /\ DOMAIN block' = DOMAIN block => block'[b].next = block[b].next
  BY <1>b, TakeEffect
<1>2. /\ cur' = NULL /\ ret' = b + HDR /\ want' = 0 /\ old' = old
      /\ pc' = IF old = NULL THEN "idle" ELSE "copy"
      /\ held' = [p \in DOMAIN held \cup {b + HDR} |->
                    IF p = b + HDR THEN want ELSE held[p]]
  BY <1>b DEF Take
<1>3. b \in Nat /\ HDR \in Nat /\ b + HDR \in Nat /\ b + HDR - HDR = b
  <2>1. b \in Nat /\ HDR \in Nat
    BY <1>1, HeapAssumption DEF IInv, TypeOK
  <2> QED  BY <2>1
<1>4. TypeOK'
  <2>1. DOMAIN held' \subseteq Nat /\ held' \in [DOMAIN held' -> Nat]
    BY <1>1, <1>2, <1>3 DEF IInv, TypeOK
  <2>2. old' \in DOMAIN held' \cup {NULL}
    BY <1>2 DEF IInv, TypeOK
  <2> QED  BY <1>1, <1>2, <1>3, <2>1, <2>2 DEF TypeOK, ListOK, IInv
<1>5. HeldAreLive'
  <2>1. ASSUME NEW c \in DOMAIN block', ~ block'[c].free
        PROVE  c + HDR \in DOMAIN held'
    <3>1. CASE c = b
      BY <3>1, <1>2
    <3>2. CASE c # b
      <4>1. c \in DOMAIN block /\ ~ block[c].free
        BY <2>1, <3>2, <1>1
      <4> QED  BY <4>1, <1>2 DEF IInv, HeldAreLive
    <3> QED  BY <3>1, <3>2
  <2>2. ASSUME NEW p \in DOMAIN held'
        PROVE  /\ p - HDR \in DOMAIN block'
               /\ ~ block'[p - HDR].free
               /\ block'[p - HDR].size >= held'[p]
    <3>1. CASE p = b + HDR
      BY <3>1, <1>1, <1>2, <1>3
    <3>2. CASE p # b + HDR
      <4>1. p \in DOMAIN held /\ held'[p] = held[p]
        BY <3>2, <1>2
      <4>2. /\ p - HDR \in DOMAIN block
            /\ ~ block[p - HDR].free
            /\ block[p - HDR].size >= held[p]
        BY <4>1 DEF IInv, HeldAreLive
      <4>3. p - HDR # b
        BY <4>2, <1>1
      <4> QED  BY <4>1, <4>2, <4>3, <1>1
    <3> QED  BY <3>1, <3>2
  <2> QED  BY <2>1, <2>2 DEF HeldAreLive
\* The block taken was free, so neither of its neighbours is.
<1>6. NoFreeNeighbours'
  <2> SUFFICES ASSUME NEW c \in DOMAIN block', block'[c].next # NULL,
                      block'[c].free, block'[block'[c].next].free
               PROVE  FALSE
    BY DEF NoFreeNeighbours, Joinable
  <2>1. \A a \in DOMAIN block : block[a].next # NULL
                                => ~ (block[a].free /\ block[block[a].next].free)
    BY <1>1 DEF IInv, NoFreeNeighbours, Joinable
  <2>2. \A a \in DOMAIN block : block[a].next # NULL => block[a].next \in DOMAIN block
    BY DEF IInv, Tiled, Linked
  <2>3. c # b
    BY <1>1
  <2>4. CASE c \in DOMAIN block
    <3>1. block'[c] = block[c] /\ block[c].next \in DOMAIN block
      BY <2>2, <2>3, <2>4, <1>1
    <3>2. block[c].next # b
      BY <3>1, <1>1
    <3> QED  BY <2>1, <2>4, <3>1, <3>2, <1>1
  <2>5. CASE c \notin DOMAIN block
    <3>1. block'[c].next = block[b].next /\ block[b].next \in DOMAIN block
      BY <2>2, <2>5, <1>1
    <3>2. block[b].next # b
      BY <3>1, <1>1
    <3> QED  BY <2>1, <3>1, <3>2, <1>1
  <2> QED  BY <2>4, <2>5
<1>7. PassedTooSmall'
  BY <1>2 DEF PassedTooSmall
<1> QED  BY <1>1, <1>4, <1>5, <1>6, <1>7 DEF IInv

\* The search ends without a block.
LEMMA NoFitKeeps == IInv /\ NoFit => IInv'
<1> SUFFICES ASSUME IInv, NoFit PROVE IInv'
  OBVIOUS
<1>1. TypeOK'
  BY DEF IInv, TypeOK, NoFit
<1>2. Tiled'
  BY DEF NoFit, IInv, Tiled, Linked, Disjoint, Inside, Covering, EndOf, ArenaEnd
<1>3. HeldAreLive' /\ NoFreeNeighbours' /\ PassedTooSmall'
  BY DEF NoFit, IInv, HeldAreLive, NoFreeNeighbours, Joinable, PassedTooSmall
<1> QED  BY <1>1, <1>2, <1>3 DEF IInv

\* A block is given back, by free or at the end of realloc.
LEMMA MarkKeeps ==
  ASSUME IInv, NEW p \in DOMAIN held, Mark(p),
         old' = NULL, UNCHANGED <<want, ret>>
  PROVE  IInv'
<1>b. PICK b : b = p - HDR
  OBVIOUS
<1>1. /\ ListOK /\ Tiled /\ b \in DOMAIN block /\ p \in Nat /\ HDR \in Nat
      /\ DOMAIN held \subseteq Nat
  BY <1>b, HeapAssumption DEF IInv, TypeOK, ListOK, HeldAreLive
<1>2. /\ block' = SetFree(b, TRUE)
      /\ cur' = START_ADDR /\ pc' = "join"
      /\ DOMAIN held' = DOMAIN held \ {p}
      /\ held' = [q \in DOMAIN held \ {p} |-> held[q]]
  BY <1>b DEF Mark, Restrict
<1>3. /\ DOMAIN block' = DOMAIN block
      /\ \A c \in DOMAIN block : /\ block'[c].size = block[c].size
                                 /\ block'[c].next = block[c].next
                                 /\ block'[c].free = IF c = b THEN TRUE ELSE block[c].free
      /\ ListOK'
      /\ Tiled'
  BY <1>1, <1>2, FlagTiles
<1>4. TypeOK'
  BY <1>1, <1>2, <1>3 DEF IInv, TypeOK, ListOK
<1>5. HeldAreLive'
  <2>1. ASSUME NEW c \in DOMAIN block', ~ block'[c].free
        PROVE  c + HDR \in DOMAIN held'
    <3>1. c # b /\ c \in DOMAIN block /\ ~ block[c].free
      BY <2>1, <1>3
    <3>2. c + HDR \in DOMAIN held
      BY <3>1 DEF IInv, HeldAreLive
    <3>3. c \in Nat
      BY <3>1, <1>1 DEF ListOK
    <3>4. c + HDR # p
      BY <3>1, <3>3, <1>b, <1>1
    <3> QED  BY <3>2, <3>4, <1>2
  <2>2. ASSUME NEW q \in DOMAIN held'
        PROVE  /\ q - HDR \in DOMAIN block'
               /\ ~ block'[q - HDR].free
               /\ block'[q - HDR].size >= held'[q]
    <3>1. q \in DOMAIN held /\ q # p /\ held'[q] = held[q] /\ q \in Nat
      BY <1>1, <1>2
    <3>2. q - HDR # b
      BY <3>1, <1>b, <1>1
    <3>3. /\ q - HDR \in DOMAIN block
          /\ ~ block[q - HDR].free
          /\ block[q - HDR].size >= held[q]
      BY <3>1 DEF IInv, HeldAreLive
    <3> QED  BY <3>1, <3>2, <3>3, <1>3
  <2> QED  BY <2>1, <2>2 DEF HeldAreLive
<1>6. NoFreeNeighbours'
  <2>1. START_ADDR # NULL
    BY HeapAssumption
  <2>2. \A c \in DOMAIN block' : c >= START_ADDR
    BY <1>3, HeapAssumption DEF ListOK, Tiled, Inside
  <2> QED  BY <2>1, <2>2, <1>2 DEF NoFreeNeighbours
<1>7. PassedTooSmall'
  BY <1>2 DEF PassedTooSmall
<1> QED  BY <1>3, <1>4, <1>5, <1>6, <1>7 DEF IInv

\* free joins a block with its successor.
LEMMA JoinKeeps == IInv /\ Join => IInv'
<1> SUFFICES ASSUME IInv, Join PROVE IInv'
  OBVIOUS
<1>b. PICK b, n : b = cur /\ n = block[cur].next
  OBVIOUS
<1>1. /\ ListOK /\ Tiled /\ b \in DOMAIN block /\ n # NULL
      /\ block[b].free /\ block[n].free /\ pc = "join"
      /\ block' = Joined(b)
      /\ UNCHANGED <<cur, pc, want, old, ret, held>>
  BY <1>b DEF IInv, TypeOK, ListOK, Join, Joining, Joinable
<1>2. /\ n \in DOMAIN block /\ n # b /\ b < n
      /\ DOMAIN block' = DOMAIN block \ {n}
      /\ block'[b].free = TRUE
      /\ block'[b].next = block[n].next
      /\ \A c \in DOMAIN block \ {b, n} : block'[c] = block[c]
      /\ ListOK'
      /\ Tiled'
  <2>1. /\ n = block[b].next /\ n # NULL /\ b \in DOMAIN block
        /\ ListOK /\ Tiled /\ block' = Joined(b)
    BY <1>b, <1>1
  <2>2. /\ n \in DOMAIN block /\ n # b /\ b < n
        /\ DOMAIN block' = DOMAIN block \ {n}
        /\ block'[b].free = TRUE
        /\ block'[b].next = block[n].next
    BY <2>1, JoinTiles
  <2>3. \A c \in DOMAIN block \ {b, n} : block'[c] = block[c]
    BY <2>1, JoinTiles
  <2>4. ListOK'
    BY <2>1, JoinTiles
  <2>5. Tiled'
    BY <2>1, JoinTiles
  <2> QED  BY <2>2, <2>3, <2>4, <2>5
<1>3. TypeOK'
  BY <1>b, <1>1, <1>2 DEF IInv, TypeOK, ListOK
<1>4. HeldAreLive'
  <2>1. \A c \in DOMAIN block' : ~ block'[c].free => c + HDR \in DOMAIN held'
    BY <1>1, <1>2 DEF IInv, HeldAreLive
  <2>2. \A p \in DOMAIN held' : /\ p - HDR \in DOMAIN block'
                                /\ ~ block'[p - HDR].free
                                /\ block'[p - HDR].size >= held'[p]
    BY <1>1, <1>2 DEF IInv, HeldAreLive
  <2> QED  BY <2>1, <2>2 DEF HeldAreLive
<1>5. NoFreeNeighbours'
  <2> SUFFICES ASSUME NEW c \in DOMAIN block', block'[c].next # NULL, Joinable(c)'
               PROVE  c >= b
    BY <1>b, <1>1, HeapAssumption DEF NoFreeNeighbours, IInv, TypeOK
  <2>0. block'[c].free /\ block'[block'[c].next].free
    BY DEF Joinable
  <2>1. CASE c = b
    BY <2>1, <1>1, Lengths
  <2>2. CASE c # b
    <3>1. c \in DOMAIN block \ {b, n} /\ block'[c] = block[c]
      BY <2>2, <1>2
    <3>2. block[c].next \in DOMAIN block /\ block[c].next \in DOMAIN block'
      BY <3>1, <1>1, <1>2 DEF Tiled, Linked
    <3>3. block[block[c].next].free
      BY <2>0, <3>1, <3>2, <1>1, <1>2
    <3> QED  BY <2>0, <3>1, <3>3, <1>b DEF IInv, NoFreeNeighbours, Joinable
  <2> QED  BY <2>1, <2>2
<1>6. PassedTooSmall'
  BY <1>1 DEF PassedTooSmall
<1> QED  BY <1>2, <1>3, <1>4, <1>5, <1>6 DEF IInv

\* free moves on to the next block.
LEMMA AdvanceKeeps == IInv /\ Advance => IInv'
<1> SUFFICES ASSUME IInv, Advance PROVE IInv'
  OBVIOUS
<1>1. /\ ListOK /\ Tiled /\ cur \in DOMAIN block /\ block[cur].next # NULL
      /\ ~ Joinable(cur) /\ cur' = block[cur].next /\ pc = "join"
      /\ UNCHANGED <<block, pc, want, old, ret, held>>
  BY DEF IInv, TypeOK, ListOK, Advance, Joining
<1>2. block[cur].next \in DOMAIN block
  BY <1>1 DEF Tiled, Linked
<1>3. TypeOK'
  BY <1>1, <1>2 DEF IInv, TypeOK
<1>4. Tiled'
  BY <1>1 DEF Tiled, Linked, Disjoint, Inside, Covering, EndOf, ArenaEnd
<1>5. HeldAreLive' /\ PassedTooSmall'
  BY <1>1 DEF IInv, HeldAreLive, PassedTooSmall
<1>6. NoFreeNeighbours'
  <2> SUFFICES ASSUME NEW c \in DOMAIN block, block[c].next # NULL, Joinable(c)
               PROVE  c >= block[cur].next
    BY <1>1 DEF NoFreeNeighbours, Joinable
  <2>1. c >= cur /\ c # cur
    BY <1>1 DEF IInv, NoFreeNeighbours
  <2>2. ~ (c = cur \/ c < cur)
    BY <2>1, <1>1, Lengths
  <2>3. ~ (c < block[cur].next)
    BY <2>2, <1>1, BelowSuccessor
  <2> QED  BY <2>3, <1>1, <1>2 DEF ListOK
<1> QED  BY <1>3, <1>4, <1>5, <1>6 DEF IInv

\* The loop of free is over.
LEMMA FreedKeeps == IInv /\ Freed => IInv'
<1> SUFFICES ASSUME IInv, Freed PROVE IInv'
  OBVIOUS
<1>1. /\ ListOK /\ Tiled /\ pc = "join" /\ cur' = NULL /\ pc' = "idle"
      /\ cur = NULL \/ (cur \in DOMAIN block /\ block[cur].next = NULL)
      /\ UNCHANGED <<block, want, old, ret, held>>
  BY DEF IInv, TypeOK, ListOK, Freed, Joining
<1>2. TypeOK'
  BY <1>1 DEF IInv, TypeOK
<1>3. Tiled'
  BY <1>1 DEF Tiled, Linked, Disjoint, Inside, Covering, EndOf, ArenaEnd
<1>4. HeldAreLive' /\ PassedTooSmall'
  BY <1>1 DEF IInv, HeldAreLive, PassedTooSmall
<1>5. NoFreeNeighbours'
  <2> SUFFICES ASSUME NEW c \in DOMAIN block, block[c].next # NULL, Joinable(c)
               PROVE  FALSE
    BY <1>1 DEF NoFreeNeighbours, Joinable
  <2>1. cur # NULL /\ c >= cur
    BY DEF IInv, NoFreeNeighbours
  <2>2. c # cur
    BY <2>1, <1>1
  <2>3. ~ (c = cur \/ c < cur)
    BY <2>1, <2>2, <1>1, Lengths
  <2> QED  BY <2>1, <2>3, <1>1, BelowSuccessor
<1> QED  BY <1>2, <1>3, <1>4, <1>5 DEF IInv

\* Every step of the heap preserves the invariant.
LEMMA HeapNext == IInv /\ [Next]_vars => IInv'
<1> SUFFICES ASSUME IInv, [Next]_vars PROVE IInv'
  OBVIOUS
<1>1. ASSUME NEW n \in Sizes, malloc(n)
      PROVE  IInv'
  <2>1. old = NULL
    BY <1>1 DEF malloc, IInv, TypeOK
  <2> QED  BY <1>1, <2>1, SearchStarts DEF malloc
<1>2. ASSUME NEW p \in DOMAIN held, NEW n \in Sizes, realloc(p, n)
      PROVE  IInv'
  BY <1>2, SearchStarts DEF realloc
<1>3. ASSUME NEW p \in DOMAIN held, free(p)
      PROVE  IInv'
  <2>1. old = NULL
    BY <1>3 DEF free, IInv, TypeOK
  <2> QED  BY <1>3, <2>1, MarkKeeps DEF free
<1>4. CASE FreeOld
  <2>1. old \in DOMAIN held
    BY <1>4 DEF FreeOld, IInv, TypeOK
  <2> QED  BY <1>4, <2>1, MarkKeeps DEF FreeOld
<1>5. CASE UNCHANGED vars
  BY <1>5
  DEF vars, IInv, TypeOK, Tiled, Linked, Disjoint, Inside, Covering, EndOf, ArenaEnd,
      HeldAreLive, NoFreeNeighbours, Joinable, PassedTooSmall
<1> QED
  BY <1>1, <1>2, <1>3, <1>4, <1>5, TryNextKeeps, TakeKeeps, NoFitKeeps,
     JoinKeeps, AdvanceKeeps, FreedKeeps
  DEF Next, Loop, Call

\* The arena is tiled for ever: no sequence of mallocs, reallocs and frees
\* makes two blocks overlap or loses a byte.
THEOREM HeapTiled == Spec => []Tiled
<1>1. IInv => Tiled
  BY DEF IInv
<1> QED  BY <1>1, HeapInit, HeapNext, PTL DEF Spec

\* Type correctness.
THEOREM HeapTypeCorrect == Spec => []TypeOK
<1>1. IInv => TypeOK
  BY DEF IInv
<1> QED  BY <1>1, HeapInit, HeapNext, PTL DEF Spec

\* The blocks in use are exactly those somebody holds.
THEOREM HeapHeldAreLive == Spec => []HeldAreLive
<1>1. IInv => HeldAreLive
  BY DEF IInv
<1> QED  BY <1>1, HeapInit, HeapNext, PTL DEF Spec

\* free leaves no two free blocks side by side, but for those its loop is still to
\* reach: a request is never refused for want of a join.
THEOREM HeapNoFreeNeighbours == Spec => []NoFreeNeighbours
<1>1. IInv => NoFreeNeighbours
  BY DEF IInv
<1> QED  BY <1>1, HeapInit, HeapNext, PTL DEF Spec

\* When nothing is held any more, the heap is the single free block that
\* init_malloc made: no sequence of calls fragments it for good.
THEOREM HeapNothingLost == Spec => []NothingLost
<1>1. IInv => NothingLost
  <2> SUFFICES ASSUME IInv, pc = "idle", DOMAIN held = {}
               PROVE  init_malloc
    BY DEF NothingLost
  <2>1. ListOK /\ Tiled /\ START_ADDR \in DOMAIN block
    BY DEF IInv, TypeOK, ListOK
  <2>2. \A b \in DOMAIN block : block[b].free
    BY DEF IInv, HeldAreLive
  <2>3. \A b \in DOMAIN block : block[b].next = NULL
    <3> SUFFICES ASSUME NEW b \in DOMAIN block, block[b].next # NULL
                 PROVE  FALSE
      OBVIOUS
    <3>1. block[b].next \in DOMAIN block
      BY <2>1 DEF Tiled, Linked
    <3> QED  BY <2>2, <3>1 DEF IInv, NoFreeNeighbours, Joinable
  <2>4. DOMAIN block = {START_ADDR}
    <3> SUFFICES ASSUME NEW c \in DOMAIN block PROVE c = START_ADDR
      BY <2>1
    <3>1. c = START_ADDR \/ c < START_ADDR
      BY <2>1, <2>3, BelowSuccessor
    <3> QED  BY <3>1, <2>1, HeadIsLowest
  <2>5. block[START_ADDR].size = INITIAL_SIZE
    <3>1. EndOf(START_ADDR) = ArenaEnd
      BY <2>1, <2>3 DEF Tiled, Linked
    <3> QED  BY <3>1, <2>1, HeapAssumption, Lengths DEF ArenaEnd
  <2>6. block[START_ADDR] = [size |-> INITIAL_SIZE, free |-> TRUE, next |-> NULL]
    BY <2>1, <2>2, <2>3, <2>5 DEF ListOK, Block
  <2>7. block = [b \in DOMAIN block |-> block[b]]
    BY <2>1 DEF ListOK
  <2> QED  BY <2>4, <2>6, <2>7 DEF init_malloc
<1> QED  BY <1>1, HeapInit, HeapNext, PTL DEF Spec
-----------------------------------------------------------------------------
\* A block that is in use meets every extent that reaches into it.
LEMMA LiveBlocks ==
  ASSUME IInv, NEW b \in DOMAIN block, ~ block[b].free, NEW a \in Nat, NEW len \in Nat,
         a < EndOf(b), b < a + len
  PROVE  ~ Arena!Vacant(a, len)
<1> DEFINE e == [addr |-> b, len |-> EndOf(b) - b]
<1>1. e \in Extents /\ e.addr = b /\ e.len = EndOf(b) - b
  BY DEF Extents
<1>2. ListOK
  BY DEF IInv, TypeOK, ListOK
<1>3. b \in Nat /\ EndOf(b) \in Nat
  BY <1>2, Lengths
<1>4. ~ (a + len <= b) /\ ~ (b + (EndOf(b) - b) <= a)
  BY <1>3
<1> HIDE DEF e
<1> QED  BY <1>1, <1>4 DEF Arena!Vacant

\* A place the search has passed has no room for what it is looking for.
LEMMA NoRoomBelow ==
  ASSUME IInv, pc = "walk", NEW a \in START_ADDR .. ArenaEnd,
         cur = NULL \/ a < cur
  PROVE  ~ Arena!RoomAt(a, want)
<1> SUFFICES ASSUME a + HDR + want <= ArenaEnd, Arena!Vacant(a, HDR + want)
             PROVE  FALSE
  BY DEF Arena!RoomAt
<1>1. /\ HDR \in Nat /\ HDR > 0 /\ want \in Nat /\ START_ADDR \in Nat
      /\ a \in Nat /\ ArenaEnd \in Nat
  BY HeapAssumption DEF IInv, TypeOK, ArenaEnd
<1>2. ListOK /\ Tiled /\ cur \in DOMAIN block \cup {NULL}
  BY DEF IInv, TypeOK, ListOK
<1>3. a \in START_ADDR .. ArenaEnd - 1
  BY <1>1
<1>4. PICK b \in DOMAIN block : b <= a /\ a < EndOf(b)
  BY <1>2, <1>3 DEF Tiled, Covering
<1>5. /\ b \in Nat /\ block[b].size \in Nat
      /\ EndOf(b) = b + HDR + block[b].size /\ EndOf(b) \in Nat
  BY <1>2, Lengths
<1>6. block[b].free
  <2> SUFFICES ASSUME ~ block[b].free PROVE FALSE
    OBVIOUS
  <2>1. b < a + (HDR + want) /\ HDR + want \in Nat
    BY <1>1, <1>4, <1>5
  <2> QED  BY <2>1, <1>1, <1>4, LiveBlocks
<1>7. cur = NULL \/ b < cur
  BY <1>1, <1>2, <1>4, <1>5 DEF ListOK
<1>8. block[b].size < want
  BY <1>6, <1>7 DEF IInv, PassedTooSmall
<1>9. EndOf(b) < a + HDR + want
  BY <1>1, <1>4, <1>5, <1>8
<1>10. block[b].next # NULL
  BY <1>1, <1>2, <1>5, <1>9 DEF Tiled, Linked
<1>11. PICK c : c = block[b].next /\ c \in DOMAIN block /\ c = EndOf(b)
  BY <1>2, <1>10 DEF Tiled, Linked
<1>12. ~ block[c].free
  BY <1>6, <1>10, <1>11 DEF IInv, NoFreeNeighbours, Joinable
<1>13. c \in Nat /\ c < EndOf(c) /\ EndOf(c) \in Nat
  BY <1>2, <1>11, Lengths
<1>14. a < EndOf(c) /\ c < a + (HDR + want) /\ HDR + want \in Nat
  BY <1>1, <1>4, <1>5, <1>9, <1>11, <1>13
<1> QED  BY <1>1, <1>11, <1>12, <1>14, LiveBlocks

\* How the extents in use change when a block is taken.
LEMMA TakeExtents ==
  ASSUME IInv, Take, NEW b, b = cur
  PROVE  Extents' = Extents \cup {[addr |-> b, len |-> HDR + block'[b].size]}
<1>1. /\ b \in DOMAIN block /\ block[b].free
      /\ ListOK' /\ DOMAIN block \subseteq DOMAIN block'
      /\ block'[b].free = FALSE
      /\ \A c \in DOMAIN block \ {b} : block'[c] = block[c]
      /\ \A c \in DOMAIN block' \ DOMAIN block : block'[c].free
  BY TakeEffect
<1>2. \A c \in DOMAIN block \ {b} : EndOf(c)' = EndOf(c)
  BY <1>1 DEF EndOf
<1>3. EndOf(b)' - b = HDR + block'[b].size
  <2>1. b \in Nat /\ block'[b].size \in Nat /\ HDR \in Nat
    BY <1>1, HeapAssumption DEF ListOK, Block
  <2>2. EndOf(b)' = b + HDR + block'[b].size
    BY DEF EndOf
  <2> QED  BY <2>1, <2>2
<1>4. {c \in DOMAIN block' : ~ block'[c].free} = {c \in DOMAIN block : ~ block[c].free} \cup {b}
  BY <1>1
<1>5. b \notin {c \in DOMAIN block : ~ block[c].free}
  BY <1>1
<1>6. Extents' = {[addr |-> c, len |-> EndOf(c)' - c] : c \in {d \in DOMAIN block' : ~ block'[d].free}}
  BY DEF Extents
<1>7. Extents = {[addr |-> c, len |-> EndOf(c) - c] : c \in {d \in DOMAIN block : ~ block[d].free}}
  BY DEF Extents
<1> DEFINE used == {d \in DOMAIN block : ~ block[d].free}
           late == {[addr |-> c, len |-> EndOf(c)' - c] : c \in used}
<1>8. Extents' = late \cup {[addr |-> b, len |-> EndOf(b)' - b]}
  BY <1>4, <1>6
<1>9. late = {[addr |-> c, len |-> EndOf(c) - c] : c \in used}
  <2>1. \A c \in used : [addr |-> c, len |-> EndOf(c)' - c] = [addr |-> c, len |-> EndOf(c) - c]
    BY <1>2, <1>5
  <2> QED  BY <2>1
<1> QED  BY <1>3, <1>7, <1>8, <1>9

\* A block taken is a place granted.
LEMMA TakeGrants == IInv /\ Take => Arena!Grant
<1> SUFFICES ASSUME IInv, Take PROVE Arena!Grant
  OBVIOUS
<1>b. PICK b : b = cur
  OBVIOUS
<1>1. /\ b \in DOMAIN block /\ block[b].free /\ block[b].size >= want
      /\ pc = "walk" /\ want \in Nat
      /\ ListOK' /\ b \in DOMAIN block'
      /\ block'[b].size >= want
  BY <1>b, TakeEffect
<1>2. ListOK /\ Tiled
  BY DEF IInv, TypeOK, ListOK
<1>3. /\ HDR \in Nat /\ HDR > 0 /\ MARGIN \in Nat /\ NULL \notin Int
      /\ b \in Nat /\ block[b].size \in Nat /\ block'[b].size \in Nat
      /\ EndOf(b) = b + HDR + block[b].size /\ EndOf(b) \in Nat
      /\ START_ADDR \in Nat /\ ArenaEnd \in Nat
  BY <1>1, <1>2, Lengths, HeapAssumption DEF ListOK, Block, ArenaEnd
<1> DEFINE slack == block'[b].size - want
<1>4. /\ slack \in 0 .. HDR + MARGIN - 1
      /\ want + slack = block'[b].size
      /\ b + HDR + block'[b].size <= EndOf(b)
  <2>1. CASE WorthSplitting(b)
    <3>1. block' = Split(b)
      BY <2>1, <1>b DEF Take
    <3>2. block'[b] = [size |-> want, free |-> FALSE, next |-> b + HDR + want]
      BY <1>1, <1>2, <2>1, <3>1, SplitTiles
    <3> QED  BY <1>1, <1>3, <2>1, <3>2 DEF WorthSplitting
  <2>2. CASE ~ WorthSplitting(b)
    <3>1. block'[b].size = block[b].size
      BY <1>1, <2>2, <1>b DEF Take, SetFree
    <3> QED  BY <1>1, <1>3, <2>2, <3>1 DEF WorthSplitting
  <2> QED  BY <2>1, <2>2
<1>5. START_ADDR <= b /\ EndOf(b) <= ArenaEnd
  BY <1>1, <1>2 DEF Tiled, Inside
<1>6. b \in START_ADDR .. ArenaEnd
  BY <1>3, <1>4, <1>5
<1>7. Arena!RoomAt(b, block'[b].size)
  <2>1. Arena!Vacant(b, HDR + block'[b].size)
    <3> SUFFICES ASSUME NEW c \in DOMAIN block, ~ block[c].free
                 PROVE  b + (HDR + block'[b].size) <= c \/ c + (EndOf(c) - c) <= b
      BY DEF Arena!Vacant, Extents
    <3>1. c # b /\ c \in Nat /\ EndOf(c) \in Nat
      BY <1>1, <1>2, Lengths
    <3>2. c < b => EndOf(c) <= b
      BY <1>1, <1>2 DEF Tiled, Disjoint
    <3>3. b < c => EndOf(b) <= c
      BY <1>1, <1>2 DEF Tiled, Disjoint
    <3> QED  BY <1>3, <1>4, <3>1, <3>2, <3>3
  <2>2. b + HDR + block'[b].size <= ArenaEnd
    BY <1>3, <1>4, <1>5
  <2> QED  BY <2>1, <2>2, <1>5 DEF Arena!RoomAt
<1>8. \A a \in START_ADDR .. b - 1 : ~ Arena!RoomAt(a, want)
  <2> SUFFICES ASSUME NEW a \in START_ADDR .. b - 1 PROVE ~ Arena!RoomAt(a, want)
    OBVIOUS
  <2>1. a < b /\ a \in START_ADDR .. ArenaEnd
    BY <1>3, <1>6
  <2> QED  BY <2>1, <1>b, <1>1, NoRoomBelow
<1>9. /\ Extents' = Extents \cup {[addr |-> b, len |-> HDR + block'[b].size]}
      /\ ret' = b + HDR
      /\ pc' # "walk"
  BY <1>b, TakeExtents DEF Take
<1> HIDE DEF slack
<1>10. HDR + want + slack = HDR + block'[b].size
  <2>1. slack \in Int
    BY <1>4
  <2> QED  BY <1>1, <1>3, <1>4, <2>1
<1>11. want # NULL
  BY <1>1, <1>3
<1> QED  BY <1>1, <1>4, <1>6, <1>7, <1>8, <1>9, <1>10, <1>11 DEF Arena!Grant

\* malloc, realloc and free implement the arena they promise to be.
THEOREM HeapImplementsSpec == Spec => ImplementsHeapSpec
<1>1. Init => Arena!Init
  <2> SUFFICES ASSUME Init PROVE Arena!Init
    OBVIOUS
  <2>1. \A b \in DOMAIN block : block[b].free
    BY DEF Init, init_malloc
  <2>2. Extents = {}
    BY <2>1 DEF Extents
  <2> QED  BY <2>2 DEF Init, Arena!Init
<1>2. IInv /\ [Next]_vars => [Arena!Next]_(Arena!vars)
  <2> SUFFICES ASSUME IInv, [Next]_vars
               PROVE  Arena!Next \/ UNCHANGED Arena!vars
    BY DEF Arena!vars
  <2>0. NULL \notin Nat /\ want \in Nat
    BY HeapAssumption DEF IInv, TypeOK
  <2>1. CASE Take
    BY <2>1, TakeGrants DEF Arena!Next
  <2>2. CASE NoFit
    <3>1. /\ pc = "walk" /\ cur = NULL /\ ret' = NULL /\ pc' = "idle"
          /\ Extents' = Extents
      BY <2>2 DEF NoFit, Extents, EndOf
    <3>2. \A a \in START_ADDR .. ArenaEnd : ~ Arena!RoomAt(a, want)
      BY <3>1, NoRoomBelow
    <3> QED  BY <2>0, <3>1, <3>2 DEF Arena!Refuse, Arena!Next
  <2>3. ASSUME NEW n \in Sizes, malloc(n)
        PROVE  Arena!Request
    <3>1. Extents' = Extents
      BY <2>3 DEF malloc, Extents, EndOf
    <3> QED  BY <2>3, <3>1 DEF malloc, Arena!Request
  <2>4. ASSUME NEW p \in DOMAIN held, NEW n \in Sizes, realloc(p, n)
        PROVE  Arena!Request
    <3>1. Extents' = Extents
      BY <2>4 DEF realloc, Extents, EndOf
    <3> QED  BY <2>4, <3>1 DEF realloc, Arena!Request
  <2>5. ASSUME NEW p \in DOMAIN held, Mark(p), ret' = ret, pc # "walk"
        PROVE  Arena!Release
    <3>b. PICK b : b = p - HDR
      OBVIOUS
    <3>1. /\ b \in DOMAIN block /\ ~ block[b].free /\ ListOK /\ Tiled
          /\ block' = SetFree(b, TRUE) /\ pc' = "join"
      BY <3>b, <2>5 DEF Mark, IInv, HeldAreLive, TypeOK, ListOK
    <3>2. /\ DOMAIN block' = DOMAIN block
          /\ \A c \in DOMAIN block : /\ block'[c].free = IF c = b THEN TRUE ELSE block[c].free
                                     /\ EndOf(c)' = EndOf(c)
      BY <3>1, FlagTiles
    <3> DEFINE e == [addr |-> b, len |-> EndOf(b) - b]
    <3>3. e \in Extents
      BY <3>1 DEF Extents
    <3> DEFINE used == {c \in DOMAIN block : ~ block[c].free}
    <3>4. {c \in DOMAIN block' : ~ block'[c].free} = used \ {b}
      BY <3>2
    <3>5. Extents' = {[addr |-> c, len |-> EndOf(c)' - c] : c \in used \ {b}}
      BY <3>4 DEF Extents
    <3>6. Extents' = {[addr |-> c, len |-> EndOf(c) - c] : c \in used \ {b}}
      BY <3>2, <3>5
    <3>7. Extents = {[addr |-> c, len |-> EndOf(c) - c] : c \in used}
      BY DEF Extents
    <3>8. Extents' = Extents \ {e}
      <4> HIDE DEF used
      <4>1. \A c, d : [addr |-> c, len |-> EndOf(c) - c] = [addr |-> d, len |-> EndOf(d) - d]
                     => c = d
        BY SMT
      <4> QED  BY <3>6, <3>7, <4>1
    <3> QED  BY <2>5, <3>1, <3>3, <3>8 DEF Arena!Release
  <2>6. ASSUME NEW p \in DOMAIN held, free(p)
        PROVE  Arena!Next
    BY <2>5, <2>6 DEF free, Arena!Next
  <2>7. CASE FreeOld
    <3>1. old \in DOMAIN held /\ Mark(old) /\ ret' = ret /\ pc # "walk"
      BY <2>7 DEF FreeOld, IInv, TypeOK
    <3> QED  BY <2>5, <3>1 DEF Arena!Next
  <2>8. CASE Join
    <3>b. PICK b, n : b = cur /\ n = block[cur].next
      OBVIOUS
    <3>1. /\ ListOK /\ Tiled /\ b \in DOMAIN block /\ n # NULL /\ n = block[b].next
          /\ block' = Joined(b)
      BY <3>b, <2>8 DEF Join, Joining, IInv, TypeOK, ListOK
    <3>2. block[b].free /\ block[n].free
      BY <3>b, <2>8 DEF Join, Joinable
    <3>3. /\ n \in DOMAIN block
          /\ DOMAIN block' = DOMAIN block \ {n}
          /\ block'[b].free = TRUE
          /\ \A c \in DOMAIN block \ {b, n} : block'[c] = block[c]
      BY <3>1, JoinTiles
    <3>4. {c \in DOMAIN block' : ~ block'[c].free} = {c \in DOMAIN block : ~ block[c].free}
      BY <3>2, <3>3
    <3>5. \A c \in DOMAIN block : ~ block[c].free => EndOf(c)' = EndOf(c)
      BY <3>2, <3>3 DEF EndOf
    <3>6. Extents' = Extents
      BY <3>4, <3>5 DEF Extents
    <3> QED  BY <2>8, <3>6 DEF Join, Joining, Arena!vars
  <2>9. CASE TryNext \/ Advance \/ Freed
    <3>1. Extents' = Extents
      BY <2>9 DEF TryNext, Advance, Freed, Extents, EndOf
    <3> QED  BY <2>9, <3>1 DEF TryNext, Advance, Freed, Joining, Arena!vars
  <2>10. CASE UNCHANGED vars
    <3>1. Extents' = Extents
      BY <2>10 DEF vars, Extents, EndOf
    <3> QED  BY <2>10, <3>1 DEF vars, Arena!vars
  <2> QED
    BY <2>1, <2>2, <2>3, <2>4, <2>6, <2>7, <2>8, <2>9, <2>10
    DEF Next, Loop, Call, Arena!Next
<1> QED
  BY <1>1, <1>2, HeapInit, HeapNext, PTL DEF Spec, ImplementsHeapSpec, Arena!Spec
=============================================================================
