-------------------------------- MODULE Heap --------------------------------
(***************************************************************************)
(* The kernel heap of kernel/malloc.c: a list of blocks that tile the      *)
(* arena in address order, a first-fit search that splits, and a free that *)
(* walks the whole list and joins neighbours.  One action is one iteration *)
(* of a loop.  The calls are taken one at a time: malloc.c has no lock.    *)
(* Callers free only what they hold.                                       *)
(***************************************************************************)
EXTENDS Integers, Functions

CONSTANTS START_ADDR,    \* address of the first header
          INITIAL_SIZE,  \* what init_malloc writes into its size field
          HDR,           \* sizeof(block_t)
          MARGIN,        \* the smallest payload a split leaves behind
          Sizes,         \* the sizes callers ask for
          NULL

ASSUME HeapAssumption ==
  /\ START_ADDR \in Nat
  /\ INITIAL_SIZE \in Nat
  /\ HDR \in Nat \ {0}
  /\ MARGIN \in Nat
  /\ Sizes \subseteq Nat
  /\ NULL \notin Int

\* A header.
Block == [size : Nat, free : BOOLEAN, next : Nat \cup {NULL}]

VARIABLES block,  \* the headers on the list, a function of their addresses
          cur,    \* the block the running loop looks at
          pc,     \* which loop is running: "idle", "walk", "copy" or "join"
          want,   \* the size asked for
          old,    \* the pointer given to realloc, or NULL
          ret,    \* what the last malloc returned
          held    \* history: the pointers callers hold, with the size asked for

vars == <<block, cur, pc, want, old, ret, held>>

\* Where the block at b ends.
EndOf(b) == b + HDR + block[b].size

\* The end of the only block init_malloc makes.
ArenaEnd == START_ADDR + HDR + INITIAL_SIZE

init_malloc ==
  block = [b \in {START_ADDR} |-> [size |-> INITIAL_SIZE, free |-> TRUE, next |-> NULL]]

Init == /\ init_malloc
        /\ cur = NULL
        /\ pc = "idle"
        /\ want = 0
        /\ old = NULL
        /\ ret = NULL
        /\ held = [p \in {} |-> 0]
\* The list after the flag of block b has been written.
SetFree(b, v) == [block EXCEPT ![b] = [size |-> @.size, free |-> v, next |-> @.next]]
-----------------------------------------------------------------------------
malloc(n) == /\ pc = "idle"
             /\ pc' = "walk"
             /\ cur' = START_ADDR
             /\ want' = n
             /\ UNCHANGED <<block, old, ret, held>>

realloc(p, n) == /\ pc = "idle"
                 /\ p \in DOMAIN held
                 /\ pc' = "walk"
                 /\ cur' = START_ADDR
                 /\ want' = n
                 /\ old' = p
                 /\ UNCHANGED <<block, ret, held>>

Fits(b) == block[b].free /\ block[b].size >= want

\* Mutant: the search goes on to the block after the next one when it can.
NextToTry_Skips(b) == IF block[b].next = NULL THEN NULL ELSE block[block[b].next].next

\* Where the search goes on.
NextToTry(b) == block[b].next

TryNext == /\ pc = "walk"
           /\ cur # NULL
           /\ ~ Fits(cur)
           /\ cur' = NextToTry(cur)
           /\ UNCHANGED <<block, pc, want, old, ret, held>>

WorthSplitting(b) == block[b].size >= want + HDR + MARGIN

\* Mutant: the remainder forgets that its own header takes room.
Split_NoHeader(b) ==
  LET n == b + HDR + want
  IN  [a \in DOMAIN block \cup {n} |->
         IF a = b THEN [size |-> want, free |-> FALSE, next |-> n]
         ELSE IF a = n THEN [size |-> block[b].size - want,
                             free |-> TRUE, next |-> block[b].next]
         ELSE block[a]]

\* The list after block b has been cut to the size wanted and taken.
Split(b) ==
  LET n == b + HDR + want
  IN  [a \in DOMAIN block \cup {n} |->
         IF a = b THEN [size |-> want, free |-> FALSE, next |-> n]
         ELSE IF a = n THEN [size |-> block[b].size - want - HDR,
                             free |-> TRUE, next |-> block[b].next]
         ELSE block[a]]

Take == /\ pc = "walk"
        /\ cur # NULL
        /\ Fits(cur)
        /\ block' = IF WorthSplitting(cur) THEN Split(cur)
                    ELSE SetFree(cur, FALSE)
        /\ ret' = cur + HDR
        /\ held' = [p \in DOMAIN held \cup {cur + HDR} |->
                      IF p = cur + HDR THEN want ELSE held[p]]
        /\ cur' = NULL
        /\ pc' = IF old = NULL THEN "idle" ELSE "copy"
        /\ want' = 0
        /\ UNCHANGED old

\* The end of the list: NULL is returned, and realloc leaves the old block.
NoFit == /\ pc = "walk"
         /\ cur = NULL
         /\ ret' = NULL
         /\ old' = NULL
         /\ pc' = "idle"
         /\ want' = 0
         /\ UNCHANGED <<block, cur, held>>
-----------------------------------------------------------------------------
\* free(p) up to its loop.
Mark(p) == /\ block' = SetFree(p - HDR, TRUE)
           /\ held' = Restrict(held, DOMAIN held \ {p})
           /\ cur' = START_ADDR
           /\ pc' = "join"

free(p) == /\ pc = "idle"
           /\ p \in DOMAIN held
           /\ Mark(p)
           /\ UNCHANGED <<want, old, ret>>

\* realloc has copied the contents and frees the old block.
FreeOld == /\ pc = "copy"
           /\ Mark(old)
           /\ old' = NULL
           /\ UNCHANGED <<want, ret>>

\* The loop of free goes on while there is a block and one after it.
Joining == pc = "join" /\ cur # NULL /\ block[cur].next # NULL

Joinable(b) == block[b].free /\ block[block[b].next].free

\* The list after block b has swallowed its successor.
Joined(b) == LET n == block[b].next
             IN  [a \in DOMAIN block \ {n} |->
                    IF a = b THEN [size |-> block[b].size + HDR + block[n].size,
                                   free |-> TRUE, next |-> block[n].next]
                    ELSE block[a]]

\* Mutant: the loop moves on after joining.
Join_Advances == /\ Joining
                 /\ Joinable(cur)
                 /\ block' = Joined(cur)
                 /\ cur' = block'[cur].next
                 /\ UNCHANGED <<pc, want, old, ret, held>>

Join == /\ Joining
        /\ Joinable(cur)
        /\ block' = Joined(cur)
        /\ UNCHANGED <<cur, pc, want, old, ret, held>>

\* Mutant: the loop only joins.
Advance_Stuck == /\ Joining
                 /\ ~ Joinable(cur)
                 /\ UNCHANGED vars

Advance == /\ Joining
           /\ ~ Joinable(cur)
           /\ cur' = block[cur].next
           /\ UNCHANGED <<block, pc, want, old, ret, held>>

Freed == /\ pc = "join"
         /\ ~ Joining
         /\ pc' = "idle"
         /\ cur' = NULL
         /\ UNCHANGED <<block, want, old, ret, held>>

\* The loops, and the calls.
Loop == TryNext \/ Take \/ NoFit \/ FreeOld \/ Join \/ Advance \/ Freed

Call == \/ \E n \in Sizes : malloc(n)
        \/ \E p \in DOMAIN held, n \in Sizes : realloc(p, n)
        \/ \E p \in DOMAIN held : free(p)

Next == Loop \/ Call

Spec == Init /\ [][Next]_vars

\* The processor runs the loop it is in.
FairSpec == Spec /\ WF_vars(Loop)
-----------------------------------------------------------------------------
TypeOK == /\ DOMAIN block \subseteq Nat
          /\ START_ADDR \in DOMAIN block
          /\ block \in [DOMAIN block -> Block]
          /\ cur \in DOMAIN block \cup {NULL}
          /\ pc \in {"idle", "walk", "copy", "join"}
          /\ want \in Nat
          /\ DOMAIN held \subseteq Nat
          /\ held \in [DOMAIN held -> Nat]
          /\ old \in DOMAIN held \cup {NULL}
          /\ ret \in Nat \cup {NULL}
          /\ pc = "copy" => old # NULL
          /\ pc \in {"idle", "join"} => old = NULL

\* A block ends where its successor begins, the last one where the arena ends.
Linked == \A b \in DOMAIN block : IF block[b].next = NULL
                                  THEN EndOf(b) = ArenaEnd
                                  ELSE /\ block[b].next \in DOMAIN block
                                       /\ EndOf(b) = block[b].next

Disjoint == \A b, c \in DOMAIN block : b < c => EndOf(b) <= c

Inside == \A b \in DOMAIN block : START_ADDR <= b /\ EndOf(b) <= ArenaEnd

Covering == \A x \in START_ADDR .. ArenaEnd - 1 :
              \E b \in DOMAIN block : b <= x /\ x < EndOf(b)

\* The blocks on the list tile the arena in address order: however calls
\* split and join them, no byte is lost and none belongs to two blocks.
Tiled == Linked /\ Disjoint /\ Inside /\ Covering

\* The blocks in use are those somebody holds, each at least as large as
\* asked; with Tiled, no two holders ever share a byte.
HeldAreLive ==
  /\ \A b \in DOMAIN block : ~ block[b].free => b + HDR \in DOMAIN held
  /\ \A p \in DOMAIN held : /\ p - HDR \in DOMAIN block
                            /\ ~ block[p - HDR].free
                            /\ block[p - HDR].size >= held[p]

\* Two free neighbours are left over only ahead of the loop of free, so that
\* between calls there are none.
NoFreeNeighbours ==
  \A b \in DOMAIN block :
    block[b].next # NULL /\ Joinable(b) => pc = "join" /\ cur # NULL /\ b >= cur

\* When everything has been given back, the heap is one block again.
NothingLost == pc = "idle" /\ DOMAIN held = {} => init_malloc

\* Every call returns: neither loop can go round in circles.
CallsReturn == pc # "idle" ~> pc = "idle"

\* The search has found nothing that fits in the blocks it has passed.
PassedTooSmall ==
  pc = "walk" => \A b \in DOMAIN block :
                   block[b].free /\ (cur = NULL \/ b < cur) => block[b].size < want

\* The inductive invariant.
IInv == TypeOK /\ Tiled /\ HeldAreLive /\ NoFreeNeighbours /\ PassedTooSmall

Extents == {[addr |-> b, len |-> EndOf(b) - b] : b \in {c \in DOMAIN block : ~ block[c].free}}

\* malloc and free implement HeapSpec: the lowest place with room is taken,
\* and NULL is returned only when there is none.
Arena == INSTANCE HeapSpec WITH Start <- START_ADDR,
                                End <- ArenaEnd,
                                live <- Extents,
                                asked <- IF pc = "walk" THEN want ELSE NULL,
                                answer <- ret

ImplementsHeapSpec == Arena!Spec

\* README.md, "Malloc memory ... 256 Mbytes": no caller is given a byte outside
\* the INITIAL_SIZE bytes that start at START_ADDR.
PayloadsInRegion ==
  \A p \in DOMAIN held : p + held[p] <= START_ADDR + INITIAL_SIZE
=============================================================================
