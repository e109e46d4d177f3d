------------------------------ MODULE HeapSpec ------------------------------
(***************************************************************************)
(* What malloc and free of kernel/malloc.c promise: an arena of            *)
(* consecutive addresses, in which a request gets the lowest place that    *)
(* has room for a header and the bytes asked for, never touches what is    *)
(* already handed out, wastes less than a block, and is refused only when  *)
(* there is no such place.  Module Heap is shown to implement this module. *)
(***************************************************************************)
EXTENDS Integers

CONSTANTS Start,   \* first address of the arena
          End,     \* the address after its last one
          HDR,     \* bytes a block needs beside its payload
          MARGIN,  \* the smallest payload worth a block of its own
          Sizes,   \* the payload sizes that are requested
          NULL

VARIABLES live,    \* the extents handed out: [addr, len], header included
          asked,   \* the size being requested, or NULL between requests
          answer   \* the pointer the last request returned, or NULL

vars == <<live, asked, answer>>

\* The extent of len bytes at a meets nothing that is handed out.
Vacant(a, len) == \A e \in live : a + len <= e.addr \/ e.addr + e.len <= a

\* There is room at a for a block of n bytes.
RoomAt(a, n) == /\ a >= Start
                /\ a + HDR + n <= End
                /\ Vacant(a, HDR + n)

Init == live = {} /\ asked = NULL /\ answer = NULL

Request == /\ asked = NULL
           /\ asked' \in Sizes
           /\ UNCHANGED <<live, answer>>

Grant == /\ asked # NULL
         /\ \E a \in Start .. End, slack \in 0 .. HDR + MARGIN - 1 :
              /\ RoomAt(a, asked + slack)
              /\ \A b \in Start .. a - 1 : ~ RoomAt(b, asked)
              /\ live' = live \cup {[addr |-> a, len |-> HDR + asked + slack]}
              /\ answer' = a + HDR
         /\ asked' = NULL

Refuse == /\ asked # NULL
          /\ \A a \in Start .. End : ~ RoomAt(a, asked)
          /\ answer' = NULL
          /\ asked' = NULL
          /\ UNCHANGED live

Release == \E e \in live : /\ live' = live \ {e}
                           /\ UNCHANGED <<asked, answer>>

Next == Request \/ Grant \/ Refuse \/ Release

Spec == Init /\ [][Next]_vars
=============================================================================
