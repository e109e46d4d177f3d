---------------------------- MODULE FrameSource ----------------------------
(***************************************************************************)
(* What kernel/mmap.c promises to everybody who needs physical memory: a   *)
(* finite stock of page frames, each of which is handed out at most once   *)
(* (the kernel never takes a frame back), and a NULL answer only when the  *)
(* stock is used up.  Module Frames is shown to implement this module.     *)
(***************************************************************************)
CONSTANTS Frame,   \* the page frames that can be handed out
          NULL     \* the answer of a failed allocation

VARIABLES free,    \* the frames nobody holds
          answer   \* what the last allocation returned

vars == <<free, answer>>

TypeOK == /\ free \subseteq Frame
          /\ answer \in Frame \cup {NULL}

Init == /\ free = Frame
        /\ answer = NULL

\* An allocation succeeds with a frame nobody holds ...
Grant == \E f \in free : /\ free' = free \ {f}
                         /\ answer' = f

\* ... and fails only when there is none.
Refuse == /\ free = {}
          /\ answer' = NULL
          /\ UNCHANGED free

Next == Grant \/ Refuse

Spec == Init /\ [][Next]_vars
=============================================================================
