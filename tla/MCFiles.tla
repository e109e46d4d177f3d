------------------------------ MODULE MCFiles ------------------------------
(***************************************************************************)
(* A small volume for module Files: one file that fills its only cluster,  *)
(* one with a chain of two that does not fill the second, an empty one,    *)
(* the free clusters 4 and 6, and an entry of the table without a cluster. *)
(* Either main is alone and calls what it likes, or two processes compete, *)
(* with calls that have to go on to a second cluster.                      *)
(***************************************************************************)
EXTENDS Files

CONSTANTS full, partial, empty, main

MCFile == {full, partial, empty}

MCChains == [c \in FatEntry |-> CASE c = 2 -> 65535
                                 [] c = 3 -> 5
                                 [] c = 5 -> 65535
                                 [] OTHER -> 0]

MCEntries == [f \in MCFile |-> CASE f = full -> [cluster |-> 2, filesize |-> 2]
                                 [] f = partial -> [cluster |-> 3, filesize |-> 3]
                                 [] OTHER -> [cluster |-> 0, filesize |-> 0]]

VARIABLE alone

MCInit == /\ Init
          /\ alone \in BOOLEAN
          /\ alone => \A p \in Proc \ {main} : stream[p] = Fresh(empty)

\* What each of two processes may begin.
Competes(p) == /\ Start(p)
               /\ left'[p] \in {0, 3}
               /\ stream'[p].offset # stream[p].offset => stream'[p].offset \in {0, 1, 3}

MCNext == /\ UNCHANGED alone
          /\ \/ alone /\ (Start(main) \/ Progress(main))
             \/ ~ alone /\ \E p \in Proc : Competes(p) \/ Progress(p)

MCSpec == MCInit /\ [][MCNext]_<<vars, alone>> /\ \A p \in Proc : WF_vars(Progress(p))
=============================================================================
