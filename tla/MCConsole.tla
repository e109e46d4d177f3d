----------------------------- MODULE MCConsole -----------------------------
(***************************************************************************)
(* Console with main and two programs.  Either only the first one reads,   *)
(* lines of any length and with every key, or both do, and read lines of a *)
(* single character.                                                       *)
(***************************************************************************)
EXTENDS Console

VARIABLE both

MCInit == both \in BOOLEAN /\ Init

\* While a program that does not read has the processor, one character and one
\* erasure stand for all.
KeyMayCome(k) == IF both THEN k \in {"ENTER", "LETTER"}
                         ELSE ctx = 2 => k \in {"ENTER", "BACKSPACE"}

MCNext ==
  /\ UNCHANGED both
  /\ \/ \E k \in Keys : KeyMayCome(k) /\ handle_keyboard(k)
     \/ Tick
     \/ \E p \in IF both THEN Reader ELSE {1} :
          Step(p) \/ \E n \in IF both THEN {1} ELSE Lens : Read(p, n)

MCSpec == MCInit /\ [][MCNext]_<<vars, both>> /\ Fairness
=============================================================================
