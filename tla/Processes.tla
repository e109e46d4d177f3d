----------------------------- MODULE Processes -----------------------------
(***************************************************************************)
(* What the scheduler of kernel/scheduler.c and kernel/sys/pic.asm         *)
(* promises to the code that runs above it: every task goes through its    *)
(* own program as if it had a processor of its own, and nobody else moves  *)
(* while a task is in a section it runs with interrupts disabled.  The     *)
(* timer, the saved contexts and the run queue do not appear.              *)
(***************************************************************************)
CONSTANT Slot

VARIABLE at   \* where each task is in its program

\* "main" and "mainAta" are the kernel's own task, outside and inside the
\* disk driver.  A task runs ("run"), enters a system call ("gate"), whose
\* handler may enable interrupts ("open") and use the disk ("ata"); it then
\* holds a result with interrupts still disabled ("retMasked") or enabled
\* ("retOpen").  "exit" and "gone" are the two halves of the exit call.
Edge == {<<"main", "mainAta">>, <<"mainAta", "main">>,
         <<"none", "run">>, <<"run", "gate">>,
         <<"gate", "open">>, <<"gate", "ata">>, <<"gate", "retMasked">>,
         <<"open", "ata">>, <<"ata", "open">>, <<"open", "retOpen">>,
         <<"retMasked", "run">>, <<"retOpen", "run">>,
         <<"run", "exit">>, <<"exit", "gone">>, <<"gone", "none">>}

\* The places where interrupts are disabled.
Masked == {"mainAta", "gate", "ata", "retMasked", "exit", "gone"}

Init == at \in [Slot -> {"main", "none"}]

Step(i) == /\ \A j \in Slot \ {i} : at[j] \notin Masked
           /\ \E to \in {e[2] : e \in {f \in Edge : f[1] = at[i]}} :
                at' = [at EXCEPT ![i] = to]

Next == \E i \in Slot : Step(i)

Spec == Init /\ [][Next]_at
=============================================================================
