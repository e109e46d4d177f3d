---------------------------- MODULE TaskProofs ----------------------------
(***************************************************************************)
(* Proofs about what is a task's own: its context, which the scheduler     *)
(* saves and restores, and its current directory, which fopen and chdir    *)
(* search.  First the scheduler, for every size of the task table and      *)
(* every number of programs loaded; then the directories, for every volume *)
(* whose directories end and whose "." and ".." lead where they should.    *)
(***************************************************************************)
EXTENDS Scheduler, Directory, FiniteSetTheorems, WellFoundedInduction, TLAPS

\* main's slot exists.
LEMMA ZeroIsSlot == 0 \in Slot
  BY SchedulerAssumption DEF Slot

\* The state init_multitasking sets up satisfies the invariant.
LEMMA SchedulerInit == Init => IInv
<1> SUFFICES ASSUME Init PROVE IInv
  OBVIOUS
<1> USE DEF Init
<1>1. [proc |-> 0, place |-> "main"] \in Context
  BY ZeroIsSlot DEF Context, Place
<1>2. TypeOK
  <2>1. present \in [Slot -> BOOLEAN]
    BY Zenon
  <2>2. loads \in 0 .. LOADS
    BY SchedulerAssumption
  <2> QED  BY <1>1, <2>1, <2>2, ZeroIsSlot DEF TypeOK
<1>3. RunningIsCurrent /\ SomebodyToRun
  BY ZeroIsSlot DEF RunningIsCurrent, SomebodyToRun
<1>4. SuspendedAreResumable /\ OnlyMainIsMain
  BY ZeroIsSlot DEF SuspendedAreResumable, OnlyMainIsMain
<1>5. MaskedCallsExact /\ HandlerOK /\ ResultIsOwn
  BY DEF MaskedCallsExact, HandlerOK, ResultIsOwn
<1> QED  BY <1>2, <1>3, <1>4, <1>5 DEF IInv

\* The next slot is a slot.
LEMMA NextSlotIsSlot ==
  ASSUME TypeOK
  PROVE  NextSlot \in Slot
  BY SchedulerAssumption DEF TypeOK, NextSlot, Slot

\* The timer interrupt and its handler preserve the invariant.
LEMMA TickKeeps == IInv /\ (TimerFires \/ Tick) => IInv'
<1> SUFFICES ASSUME IInv, TimerFires \/ Tick PROVE IInv'
  OBVIOUS
<1> USE DEF IInv
<1>1. CASE TimerFires
  BY <1>1 DEF TimerFires, TypeOK, RunningIsCurrent, SuspendedAreResumable,
      SomebodyToRun, MaskedCallsExact, HandlerOK, OnlyMainIsMain, ResultIsOwn
<1>2. CASE TickEnter
  <2>1. /\ current_task = ctx.proc /\ current_task \in Slot
        /\ ctx.place \notin Masked /\ present[ctx.proc]
        /\ ctx \in Context
    BY <1>2 DEF TickEnter, TickPending, RunningIsCurrent, TypeOK, Masked
  <2>2. esp' = [esp EXCEPT ![ctx.proc] = ctx] /\ handler' = "entered"
    BY <1>2, <2>1 DEF TickEnter, SaveContext
  <2>3. TypeOK'
    BY <1>2, <2>1, <2>2 DEF TickEnter, TypeOK
  <2>4. /\ esp'[ctx.proc] = ctx
        /\ \A i \in Slot \ {ctx.proc} : esp'[i] = esp[i]
    BY <2>1, <2>2 DEF TypeOK
  <2>5. RunningIsCurrent' /\ SomebodyToRun' /\ MaskedCallsExact' /\ ResultIsOwn'
    BY <1>2, <2>2 DEF TickEnter, RunningIsCurrent, SomebodyToRun, MaskedCallsExact, ResultIsOwn
  <2>6. SuspendedAreResumable' /\ OnlyMainIsMain'
    BY <1>2, <2>2, <2>4 DEF TickEnter, SuspendedAreResumable, OnlyMainIsMain
  <2>7. HandlerOK'
    BY <1>2, <2>1, <2>2, <2>4 DEF TickEnter, HandlerOK, RunningIsCurrent, Masked
  <2> QED  BY <2>3, <2>5, <2>6, <2>7
<1>3. CASE handle_tick
  BY <1>3 DEF handle_tick, TypeOK, RunningIsCurrent, SuspendedAreResumable,
      SomebodyToRun, MaskedCallsExact, HandlerOK, OnlyMainIsMain, ResultIsOwn
<1>4. CASE SchedulerSkip
  <2>1. NextSlot \in Slot
    BY NextSlotIsSlot
  <2> QED
    BY <1>4, <2>1 DEF SchedulerSkip, TypeOK, RunningIsCurrent, SuspendedAreResumable,
      SomebodyToRun, MaskedCallsExact, HandlerOK, OnlyMainIsMain, ResultIsOwn
<1>5. CASE SchedulerPick
  <2>1. NextSlot \in Slot
    BY NextSlotIsSlot
  <2>2. /\ cur_task_idx' = NextSlot /\ current_task' = NextSlot
        /\ handler = "picking" /\ handler' = "leaving" /\ present[NextSlot]
        /\ UNCHANGED <<present, esp, ctx, irq0, isr0, ret_val, probe, loads, wrong>>
    BY <1>5 DEF SchedulerPick
  <2>3. TypeOK'
    BY <2>1, <2>2 DEF TypeOK
  <2>4. /\ esp[ctx.proc] = ctx
        /\ (present[ctx.proc] <=> ctx.place # "gone")
        /\ ctx.place \in Masked => ctx.place = "gone"
    BY <2>2 DEF HandlerOK
  <2>5. SuspendedAreResumable'
    <3> SUFFICES ASSUME NEW i \in Slot, present[i]
                 PROVE  esp[i].proc = i /\ esp[i].place \notin Masked
      BY <2>2 DEF SuspendedAreResumable
    <3>1. CASE i = ctx.proc
      BY <2>4, <3>1
    <3>2. CASE i # ctx.proc
      BY <3>2 DEF SuspendedAreResumable
    <3> QED  BY <3>1, <3>2
  <2>6. HandlerOK'
    BY <2>2, <2>4 DEF HandlerOK
  <2> QED
    BY <2>2, <2>3, <2>5, <2>6 DEF RunningIsCurrent, SomebodyToRun, MaskedCallsExact,
      OnlyMainIsMain, ResultIsOwn
<1>6. CASE TickLeave
  <2>1. /\ ctx' = esp[current_task] /\ handler = "leaving" /\ handler' = "off"
        /\ UNCHANGED <<present, esp, cur_task_idx, current_task, irq0, isr0,
                       ret_val, probe, loads, wrong>>
    BY <1>6 DEF TickLeave
  <2>2. /\ current_task = cur_task_idx /\ present[current_task] /\ current_task \in Slot
        /\ esp[ctx.proc] = ctx
    BY <2>1 DEF HandlerOK, TypeOK
  <2>3. esp[current_task].proc = current_task /\ esp[current_task].place \notin Masked
    BY <2>1, <2>2 DEF SuspendedAreResumable
  <2>4. TypeOK'
    BY <2>1, <2>2 DEF TypeOK
  <2>5. RunningIsCurrent' /\ HandlerOK' /\ ResultIsOwn'
    BY <2>1, <2>2, <2>3 DEF RunningIsCurrent, HandlerOK, ResultIsOwn, Masked
  <2>6. SuspendedAreResumable'
    BY <2>1, <2>2, <2>3 DEF SuspendedAreResumable
  <2>7. OnlyMainIsMain'
    <3>1. \A i \in Slot : present[i] => (esp[i].place \in {"main", "mainAta"} <=> i = 0)
      <4> SUFFICES ASSUME NEW i \in Slot, present[i]
                   PROVE  (esp[i].place \in {"main", "mainAta"} <=> i = 0)
        OBVIOUS
      <4>1. CASE i = ctx.proc
        BY <2>2, <4>1 DEF OnlyMainIsMain
      <4>2. CASE i # ctx.proc
        BY <4>2 DEF OnlyMainIsMain
      <4> QED  BY <4>1, <4>2
    <3> QED  BY <2>1, <2>2, <2>3, <3>1 DEF OnlyMainIsMain
  <2> QED
    BY <2>1, <2>4, <2>5, <2>6, <2>7 DEF SomebodyToRun, MaskedCallsExact
<1> QED  BY <1>1, <1>2, <1>3, <1>4, <1>5, <1>6 DEF Tick

\* A step in which the running task, which stays where the invariant lets it
\* be, changes nothing but its own place.
LEMMA GoesKeeps ==
  ASSUME IInv, NEW from \in Place, NEW to \in Place, Goes(from, to),
         from \in {"main", "mainAta"} <=> to \in {"main", "mainAta"},
         from # "gone", to # "gone", to # "retMasked",
         UNCHANGED <<present, esp, cur_task_idx, current_task, handler>>,
         ret_val' \in Slot,
         UNCHANGED <<irq0, isr0, probe, loads>>,
         wrong' \subseteq Place, "retMasked" \notin wrong'
  PROVE  IInv'
<1> USE DEF IInv
<1>1. /\ handler = "off" /\ ctx.place = from /\ ctx \in Context
      /\ ctx' = [ctx EXCEPT !.place = to]
  BY DEF Goes, Runs, TypeOK
<1>2. ctx'.place = to /\ ctx'.proc = ctx.proc /\ ctx' \in Context
  BY <1>1 DEF Context
<1>3. TypeOK'
  BY <1>2 DEF TypeOK
<1>4. RunningIsCurrent' /\ SomebodyToRun'
  BY <1>1, <1>2 DEF RunningIsCurrent, SomebodyToRun
<1>5. SuspendedAreResumable' /\ OnlyMainIsMain'
  BY <1>1, <1>2 DEF SuspendedAreResumable, OnlyMainIsMain
<1>6. MaskedCallsExact' /\ HandlerOK' /\ ResultIsOwn'
  BY <1>1, <1>2 DEF MaskedCallsExact, HandlerOK, ResultIsOwn
<1> QED  BY <1>3, <1>4, <1>5, <1>6

\* main's own steps preserve the invariant.
LEMMA MainKeeps == IInv /\ Main => IInv'
<1> SUFFICES ASSUME IInv, Main PROVE IInv'
  OBVIOUS
<1>1. CASE MainDisk
  <2>1. "main" \in Place /\ "mainAta" \in Place
    BY DEF Place
  <2>2. /\ UNCHANGED <<present, esp, cur_task_idx, current_task, handler>>
        /\ UNCHANGED <<irq0, isr0, probe, loads>>
        /\ ret_val' \in Slot /\ wrong' \subseteq Place /\ "retMasked" \notin wrong'
    BY <1>1 DEF MainDisk, Quiet, IInv, TypeOK, MaskedCallsExact
  <2>3. CASE Goes("main", "mainAta")
    BY <2>1, <2>2, <2>3, GoesKeeps
  <2>4. CASE Goes("mainAta", "main")
    BY <2>1, <2>2, <2>4, GoesKeeps
  <2> QED  BY <1>1, <2>3, <2>4 DEF MainDisk
<1> USE DEF IInv
<1>2. CASE CreateTask
  <2>1. probe' \in Slot \cup {-1} /\ loads' \in 0 .. LOADS
    BY <1>2, ZeroIsSlot, SchedulerAssumption DEF CreateTask, TypeOK
  <2> QED
    BY <1>2, <2>1 DEF CreateTask, TypeOK, RunningIsCurrent, SuspendedAreResumable,
      SomebodyToRun, MaskedCallsExact, HandlerOK, OnlyMainIsMain, ResultIsOwn
<1>3. CASE ProbeSlot
  <2>1. probe' \in Slot \cup {-1}
    BY <1>3, SchedulerAssumption DEF ProbeSlot, SlotAfter, Slot
  <2> QED
    BY <1>3, <2>1 DEF ProbeSlot, TypeOK, RunningIsCurrent, SuspendedAreResumable,
      SomebodyToRun, MaskedCallsExact, HandlerOK, OnlyMainIsMain, ResultIsOwn
<1>4. CASE FillSlot
  <2>1. NewContext(probe) \in Context /\ probe \in Slot /\ ~ present[probe]
    BY <1>4 DEF FillSlot, NewContext, Context, Place
  <2>2. /\ esp' = [esp EXCEPT ![probe] = NewContext(probe)]
        /\ UNCHANGED <<present, cur_task_idx, current_task, ctx, handler, irq0, isr0,
                       ret_val, probe, loads, wrong>>
        /\ handler = "off"
    BY <1>4 DEF FillSlot, Runs
  <2>3. TypeOK'
    BY <2>1, <2>2 DEF TypeOK
  <2>4. \A i \in Slot : present[i] => esp'[i] = esp[i]
    BY <2>1, <2>2 DEF TypeOK
  <2>5. SuspendedAreResumable' /\ OnlyMainIsMain'
    BY <2>2, <2>4 DEF SuspendedAreResumable, OnlyMainIsMain
  <2> QED
    BY <2>2, <2>3, <2>5 DEF RunningIsCurrent, SomebodyToRun, MaskedCallsExact,
      HandlerOK, ResultIsOwn
<1>5. CASE PublishSlot
  <2>1. /\ probe \in Slot /\ ~ present[probe] /\ esp[probe] = NewContext(probe)
        /\ handler = "off" /\ ctx.place = "main"
        /\ present' = [present EXCEPT ![probe] = TRUE] /\ probe' = -1
        /\ UNCHANGED <<esp, cur_task_idx, current_task, ctx, handler, irq0, isr0,
                       ret_val, loads, wrong>>
    BY <1>5 DEF PublishSlot, Runs, Filled
  <2>2. /\ probe # 0 /\ ctx.proc = 0 /\ probe # ctx.proc
        /\ esp[probe].proc = probe /\ esp[probe].place = "run"
    BY <2>1 DEF SomebodyToRun, OnlyMainIsMain, NewContext
  <2>3. /\ present'[probe]
        /\ \A i \in Slot \ {probe} : present'[i] = present[i]
        /\ present' \in [Slot -> BOOLEAN]
    BY <2>1 DEF TypeOK
  <2>4. TypeOK'
    BY <2>1, <2>3 DEF TypeOK
  <2>5. SuspendedAreResumable'
    BY <2>1, <2>2, <2>3 DEF SuspendedAreResumable, Masked
  <2>6. OnlyMainIsMain'
    BY <2>1, <2>2, <2>3 DEF OnlyMainIsMain
  <2>7. RunningIsCurrent' /\ SomebodyToRun'
    BY <2>1, <2>2, <2>3, ZeroIsSlot DEF RunningIsCurrent, SomebodyToRun
  <2> QED
    BY <2>1, <2>4, <2>5, <2>6, <2>7 DEF MaskedCallsExact, HandlerOK, ResultIsOwn
<1> QED  BY <1>1, <1>2, <1>3, <1>4, <1>5 DEF Main

\* The steps of a task preserve the invariant.
LEMMA TaskKeeps == IInv /\ Task => IInv'
<1> SUFFICES ASSUME IInv, Task PROVE IInv'
  OBVIOUS
<1>p. /\ "run" \in Place /\ "gate" \in Place /\ "open" \in Place /\ "ata" \in Place
      /\ "retMasked" \in Place /\ "retOpen" \in Place /\ "exit" \in Place /\ "gone" \in Place
  BY DEF Place
<1>q. ret_val \in Slot /\ wrong \subseteq Place /\ "retMasked" \notin wrong
  BY DEF IInv, TypeOK, MaskedCallsExact
<1>1. CASE SyscallEnter
  BY <1>1, <1>p, <1>q, GoesKeeps DEF SyscallEnter, Quiet
<1>2. CASE ExitEnter
  BY <1>2, <1>p, <1>q, GoesKeeps DEF ExitEnter, Quiet
<1>3. CASE Sti
  <2>1. CASE Goes("gate", "open")
    BY <1>3, <2>1, <1>p, <1>q, GoesKeeps DEF Sti, Quiet
  <2>2. CASE Goes("ata", "open")
    BY <1>3, <2>2, <1>p, <1>q, GoesKeeps DEF Sti, Quiet
  <2> QED  BY <1>3, <2>1, <2>2 DEF Sti
<1>4. CASE Cli
  <2>1. CASE Goes("gate", "ata")
    BY <1>4, <2>1, <1>p, <1>q, GoesKeeps DEF Cli, Quiet
  <2>2. CASE Goes("open", "ata")
    BY <1>4, <2>2, <1>p, <1>q, GoesKeeps DEF Cli, Quiet
  <2> QED  BY <1>4, <2>1, <2>2 DEF Cli
<1>5. CASE StoreResult
  <2>1. /\ ret_val' = ctx.proc /\ ctx \in Context
        /\ UNCHANGED <<present, esp, cur_task_idx, current_task, handler,
                       irq0, isr0, probe, loads, wrong>>
    BY <1>5 DEF StoreResult, IInv, TypeOK
  <2>2. ctx.proc \in Slot
    BY <2>1 DEF Context
  <2>3. CASE Goes("open", "retOpen")
    BY <2>1, <2>2, <2>3, <1>p, <1>q, GoesKeeps
  <2>4. CASE Goes("gate", "retMasked")
    <3>1. /\ handler = "off" /\ ctx.place = "gate"
          /\ ctx'.place = "retMasked" /\ ctx'.proc = ctx.proc /\ ctx' \in Context
      BY <2>1, <2>4, <1>p DEF Goes, Runs, Context
    <3>2. TypeOK'
      BY <2>1, <2>2, <3>1 DEF IInv, TypeOK
    <3>3. RunningIsCurrent' /\ SomebodyToRun' /\ MaskedCallsExact'
      BY <2>1, <3>1 DEF IInv, RunningIsCurrent, SomebodyToRun, MaskedCallsExact
    <3>4. SuspendedAreResumable' /\ OnlyMainIsMain'
      BY <2>1, <3>1 DEF IInv, SuspendedAreResumable, OnlyMainIsMain
    <3>5. HandlerOK' /\ ResultIsOwn'
      BY <2>1, <3>1 DEF HandlerOK, ResultIsOwn
    <3> QED  BY <3>2, <3>3, <3>4, <3>5 DEF IInv
  <2> QED  BY <1>5, <2>3, <2>4 DEF StoreResult
<1>6. CASE LoadResult
  <2>1. /\ UNCHANGED <<present, esp, cur_task_idx, current_task, handler,
                       irq0, isr0, ret_val, probe, loads>>
        /\ wrong' = IF ret_val = ctx.proc THEN wrong ELSE wrong \cup {ctx.place}
        /\ ctx.place \in {"retMasked", "retOpen"}
    BY <1>6 DEF LoadResult, Goes
  <2>2. wrong' \subseteq Place /\ "retMasked" \notin wrong'
    BY <2>1, <1>p, <1>q DEF IInv, ResultIsOwn
  <2>3. CASE Goes("retMasked", "run")
    BY <2>1, <2>2, <2>3, <1>p, <1>q, GoesKeeps
  <2>4. CASE Goes("retOpen", "run")
    BY <2>1, <2>2, <2>4, <1>p, <1>q, GoesKeeps
  <2> QED  BY <1>6, <2>3, <2>4 DEF LoadResult
<1>7. CASE exit_task
  <2>1. /\ handler = "off" /\ ctx.place = "exit" /\ ctx \in Context
        /\ ctx' = [ctx EXCEPT !.place = "gone"]
        /\ present' = [present EXCEPT ![cur_task_idx] = FALSE]
        /\ UNCHANGED <<esp, cur_task_idx, current_task, handler, irq0, isr0,
                       ret_val, probe, loads, wrong>>
    BY <1>7 DEF exit_task, Goes, Runs, ExitedSlot, IInv, TypeOK
  <2>2. /\ ctx'.place = "gone" /\ ctx'.proc = ctx.proc /\ ctx' \in Context
        /\ ctx.proc \in Slot
    BY <2>1, <1>p DEF Context
  <2>3. ctx.proc = cur_task_idx /\ current_task = cur_task_idx /\ ctx.proc # 0
    BY <2>1 DEF IInv, RunningIsCurrent, OnlyMainIsMain
  <2>4. /\ ~ present'[ctx.proc]
        /\ \A i \in Slot \ {ctx.proc} : present'[i] = present[i]
        /\ present' \in [Slot -> BOOLEAN]
    BY <2>1, <2>2, <2>3 DEF IInv, TypeOK
  <2>5. TypeOK'
    BY <2>1, <2>2, <2>4 DEF IInv, TypeOK
  <2>6. RunningIsCurrent' /\ SomebodyToRun'
    BY <2>1, <2>2, <2>3, <2>4, ZeroIsSlot DEF IInv, RunningIsCurrent, SomebodyToRun
  <2>7. SuspendedAreResumable' /\ OnlyMainIsMain'
    BY <2>1, <2>2, <2>3, <2>4 DEF IInv, SuspendedAreResumable, OnlyMainIsMain
  <2>8. MaskedCallsExact' /\ HandlerOK' /\ ResultIsOwn'
    BY <2>1, <2>2 DEF IInv, MaskedCallsExact, HandlerOK, ResultIsOwn
  <2> QED  BY <2>5, <2>6, <2>7, <2>8 DEF IInv
<1>8. CASE ExitSwitch
  <2>1. /\ handler = "off" /\ ctx.place = "gone" /\ ctx \in Context
        /\ esp' = [esp EXCEPT ![current_task] = ctx] /\ handler' = "entered"
        /\ UNCHANGED <<present, cur_task_idx, current_task, ctx, irq0, isr0,
                       ret_val, probe, loads, wrong>>
    BY <1>8 DEF ExitSwitch, SaveContext, IInv, TypeOK
  <2>2. /\ ctx.proc = cur_task_idx /\ current_task = ctx.proc /\ ctx.proc \in Slot
        /\ ~ present[ctx.proc]
    BY <2>1 DEF IInv, RunningIsCurrent, TypeOK
  <2>3. /\ esp'[ctx.proc] = ctx
        /\ \A i \in Slot \ {ctx.proc} : esp'[i] = esp[i]
    BY <2>1, <2>2 DEF IInv, TypeOK
  <2>4. TypeOK'
    BY <2>1 DEF IInv, TypeOK
  <2>5. RunningIsCurrent' /\ SomebodyToRun' /\ MaskedCallsExact' /\ ResultIsOwn'
    BY <2>1 DEF IInv, RunningIsCurrent, SomebodyToRun, MaskedCallsExact, ResultIsOwn
  <2>6. SuspendedAreResumable' /\ OnlyMainIsMain'
    BY <2>1, <2>2, <2>3 DEF IInv, SuspendedAreResumable, OnlyMainIsMain
  <2>7. HandlerOK'
    BY <2>1, <2>2, <2>3 DEF HandlerOK
  <2> QED  BY <2>4, <2>5, <2>6, <2>7 DEF IInv
<1> QED
  BY <1>1, <1>2, <1>3, <1>4, <1>5, <1>6, <1>7, <1>8 DEF Task

LEMMA SchedulerNext == IInv /\ [Next]_vars => IInv'
<1>1. IInv /\ UNCHANGED vars => IInv'
  BY DEF vars, IInv, TypeOK, RunningIsCurrent, SuspendedAreResumable,
      SomebodyToRun, MaskedCallsExact, HandlerOK, OnlyMainIsMain, ResultIsOwn
<1> QED  BY <1>1, TickKeeps, MainKeeps, TaskKeeps DEF Next

\* Type correctness.
THEOREM SchedulerTypeCorrect == Spec => []TypeOK
<1>1. IInv => TypeOK
  BY DEF IInv
<1> QED  BY <1>1, SchedulerInit, SchedulerNext, PTL DEF Spec

\* The processor always runs the task that the scheduler believes is running.
THEOREM SchedulerRunsCurrent == Spec => []RunningIsCurrent
<1>1. IInv => RunningIsCurrent
  BY DEF IInv
<1> QED  BY <1>1, SchedulerInit, SchedulerNext, PTL DEF Spec

\* A task that is switched out keeps its own context, with interrupts enabled.
THEOREM SchedulerSuspends == Spec => []SuspendedAreResumable
<1>1. IInv => SuspendedAreResumable
  BY DEF IInv
<1> QED  BY <1>1, SchedulerInit, SchedulerNext, PTL DEF Spec

\* A call that kept interrupts disabled returns its own result.
THEOREM SchedulerMaskedCalls == Spec => []MaskedCallsExact
<1>1. IInv => MaskedCallsExact
  BY DEF IInv
<1> QED  BY <1>1, SchedulerInit, SchedulerNext, PTL DEF Spec
-----------------------------------------------------------------------------
\* Where the tasks are, seen from above.
at == [i \in Slot |-> PlaceOf(i)]

\* Whoever is not loaded is nowhere that interrupts are disabled.
LEMMA OthersAreOpen ==
  ASSUME IInv, NEW j \in Slot, j # ctx.proc
  PROVE  at[j] \notin Above!Masked
<1>1. at[j] = IF present[j] THEN esp[j].place ELSE "none"
  BY DEF at, PlaceOf
<1>2. present[j] => esp[j].place \notin Masked
  BY DEF IInv, SuspendedAreResumable
<1> QED  BY <1>1, <1>2 DEF Masked, Above!Masked

\* A step of slot i along an edge, while no other slot is masked.
LEMMA EdgeIsStep ==
  ASSUME NEW i \in Slot, NEW to, <<at[i], to>> \in Above!Edge,
         \A j \in Slot \ {i} : at[j] \notin Above!Masked,
         at' = [at EXCEPT ![i] = to]
  PROVE  Above!Next
<1> DEFINE e == <<at[i], to>>
<1>1. e \in {f \in Above!Edge : f[1] = at[i]}
  OBVIOUS
<1>2. to = e[2]
  OBVIOUS
<1>3. to \in {g[2] : g \in {f \in Above!Edge : f[1] = at[i]}}
  <2> HIDE DEF e
  <2> QED  BY <1>1, <1>2
<1>4. Above!Step(i)
  BY <1>3 DEF Above!Step, at
<1> QED  BY <1>4 DEF Above!Next

\* A step of the running task is a step of that task above.
LEMMA GoesIsStep ==
  ASSUME IInv, NEW from, NEW to, Goes(from, to), <<from, to>> \in Above!Edge,
         esp' = esp,
         \A i \in Slot \ {ctx.proc} : present'[i] <=> present[i]
  PROVE  Above!Next
<1>1. /\ ctx \in Context /\ ctx.place = from /\ ctx' = [ctx EXCEPT !.place = to]
  BY DEF Goes, IInv, TypeOK
<1>2. ctx.proc \in Slot /\ ctx'.proc = ctx.proc /\ ctx'.place = to
  BY <1>1 DEF Context
<1>i. PICK i \in Slot : i = ctx.proc
  BY <1>2
<1>3. at[i] = from
  BY <1>i, <1>1 DEF at, PlaceOf
<1>4. \A j \in Slot : PlaceOf(j)' = IF j = i THEN to ELSE PlaceOf(j)
  BY <1>i, <1>2 DEF PlaceOf
<1>5. at' = [at EXCEPT ![i] = to]
  BY <1>4 DEF at
<1>6. \A j \in Slot \ {i} : at[j] \notin Above!Masked
  BY <1>i, OthersAreOpen
<1> QED  BY <1>3, <1>5, <1>6, EdgeIsStep

\* The handler's steps, but for the last one, and main's search for a slot
\* move nobody.
LEMMA NobodyMoves ==
  ASSUME ctx' = ctx, present' = present,
         \A i \in Slot : present[i] /\ i # ctx.proc => esp'[i] = esp[i]
  PROVE  at' = at
<1>1. \A i \in Slot : PlaceOf(i)' = PlaceOf(i)
  BY DEF PlaceOf
<1> QED  BY <1>1 DEF at

\* Loading the next context moves nobody either, unless the task left behind
\* has just exited.
LEMMA LeaveIsStep == IInv /\ TickLeave => Above!Next \/ at' = at
<1> SUFFICES ASSUME IInv, TickLeave PROVE Above!Next \/ at' = at
  OBVIOUS
<1>1. /\ ctx' = esp[current_task] /\ handler = "leaving"
      /\ present' = present /\ esp' = esp
      /\ current_task \in Slot /\ ctx.proc \in Slot
  BY DEF TickLeave, IInv, TypeOK, Context
<1>2. /\ esp[ctx.proc] = ctx /\ present[current_task]
      /\ present[ctx.proc] <=> ctx.place # "gone"
  BY <1>1 DEF IInv, HandlerOK
<1>3. esp[current_task].proc = current_task
  BY <1>1, <1>2 DEF IInv, SuspendedAreResumable
<1>i. PICK i \in Slot, c \in Slot : i = ctx.proc /\ c = current_task
  BY <1>1
<1>4. \A j \in Slot \ {i} : PlaceOf(j)' = PlaceOf(j)
  <2> SUFFICES ASSUME NEW j \in Slot, j # i PROVE PlaceOf(j)' = PlaceOf(j)
    OBVIOUS
  <2>1. CASE j = c
    BY <2>1, <1>1, <1>2, <1>3, <1>i DEF PlaceOf
  <2>2. CASE j # c
    BY <2>2, <1>1, <1>3, <1>i DEF PlaceOf
  <2> QED  BY <2>1, <2>2
<1>5. CASE present[i]
  <2>1. PlaceOf(i)' = PlaceOf(i)
    BY <1>1, <1>2, <1>3, <1>5, <1>i DEF PlaceOf
  <2>2. at' = at
    BY <2>1, <1>4 DEF at
  <2> QED  BY <2>2
<1>6. CASE ~ present[i]
  <2>1. c # i /\ ctx.place = "gone"
    BY <1>2, <1>6, <1>i
  <2>2. PlaceOf(i)' = "none" /\ at[i] = "gone"
    BY <2>1, <1>1, <1>3, <1>6, <1>i DEF PlaceOf, at
  <2>3. at' = [at EXCEPT ![i] = "none"]
    BY <2>2, <1>4 DEF at
  <2>4. <<at[i], "none">> \in Above!Edge
    BY <2>2 DEF Above!Edge
  <2>5. \A j \in Slot \ {i} : at[j] \notin Above!Masked
    BY <1>i, OthersAreOpen
  <2> QED  BY <2>3, <2>4, <2>5, EdgeIsStep
<1> QED  BY <1>5, <1>6

\* A program becomes runnable by the write to its slot's present field.
LEMMA PublishIsStep == IInv /\ PublishSlot => Above!Next
<1> SUFFICES ASSUME IInv, PublishSlot PROVE Above!Next
  OBVIOUS
<1>1. /\ probe \in Slot /\ ~ present[probe] /\ esp[probe] = NewContext(probe)
      /\ ctx.place = "main" /\ ctx \in Context
      /\ present' = [present EXCEPT ![probe] = TRUE]
      /\ esp' = esp /\ ctx' = ctx
  BY DEF PublishSlot, Filled, IInv, TypeOK
<1>2. ctx.proc = 0 /\ ctx.proc # probe
  BY <1>1 DEF IInv, OnlyMainIsMain, SomebodyToRun
<1>i. PICK i \in Slot : i = probe
  BY <1>1
<1>3. /\ present'[i] /\ \A j \in Slot \ {i} : present'[j] = present[j]
  BY <1>1, <1>i DEF IInv, TypeOK
<1>4. PlaceOf(i)' = "run" /\ at[i] = "none"
  BY <1>1, <1>2, <1>3, <1>i DEF PlaceOf, at, NewContext
<1>5. \A j \in Slot \ {i} : PlaceOf(j)' = PlaceOf(j)
  BY <1>1, <1>3 DEF PlaceOf
<1>6. at' = [at EXCEPT ![i] = "run"]
  BY <1>4, <1>5 DEF at
<1>7. \A j \in Slot : at[j] \notin Above!Masked
  <2>1. \A j \in Slot : j = ctx.proc => at[j] = "main"
    BY <1>1 DEF at, PlaceOf
  <2> QED  BY <2>1, OthersAreOpen DEF Above!Masked
<1>8. <<at[i], "run">> \in Above!Edge
  BY <1>4 DEF Above!Edge
<1> QED  BY <1>6, <1>7, <1>8, EdgeIsStep

\* The scheduler gives each task a processor of its own: an interrupt, the
\* handler and the run queue cannot be seen from above, and a section with
\* interrupts disabled excludes everybody else.
THEOREM SchedulerImplementsProcesses == Spec => ImplementsProcesses
<1>1. Init => Above!Init
  <2> SUFFICES ASSUME Init PROVE Above!Init
    OBVIOUS
  <2>1. \A i \in Slot : PlaceOf(i) \in {"main", "none"}
    BY DEF Init, PlaceOf
  <2> QED  BY <2>1 DEF Above!Init
<1>2. IInv /\ [Next]_vars => Above!Next \/ at' = at
  <2> SUFFICES ASSUME IInv, [Next]_vars PROVE Above!Next \/ at' = at
    OBVIOUS
  <2>1. CASE TimerFires \/ handle_tick \/ SchedulerSkip \/ SchedulerPick
    BY <2>1, NobodyMoves DEF TimerFires, handle_tick, SchedulerSkip, SchedulerPick
  <2>2. CASE TickEnter \/ ExitSwitch
    <3>1. /\ current_task = ctx.proc
          /\ esp' = [esp EXCEPT ![ctx.proc] = ctx]
          /\ ctx' = ctx /\ present' = present
      BY <2>2 DEF TickEnter, ExitSwitch, SaveContext, IInv, RunningIsCurrent
    <3>2. \A i \in Slot : i # ctx.proc => esp'[i] = esp[i]
      BY <3>1 DEF IInv, TypeOK
    <3> QED  BY <3>1, <3>2, NobodyMoves
  <2>3. CASE TickLeave
    BY <2>3, LeaveIsStep
  <2>4. CASE CreateTask \/ ProbeSlot
    BY <2>4, NobodyMoves DEF CreateTask, ProbeSlot
  <2>5. CASE FillSlot
    <3>1. /\ ~ present[probe] /\ esp' = [esp EXCEPT ![probe] = NewContext(probe)]
          /\ ctx' = ctx /\ present' = present
      BY <2>5 DEF FillSlot
    <3>2. \A i \in Slot : present[i] => esp'[i] = esp[i]
      BY <3>1 DEF IInv, TypeOK
    <3> QED  BY <3>1, <3>2, NobodyMoves
  <2>6. CASE PublishSlot
    BY <2>6, PublishIsStep
  <2>7. ASSUME NEW from, NEW to, Goes(from, to), <<from, to>> \in Above!Edge,
               esp' = esp, present' = present
        PROVE  Above!Next
    BY <2>7, GoesIsStep
  <2>e. /\ <<"main", "mainAta">> \in Above!Edge /\ <<"mainAta", "main">> \in Above!Edge
        /\ <<"run", "gate">> \in Above!Edge /\ <<"run", "exit">> \in Above!Edge
        /\ <<"gate", "open">> \in Above!Edge /\ <<"ata", "open">> \in Above!Edge
        /\ <<"gate", "ata">> \in Above!Edge /\ <<"open", "ata">> \in Above!Edge
        /\ <<"gate", "retMasked">> \in Above!Edge /\ <<"open", "retOpen">> \in Above!Edge
        /\ <<"retMasked", "run">> \in Above!Edge /\ <<"retOpen", "run">> \in Above!Edge
        /\ <<"exit", "gone">> \in Above!Edge
    BY DEF Above!Edge
  <2>8. CASE MainDisk
    BY <2>7, <2>8, <2>e DEF MainDisk, Quiet
  <2>9. CASE SyscallEnter \/ ExitEnter \/ Sti \/ Cli
    BY <2>7, <2>9, <2>e DEF SyscallEnter, ExitEnter, Sti, Cli, Quiet
  <2>10. CASE StoreResult \/ LoadResult
    BY <2>7, <2>10, <2>e DEF StoreResult, LoadResult
  <2>11. CASE exit_task
    <3>1. /\ Goes("exit", "gone") /\ esp' = esp
          /\ present' = [present EXCEPT ![ctx.proc] = FALSE]
      BY <2>11 DEF exit_task, ExitedSlot, Goes, Runs, IInv, RunningIsCurrent
    <3>2. \A i \in Slot \ {ctx.proc} : present'[i] <=> present[i]
      BY <3>1 DEF IInv, TypeOK
    <3> QED  BY <3>1, <3>2, <2>e, GoesIsStep
  <2>12. CASE UNCHANGED vars
    BY <2>12, NobodyMoves DEF vars
  <2> QED
    BY <2>1, <2>2, <2>3, <2>4, <2>5, <2>6, <2>8, <2>9, <2>10, <2>11, <2>12
    DEF Next, Tick, Main, Task
<1>3. IInv /\ [Next]_vars => [Above!Next]_[i \in Slot |-> PlaceOf(i)]
  BY <1>2 DEF at
<1> QED
  BY <1>1, <1>3, SchedulerInit, SchedulerNext, PTL
  DEF Spec, ImplementsProcesses, Above!Spec
-----------------------------------------------------------------------------
\* A set of numbers that is not empty has a least one.
LEMMA Least ==
  ASSUME NEW T, T \subseteq Nat, T # {}
  PROVE  \E n \in T : \A k \in T : n <= k
<1>1. PICK n \in T : \A k \in T : ~ (<<k, n>> \in OpToRel(<, Nat))
  BY NatLessThanWellFounded, WFMin
<1>2. ASSUME NEW k \in T
      PROVE  n <= k
  <2>1. n \in Nat /\ k \in Nat
    OBVIOUS
  <2>2. ~ (<<k, n>> \in OpToRel(<, Nat))
    BY <1>1
  <2>3. k < n => <<k, n>> \in OpToRel(<, Nat)
    BY <2>1 DEF OpToRel
  <2>4. ~ (k < n)
    BY <2>2, <2>3, Zenon
  <2>. QED
    BY <2>1, <2>4
<1>. QED
  BY <1>2

LEMMA MinIs ==
  ASSUME NEW T, T \subseteq Nat, T # {}
  PROVE  Min(T) \in T /\ \A k \in T : Min(T) <= k
<1>1. \E n \in T : \A k \in T : n <= k
  BY Least
<1>. QED
  BY <1>1 DEF Min

\* Induction, for a set of numbers.
LEMMA AllNumbers ==
  ASSUME NEW T, 0 \in T, \A n \in Nat : n \in T => n + 1 \in T
  PROVE  Nat \subseteq T
<1>. SUFFICES ASSUME Nat \ T # {}
              PROVE  FALSE
  OBVIOUS
<1>1. PICK n \in Nat \ T : \A k \in Nat \ T : n <= k
  BY Least
<1>2. n - 1 \in Nat /\ n - 1 \in T
  BY <1>1
<1>. QED
  BY <1>1, <1>2
-----------------------------------------------------------------------------
\* The first n steps of a function that starts with d.
Begins(w, step, d, n) == /\ w = [k \in 0 .. n |-> w[k]]
                         /\ w[0] = d
                         /\ \A k \in 0 .. n - 1 : w[k + 1] = step[k][w[k]]

\* Two beginnings agree as far as both go.
LEMMA BeginningsAgree ==
  ASSUME NEW d, NEW step, NEW m \in Nat, NEW n \in Nat, NEW u, NEW w,
         Begins(u, step, d, m), Begins(w, step, d, n)
  PROVE  \A k \in Nat : k <= m /\ k <= n => u[k] = w[k]
<1>. DEFINE T == {k \in Nat : k <= m /\ k <= n => u[k] = w[k]}
<1>1. 0 \in T
  BY DEF Begins
<1>2. ASSUME NEW k \in Nat, k \in T
      PROVE  k + 1 \in T
  <2>. SUFFICES ASSUME k + 1 <= m, k + 1 <= n
                PROVE  u[k + 1] = w[k + 1]
    OBVIOUS
  <2>1. k \in 0 .. m - 1 /\ k \in 0 .. n - 1
    OBVIOUS
  <2>2. u[k + 1] = step[k][u[k]] /\ w[k + 1] = step[k][w[k]]
    BY <2>1 DEF Begins
  <2>3. u[k] = w[k]
    BY <1>2
  <2>. QED
    BY <2>2, <2>3
<1>. HIDE DEF T
<1>3. Nat \subseteq T
  BY <1>1, <1>2, AllNumbers
<1>. QED
  BY <1>3 DEF T

\* There is a beginning of any length.
LEMMA BeginningExists ==
  ASSUME NEW d, NEW step
  PROVE  \A n \in Nat : \E w : Begins(w, step, d, n)
<1>. DEFINE T == {n \in Nat : \E w : Begins(w, step, d, n)}
<1>1. 0 \in T
  <2>. DEFINE w == [k \in 0 .. 0 |-> d]
  <2>1. Begins(w, step, d, 0)
    BY DEF Begins
  <2>. QED
    BY <2>1
<1>2. ASSUME NEW n \in Nat, n \in T
      PROVE  n + 1 \in T
  <2>1. PICK w : Begins(w, step, d, n)
    BY <1>2
  <2>. DEFINE u == [k \in 0 .. n + 1 |-> IF k = n + 1 THEN step[n][w[n]] ELSE w[k]]
  <2>2. /\ u = [k \in 0 .. n + 1 |-> u[k]]
        /\ u[0] = d
    BY <2>1 DEF Begins
  <2>3. ASSUME NEW k \in 0 .. n
        PROVE  u[k + 1] = step[k][u[k]]
    <3>1. u[k] = w[k]
      OBVIOUS
    <3>2. CASE k = n
      BY <3>1, <3>2
    <3>3. CASE k \in 0 .. n - 1
      <4>1. u[k + 1] = w[k + 1]
        BY <3>3
      <4>2. w[k + 1] = step[k][w[k]]
        BY <2>1, <3>3 DEF Begins
      <4>. HIDE DEF u
      <4>. QED
        BY <3>1, <4>1, <4>2
    <3>. QED
      BY <3>2, <3>3
  <2>. HIDE DEF u
  <2>4. \A k \in 0 .. (n + 1) - 1 : u[k + 1] = step[k][u[k]]
    BY <2>3
  <2>5. Begins(u, step, d, n + 1)
    BY <2>2, <2>4 DEF Begins
  <2>. QED
    BY <2>5
<1>. HIDE DEF T
<1>3. Nat \subseteq T
  BY <1>1, <1>2, AllNumbers
<1>. QED
  BY <1>3 DEF T

\* The function that starts with d, takes these steps and has its values in D.
Repeats(w, step, d, D) == /\ w = [k \in Nat |-> w[k]]
                          /\ w[0] = d
                          /\ \A k \in Nat : w[k] \in D /\ w[k + 1] = step[k][w[k]]

\* There is such a function.
LEMMA Iterates ==
  ASSUME NEW D, NEW d \in D, NEW step, \A k \in Nat, x \in D : step[k][x] \in D
  PROVE  \E w : Repeats(w, step, d, D)
<1>. DEFINE part(n) == CHOOSE w : Begins(w, step, d, n)
            whole == [n \in Nat |-> part(n)[n]]
<1>1. \A n \in Nat : Begins(part(n), step, d, n)
  BY BeginningExists
<1>. HIDE DEF part
<1>2. whole[0] = d
  BY <1>1 DEF Begins
<1>3. ASSUME NEW n \in Nat
      PROVE  whole[n + 1] = step[n][whole[n]]
  <2>1. n + 1 \in Nat /\ n \in 0 .. (n + 1) - 1 /\ n <= n /\ n <= n + 1
    OBVIOUS
  <2>2. part(n + 1)[n + 1] = step[n][part(n + 1)[n]]
    BY <1>1, <2>1 DEF Begins
  <2>3. part(n + 1)[n] = part(n)[n]
    BY <1>1, <2>1, BeginningsAgree
  <2>. QED
    BY <2>1, <2>2, <2>3
<1>. HIDE DEF whole
<1>. DEFINE T == {k \in Nat : whole[k] \in D}
<1>4. 0 \in T
  BY <1>2
<1>5. \A k \in Nat : k \in T => k + 1 \in T
  BY <1>3
<1>6. Nat \subseteq T
  <2>. HIDE DEF T
  <2>. QED
    BY <1>4, <1>5, AllNumbers
<1>7. whole = [k \in Nat |-> whole[k]]
  BY DEF whole
<1>. QED
  BY <1>2, <1>3, <1>6, <1>7 DEF Repeats
-----------------------------------------------------------------------------
\* The clusters of a directory, as Nth finds them.
Way(c) == CHOOSE w : w = [k \in Nat |-> IF k = 0 THEN c
                                        ELSE IF w[k - 1] = EOC THEN EOC
                                        ELSE Following(w[k - 1])]

LEMMA NthIsWay ==
  ASSUME NEW c, NEW n \in Nat
  PROVE  Nth(c, n) = Way(c)[n]
  BY DEF Nth, Way

\* What the loop of find_entry goes through: from one cluster to the next.
LEMMA NthUnfolds ==
  ASSUME NEW c \in Cluster \cup {ROOT}
  PROVE  /\ Nth(c, 0) = c
         /\ \A n \in Nat : /\ Nth(c, n) \in Cluster \cup {ROOT, EOC}
                          /\ Nth(c, n + 1) = IF Nth(c, n) = EOC THEN EOC ELSE Following(Nth(c, n))
<1>. DEFINE D == Cluster \cup {ROOT, EOC}
            next(d) == IF d = EOC THEN EOC ELSE Following(d)
            step == [k \in Nat |-> [d \in D |-> next(d)]]
<1>1. \A d \in D : next(d) \in D
  BY DirectoryAssumption DEF Following
<1>2. \A k \in Nat, d \in D : step[k][d] = next(d)
  OBVIOUS
<1>3. PICK w : Repeats(w, step, c, D)
  <2>1. c \in D
    OBVIOUS
  <2>. HIDE DEF next, step, D
  <2>2. \A k \in Nat, x \in D : step[k][x] \in D
    BY <1>1, <1>2
  <2>. QED
    BY <2>1, <2>2, Iterates
<1>4. /\ w = [k \in Nat |-> w[k]]
      /\ w[0] = c
      /\ \A k \in Nat : w[k + 1] = next(w[k])
  <2>. HIDE DEF next, step, D
  <2>. QED
    BY <1>2, <1>3 DEF Repeats
<1>. HIDE DEF step
<1>5. w = [k \in Nat |-> IF k = 0 THEN c ELSE next(w[k - 1])]
  <2>. HIDE DEF next, D
  <2>1. \A k \in Nat : k # 0 => w[k] = next(w[k - 1])
    <3>. SUFFICES ASSUME NEW k \in Nat, k # 0
                  PROVE  w[k] = next(w[k - 1])
      OBVIOUS
    <3>1. k - 1 \in Nat /\ (k - 1) + 1 = k
      OBVIOUS
    <3>. QED
      BY <1>4, <3>1
  <2>. QED
    BY <1>4, <2>1
<1>6. Way(c) = [k \in Nat |-> IF k = 0 THEN c ELSE next(Way(c)[k - 1])]
  BY <1>5 DEF Way
<1>7. Way(c)[0] = c /\ \A k \in Nat : Way(c)[k + 1] = next(Way(c)[k])
  <2>. HIDE DEF next
  <2>1. \A k \in Nat : k + 1 \in Nat /\ k + 1 # 0 /\ (k + 1) - 1 = k
    OBVIOUS
  <2>. QED
    BY <1>6, <2>1
<1>8. \A k \in Nat : Way(c)[k] \in D
  <2>. DEFINE T == {k \in Nat : Way(c)[k] \in D}
  <2>1. 0 \in T
    BY <1>7
  <2>2. \A k \in Nat : k \in T => k + 1 \in T
    <3>. HIDE DEF next, D
    <3>. QED
      BY <1>1, <1>7
  <2>. HIDE DEF T
  <2>3. Nat \subseteq T
    BY <2>1, <2>2, AllNumbers
  <2>. QED
    BY <2>3 DEF T
<1>. QED
  BY <1>7, <1>8, NthIsWay

\* Behind the end of a directory there is nothing.
LEMMA EndStays ==
  ASSUME NEW c \in Cluster \cup {ROOT}, NEW n \in Nat, Nth(c, n) = EOC
  PROVE  \A k \in Nat : k >= n => Nth(c, k) = EOC
<1>. DEFINE T == {k \in Nat : k >= n => Nth(c, k) = EOC}
<1>1. 0 \in T
  OBVIOUS
<1>2. ASSUME NEW k \in Nat, k \in T
      PROVE  k + 1 \in T
  <2>1. CASE k + 1 <= n
    BY <2>1
  <2>2. CASE k >= n
    BY <1>2, <2>2, NthUnfolds
  <2>. QED
    BY <2>1, <2>2
<1>. HIDE DEF T
<1>3. Nat \subseteq T
  BY <1>1, <1>2, AllNumbers
<1>. QED
  BY <1>3 DEF T

\* No directory has more clusters than there are.
LEMMA DirectoryEnds ==
  ASSUME NEW c \in Cluster \cup {ROOT}, NEW n \in Nat, Nth(c, n) # EOC
  PROVE  n \in 0 .. Cardinality(Cluster)
<1>1. Cardinality(Cluster) \in Nat
  BY FS_CardinalityType, DirectoryAssumption
<1>2. CASE c = ROOT
  <2>1. Nth(c, 0) = ROOT /\ Nth(c, 0 + 1) = EOC
    BY <1>2, NthUnfolds, DirectoryAssumption DEF Following, ROOT, EOC
  <2>2. \A k \in Nat : k >= 1 => Nth(c, k) = EOC
    BY <2>1, EndStays
  <2>3. n = 0
    BY <2>2
  <2>. QED
    BY <1>1, <2>3
<1>3. CASE c \in Cluster
  <2>1. Nth(c, Cardinality(Cluster)) = EOC
    BY <1>3, VolumeAssumption
  <2>2. ~ (n >= Cardinality(Cluster))
    BY <1>1, <2>1, EndStays
  <2>. QED
    BY <1>1, <2>2
<1>. QED
  BY <1>2, <1>3
-----------------------------------------------------------------------------
\* The first n clusters of the directory at c have no entry of that name.
Missed(c, name, n) == \A k \in 0 .. n - 1 : Hits(Listing[Nth(c, k)], name) = {}

\* The entries of one cluster, and the first of a name among them.
LEMMA FirstHit ==
  ASSUME NEW d \in Cluster \cup {ROOT}, NEW name, Hits(Listing[d], name) # {}
  PROVE  /\ Min(Hits(Listing[d], name)) \in Nat \ {0}
         /\ Min(Hits(Listing[d], name)) \in DOMAIN Listing[d]
         /\ Listing[d][Min(Hits(Listing[d], name))] \in Entry
         /\ format_entry(Listing[d][Min(Hits(Listing[d], name))]) = name
<1>1. Listing[d] \in Seq(Entry)
  BY DirectoryAssumption
<1>2. DOMAIN Listing[d] \subseteq Nat \ {0}
  BY <1>1
<1>3. Hits(Listing[d], name) \subseteq Nat
  BY <1>2 DEF Hits
<1>4. Min(Hits(Listing[d], name)) \in Hits(Listing[d], name)
  BY <1>3, MinIs
<1>5. /\ Min(Hits(Listing[d], name)) \in DOMAIN Listing[d]
      /\ format_entry(Listing[d][Min(Hits(Listing[d], name))]) = name
  BY <1>4 DEF Hits
<1>. QED
  BY <1>1, <1>2, <1>5

\* Where Named looks.
LEMMA FirstHolding ==
  ASSUME NEW c \in Cluster \cup {ROOT}, NEW name, Holding(c, name) # {}
  PROVE  /\ Min(Holding(c, name)) \in Holding(c, name)
         /\ \A k \in Holding(c, name) : Min(Holding(c, name)) <= k
<1>1. Holding(c, name) \subseteq Nat
  BY DEF Holding
<1>. QED
  BY <1>1, MinIs

\* A directory has an entry of any name, if only a blank one.
LEMMA NamedIsEntry ==
  ASSUME NEW c \in Cluster \cup {ROOT}, NEW name
  PROVE  /\ Named(c, name) \in Entry
         /\ Named(c, name).cluster \in Cluster \cup {ROOT}
<1>1. CASE Holding(c, name) = {}
  BY <1>1, DirectoryAssumption DEF Named, Blank, Entry
<1>2. CASE Holding(c, name) # {}
  <2>1. PICK n \in Holding(c, name) : n = Min(Holding(c, name))
    BY <1>2, FirstHolding
  <2>4. n \in Nat /\ Nth(c, n) # EOC /\ Hits(Listing[Nth(c, n)], name) # {}
    BY DEF Holding
  <2>2. Nth(c, n) \in Cluster \cup {ROOT}
    BY <2>4, NthUnfolds
  <2>3. Named(c, name) = Listing[Nth(c, n)][Min(Hits(Listing[Nth(c, n)], name))]
    BY <1>2, <2>1 DEF Named
  <2>. QED
    BY <2>2, <2>3, <2>4, FirstHit DEF Entry
<1>. QED
  BY <1>1, <1>2

\* When the loop of find_entry has come to cluster n and finds the name there, it is
\* the entry it should find.
LEMMA FoundIsNamed ==
  ASSUME NEW c \in Cluster \cup {ROOT}, NEW name \in Name, NEW n \in Nat, NEW d,
         d = Nth(c, n), d # EOC, Missed(c, name, n), Hits(Listing[d], name) # {}
  PROVE  /\ Min(Hits(Listing[d], name)) \in Nat \ {0}
         /\ Min(Hits(Listing[d], name)) \in DOMAIN Listing[d]
         /\ Listing[d][Min(Hits(Listing[d], name))] = Named(c, name)
         /\ Named(c, name) # Blank
<1>1. d \in Cluster \cup {ROOT}
  BY NthUnfolds
<1>2. n \in Holding(c, name)
  BY DirectoryEnds DEF Holding
<1>3. Min(Holding(c, name)) = n
  <2>1. PICK k : k = Min(Holding(c, name))
    OBVIOUS
  <2>2. k \in Holding(c, name) /\ k <= n
    BY <1>2, <2>1, FirstHolding
  <2>3. k \in Nat /\ Hits(Listing[Nth(c, k)], name) # {}
    BY <2>2 DEF Holding
  <2>4. ~ (k \in 0 .. n - 1)
    BY <2>3 DEF Missed
  <2>. QED
    BY <2>1, <2>2, <2>3, <2>4
<1>4. Listing[d][Min(Hits(Listing[d], name))] = Named(c, name)
  BY <1>2, <1>3 DEF Named
<1>5. Named(c, name) # Blank
  BY <1>1, <1>4, FirstHit, VolumeAssumption
<1>. QED
  BY <1>1, <1>4, <1>5, FirstHit

\* When it has come to the end without, there is nothing to be found.
LEMMA NotThere ==
  ASSUME NEW c \in Cluster \cup {ROOT}, NEW name, NEW n \in Nat, NEW d,
         d = Nth(c, n), d # EOC, Following(d) = EOC,
         Missed(c, name, n), Hits(Listing[d], name) = {}
  PROVE  Named(c, name) = Blank
<1>1. Nth(c, n + 1) = EOC
  BY NthUnfolds
<1>2. \A k \in Nat : k >= n + 1 => Nth(c, k) = EOC
  BY <1>1, EndStays
<1>3. ASSUME NEW k \in Holding(c, name)
      PROVE  FALSE
  <2>1. k \in Nat /\ Nth(c, k) # EOC /\ Hits(Listing[Nth(c, k)], name) # {}
    BY DEF Holding
  <2>2. k <= n
    BY <1>2, <2>1
  <2>3. CASE k \in 0 .. n - 1
    BY <2>1, <2>3 DEF Missed
  <2>4. CASE k = n
    BY <2>1, <2>4
  <2>. QED
    BY <2>1, <2>2, <2>3, <2>4
<1>. QED
  BY <1>3 DEF Named
-----------------------------------------------------------------------------
\* Where the names of p lead to, one after the other.
Leading(p) == CHOOSE w : w = [k \in Nat |-> IF k = 0 THEN ROOT
                                            ELSE Named(w[k - 1], p[k]).cluster]

LEMMA LeadsIsLeading ==
  ASSUME NEW p
  PROVE  Leads(p) = Leading(p)[Len(p)]
  BY DEF Leads, Leading

LEMMA LeadingUnfolds ==
  ASSUME NEW p
  PROVE  /\ Leading(p)[0] = ROOT
         /\ \A k \in Nat : /\ Leading(p)[k] \in Cluster \cup {ROOT}
                          /\ Leading(p)[k + 1] = Named(Leading(p)[k], p[k + 1]).cluster
<1>. DEFINE D == Cluster \cup {ROOT}
            next(k, d) == Named(d, p[k + 1]).cluster
            step == [k \in Nat |-> [d \in D |-> next(k, d)]]
<1>1. \A k \in Nat, d \in D : next(k, d) \in D
  BY NamedIsEntry
<1>2. \A k \in Nat, d \in D : step[k][d] = next(k, d)
  <2>. HIDE DEF next, D
  <2>. QED
    OBVIOUS
<1>3. PICK w : Repeats(w, step, ROOT, D)
  <2>1. ROOT \in D
    OBVIOUS
  <2>. HIDE DEF next, step, D
  <2>2. \A k \in Nat, x \in D : step[k][x] \in D
    BY <1>1, <1>2
  <2>. QED
    BY <2>1, <2>2, Iterates
<1>4. /\ w = [k \in Nat |-> w[k]]
      /\ w[0] = ROOT
      /\ \A k \in Nat : w[k + 1] = next(k, w[k])
  <2>. HIDE DEF next, step, D
  <2>. QED
    BY <1>2, <1>3 DEF Repeats
<1>. HIDE DEF step
<1>5. w = [k \in Nat |-> IF k = 0 THEN ROOT ELSE Named(w[k - 1], p[k]).cluster]
  <2>1. \A k \in Nat : k # 0 => w[k] = Named(w[k - 1], p[k]).cluster
    <3>. SUFFICES ASSUME NEW k \in Nat, k # 0
                  PROVE  w[k] = Named(w[k - 1], p[k]).cluster
      OBVIOUS
    <3>1. k - 1 \in Nat /\ (k - 1) + 1 = k
      OBVIOUS
    <3>. QED
      BY <1>4, <3>1
  <2>. HIDE DEF D
  <2>. QED
    BY <1>4, <2>1
<1>6. Leading(p) = [k \in Nat |-> IF k = 0 THEN ROOT ELSE Named(Leading(p)[k - 1], p[k]).cluster]
  BY <1>5 DEF Leading
<1>7. Leading(p)[0] = ROOT
  BY <1>6
<1>8. ASSUME NEW k \in Nat
      PROVE  Leading(p)[k + 1] = Named(Leading(p)[k], p[k + 1]).cluster
  <2>1. k + 1 \in Nat /\ k + 1 # 0 /\ (k + 1) - 1 = k
    OBVIOUS
  <2>. QED
    BY <1>6, <2>1
<1>9. \A k \in Nat : Leading(p)[k] \in D
  <2>. DEFINE T == {k \in Nat : Leading(p)[k] \in D}
  <2>1. 0 \in T
    BY <1>7
  <2>2. \A k \in Nat : k \in T => k + 1 \in T
    <3>. SUFFICES ASSUME NEW k \in Nat, k \in T
                  PROVE  k + 1 \in T
      OBVIOUS
    <3>1. Leading(p)[k] \in Cluster \cup {ROOT}
      OBVIOUS
    <3>2. Leading(p)[k + 1] \in Cluster \cup {ROOT}
      BY <1>8, <3>1, NamedIsEntry
    <3>. QED
      BY <3>2
  <2>. HIDE DEF T
  <2>3. Nat \subseteq T
    BY <2>1, <2>2, AllNumbers
  <2>. QED
    BY <2>3 DEF T
<1>. QED
  BY <1>7, <1>8, <1>9

\* The first names alone lead to where they lead with others behind them.
LEMMA LeadingAgree ==
  ASSUME NEW p, NEW r, NEW n \in Nat, \A k \in 1 .. n : p[k] = r[k]
  PROVE  \A k \in 0 .. n : Leading(p)[k] = Leading(r)[k]
<1>. DEFINE T == {k \in Nat : k <= n => Leading(p)[k] = Leading(r)[k]}
<1>1. 0 \in T
  BY LeadingUnfolds
<1>2. ASSUME NEW k \in Nat, k \in T
      PROVE  k + 1 \in T
  <2>. SUFFICES ASSUME k + 1 <= n
                PROVE  Leading(p)[k + 1] = Leading(r)[k + 1]
    OBVIOUS
  <2>1. Leading(p)[k] = Leading(r)[k] /\ p[k + 1] = r[k + 1]
    BY <1>2
  <2>. QED
    BY <2>1, LeadingUnfolds
<1>. HIDE DEF T
<1>3. Nat \subseteq T
  BY <1>1, <1>2, AllNumbers
<1>. QED
  BY <1>3 DEF T
-----------------------------------------------------------------------------
\* The clusters of the directories of the volume.
Folders == CHOOSE dirs \in SUBSET Cluster : Tree(dirs)

LEMMA FoldersAre ==
  /\ Folders \subseteq Cluster /\ ROOT \notin Folders
  /\ \A c \in Folders \cup {ROOT}, name \in Name :
       Named(c, name).Directory =>
         /\ name = DOT => Named(c, name).cluster = c
         /\ name \notin {DOT, DOTDOT} =>
              /\ Named(c, name).cluster \in Folders
              /\ Named(Named(c, name).cluster, DOTDOT).cluster = c
<1>1. Folders \in SUBSET Cluster /\ Tree(Folders)
  BY VolumeAssumption DEF Folders
<1>. QED
  BY <1>1, DirectoryAssumption DEF Tree

\* A path of names that go down, from directory to directory.
Proper(p) == /\ p \in Seq(Name)
             /\ \A n \in 1 .. Len(p) : /\ p[n] \notin {DOT, DOTDOT}
                                      /\ Named(Leading(p)[n - 1], p[n]).Directory

\* Each of its names leads to a directory that leads back.
LEMMA ProperLeads ==
  ASSUME NEW p, Proper(p)
  PROVE  /\ Len(p) \in Nat
         /\ Leading(p)[0] = ROOT
         /\ \A k \in 1 .. Len(p) : /\ Leading(p)[k] \in Folders
                                  /\ Named(Leading(p)[k], DOTDOT).cluster = Leading(p)[k - 1]
<1>1. /\ Len(p) \in Nat
      /\ \A n \in 1 .. Len(p) : p[n] \in Name
  BY DEF Proper
<1>2. ASSUME NEW n \in 1 .. Len(p), Leading(p)[n - 1] \in Folders \cup {ROOT}
      PROVE  /\ Leading(p)[n] \in Folders
             /\ Named(Leading(p)[n], DOTDOT).cluster = Leading(p)[n - 1]
  <2>1. n - 1 \in Nat /\ (n - 1) + 1 = n
    OBVIOUS
  <2>2. Leading(p)[n] = Named(Leading(p)[n - 1], p[n]).cluster
    BY <2>1, LeadingUnfolds
  <2>3. p[n] \in Name /\ p[n] \notin {DOT, DOTDOT} /\ Named(Leading(p)[n - 1], p[n]).Directory
    BY <1>1 DEF Proper
  <2>. QED
    BY <1>2, <2>2, <2>3, FoldersAre
<1>. DEFINE T == {k \in Nat : k <= Len(p) => Leading(p)[k] \in Folders \cup {ROOT}}
<1>3. 0 \in T
  BY LeadingUnfolds
<1>4. ASSUME NEW k \in Nat, k \in T
      PROVE  k + 1 \in T
  <2>. SUFFICES ASSUME k + 1 <= Len(p)
                PROVE  Leading(p)[k + 1] \in Folders \cup {ROOT}
    OBVIOUS
  <2>1. k + 1 \in 1 .. Len(p) /\ (k + 1) - 1 = k
    BY <1>1
  <2>2. Leading(p)[k] \in Folders \cup {ROOT}
    BY <1>1, <1>4
  <2>. QED
    BY <1>2, <2>1, <2>2
<1>. HIDE DEF T
<1>5. Nat \subseteq T
  BY <1>3, <1>4, AllNumbers
<1>6. ASSUME NEW n \in 1 .. Len(p)
      PROVE  Leading(p)[n - 1] \in Folders \cup {ROOT}
  <2>1. n - 1 \in T /\ n - 1 <= Len(p)
    BY <1>1, <1>5
  <2>. QED
    BY <2>1 DEF T
<1>. QED
  BY <1>1, <1>2, <1>6, LeadingUnfolds

\* Where it leads to is the root directory only when it is empty.
LEMMA ProperEnd ==
  ASSUME NEW p, Proper(p)
  PROVE  /\ Leads(p) \in Folders \cup {ROOT}
         /\ Len(p) = 0 => Leads(p) = ROOT
         /\ Len(p) > 0 => /\ Leads(p) \in Folders
                          /\ Named(Leads(p), DOTDOT).cluster = Leading(p)[Len(p) - 1]
<1>1. Len(p) \in Nat /\ Leading(p)[0] = ROOT /\ Leads(p) = Leading(p)[Len(p)]
  BY ProperLeads, LeadsIsLeading
<1>2. CASE Len(p) = 0
  BY <1>1, <1>2
<1>3. CASE Len(p) > 0
  <2>1. Len(p) \in 1 .. Len(p)
    BY <1>1, <1>3
  <2>2. /\ Leading(p)[Len(p)] \in Folders
        /\ Named(Leading(p)[Len(p)], DOTDOT).cluster = Leading(p)[Len(p) - 1]
    BY <2>1, ProperLeads
  <2>. QED
    BY <1>1, <1>3, <2>2
<1>. QED
  BY <1>1, <1>2, <1>3

\* No directory comes twice on a path, because each leads back to one only; so a
\* path has no more names than there are clusters.
LEMMA ProperIsShort ==
  ASSUME NEW p, Proper(p)
  PROVE  Len(p) <= Cardinality(Cluster)
<1>. DEFINE n == Len(p)
            stop == [k \in 1 .. n |-> Leading(p)[k]]
            T == {k \in Nat : \A m \in Nat : k < m /\ m <= n => Leading(p)[k] # Leading(p)[m]}
<1>1. n \in Nat /\ Folders \subseteq Cluster /\ ROOT \notin Folders /\ Leading(p)[0] = ROOT
  BY ProperLeads, FoldersAre
<1>2. \A k \in 1 .. n : /\ Leading(p)[k] \in Folders
                        /\ Named(Leading(p)[k], DOTDOT).cluster = Leading(p)[k - 1]
  BY ProperLeads
<1>. HIDE DEF n
<1>3. 0 \in T
  BY <1>1, <1>2
<1>4. ASSUME NEW k \in Nat, k \in T
      PROVE  k + 1 \in T
  <2>. SUFFICES ASSUME NEW m \in Nat, k + 1 < m, m <= n, Leading(p)[k + 1] = Leading(p)[m]
                PROVE  FALSE
    OBVIOUS
  <2>1. /\ k + 1 \in 1 .. n /\ (k + 1) - 1 = k
        /\ m \in 1 .. n /\ m - 1 \in Nat /\ k < m - 1 /\ m - 1 <= n
    BY <1>1
  <2>2. Leading(p)[k] = Leading(p)[m - 1]
    BY <1>2, <2>1
  <2>. QED
    BY <1>4, <2>1, <2>2
<1>5. Nat \subseteq T
  <2>. HIDE DEF T
  <2>. QED
    BY <1>3, <1>4, AllNumbers
<1>6. stop \in Injection(1 .. n, Cluster)
  <2>1. stop \in [1 .. n -> Cluster]
    BY <1>1, <1>2
  <2>2. ASSUME NEW a \in 1 .. n, NEW b \in 1 .. n, stop[a] = stop[b]
        PROVE  a = b
    <3>1. a \in T /\ b \in T
      BY <1>1, <1>5
    <3>2. ~ (a < b) /\ ~ (b < a)
      BY <1>1, <2>2, <3>1
    <3>. QED
      BY <1>1, <3>2
  <2>. HIDE DEF stop
  <2>. QED
    BY <2>1, <2>2 DEF Injection, IsInjective
<1>7. IsFiniteSet(Cluster)
  BY DirectoryAssumption
<1>8. Cardinality(1 .. n) <= Cardinality(Cluster)
  <2>. HIDE DEF stop
  <2>. QED
    BY <1>6, <1>7, FS_Injection
<1>9. Cardinality(1 .. n) = n
  <2>1. 1 \in Int /\ n \in Int /\ (1 > n => n = 0)
    BY <1>1
  <2>2. Cardinality(1 .. n) = IF 1 > n THEN 0 ELSE n - 1 + 1
    BY <2>1, FS_Interval
  <2>. QED
    BY <1>1, <2>1, <2>2
<1>. QED
  BY <1>8, <1>9 DEF n

\* Another name behind a path.
LEMMA AppendProper ==
  ASSUME NEW p, Proper(p), NEW name \in Name \ {DOT, DOTDOT}, Named(Leads(p), name).Directory
  PROVE  /\ Proper(Append(p, name))
         /\ Len(Append(p, name)) = Len(p) + 1
         /\ Leads(Append(p, name)) = Named(Leads(p), name).cluster
<1>. DEFINE r == Append(p, name)
            n == Len(p)
<1>1. /\ p \in Seq(Name) /\ r \in Seq(Name) /\ n \in Nat /\ Len(r) = n + 1
      /\ \A k \in 1 .. n : r[k] = p[k]
      /\ r[n + 1] = name
  BY DEF Proper
<1>. HIDE DEF r, n
<1>2. \A k \in 0 .. n : Leading(r)[k] = Leading(p)[k]
  BY <1>1, LeadingAgree
<1>3. Leading(r)[n] = Leads(p)
  BY <1>1, <1>2, LeadsIsLeading, SMTT(30) DEF n
<1>4. Leads(r) = Named(Leads(p), name).cluster
  <2>1. Leading(r)[n + 1] = Named(Leading(r)[n], r[n + 1]).cluster
    BY <1>1, LeadingUnfolds, ZenonT(60)
  <2>. QED
    BY <1>1, <1>3, <2>1, LeadsIsLeading
<1>5. ASSUME NEW k \in 1 .. n + 1
      PROVE  r[k] \notin {DOT, DOTDOT} /\ Named(Leading(r)[k - 1], r[k]).Directory
  <2>1. CASE k = n + 1
    <3>1. k - 1 = n
      BY <1>1, <2>1
    <3>. QED
      BY <1>1, <1>3, <2>1, <3>1
  <2>2. CASE k \in 1 .. n
    <3>1. r[k] = p[k] /\ Leading(r)[k - 1] = Leading(p)[k - 1]
      BY <1>1, <1>2, <2>2
    <3>2. p[k] \notin {DOT, DOTDOT} /\ Named(Leading(p)[k - 1], p[k]).Directory
      BY <2>2 DEF Proper, n
    <3>. QED
      BY <3>1, <3>2
  <2>. QED
    BY <1>1, <2>1, <2>2
<1>. QED
  BY <1>1, <1>4, <1>5 DEF Proper, r, n

\* A path without its last name.
LEMMA FrontProper ==
  ASSUME NEW p, Proper(p), Len(p) > 0
  PROVE  /\ Proper(SubSeq(p, 1, Len(p) - 1))
         /\ Len(SubSeq(p, 1, Len(p) - 1)) = Len(p) - 1
         /\ Leads(SubSeq(p, 1, Len(p) - 1)) = Leading(p)[Len(p) - 1]
<1>. DEFINE n == Len(p) - 1
            r == SubSeq(p, 1, n)
<1>1. p \in Seq(Name) /\ n \in Nat /\ n + 1 = Len(p)
  BY DEF Proper
<1>2. r \in Seq(Name) /\ Len(r) = n /\ \A k \in 1 .. n : r[k] = p[k]
  BY <1>1
<1>. HIDE DEF r, n
<1>3. \A k \in 0 .. n : Leading(r)[k] = Leading(p)[k]
  BY <1>1, <1>2, LeadingAgree
<1>4. Leads(r) = Leading(p)[n]
  BY <1>1, <1>2, <1>3, LeadsIsLeading
<1>5. ASSUME NEW k \in 1 .. n
      PROVE  r[k] \notin {DOT, DOTDOT} /\ Named(Leading(r)[k - 1], r[k]).Directory
  <2>1. r[k] = p[k] /\ Leading(r)[k - 1] = Leading(p)[k - 1]
    BY <1>1, <1>2, <1>3
  <2>2. k \in 1 .. Len(p)
    BY <1>1
  <2>. QED
    BY <2>1, <2>2 DEF Proper
<1>. QED
  BY <1>1, <1>2, <1>4, <1>5 DEF Proper, r, n

\* Where a change of directory leads to, and how deep that is.
LEMMA WalkIsProper ==
  ASSUME NEW p, Proper(p), NEW name \in Name, name \in {DOT, DOTDOT} => Len(p) > 0,
         NEW to, to = Named(Leads(p), name)
  PROVE  /\ Proper(Walk(p, name))
         /\ ~ to.Directory => Walk(p, name) = p
         /\ to.Directory =>
              /\ to.cluster = Leads(Walk(p, name))
              /\ Len(Walk(p, name)) = IF to.cluster = ROOT THEN 0 ELSE Depth(Len(p), name)
<1>1. /\ Leads(p) \in Folders \cup {ROOT} /\ Len(p) \in Nat
      /\ Len(p) > 0 => /\ Leads(p) \in Folders
                       /\ Named(Leads(p), DOTDOT).cluster = Leading(p)[Len(p) - 1]
      /\ ROOT \notin Folders
  BY ProperLeads, ProperEnd, FoldersAre
<1>2. DOT # DOTDOT
  BY DEF DOT, DOTDOT
<1>3. CASE ~ to.Directory
  BY <1>3 DEF Walk
<1>4. CASE to.Directory /\ name = DOT
  <2>1. Walk(p, name) = p /\ to.cluster = Leads(p) /\ Leads(p) # ROOT
    BY <1>1, <1>4, FoldersAre DEF Walk
  <2>. QED
    BY <1>2, <1>4, <2>1 DEF Depth
<1>5. CASE to.Directory /\ name = DOTDOT
  <2>1. Walk(p, name) = SubSeq(p, 1, Len(p) - 1)
    BY <1>2, <1>5 DEF Walk
  <2>2. /\ Proper(Walk(p, name))
        /\ Len(Walk(p, name)) = Len(p) - 1
        /\ to.cluster = Leads(Walk(p, name))
    BY <1>1, <1>5, <2>1, FrontProper
  <2>3. to.cluster = ROOT <=> Len(Walk(p, name)) = 0
    BY <1>1, <2>2, ProperLeads, ProperEnd
  <2>. QED
    BY <1>5, <2>2, <2>3 DEF Depth
<1>6. CASE to.Directory /\ name \notin {DOT, DOTDOT}
  <2>1. Walk(p, name) = Append(p, name) /\ to.cluster \in Folders
    BY <1>1, <1>6, FoldersAre DEF Walk
  <2>2. /\ Proper(Walk(p, name))
        /\ Len(Walk(p, name)) = Len(p) + 1
        /\ to.cluster = Leads(Walk(p, name))
    BY <1>6, <2>1, AppendProper
  <2>. QED
    BY <1>1, <1>6, <2>1, <2>2 DEF Depth
<1>. QED
  BY <1>3, <1>4, <1>5, <1>6
-----------------------------------------------------------------------------
\* What the type invariant says but for the bound on the depth, which follows from
\* where the tasks are.
Types == /\ cwd \in [Proc -> [depth : Nat, cluster : Cluster \cup {ROOT}]]
         /\ alive \subseteq Proc
         /\ pc \in [Proc -> {"idle", "search", "free", "take", "found", "failed", "lost"}]
         /\ look \in [Proc -> Look]
         /\ file \in [Proc -> Piece \cup {NO_PIECE}]
         /\ held \subseteq Piece
         /\ mem \in [Piece -> {<< >>} \cup {Listing[c] : c \in DOMAIN Listing}]
         /\ path \in [Proc -> Seq(Name)]
         /\ trouble \subseteq Proc

Searching(p) == pc[p] \in {"search", "free"}
Copied(p) == pc[p] \in {"search", "free", "take"}

\* A task is looking something up or not, and ".." is looked up below the root only.
CallOK(p) ==
  /\ pc[p] = "idle" <=> look[p].op = "none"
  /\ p \notin alive => pc[p] = "idle"
  /\ Copied(p) => look[p].entries \in Piece
  /\ p = main /\ look[p].op = "chdir" /\ look[p].name = DOTDOT => cwd[p].depth > 0

\* Memory in use belongs to one task, for one purpose.
HeldOK(p) ==
  /\ Searching(p) => look[p].entries \in held
  /\ file[p] # NO_PIECE => file[p] \in held
  /\ \A q \in Proc :
       /\ p # q /\ Searching(p) /\ Searching(q) => look[p].entries # look[q].entries
       /\ p # q /\ file[p] # NO_PIECE => file[p] # file[q]
       /\ Searching(p) /\ file[q] # NO_PIECE => look[p].entries # file[q]

\* The index found is that of the entry that should be.
Hit(p) == /\ look[p].idx \in DOMAIN Listing[look[p].cluster]
          /\ Listing[look[p].cluster][look[p].idx] = Named(Where(p), look[p].name)
          /\ Named(Where(p), look[p].name) # Blank

\* How far a task has got in find_entry, and what it has found so far.
LookOK(p) ==
  /\ pc[p] # "idle" => look[p].name \in Name
  /\ Copied(p) => mem[look[p].entries] = Listing[look[p].cluster]
  /\ pc[p] = "search" =>
       /\ look[p].idx = 0
       /\ \E n \in Nat : look[p].cluster = Nth(Where(p), n) /\ Missed(Where(p), look[p].name, n)
  /\ pc[p] = "free" => IF look[p].idx = 0 THEN Named(Where(p), look[p].name) = Blank ELSE Hit(p)
  /\ pc[p] = "take" => look[p].entries \notin held /\ Hit(p)
  /\ pc[p] = "found" => look[p].entry = Named(Where(p), look[p].name) /\ look[p].entry # Blank
  /\ pc[p] = "failed" => Named(Where(p), look[p].name) = Blank
  /\ pc[p] # "lost"

\* The current directory of p is the one that path r leads to.
AtEnd(p, r) == Proper(r) /\ cwd[p] = [depth |-> Len(r), cluster |-> Leads(r)]

\* In chdir, main is still where it comes from.
PathOK(p) ==
  IF p = main /\ look[p].op = "chdir"
  THEN \E r : /\ AtEnd(p, r)
              /\ path[p] = Walk(r, look[p].name)
              /\ look[p].name \in {DOT, DOTDOT} => Len(r) > 0
  ELSE AtEnd(p, path[p])

CallInv == \A p \in Proc : CallOK(p)
HeldInv == \A p \in Proc : HeldOK(p)
LookInv == \A p \in Proc \ trouble : LookOK(p)
PathInv == \A p \in Proc \ trouble : PathOK(p)

DirectoryInv == Types /\ CallInv /\ HeldInv /\ LookInv /\ PathInv
-----------------------------------------------------------------------------
LEMMA BlankIsEntry == Blank \in Entry
  BY DirectoryAssumption DEF Blank, Entry

\* A look-up that begins, and one that is over.
LEMMA LookUpIs ==
  ASSUME NEW op \in {"fopen", "chdir"}, NEW name \in Name, NEW c \in Cluster \cup {ROOT},
         NEW s \in Piece
  PROVE  LookUp(op, name, c, s) \in Look
  BY BlankIsEntry DEF LookUp, Look

LEMMA NoLookIs == NoLook \in Look /\ NoLook.op = "none"
  BY BlankIsEntry DEF NoLook, LookUp, Look

\* The directory a task is in is one.
LEMMA WhereIs ==
  ASSUME Types, NEW p \in Proc
  PROVE  Where(p) \in Cluster \cup {ROOT}
  BY DEF Types, Where

LEMMA InitDirectoryInv == DirectoryInit => DirectoryInv
<1>. SUFFICES ASSUME DirectoryInit
              PROVE  DirectoryInv
  OBVIOUS
<1>1. Types
  BY NoLookIs DEF DirectoryInit, Types, Proc
<1>2. CallInv /\ HeldInv /\ LookInv
  BY DEF DirectoryInit, CallInv, CallOK, HeldInv, HeldOK, LookInv, LookOK, Copied, Searching, NoLook, LookUp
<1>3. PathInv
  <2>1. Proper(<< >>) /\ Len(<< >>) = 0 /\ Leads(<< >>) = ROOT
    <3>1. << >> \in Seq(Name) /\ Len(<< >>) = 0
      OBVIOUS
    <3>2. Proper(<< >>)
      BY <3>1 DEF Proper
    <3>. QED
      BY <3>1, <3>2, ProperEnd
  <2>2. ASSUME NEW p \in Proc
        PROVE  PathOK(p)
    <3>1. path[p] = << >> /\ look[p].op = "none" /\ cwd[p] = [depth |-> 0, cluster |-> ROOT]
      BY DEF DirectoryInit, NoLook, LookUp
    <3>. QED
      BY <2>1, <3>1 DEF PathOK, AtEnd
  <2>. QED
    BY <2>2 DEF PathInv
<1>. QED
  BY <1>1, <1>2, <1>3 DEF DirectoryInv
-----------------------------------------------------------------------------
\* What begins a look-up.
LEMMA BeginIs ==
  ASSUME Types, CallInv, PathInv, NEW p \in Proc, NEW op \in {"fopen", "chdir"}, NEW name \in Name,
         Begin(p, op, name)
  PROVE  /\ p \in alive /\ p \notin trouble /\ pc[p] = "idle"
         /\ pc' = [pc EXCEPT ![p] = "search"]
         /\ UNCHANGED <<cwd, alive, file>>
         /\ \E s \in Piece :
              /\ Allocate(s, Listing[Where(p)])
              /\ look' = [look EXCEPT ![p] = LookUp(op, name, Where(p), s)]
<1>1. p \in alive /\ p \notin trouble /\ pc[p] = "idle"
  BY DEF Begin
<1>2. ~ (cwd[p].depth # 0 /\ cwd[p].cluster = ROOT)
  <2>1. AtEnd(p, path[p])
    BY <1>1 DEF PathInv, PathOK, CallInv, CallOK
  <2>2. Proper(path[p]) /\ cwd[p].depth = Len(path[p]) /\ cwd[p].cluster = Leads(path[p])
    BY <2>1 DEF AtEnd
  <2>. QED
    BY <2>2, ProperLeads, ProperEnd, FoldersAre
<1>. QED
  BY <1>1, <1>2 DEF Begin, Goto

\* What somebody else's allocation leaves of a copy.
LEMMA AllocateKeeps ==
  ASSUME Types, CallInv, HeldInv, LookInv, NEW s \in Piece, NEW contents, Allocate(s, contents),
         NEW q \in Proc, q \notin trouble', Copied(q)
  PROVE  /\ q \notin trouble
         /\ mem'[look[q].entries] = mem[look[q].entries]
         /\ pc[q] = "take" => look[q].entries \notin held'
<1>1. look[q].entries \in Piece /\ q \notin trouble
  BY DEF Allocate, CallInv, CallOK
<1>2. look[q].entries # s
  BY DEF Allocate, HeldInv, HeldOK, Searching, Copied
<1>3. pc[q] = "take" => look[q].entries \notin held
  BY <1>1 DEF LookInv, LookOK
<1>. QED
  BY <1>1, <1>2, <1>3 DEF Allocate, Types

\* What somebody else's forgetting leaves of it.
LEMMA ForgetKeeps ==
  ASSUME Types, NEW p \in Proc, NEW s \in Piece, Forget(p, s), NEW q \in Proc, p # q,
         look[q].entries \in Piece,
         pc[q] = "take" \/ look[q].entries # s \/ (pc[p] = "take" /\ s \in held)
  PROVE  mem'[look[q].entries] = mem[look[q].entries]
<1>1. CASE look[q].entries # s
  BY <1>1 DEF Forget, Types
<1>2. CASE look[q].entries = s /\ pc[q] = "take"
  BY <1>2 DEF Forget
<1>3. CASE pc[p] = "take" /\ s \in held
  BY <1>3 DEF Forget
<1>. QED
  BY <1>1, <1>2, <1>3

LEMMA ForgetType ==
  ASSUME Types, NEW p \in Proc, NEW s \in Piece, Forget(p, s)
  PROVE  mem' \in [Piece -> {<< >>} \cup {Listing[c] : c \in DOMAIN Listing}]
  BY DEF Forget, Types

LEMMA AllocateType ==
  ASSUME Types, NEW s \in Piece, NEW contents, Allocate(s, contents),
         contents = << >> \/ \E c \in DOMAIN Listing : contents = Listing[c]
  PROVE  /\ mem' \in [Piece -> {<< >>} \cup {Listing[c] : c \in DOMAIN Listing}]
         /\ held' \subseteq Piece
         /\ trouble' \subseteq Proc
<1>1. contents \in {<< >>} \cup {Listing[c] : c \in DOMAIN Listing}
  OBVIOUS
<1>2. mem' \in [Piece -> {<< >>} \cup {Listing[c] : c \in DOMAIN Listing}]
  BY <1>1 DEF Allocate, Types
<1>. QED
  BY <1>2 DEF Allocate, Types

\* The copy of p is a directory's cluster or nothing, so that what is in it are entries.
LEMMA CopyIs ==
  ASSUME Types, NEW p \in Proc, look[p].entries \in Piece
  PROVE  mem[look[p].entries] \in Seq(Entry)
<1>1. mem[look[p].entries] = << >> \/ \E c \in DOMAIN Listing : mem[look[p].entries] = Listing[c]
  BY DEF Types
<1>2. << >> \in Seq(Entry)
  OBVIOUS
<1>3. \A c \in DOMAIN Listing : Listing[c] \in Seq(Entry)
  BY DirectoryAssumption
<1>. QED
  BY <1>1, <1>2, <1>3

\* What the search of a copy changes.
LEMMA SearchIs ==
  ASSUME Types, CallInv, NEW p \in Proc, Search(p)
  PROVE  \E idx \in Nat, c \in Cluster \cup {ROOT} :
           /\ look' = [look EXCEPT ![p] = [look[p] EXCEPT !.idx = idx, !.cluster = c]]
           /\ pc' \in {pc, [pc EXCEPT ![p] = "free"]}
           /\ mem' \in {mem, [mem EXCEPT ![look[p].entries] = Listing[c]]}
<1> DEFINE hits == Hits(mem[look[p].entries], look[p].name)
           idx == IF hits = {} THEN look[p].idx ELSE Min(hits)
           c == look[p].cluster
<1>1. look[p] \in Look /\ look[p].idx \in Nat /\ c \in Cluster \cup {ROOT}
  BY DEF Types, Look
<1>2. idx \in Nat
  <2>1. look[p].entries \in Piece
    BY DEF Search, CallInv, CallOK, Copied
  <2>2. hits \subseteq Nat
    BY <2>1, CopyIs DEF Hits
  <2>. QED
    BY <1>1, <2>2, MinIs
<1>3. Following(c) # EOC => Following(c) \in Cluster \cup {ROOT}
  BY <1>1, DirectoryAssumption DEF Following
<1>4. CASE Stops(c, hits)
  <2>1. look' = [look EXCEPT ![p].idx = idx] /\ pc' = [pc EXCEPT ![p] = "free"] /\ mem' = mem
    BY <1>4 DEF Search, Goto
  <2>2. look' = [look EXCEPT ![p] = [look[p] EXCEPT !.idx = idx, !.cluster = c]]
    BY <1>1, <2>1 DEF Types, Look
  <2>. QED
    BY <1>1, <1>2, <2>1, <2>2
<1>5. CASE ~ Stops(c, hits)
  <2>1. /\ look' = [look EXCEPT ![p].idx = idx, ![p].cluster = Following(c)]
        /\ mem' = [mem EXCEPT ![look[p].entries] = Listing[Following(c)]]
        /\ pc' = pc
    BY <1>5 DEF Search
  <2>2. look' = [look EXCEPT ![p] = [look[p] EXCEPT !.idx = idx, !.cluster = Following(c)]]
    BY <1>1, <2>1 DEF Types, Look
  <2>3. Following(c) \in Cluster \cup {ROOT}
    BY <1>3, <1>5 DEF Stops
  <2>. QED
    BY <1>2, <2>1, <2>2, <2>3
<1>. QED
  BY <1>4, <1>5

LEMMA NextTypes ==
  ASSUME Types, CallInv, LookInv, PathInv, [DirectoryNext]_directory
  PROVE  Types'
<1>1. ASSUME NEW p \in Proc, NEW op \in {"fopen", "chdir"}, NEW name \in Name, Begin(p, op, name),
             path' \in [Proc -> Seq(Name)]
      PROVE  Types'
  <2>1. PICK s \in Piece : /\ Allocate(s, Listing[Where(p)])
                           /\ look' = [look EXCEPT ![p] = LookUp(op, name, Where(p), s)]
    BY <1>1, BeginIs
  <2>2. Where(p) \in DOMAIN Listing /\ Where(p) \in Cluster \cup {ROOT}
    BY WhereIs, DirectoryAssumption
  <2>3. look' \in [Proc -> Look]
    BY <2>1, <2>2, LookUpIs DEF Types
  <2>4. UNCHANGED <<cwd, alive, file>> /\ pc' = [pc EXCEPT ![p] = "search"]
    BY <1>1, BeginIs
  <2>5. /\ mem' \in [Piece -> {<< >>} \cup {Listing[c] : c \in DOMAIN Listing}]
        /\ held' \subseteq Piece
        /\ trouble' \subseteq Proc
    BY <2>1, <2>2, AllocateType
  <2>. QED
    BY <1>1, <2>3, <2>4, <2>5 DEF Types
<1>2. ASSUME NEW p \in Proc, NEW name \in Name, fopen(p, name)
      PROVE  Types'
  BY <1>1, <1>2 DEF fopen, Types
<1>3. ASSUME NEW name \in Name, chdir(name)
      PROVE  Types'
  <2>1. main \in Proc /\ Begin(main, "chdir", name)
    BY <1>3 DEF chdir, Proc
  <2>2. Proper(path[main]) /\ cwd[main] = [depth |-> Len(path[main]), cluster |-> Leads(path[main])]
    <3>1. main \notin trouble /\ look[main].op = "none"
      BY <2>1, BeginIs DEF CallInv, CallOK
    <3>. QED
      BY <2>1, <3>1 DEF PathInv, PathOK, AtEnd
  <2>3. name \in {DOT, DOTDOT} => Len(path[main]) > 0
    <3>1. Len(path[main]) \in Nat /\ cwd[main].depth = Len(path[main])
      BY <2>2, ProperLeads
    <3>. QED
      BY <3>1, <1>3 DEF chdir
  <2>4. Walk(path[main], name) \in Seq(Name)
    BY <2>2, <2>3, WalkIsProper DEF Proper
  <2>5. path' \in [Proc -> Seq(Name)]
    BY <1>3, <2>4 DEF chdir, Types
  <2>. QED
    BY <1>1, <2>1, <2>5
<1>4. ASSUME NEW p \in Proc, Search(p)
      PROVE  Types'
  <2>1. PICK idx \in Nat, c \in Cluster \cup {ROOT} :
           /\ look' = [look EXCEPT ![p] = [look[p] EXCEPT !.idx = idx, !.cluster = c]]
           /\ pc' \in {pc, [pc EXCEPT ![p] = "free"]}
           /\ mem' \in {mem, [mem EXCEPT ![look[p].entries] = Listing[c]]}
    BY <1>4, SearchIs
  <2>2. [look[p] EXCEPT !.idx = idx, !.cluster = c] \in Look
    BY ZenonT(60) DEF Types, Look
  <2>3. look' \in [Proc -> Look]
    BY <2>1, <2>2 DEF Types
  <2>4. mem' \in [Piece -> {<< >>} \cup {Listing[d] : d \in DOMAIN Listing}]
    BY <2>1, DirectoryAssumption DEF Types
  <2>5. pc' \in [Proc -> {"idle", "search", "free", "take", "found", "failed", "lost"}]
    BY <2>1 DEF Types
  <2>6. UNCHANGED <<cwd, alive, file, held, path, trouble>>
    BY <1>4 DEF Search
  <2>. QED
    BY <2>3, <2>4, <2>5, <2>6 DEF Types
<1>5. ASSUME NEW p \in Proc, Free(p)
      PROVE  Types'
  <2>1. look[p].entries \in Piece
    BY <1>5 DEF Free, CallInv, CallOK, Copied
  <2>2. mem' \in [Piece -> {<< >>} \cup {Listing[c] : c \in DOMAIN Listing}]
    BY <1>5, <2>1, ForgetType DEF Free, Types
  <2>. QED
    BY <1>5, <2>2 DEF Free, Goto, Types
<1>6. ASSUME NEW p \in Proc, Take(p)
      PROVE  Types'
  <2>1. look[p].entries \in Piece
    BY <1>6 DEF Take, CallInv, CallOK, Copied
  <2>2. mem' \in [Piece -> {<< >>} \cup {Listing[c] : c \in DOMAIN Listing}]
    BY <1>6, <2>1, ForgetType DEF Take
  <2>3. look' \in [Proc -> Look]
    <3>1. CASE look[p].idx \in DOMAIN mem[look[p].entries]
      <4>1. mem[look[p].entries][look[p].idx] \in Entry
        BY <2>1, <3>1, CopyIs
      <4>2. [look[p] EXCEPT !.entry = mem[look[p].entries][look[p].idx]] \in Look
        BY <4>1, ZenonT(60) DEF Types, Look
      <4>3. look' = [look EXCEPT ![p] = [look[p] EXCEPT !.entry = mem[look[p].entries][look[p].idx]]]
        BY <1>6, <3>1 DEF Take
      <4>. QED
        BY <4>2, <4>3 DEF Types
    <3>2. CASE look[p].idx \notin DOMAIN mem[look[p].entries]
      BY <1>6, <3>2 DEF Take, Types
    <3>. QED
      BY <3>1, <3>2
  <2>4. pc' \in [Proc -> {"idle", "search", "free", "take", "found", "failed", "lost"}]
    BY <1>6 DEF Take, Goto, Types
  <2>5. UNCHANGED <<cwd, alive, file, held, path, trouble>>
    BY <1>6 DEF Take
  <2>. QED
    BY <2>2, <2>3, <2>4, <2>5 DEF Types
<1>7. ASSUME NEW p \in Proc, Fail(p)
      PROVE  Types'
  BY <1>7, NoLookIs DEF Fail, Return, Goto, Types
<1>8. ASSUME NEW p \in Proc, Open(p)
      PROVE  Types'
  <2>1. look' \in [Proc -> Look] /\ pc' \in [Proc -> {"idle", "search", "free", "take", "found", "failed", "lost"}]
    BY <1>8, NoLookIs DEF Open, Return, Goto, Types
  <2>2. CASE look[p].entry.Directory
    BY <1>8, <2>1, <2>2 DEF Open, Types
  <2>3. CASE ~ look[p].entry.Directory
    <3>1. PICK s \in Piece : Allocate(s, << >>) /\ file' = [file EXCEPT ![p] = s]
      BY <1>8, <2>3 DEF Open
    <3>2. /\ mem' \in [Piece -> {<< >>} \cup {Listing[c] : c \in DOMAIN Listing}]
          /\ held' \subseteq Piece
          /\ trouble' \subseteq Proc
      BY <3>1, AllocateType
    <3>. QED
      BY <1>8, <2>1, <3>1, <3>2 DEF Open, Types
  <2>. QED
    BY <2>2, <2>3
<1>9. ASSUME NEW p \in Proc, fclose(p)
      PROVE  Types'
  BY <1>9 DEF fclose, Types
<1>10. ASSUME Change
       PROVE  Types'
  <2>1. main \in Proc /\ look[main] \in Look /\ cwd[main] \in [depth : Nat, cluster : Cluster \cup {ROOT}]
    BY DEF Types, Proc
  <2>2. look' \in [Proc -> Look] /\ pc' \in [Proc -> {"idle", "search", "free", "take", "found", "failed", "lost"}]
    BY <1>10, NoLookIs DEF Change, Return, Goto, Types
  <2>3. look[main].entry.cluster \in Cluster \cup {ROOT}
    BY <2>1 DEF Look, Entry
  <2>4. Depth(cwd[main].depth, look[main].name) \in Nat
    <3>1. cwd[main].depth \in Nat /\ (look[main].name = DOTDOT => cwd[main].depth > 0)
      BY <1>10, <2>1 DEF Change, CallInv, CallOK
    <3>. QED
      BY <3>1 DEF Depth
  <2>5. cwd' \in [Proc -> [depth : Nat, cluster : Cluster \cup {ROOT}]]
    BY SMTT(30), <1>10, <2>1, <2>3, <2>4 DEF Change, Types
  <2>. QED
    BY <1>10, <2>2, <2>5 DEF Change, Types
<1>11. ASSUME NEW p \in Program, create_task(p)
       PROVE  Types'
  BY <1>11 DEF create_task, Types, Proc
<1>12. CASE UNCHANGED directory
  BY <1>12 DEF directory, Types
<1>. QED
  BY <1>2, <1>3, <1>4, <1>5, <1>6, <1>7, <1>8, <1>9, <1>10, <1>11, <1>12 DEF DirectoryNext
-----------------------------------------------------------------------------
\* What a step leaves of a task that it does not touch.
LEMMA CallKept ==
  ASSUME NEW q \in Proc, CallOK(q), pc'[q] = pc[q], look'[q] = look[q],
         cwd'[q] = cwd[q] \/ look[q].op # "chdir", alive \subseteq alive'
  PROVE  CallOK(q)'
  BY DEF CallOK, Copied

LEMMA NextCall ==
  ASSUME Types, Types', CallInv, LookInv, PathInv, [DirectoryNext]_directory
  PROVE  CallInv'
<1>1. ASSUME NEW p \in Proc, NEW op \in {"fopen", "chdir"}, NEW name \in Name, Begin(p, op, name),
             p = main /\ op = "chdir" /\ name = DOTDOT => cwd[p].depth # 0
      PROVE  CallInv'
  <2>1. PICK s \in Piece : look' = [look EXCEPT ![p] = LookUp(op, name, Where(p), s)]
    BY <1>1, BeginIs
  <2>2. /\ p \in alive /\ UNCHANGED <<cwd, alive>> /\ pc' = [pc EXCEPT ![p] = "search"]
    BY <1>1, BeginIs
  <2>3. CallOK(p)'
    <3>1. look'[p] = LookUp(op, name, Where(p), s) /\ pc'[p] = "search"
      BY <2>1, <2>2 DEF Types
    <3>2. cwd[p].depth \in Nat
      BY DEF Types
    <3>. QED
      BY <1>1, <2>2, <3>1, <3>2 DEF CallOK, Copied, LookUp
  <2>4. ASSUME NEW q \in Proc, p # q
        PROVE  CallOK(q)'
    BY <2>1, <2>2, <2>4, CallKept DEF CallInv, Types
  <2>. QED
    BY <2>3, <2>4 DEF CallInv
<1>2. ASSUME NEW p \in Proc, NEW name \in Name, fopen(p, name)
      PROVE  CallInv'
  BY <1>1, <1>2 DEF fopen
<1>3. ASSUME NEW name \in Name, chdir(name)
      PROVE  CallInv'
  <2>1. main \in Proc /\ Begin(main, "chdir", name) /\ (name = DOTDOT => cwd[main].depth # 0)
    BY <1>3 DEF chdir, Proc
  <2>. QED
    BY <1>1, <2>1
<1>4. ASSUME NEW p \in Proc, Search(p)
      PROVE  CallInv'
  <2>1. PICK idx \in Nat, c \in Cluster \cup {ROOT} :
           /\ look' = [look EXCEPT ![p] = [look[p] EXCEPT !.idx = idx, !.cluster = c]]
           /\ pc' \in {pc, [pc EXCEPT ![p] = "free"]}
    BY <1>4, SearchIs
  <2>2. pc[p] = "search" /\ UNCHANGED <<cwd, alive>>
    BY <1>4 DEF Search
  <2>3. CallOK(p)'
    <3>1. look[p] \in Look
      BY DEF Types
    <3>2. look'[p] = [look[p] EXCEPT !.idx = idx, !.cluster = c] /\ pc'[p] \in {"search", "free"}
      BY <2>1, <2>2 DEF Types
    <3>3. look'[p].op = look[p].op /\ look'[p].name = look[p].name /\ look'[p].entries = look[p].entries
      BY <3>1, <3>2 DEF Look
    <3>. QED
      BY <2>2, <3>2, <3>3 DEF CallInv, CallOK, Copied
  <2>4. ASSUME NEW q \in Proc, p # q
        PROVE  CallOK(q)'
    BY <2>1, <2>2, <2>4, CallKept DEF CallInv, Types
  <2>. QED
    BY <2>3, <2>4 DEF CallInv
<1>5. ASSUME NEW p \in Proc, Free(p)
      PROVE  CallInv'
  <2>1. pc[p] = "free" /\ pc' \in {[pc EXCEPT ![p] = "take"], [pc EXCEPT ![p] = "failed"]}
    BY <1>5 DEF Free, Goto
  <2>2. UNCHANGED <<cwd, alive, look>>
    BY <1>5 DEF Free
  <2>3. CallOK(p)'
    BY <2>1, <2>2 DEF CallInv, CallOK, Copied, Types
  <2>4. ASSUME NEW q \in Proc, p # q
        PROVE  CallOK(q)'
    BY <2>1, <2>2, <2>4, CallKept DEF CallInv, Types
  <2>. QED
    BY <2>3, <2>4 DEF CallInv
<1>6. ASSUME NEW p \in Proc, Take(p)
      PROVE  CallInv'
  <2>1. pc[p] = "take" /\ pc' \in {[pc EXCEPT ![p] = "found"], [pc EXCEPT ![p] = "lost"]}
    BY <1>6 DEF Take, Goto
  <2>2. UNCHANGED <<cwd, alive>>
    BY <1>6 DEF Take
  <2>3. PICK e : look' \in {look, [look EXCEPT ![p].entry = e]}
    BY <1>6 DEF Take
  <2>4. look'[p].op = look[p].op /\ look'[p].name = look[p].name
    BY <2>3 DEF Types, Look
  <2>5. CallOK(p)'
    BY <2>1, <2>2, <2>4 DEF CallInv, CallOK, Copied, Types
  <2>6. ASSUME NEW q \in Proc, p # q
        PROVE  CallOK(q)'
    BY <2>1, <2>2, <2>3, <2>6, CallKept DEF CallInv, Types
  <2>. QED
    BY <2>5, <2>6 DEF CallInv
<1>7. ASSUME NEW p \in Proc, Return(p), alive' = alive,
             \A q \in Proc \ {p} : cwd'[q] = cwd[q]
      PROVE  CallInv'
  <2>1. pc' = [pc EXCEPT ![p] = "idle"] /\ look' = [look EXCEPT ![p] = NoLook]
    BY <1>7 DEF Return, Goto
  <2>2. CallOK(p)'
    BY <2>1, NoLookIs DEF CallOK, Copied, Types
  <2>3. ASSUME NEW q \in Proc, p # q
        PROVE  CallOK(q)'
    BY <1>7, <2>1, <2>3, CallKept DEF CallInv, Types
  <2>. QED
    BY <2>2, <2>3 DEF CallInv
<1>8. ASSUME NEW p \in Proc, Fail(p) \/ Open(p)
      PROVE  CallInv'
  BY <1>7, <1>8 DEF Fail, Open
<1>9. ASSUME NEW p \in Proc, fclose(p)
      PROVE  CallInv'
  BY <1>9 DEF fclose, CallInv, CallOK, Copied
<1>10. ASSUME Change
       PROVE  CallInv'
  <2>1. \A q \in Proc \ {main} : cwd'[q] = cwd[q]
    BY <1>10 DEF Change, Types
  <2>. QED
    BY <1>7, <1>10, <2>1 DEF Change, Proc
<1>11. ASSUME NEW p \in Program, create_task(p)
       PROVE  CallInv'
  <2>1. p \in Proc /\ p \notin alive /\ alive \subseteq alive' /\ UNCHANGED <<pc, look>>
    BY <1>11 DEF create_task, Proc
  <2>2. ASSUME NEW q \in Proc
        PROVE  CallOK(q)'
    <3>1. q = p => look[q].op # "chdir"
      BY <2>1 DEF CallInv, CallOK
    <3>2. q # p => cwd'[q] = cwd[q]
      BY <1>11 DEF create_task, Types
    <3>. QED
      BY <2>1, <3>1, <3>2, CallKept DEF CallInv
  <2>. QED
    BY <2>2 DEF CallInv
<1>12. CASE UNCHANGED directory
  BY <1>12 DEF directory, CallInv, CallOK, Copied
<1>. QED
  BY <1>2, <1>3, <1>4, <1>5, <1>6, <1>8, <1>9, <1>10, <1>11, <1>12 DEF DirectoryNext
-----------------------------------------------------------------------------
\* The memory a step allocates was nobody's; what one gets, others have not.
LEMMA AllocatedIsApart ==
  ASSUME Types, CallInv, HeldInv, NEW s \in Piece, NEW contents, Allocate(s, contents)
  PROVE  /\ s \in held' /\ held \subseteq held'
         /\ \A q \in Proc : /\ Searching(q) => look[q].entries # s
                            /\ file[q] # NO_PIECE => file[q] # s
  BY DEF Allocate, HeldInv, HeldOK

LEMMA NextHeld ==
  ASSUME Types, CallInv, HeldInv, LookInv, PathInv, [DirectoryNext]_directory
  PROVE  HeldInv'
<1>1. ASSUME NEW p \in Proc, NEW op \in {"fopen", "chdir"}, NEW name \in Name, Begin(p, op, name)
      PROVE  HeldInv'
  <2>1. PICK s \in Piece : /\ Allocate(s, Listing[Where(p)])
                           /\ look' = [look EXCEPT ![p] = LookUp(op, name, Where(p), s)]
    BY <1>1, BeginIs
  <2>2. pc' = [pc EXCEPT ![p] = "search"] /\ file' = file
    BY <1>1, BeginIs
  <2>3. look'[p].entries = s /\ \A q \in Proc \ {p} : look'[q] = look[q] /\ pc'[q] = pc[q]
    BY <2>1, <2>2 DEF Types, LookUp
  <2>4. /\ s \in held' /\ held \subseteq held'
        /\ \A q \in Proc : /\ Searching(q) => look[q].entries # s
                           /\ file[q] # NO_PIECE => file[q] # s
    BY <2>1, AllocatedIsApart
  <2>5. ASSUME NEW q \in Proc
        PROVE  HeldOK(q)'
    BY <2>2, <2>3, <2>4 DEF HeldInv, HeldOK, Searching
  <2>. QED
    BY <2>5 DEF HeldInv
<1>2. ASSUME NEW p \in Proc, Search(p)
      PROVE  HeldInv'
  <2>1. PICK idx \in Nat, c \in Cluster \cup {ROOT} :
           /\ look' = [look EXCEPT ![p] = [look[p] EXCEPT !.idx = idx, !.cluster = c]]
           /\ pc' \in {pc, [pc EXCEPT ![p] = "free"]}
    BY <1>2, SearchIs
  <2>2. pc[p] = "search" /\ UNCHANGED <<file, held>>
    BY <1>2 DEF Search
  <2>3. \A q \in Proc : look'[q].entries = look[q].entries
    BY <2>1 DEF Types, Look
  <2>4. \A q \in Proc : Searching(q)' <=> Searching(q)
    BY <2>1, <2>2 DEF Types, Searching
  <2>. QED
    BY <2>2, <2>3, <2>4 DEF HeldInv, HeldOK
<1>3. ASSUME NEW p \in Proc, Free(p)
      PROVE  HeldInv'
  <2>1. /\ Searching(p) /\ held' = held \ {look[p].entries} /\ UNCHANGED <<look, file>>
    BY <1>3 DEF Free, Searching
  <2>2. ~ Searching(p)' /\ \A q \in Proc \ {p} : Searching(q)' <=> Searching(q)
    BY <1>3 DEF Free, Goto, Types, Searching
  <2>3. ASSUME NEW q \in Proc
        PROVE  HeldOK(q)'
    BY <2>1, <2>2 DEF HeldInv, HeldOK
  <2>. QED
    BY <2>3 DEF HeldInv
<1>4. ASSUME NEW p \in Proc, Take(p)
      PROVE  HeldInv'
  <2>1. UNCHANGED <<file, held>> /\ ~ Searching(p)
    BY <1>4 DEF Take, Searching
  <2>2. \A q \in Proc : Searching(q)' <=> Searching(q)
    BY <1>4 DEF Take, Goto, Types, Searching
  <2>3. \A q \in Proc \ {p} : look'[q] = look[q]
    BY <1>4 DEF Take, Types
  <2>4. ASSUME NEW q \in Proc
        PROVE  HeldOK(q)'
    BY <2>1, <2>2, <2>3 DEF HeldInv, HeldOK
  <2>. QED
    BY <2>4 DEF HeldInv
<1>5. ASSUME NEW p \in Proc, Return(p), UNCHANGED <<file, held>>
      PROVE  HeldInv'
  <2>1. ~ Searching(p)' /\ \A q \in Proc \ {p} : pc'[q] = pc[q] /\ look'[q] = look[q]
    BY <1>5 DEF Return, Goto, Types, Searching
  <2>2. \A q \in Proc \ {p} : Searching(q)' <=> Searching(q)
    BY <2>1 DEF Searching
  <2>3. ASSUME NEW q \in Proc
        PROVE  HeldOK(q)'
    BY <1>5, <2>1, <2>2 DEF HeldInv, HeldOK
  <2>. QED
    BY <2>3 DEF HeldInv
<1>6. ASSUME NEW p \in Proc, Open(p)
      PROVE  HeldInv'
  <2>1. CASE look[p].entry.Directory
    BY <1>5, <1>6, <2>1 DEF Open
  <2>2. CASE ~ look[p].entry.Directory
    <3>1. PICK s \in Piece : Allocate(s, << >>) /\ file' = [file EXCEPT ![p] = s]
      BY <1>6, <2>2 DEF Open
    <3>2. ~ Searching(p)' /\ \A q \in Proc \ {p} : pc'[q] = pc[q] /\ look'[q] = look[q]
      BY <1>6 DEF Open, Return, Goto, Types, Searching
    <3>3. \A q \in Proc \ {p} : Searching(q)' <=> Searching(q)
      BY <3>2 DEF Searching
    <3>4. /\ s \in held' /\ held \subseteq held'
          /\ \A q \in Proc : /\ Searching(q) => look[q].entries # s
                             /\ file[q] # NO_PIECE => file[q] # s
      BY <3>1, AllocatedIsApart
    <3>5. file'[p] = s /\ \A q \in Proc \ {p} : file'[q] = file[q]
      BY <3>1 DEF Types
    <3>6. ASSUME NEW q \in Proc
          PROVE  HeldOK(q)'
      BY <3>2, <3>3, <3>4, <3>5 DEF HeldInv, HeldOK
    <3>. QED
      BY <3>6 DEF HeldInv
  <2>. QED
    BY <2>1, <2>2
<1>7. ASSUME NEW p \in Proc, fclose(p)
      PROVE  HeldInv'
  <2>1. /\ file[p] # NO_PIECE /\ held' = held \ {file[p]} /\ UNCHANGED <<pc, look>>
    BY <1>7 DEF fclose
  <2>2. file'[p] = NO_PIECE /\ \A q \in Proc \ {p} : file'[q] = file[q]
    BY <1>7 DEF fclose, Types
  <2>3. \A q \in Proc : Searching(q)' <=> Searching(q)
    BY <2>1 DEF Searching
  <2>4. ASSUME NEW q \in Proc
        PROVE  HeldOK(q)'
    BY <2>1, <2>2, <2>3 DEF HeldInv, HeldOK
  <2>. QED
    BY <2>4 DEF HeldInv
<1>8. ASSUME UNCHANGED <<pc, look, file, held>>
      PROVE  HeldInv'
  BY <1>8 DEF HeldInv, HeldOK, Searching
<1>9. ASSUME Change
      PROVE  HeldInv'
  BY <1>5, <1>9 DEF Change, Proc
<1>10. ASSUME NEW p \in Proc, Fail(p)
       PROVE  HeldInv'
  BY <1>5, <1>10 DEF Fail
<1>11. ASSUME NEW p \in Program, create_task(p)
       PROVE  HeldInv'
  BY <1>8, <1>11 DEF create_task
<1>12. CASE UNCHANGED directory
  BY <1>8, <1>12 DEF directory
<1>13. ASSUME NEW p \in Proc, NEW name \in Name, fopen(p, name)
       PROVE  HeldInv'
  BY <1>1, <1>13 DEF fopen
<1>14. ASSUME NEW name \in Name, chdir(name)
       PROVE  HeldInv'
  BY <1>1, <1>14 DEF chdir, Proc
<1>. QED
  BY <1>2, <1>3, <1>4, <1>6, <1>7, <1>9, <1>10, <1>11, <1>12, <1>13, <1>14 DEF DirectoryNext
-----------------------------------------------------------------------------
LEMMA LookKept ==
  ASSUME NEW q \in Proc, LookOK(q), pc'[q] = pc[q], look'[q] = look[q], cwd'[q] = cwd[q],
         Copied(q) => mem'[look[q].entries] = mem[look[q].entries],
         pc[q] = "take" => look[q].entries \notin held'
  PROVE  LookOK(q)'
<1>1. Where(q)' = Where(q) /\ Hit(q)' = Hit(q) /\ Copied(q)' = Copied(q)
  BY DEF Where, Hit, Copied
<1>. QED
  BY <1>1 DEF LookOK, Copied

\* The look-up of p when it begins: at the first cluster, having missed none.
LEMMA LookBegins ==
  ASSUME Types, CallInv, HeldInv, LookInv, PathInv, NEW p \in Proc, NEW op \in {"fopen", "chdir"},
         NEW name \in Name, Begin(p, op, name)
  PROVE  LookInv'
<1>1. PICK s \in Piece : /\ Allocate(s, Listing[Where(p)])
                         /\ look' = [look EXCEPT ![p] = LookUp(op, name, Where(p), s)]
  BY BeginIs
<1>2. pc' = [pc EXCEPT ![p] = "search"] /\ cwd' = cwd
  BY BeginIs
<1>3. LookOK(p)'
  <2>1. look'[p] = LookUp(op, name, Where(p), s) /\ pc'[p] = "search"
    BY <1>1, <1>2 DEF Types
  <2>2. /\ look'[p].name = name /\ look'[p].cluster = Where(p) /\ look'[p].entries = s
        /\ look'[p].idx = 0
    BY <2>1 DEF LookUp
  <2>3. mem'[s] = Listing[Where(p)]
    BY <1>1 DEF Allocate, Types
  <2>4. Where(p)' = Where(p) /\ Where(p) = Nth(Where(p), 0) /\ Missed(Where(p), name, 0)
    BY <1>2, WhereIs, NthUnfolds DEF Where, Missed
  <2>. QED
    BY <2>1, <2>2, <2>3, <2>4 DEF LookOK
<1>4. ASSUME NEW q \in Proc \ trouble', p # q
      PROVE  LookOK(q)'
  <2>1. q \notin trouble /\ (Copied(q) => mem'[look[q].entries] = mem[look[q].entries])
        /\ (pc[q] = "take" => look[q].entries \notin held')
    BY <1>1, AllocateKeeps DEF Allocate, Copied
  <2>. QED
    BY <1>1, <1>2, <1>4, <2>1, LookKept DEF LookInv, Types
<1>. QED
  BY <1>3, <1>4 DEF LookInv

\* The search of p, as far as it has got: it finds the first of that name, goes on to the
\* next cluster, or comes to the end.
LEMMA LookSearches ==
  ASSUME Types, CallInv, HeldInv, LookInv, NEW p \in Proc, p \notin trouble, Search(p)
  PROVE  LookOK(p)'
<1> DEFINE c == Where(p)
           d == look[p].cluster
           name == look[p].name
           hits == Hits(Listing[d], name)
<1>1. /\ pc[p] = "search" /\ LookOK(p) /\ look[p].entries \in Piece
      /\ UNCHANGED <<cwd, held>>
  BY DEF Search, LookInv, CallInv, CallOK, Copied
<1>2. mem[look[p].entries] = Listing[d] /\ look[p].idx = 0 /\ name \in Name
  BY <1>1 DEF LookOK, Copied
<1>3. PICK n \in Nat : d = Nth(c, n) /\ Missed(c, name, n)
  BY <1>1 DEF LookOK
<1>4. c \in Cluster \cup {ROOT} /\ d \in Cluster \cup {ROOT} /\ look[p] \in Look
  BY WhereIs DEF Types, Look
<1>5. d # EOC
  BY <1>4, DirectoryAssumption DEF ROOT, EOC
<1>6. c' = c
  BY <1>1 DEF Where
<1>7. CASE Stops(d, hits)
  <2>1. /\ look' = [look EXCEPT ![p].idx = IF hits = {} THEN 0 ELSE Min(hits)]
        /\ pc' = [pc EXCEPT ![p] = "free"] /\ mem' = mem
    BY <1>2, <1>7 DEF Search, Goto
  <2>2. /\ look'[p].idx = IF hits = {} THEN 0 ELSE Min(hits)
        /\ look'[p].name = name /\ look'[p].cluster = d /\ look'[p].entries = look[p].entries
        /\ pc'[p] = "free"
    BY <1>4, <2>1 DEF Types, Look
  <2>3. CASE hits = {}
    <3>1. Following(d) = EOC
      BY <1>7, <2>3 DEF Stops
    <3>2. Named(c, name) = Blank
      BY <1>3, <1>4, <1>5, <2>3, <3>1, NotThere
    <3>. QED
      BY <1>2, <1>6, <2>1, <2>2, <2>3, <3>2 DEF LookOK
  <2>4. CASE hits # {}
    <3>1. /\ Min(hits) \in Nat \ {0} /\ Min(hits) \in DOMAIN Listing[d]
          /\ Listing[d][Min(hits)] = Named(c, name) /\ Named(c, name) # Blank
      <4>1. name \in Name
        BY <1>2
      <4> HIDE DEF c, d, name
      <4>. QED
        BY <1>3, <1>4, <1>5, <2>4, <4>1, FoundIsNamed
    <3>2. Hit(p)'
      BY <1>6, <2>2, <2>4, <3>1 DEF Hit
    <3>3. look'[p].idx # 0
      BY <2>2, <2>4, <3>1
    <3>. QED
      BY <1>2, <1>6, <2>1, <2>2, <3>2, <3>3 DEF LookOK
  <2>. QED
    BY <2>3, <2>4
<1>8. CASE ~ Stops(d, hits)
  <2>1. hits = {} /\ Following(d) # EOC
    BY <1>8 DEF Stops
  <2>2. /\ look' = [look EXCEPT ![p].idx = 0, ![p].cluster = Following(d)]
        /\ mem' = [mem EXCEPT ![look[p].entries] = Listing[Following(d)]]
        /\ pc' = pc
    BY <1>2, <1>8, <2>1 DEF Search
  <2>3. /\ look'[p].idx = 0 /\ look'[p].name = name /\ look'[p].cluster = Following(d)
        /\ look'[p].entries = look[p].entries
    BY <1>4, <2>2 DEF Types, Look
  <2>4. mem'[look[p].entries] = Listing[Following(d)]
    BY <1>1, <2>2 DEF Types
  <2>5. Following(d) = Nth(c, n + 1)
    BY <1>3, <1>4, <1>5, NthUnfolds
  <2>6. Missed(c, name, n + 1)
    <3>1. ASSUME NEW k \in 0 .. (n + 1) - 1
          PROVE  Hits(Listing[Nth(c, k)], name) = {}
      <4>1. k \in 0 .. n - 1 \/ k = n
        OBVIOUS
      <4>2. CASE k = n
        BY <1>3, <2>1, <4>2
      <4>. QED
        BY <1>3, <4>1, <4>2 DEF Missed
    <3>. QED
      BY <3>1 DEF Missed
  <2>7. \E k \in Nat : look'[p].cluster = Nth(Where(p)', k) /\ Missed(Where(p)', look'[p].name, k)
    <3>1. n + 1 \in Nat /\ look'[p].cluster = Nth(c, n + 1) /\ Missed(c, look'[p].name, n + 1)
      BY <2>3, <2>5, <2>6
    <3>2. \E k \in Nat : look'[p].cluster = Nth(c, k) /\ Missed(c, look'[p].name, k)
      BY ONLY <3>1
    <3>. QED
      BY <1>6, <3>2
  <2>8. pc'[p] = "search" /\ look'[p].idx = 0 /\ look'[p].name \in Name
        /\ mem'[look'[p].entries] = Listing[look'[p].cluster]
    BY <1>1, <1>2, <2>2, <2>3, <2>4
  <2>. QED
    BY ONLY <2>7, <2>8 DEF LookOK
<1>. QED
  BY <1>7, <1>8

\* The entry is copied from where it was, because nobody has allocated that memory.
LEMMA LookTakes ==
  ASSUME Types, CallInv, LookInv, NEW p \in Proc, p \notin trouble, Take(p)
  PROVE  LookOK(p)'
<1>1. /\ pc[p] = "take" /\ LookOK(p) /\ cwd' = cwd
  BY DEF Take, LookInv
<1>2. mem[look[p].entries] = Listing[look[p].cluster] /\ Hit(p) /\ look[p].name \in Name
  BY <1>1 DEF LookOK, Copied
<1>3. look[p].idx \in DOMAIN mem[look[p].entries]
  BY <1>2 DEF Hit
<1>4. /\ look' = [look EXCEPT ![p].entry = mem[look[p].entries][look[p].idx]]
      /\ pc' = [pc EXCEPT ![p] = "found"]
  BY <1>3 DEF Take, Goto
<1>5. /\ look'[p].entry = Listing[look[p].cluster][look[p].idx] /\ look'[p].name = look[p].name
      /\ pc'[p] = "found"
  BY <1>2, <1>4 DEF Types, Look
<1>6. Where(p)' = Where(p)
  BY <1>1 DEF Where
<1>. QED
  BY <1>2, <1>5, <1>6 DEF LookOK, Hit, Copied

LEMMA NextLook ==
  ASSUME Types, Types', CallInv, HeldInv, LookInv, PathInv, [DirectoryNext]_directory
  PROVE  LookInv'
<1>1. ASSUME NEW p \in Proc, NEW name \in Name, fopen(p, name)
      PROVE  LookInv'
  BY <1>1, LookBegins DEF fopen
<1>2. ASSUME NEW name \in Name, chdir(name)
      PROVE  LookInv'
  BY <1>2, LookBegins DEF chdir, Proc
<1>3. ASSUME NEW p \in Proc, Search(p)
      PROVE  LookInv'
  <2>1. PICK idx \in Nat, c \in Cluster \cup {ROOT} :
           /\ look' = [look EXCEPT ![p] = [look[p] EXCEPT !.idx = idx, !.cluster = c]]
           /\ pc' \in {pc, [pc EXCEPT ![p] = "free"]}
           /\ mem' \in {mem, [mem EXCEPT ![look[p].entries] = Listing[c]]}
    BY <1>3, SearchIs
  <2>2. Searching(p) /\ UNCHANGED <<cwd, held, trouble>>
    BY <1>3 DEF Search, Searching
  <2>3. ASSUME NEW q \in Proc \ trouble, p # q
        PROVE  LookOK(q)'
    <3>1. pc'[q] = pc[q] /\ look'[q] = look[q] /\ LookOK(q)
      BY <2>1, <2>3 DEF Types, LookInv
    <3>2. pc[q] = "take" => look[q].entries \notin held
      BY <3>1 DEF LookOK
    <3>3. Copied(q) => look[q].entries # look[p].entries
      BY <2>2, <2>3, <3>2 DEF HeldInv, HeldOK, Copied, Searching
    <3>4. Copied(q) => mem'[look[q].entries] = mem[look[q].entries]
      BY <2>1, <3>3 DEF Types, CallInv, CallOK
    <3>. QED
      BY <2>2, <3>1, <3>2, <3>4, LookKept
  <2>. QED
    BY <1>3, <2>2, <2>3, LookSearches DEF LookInv
<1>4. ASSUME NEW p \in Proc, Free(p)
      PROVE  LookInv'
  <2>1. /\ pc[p] = "free" /\ held' = held \ {look[p].entries} /\ UNCHANGED <<cwd, look, trouble>>
        /\ Searching(p) /\ look[p].entries \in Piece
    BY <1>4 DEF Free, Searching, CallInv, CallOK, Copied
  <2>2. ASSUME p \notin trouble
        PROVE  LookOK(p)'
    <3>1. LookOK(p) /\ Where(p)' = Where(p)
      BY <2>1, <2>2 DEF LookInv, Where
    <3>2. look[p].name \in Name /\ mem[look[p].entries] = Listing[look[p].cluster]
      BY <2>1, <3>1 DEF LookOK, Copied
    <3>3. CASE look[p].idx # 0
      <4>1. pc'[p] = "take" /\ mem' = mem
        BY <1>4, <3>3 DEF Free, Goto, Types
      <4>2. Hit(p)
        BY <2>1, <3>1, <3>3 DEF LookOK
      <4>3. Hit(p)'
        BY <2>1, <3>1, <4>2 DEF Hit
      <4>. QED
        BY <2>1, <3>1, <3>2, <4>1, <4>3 DEF LookOK
    <3>4. CASE look[p].idx = 0
      <4>1. pc'[p] = "failed"
        BY <1>4, <3>4 DEF Free, Goto, Types
      <4>2. Named(Where(p), look[p].name) = Blank
        BY <2>1, <3>1, <3>4 DEF LookOK
      <4>. QED
        BY <2>1, <3>1, <3>2, <4>1, <4>2 DEF LookOK, Copied
    <3>. QED
      BY <3>3, <3>4
  <2>3. ASSUME NEW q \in Proc \ trouble, p # q
        PROVE  LookOK(q)'
    <3>1. pc'[q] = pc[q] /\ look'[q] = look[q] /\ LookOK(q)
      BY <1>4, <2>1, <2>3 DEF Free, Goto, Types, LookInv
    <3>2. pc[q] = "take" => look[q].entries \notin held'
      BY <2>1, <3>1 DEF LookOK
    <3>3. Copied(q) => look[q].entries \in Piece /\ (pc[q] = "take" \/ look[q].entries # look[p].entries)
      BY <2>1, <2>3 DEF HeldInv, HeldOK, Copied, Searching, CallInv, CallOK
    <3>4. mem' = mem \/ Forget(p, look[p].entries)
      BY <1>4 DEF Free
    <3>5. Copied(q) => mem'[look[q].entries] = mem[look[q].entries]
      BY <2>1, <2>3, <3>3, <3>4, ForgetKeeps
    <3>. QED
      BY <2>1, <3>1, <3>2, <3>5, LookKept
  <2>. QED
    BY <2>1, <2>2, <2>3 DEF LookInv
<1>5. ASSUME NEW p \in Proc, Take(p)
      PROVE  LookInv'
  <2>1. /\ pc[p] = "take" /\ UNCHANGED <<cwd, held, trouble>> /\ look[p].entries \in Piece
    BY <1>5 DEF Take, CallInv, CallOK, Copied
  <2>2. ASSUME NEW q \in Proc \ trouble, p # q
        PROVE  LookOK(q)'
    <3>1. pc'[q] = pc[q] /\ look'[q] = look[q] /\ LookOK(q)
      BY <1>5, <2>2 DEF Take, Goto, Types, LookInv
    <3>2. pc[q] = "take" => look[q].entries \notin held
      BY <3>1 DEF LookOK
    <3>3. Copied(q) => /\ look[q].entries \in Piece
                       /\ pc[q] = "take" \/ look[q].entries # look[p].entries \/ look[p].entries \in held
      BY <2>1, <2>2 DEF HeldInv, HeldOK, Copied, Searching, CallInv, CallOK
    <3>4. Copied(q) => mem'[look[q].entries] = mem[look[q].entries]
      BY <1>5, <2>1, <2>2, <3>3, ForgetKeeps DEF Take
    <3>. QED
      BY <2>1, <3>1, <3>2, <3>4, LookKept
  <2>. QED
    BY <1>5, <2>1, <2>2, LookTakes DEF LookInv
<1>6. ASSUME NEW p \in Proc, Return(p),
             \A q \in Proc \ {p} : cwd'[q] = cwd[q],
             UNCHANGED <<held, mem, trouble>> \/ \E s \in Piece : Allocate(s, << >>)
      PROVE  LookInv'
  <2>1. pc'[p] = "idle" /\ \A q \in Proc \ {p} : pc'[q] = pc[q] /\ look'[q] = look[q]
    BY <1>6 DEF Return, Goto, Types
  <2>2. LookOK(p)'
    BY <2>1 DEF LookOK, Copied
  <2>3. ASSUME NEW q \in Proc \ trouble', p # q
        PROVE  LookOK(q)'
    <3>1. CASE UNCHANGED <<held, mem, trouble>>
      <4>1. LookOK(q)
        BY <2>3, <3>1 DEF LookInv
      <4>2. pc[q] = "take" => look[q].entries \notin held'
        BY <3>1, <4>1 DEF LookOK
      <4>. QED
        BY <1>6, <2>1, <2>3, <3>1, <4>1, <4>2, LookKept
    <3>2. CASE \E s \in Piece : Allocate(s, << >>)
      <4>1. PICK s \in Piece : Allocate(s, << >>)
        BY <3>2
      <4>2. q \notin trouble /\ (Copied(q) => mem'[look[q].entries] = mem[look[q].entries])
            /\ (pc[q] = "take" => look[q].entries \notin held')
        BY <2>3, <4>1, AllocateKeeps DEF Allocate, Copied
      <4>. QED
        BY <1>6, <2>1, <2>3, <4>2, LookKept DEF LookInv
    <3>. QED
      BY <1>6, <3>1, <3>2
  <2>. QED
    BY <2>2, <2>3 DEF LookInv
<1>7. ASSUME NEW p \in Proc, Fail(p) \/ Open(p)
      PROVE  LookInv'
  BY <1>6, <1>7 DEF Fail, Open
<1>8. ASSUME Change
      PROVE  LookInv'
  <2>1. \A q \in Proc \ {main} : cwd'[q] = cwd[q]
    BY <1>8 DEF Change, Types
  <2>. QED
    BY <1>6, <1>8, <2>1 DEF Change, Proc
<1>9. ASSUME NEW p \in Proc, fclose(p)
      PROVE  LookInv'
  <2>1. held' \subseteq held /\ UNCHANGED <<cwd, pc, look, mem, trouble>>
    BY <1>9 DEF fclose
  <2>2. ASSUME NEW q \in Proc \ trouble
        PROVE  LookOK(q)'
    <3>1. LookOK(q)
      BY <2>2 DEF LookInv
    <3>2. pc[q] = "take" => look[q].entries \notin held'
      BY <2>1, <3>1 DEF LookOK
    <3>. QED
      BY <2>1, <3>1, <3>2, LookKept
  <2>. QED
    BY <2>1, <2>2 DEF LookInv
<1>10. ASSUME NEW p \in Program, create_task(p)
       PROVE  LookInv'
  <2>1. /\ p \in Proc /\ p \notin alive /\ UNCHANGED <<pc, look, held, mem, trouble>>
        /\ \A q \in Proc \ {p} : cwd'[q] = cwd[q]
    BY <1>10 DEF create_task, Types, Proc
  <2>2. ASSUME NEW q \in Proc \ trouble
        PROVE  LookOK(q)'
    <3>1. CASE q = p
      <4>1. pc'[q] = "idle"
        BY <2>1, <3>1 DEF CallInv, CallOK
      <4>. QED
        BY <4>1 DEF LookOK, Copied
    <3>2. CASE q # p
      <4>1. LookOK(q)
        BY <2>2 DEF LookInv
      <4>2. pc[q] = "take" => look[q].entries \notin held'
        BY <2>1, <4>1 DEF LookOK
      <4>. QED
        BY <2>1, <3>2, <4>1, <4>2, LookKept
    <3>. QED
      BY <3>1, <3>2
  <2>. QED
    BY <2>1, <2>2 DEF LookInv
<1>11. CASE UNCHANGED directory
  BY <1>11 DEF directory, LookInv, LookOK, Copied, Hit, Where
<1>. QED
  BY <1>1, <1>2, <1>3, <1>4, <1>5, <1>7, <1>8, <1>9, <1>10, <1>11 DEF DirectoryNext
-----------------------------------------------------------------------------
\* Where find_entry searches is where the path leads.
LEMMA WhereIsEnd ==
  ASSUME NEW p \in Proc, NEW r, AtEnd(p, r)
  PROVE  Where(p) = Leads(r)
<1>1. Proper(r) /\ cwd[p].depth = Len(r) /\ cwd[p].cluster = Leads(r)
  BY DEF AtEnd
<1>. QED
  BY <1>1, ProperEnd DEF Where

LEMMA PathKept ==
  ASSUME NEW q \in Proc, PathOK(q), cwd'[q] = cwd[q], path'[q] = path[q],
         look'[q].op = look[q].op, look'[q].name = look[q].name
  PROVE  PathOK(q)'
<1>1. \A r : AtEnd(q, r)' <=> AtEnd(q, r)
  BY DEF AtEnd
<1>. QED
  BY <1>1 DEF PathOK

\* A task that looks nothing up is where its path leads to.
LEMMA IdleAtEnd ==
  ASSUME CallInv, PathInv, NEW p \in Proc, p \notin trouble, pc[p] = "idle"
  PROVE  AtEnd(p, path[p])
  BY DEF CallInv, CallOK, PathInv, PathOK

\* chdir begins: main is still where it comes from.
LEMMA ChdirBegins ==
  ASSUME Types, CallInv, PathInv, NEW name \in Name, chdir(name), main \notin trouble
  PROVE  PathOK(main)'
<1>1. main \in Proc /\ Begin(main, "chdir", name)
  BY DEF chdir, Proc
<1>2. pc[main] = "idle" /\ cwd' = cwd
  BY <1>1, BeginIs
<1>3. PICK s \in Piece : look' = [look EXCEPT ![main] = LookUp("chdir", name, Where(main), s)]
  BY <1>1, BeginIs
<1>4. look'[main].op = "chdir" /\ look'[main].name = name
  BY <1>1, <1>3 DEF Types, LookUp
<1>5. AtEnd(main, path[main])
  BY <1>1, <1>2, IdleAtEnd
<1>6. Proper(path[main]) /\ cwd[main].depth = Len(path[main])
  BY <1>5 DEF AtEnd
<1>7. name \in {DOT, DOTDOT} => Len(path[main]) > 0
  <2>1. Len(path[main]) \in Nat
    BY <1>6, ProperLeads
  <2>. QED
    BY <1>6, <2>1 DEF chdir
<1>8. path'[main] = Walk(path[main], name)
  BY <1>1 DEF chdir, Types
<1>9. \E r : AtEnd(main, r)' /\ path'[main] = Walk(r, name) /\ (name \in {DOT, DOTDOT} => Len(r) > 0)
  <2>1. \A r : AtEnd(main, r)' <=> AtEnd(main, r)
    BY <1>2 DEF AtEnd
  <2>. QED
    BY <1>5, <1>7, <1>8, <2>1
<1>. QED
  BY <1>4, <1>9 DEF PathOK

\* It ends: main stays where it is, or is where the new path leads.
LEMMA ChdirEnds ==
  ASSUME Types, CallInv, LookInv, PathInv, main \notin trouble, Change
  PROVE  AtEnd(main, path[main])'
<1> DEFINE name == look[main].name
           to == look[main].entry
<1>1. main \in Proc /\ pc[main] = "found" /\ look[main].op = "chdir" /\ path' = path
  BY DEF Change, Proc
<1>2. name \in Name /\ to = Named(Where(main), name)
  BY <1>1 DEF LookInv, LookOK
<1>3. PICK r : AtEnd(main, r) /\ path[main] = Walk(r, name) /\ (name \in {DOT, DOTDOT} => Len(r) > 0)
  BY <1>1 DEF PathInv, PathOK
<1>4. Proper(r) /\ cwd[main] = [depth |-> Len(r), cluster |-> Leads(r)]
  BY <1>3 DEF AtEnd
<1>5. to = Named(Leads(r), name)
  BY <1>1, <1>2, <1>3, WhereIsEnd
<1>6. /\ Proper(Walk(r, name))
      /\ ~ to.Directory => Walk(r, name) = r
      /\ to.Directory =>
           /\ to.cluster = Leads(Walk(r, name))
           /\ Len(Walk(r, name)) = IF to.cluster = ROOT THEN 0 ELSE Depth(Len(r), name)
  <2> HIDE DEF to, name
  <2>. QED
    BY <1>2, <1>3, <1>4, <1>5, WalkIsProper
<1>7. CASE ~ to.Directory
  <2>1. cwd' = cwd
    BY <1>7 DEF Change
  <2>. QED
    BY <1>1, <1>3, <1>6, <1>7, <2>1 DEF AtEnd
<1>8. CASE to.Directory
  <2>1. cwd'[main] = [depth |-> IF to.cluster = ROOT THEN 0 ELSE Depth(cwd[main].depth, name),
                      cluster |-> to.cluster]
    BY <1>1, <1>8 DEF Change, Types
  <2>2. cwd'[main] = [depth |-> Len(Walk(r, name)), cluster |-> Leads(Walk(r, name))]
    BY <1>4, <1>6, <1>8, <2>1
  <2>. QED
    BY <1>1, <1>3, <1>6, <2>2 DEF AtEnd
<1>. QED
  BY <1>7, <1>8

\* chdir fails: there was no such directory to go to.
LEMMA ChdirFails ==
  ASSUME Types, LookInv, PathInv, NEW p \in Proc, p \notin trouble, Fail(p)
  PROVE  AtEnd(p, path[p])
<1>1. pc[p] = "failed" /\ LookOK(p) /\ PathOK(p)
  BY DEF Fail, LookInv, PathInv
<1>2. CASE p = main /\ look[p].op = "chdir"
  <2>1. PICK r : AtEnd(p, r) /\ path[p] = Walk(r, look[p].name)
    BY <1>1, <1>2 DEF PathOK
  <2>2. Named(Leads(r), look[p].name) = Blank
    BY <1>1, <2>1, WhereIsEnd DEF LookOK
  <2>3. Walk(r, look[p].name) = r
    BY <2>2 DEF Walk, Blank
  <2>. QED
    BY <2>1, <2>3
<1>3. CASE ~ (p = main /\ look[p].op = "chdir")
  BY <1>1, <1>3 DEF PathOK
<1>. QED
  BY <1>2, <1>3

LEMMA NextPath ==
  ASSUME Types, CallInv, LookInv, PathInv, [DirectoryNext]_directory
  PROVE  PathInv'
<1>1. ASSUME NEW p \in Proc, NEW name \in Name, fopen(p, name)
      PROVE  PathInv'
  <2>1. Begin(p, "fopen", name) /\ path' = path
    BY <1>1 DEF fopen
  <2>2. pc[p] = "idle" /\ cwd' = cwd
    BY <2>1, BeginIs
  <2>3. PICK s \in Piece : /\ Allocate(s, Listing[Where(p)])
                           /\ look' = [look EXCEPT ![p] = LookUp("fopen", name, Where(p), s)]
    BY <2>1, BeginIs
  <2>4. ASSUME NEW q \in Proc \ trouble'
        PROVE  PathOK(q)'
    <3>1. q \notin trouble
      BY <2>3, <2>4 DEF Allocate
    <3>2. CASE q = p
      <4>1. AtEnd(p, path[p]) /\ look'[p].op = "fopen"
        BY <2>2, <2>3, <3>1, <3>2, IdleAtEnd DEF Types, LookUp
      <4>. QED
        BY <2>1, <2>2, <3>2, <4>1 DEF PathOK, AtEnd
    <3>3. CASE q # p
      BY <2>1, <2>2, <2>3, <3>1, <3>3, PathKept DEF PathInv, Types
    <3>. QED
      BY <3>2, <3>3
  <2>. QED
    BY <2>4 DEF PathInv
<1>2. ASSUME NEW name \in Name, chdir(name)
      PROVE  PathInv'
  <2>1. main \in Proc /\ Begin(main, "chdir", name) /\ path' = [path EXCEPT ![main] = Walk(@, name)]
    BY <1>2 DEF chdir, Proc
  <2>2. cwd' = cwd
    BY <2>1, BeginIs
  <2>3. PICK s \in Piece : /\ Allocate(s, Listing[Where(main)])
                           /\ look' = [look EXCEPT ![main] = LookUp("chdir", name, Where(main), s)]
    BY <2>1, BeginIs
  <2>4. ASSUME NEW q \in Proc \ trouble'
        PROVE  PathOK(q)'
    <3>1. q \notin trouble
      BY <2>3, <2>4 DEF Allocate
    <3>2. CASE q = main
      BY <1>2, <3>1, <3>2, ChdirBegins
    <3>3. CASE q # main
      BY <2>1, <2>2, <2>3, <3>1, <3>3, PathKept DEF PathInv, Types
    <3>. QED
      BY <3>2, <3>3
  <2>. QED
    BY <2>4 DEF PathInv
<1>3. ASSUME UNCHANGED <<cwd, path, trouble>>,
             \A q \in Proc : look'[q].op = look[q].op /\ look'[q].name = look[q].name
      PROVE  PathInv'
  BY <1>3, PathKept DEF PathInv
<1>4. ASSUME NEW p \in Proc, Search(p)
      PROVE  PathInv'
  <2>1. PICK idx \in Nat, c \in Cluster \cup {ROOT} :
           /\ look' = [look EXCEPT ![p] = [look[p] EXCEPT !.idx = idx, !.cluster = c]]
           /\ pc' \in {pc, [pc EXCEPT ![p] = "free"]}
    BY <1>4, SearchIs
  <2>2. look[p] \in Look
    BY DEF Types
  <2>3. \A q \in Proc : look'[q].op = look[q].op /\ look'[q].name = look[q].name
    BY <2>1, <2>2 DEF Types, Look
  <2>. QED
    BY <1>3, <1>4, <2>3 DEF Search
<1>5. ASSUME NEW p \in Proc, Free(p)
      PROVE  PathInv'
  BY <1>3, <1>5 DEF Free
<1>6. ASSUME NEW p \in Proc, Take(p)
      PROVE  PathInv'
  <2>1. PICK e : look' \in {look, [look EXCEPT ![p].entry = e]}
    BY <1>6 DEF Take
  <2>2. look'[p].op = look[p].op /\ look'[p].name = look[p].name
    BY <2>1 DEF Types, Look
  <2>3. \A q \in Proc \ {p} : look'[q] = look[q]
    BY <2>1 DEF Types
  <2>. QED
    BY <1>3, <1>6, <2>2, <2>3 DEF Take
<1>7. ASSUME NEW p \in Proc, Return(p), path' = path, trouble \subseteq trouble',
             \A q \in Proc \ {p} : cwd'[q] = cwd[q],
             p \notin trouble => AtEnd(p, path[p])'
      PROVE  PathInv'
  <2>1. look'[p] = NoLook /\ \A q \in Proc \ {p} : look'[q] = look[q]
    BY <1>7 DEF Return, Types
  <2>2. ASSUME NEW q \in Proc \ trouble'
        PROVE  PathOK(q)'
    <3>1. q \notin trouble
      BY <1>7, <2>2
    <3>2. CASE q = p
      <4>1. look'[p].op = "none"
        BY <2>1, NoLookIs
      <4>. QED
        BY <1>7, <3>1, <3>2, <4>1 DEF PathOK
    <3>3. CASE q # p
      BY <1>7, <2>1, <3>1, <3>3, PathKept DEF PathInv
    <3>. QED
      BY <3>2, <3>3
  <2>. QED
    BY <2>2 DEF PathInv
<1>8. ASSUME NEW p \in Proc, Fail(p)
      PROVE  PathInv'
  <2>1. UNCHANGED <<cwd, path, trouble>> /\ Return(p)
    BY <1>8 DEF Fail
  <2>2. p \notin trouble => AtEnd(p, path[p])'
    BY <1>8, <2>1, ChdirFails DEF AtEnd
  <2>. QED
    BY <1>7, <2>1, <2>2
<1>9. ASSUME NEW p \in Proc, Open(p)
      PROVE  PathInv'
  <2>1. /\ UNCHANGED <<cwd, path>> /\ Return(p) /\ look[p].op = "fopen"
        /\ trouble \subseteq trouble'
    BY <1>9 DEF Open, Allocate
  <2>2. p \notin trouble => AtEnd(p, path[p])'
    BY <2>1 DEF PathInv, PathOK, AtEnd
  <2>. QED
    BY <1>7, <2>1, <2>2
<1>10. ASSUME Change
       PROVE  PathInv'
  <2>1. /\ main \in Proc /\ Return(main) /\ UNCHANGED <<path, trouble>>
        /\ \A q \in Proc \ {main} : cwd'[q] = cwd[q]
    BY <1>10 DEF Change, Types, Proc
  <2>2. main \notin trouble => AtEnd(main, path[main])'
    BY <1>10, ChdirEnds
  <2>. QED
    BY <1>7, <2>1, <2>2
<1>11. ASSUME NEW p \in Proc, fclose(p)
       PROVE  PathInv'
  BY <1>3, <1>11 DEF fclose
<1>12. ASSUME NEW p \in Program, create_task(p)
       PROVE  PathInv'
  <2>1. /\ p \in Proc /\ p \notin alive /\ UNCHANGED <<look, trouble>>
        /\ pc[main] = "idle" /\ main \notin trouble /\ main \in Proc /\ p # main
    BY <1>12, DirectoryAssumption DEF create_task, Proc
  <2>2. /\ cwd'[p] = cwd[main] /\ path'[p] = path[main]
        /\ \A q \in Proc \ {p} : cwd'[q] = cwd[q] /\ path'[q] = path[q]
    BY <1>12, <2>1 DEF create_task, Types
  <2>3. AtEnd(main, path[main])
    BY <2>1, IdleAtEnd
  <2>4. AtEnd(p, path[p])'
    BY <2>2, <2>3 DEF AtEnd
  <2>5. ASSUME NEW q \in Proc \ trouble
        PROVE  PathOK(q)'
    <3>1. CASE q = p
      BY <2>1, <2>4, <3>1 DEF PathOK
    <3>2. CASE q # p
      BY <2>1, <2>2, <2>5, <3>2, PathKept DEF PathInv
    <3>. QED
      BY <3>1, <3>2
  <2>. QED
    BY <2>1, <2>5 DEF PathInv
<1>13. CASE UNCHANGED directory
  BY <1>3, <1>13 DEF directory
<1>. QED
  BY <1>1, <1>2, <1>4, <1>5, <1>6, <1>8, <1>9, <1>10, <1>11, <1>12, <1>13 DEF DirectoryNext
-----------------------------------------------------------------------------
LEMMA DirectoryInductive == DirectorySpec => []DirectoryInv
<1>1. DirectoryInv /\ [DirectoryNext]_directory => DirectoryInv'
  <2>. SUFFICES ASSUME DirectoryInv, [DirectoryNext]_directory
                PROVE  DirectoryInv'
    OBVIOUS
  <2>1. Types /\ CallInv /\ HeldInv /\ LookInv /\ PathInv
    BY DEF DirectoryInv
  <2>2. Types'
    BY <2>1, NextTypes
  <2>3. CallInv' /\ HeldInv' /\ LookInv' /\ PathInv'
    BY <2>1, <2>2, NextCall, NextHeld, NextLook, NextPath
  <2>. QED
    BY <2>2, <2>3 DEF DirectoryInv
<1>. QED
  BY <1>1, InitDirectoryInv, PTL DEF DirectorySpec

\* find_entry and chdir: the depth and the cluster of the current directory, the
\* variables of find_entry and the memory they use are what the code takes them for;
\* and main is never deeper in the tree than the volume has clusters.
THEOREM DirectoryTypeCorrect == DirectorySpec => []DirectoryTypeOK
<1>1. DirectoryInv => DirectoryTypeOK
  <2>. SUFFICES ASSUME DirectoryInv
                PROVE  DirectoryTypeOK
    OBVIOUS
  <2>1. Types /\ PathInv
    BY DEF DirectoryInv
  <2>2. ASSUME NEW p \in Proc \ trouble
        PROVE  cwd[p].depth <= Cardinality(Cluster)
    <3>1. PICK r : AtEnd(p, r)
      BY <2>1, <2>2 DEF PathInv, PathOK
    <3>2. Proper(r) /\ cwd[p].depth = Len(r)
      BY <3>1 DEF AtEnd
    <3>. QED
      BY <3>2, ProperIsShort
  <2>. QED
    BY <2>1, <2>2 DEF Types, DirectoryTypeOK
<1>. QED
  BY <1>1, DirectoryInductive, PTL

\* find_entry: what a look-up ends with is the first entry of that name in the
\* directory the task is in, or that there is none, unless another task has allocated
\* the freed memory before the entry was copied out of it.
THEOREM DirectoryEntryIsNamed == DirectorySpec => []EntryIsNamed
<1>1. DirectoryInv => EntryIsNamed
  BY DEF DirectoryInv, LookInv, LookOK, EntryIsNamed
<1>. QED
  BY <1>1, DirectoryInductive, PTL

\* chdir and create_task: wherever it has gone, main is in the directory that the
\* names it gave lead to, and as many levels down as there are names; a program is
\* where main was when it created the program.
THEOREM DirectoryCwdInTree == DirectorySpec => []CwdInTree
<1>1. DirectoryInv => CwdInTree
  <2>. SUFFICES ASSUME DirectoryInv, NEW p \in alive \ trouble, pc[p] = "idle"
                PROVE  cwd[p] = [depth |-> Len(path[p]), cluster |-> Leads(path[p])]
    BY DEF CwdInTree
  <2>1. AtEnd(p, path[p])
    BY IdleAtEnd DEF DirectoryInv, Types
  <2>. QED
    BY <2>1 DEF AtEnd
<1>. QED
  BY <1>1, DirectoryInductive, PTL
=============================================================================
