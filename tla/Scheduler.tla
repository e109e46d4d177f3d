----------------------------- MODULE Scheduler -----------------------------
(***************************************************************************)
(* Round-robin scheduling: kernel/scheduler.c, the timer and system-call   *)
(* entries of kernel/sys/pic.asm, handle_tick of kernel/sys/timer.c, and   *)
(* the interrupt flag as lba.c and syscalls.c switch it.                   *)
(*                                                                         *)
(* The processor is in one context, ctx: the task it belongs to and where  *)
(* that task is in its program (module Processes lists the places).  The   *)
(* timer's interrupt gate runs tick_handler in a few steps, `handler`.     *)
(* A pending timer interrupt is taken before the next instruction of a     *)
(* task that has interrupts enabled.                                       *)
(***************************************************************************)
EXTENDS Integers

CONSTANTS MAX_TASKS,
          LOADS   \* bound: how many programs main loads

ASSUME SchedulerAssumption == MAX_TASKS \in Nat \ {0} /\ LOADS \in Nat

Slot == 0 .. MAX_TASKS - 1

\* Mutant: a trap gate, which leaves the interrupt flag alone.
Masked_TrapGate == {"mainAta", "ata", "exit", "gone"}

\* The places in a program at which the interrupt flag is clear.
Masked == {"mainAta", "gate", "ata", "retMasked", "exit", "gone"}

Place == {"main", "mainAta", "run", "gate", "open", "ata", "retMasked", "retOpen",
          "exit", "gone"}

VARIABLES present,       \* tasks[i].present
          esp,           \* the context that tasks[i].esp points to
          cur_task_idx,
          current_task,  \* the slot this pointer points to
          ctx,           \* the context the processor is in
          handler,       \* how far tick_handler has got, or "off"
          irq0,          \* the timer's request waits in the PIC
          isr0,          \* the PIC waits for the end of the timer's interrupt
          ret_val,       \* whose result the global variable of pic.asm holds
          probe,         \* the slot create_task looks at, or -1
          loads,         \* programs loaded so far
          wrong          \* history: where a call was that got another's result

vars == <<present, esp, cur_task_idx, current_task, ctx, handler, irq0, isr0,
          ret_val, probe, loads, wrong>>

Context == [proc : Slot, place : Place]

\* init_multitasking: task 0 is the running main.
Init == /\ present = [i \in Slot |-> i = 0]
        /\ esp = [i \in Slot |-> [proc |-> 0, place |-> "main"]]
        /\ cur_task_idx = 0
        /\ current_task = 0
        /\ ctx = [proc |-> 0, place |-> "main"]
        /\ handler = "off"
        /\ irq0 = FALSE
        /\ isr0 = FALSE
        /\ ret_val = 0
        /\ probe = -1
        /\ loads = 0
        /\ wrong = {}
-----------------------------------------------------------------------------
\* The 8254 and the PIC: a tick is latched, one deep.
TimerFires == /\ ~ irq0
              /\ irq0' = TRUE
              /\ UNCHANGED <<present, esp, cur_task_idx, current_task, ctx, handler,
                             isr0, ret_val, probe, loads, wrong>>

TickPending == irq0 /\ ~ isr0 /\ ctx.place \notin Masked

\* Mutant: the stack pointer of the task left behind is not kept.
SaveContext_Forgets == /\ esp' = esp
                       /\ handler' = "entered"

\* tick_handler saves the context through current_task.
SaveContext == /\ esp' = [esp EXCEPT ![current_task] = ctx]
               /\ handler' = "entered"

TickEnter == /\ handler = "off"
             /\ TickPending
             /\ irq0' = FALSE
             /\ isr0' = TRUE
             /\ SaveContext
             /\ UNCHANGED <<present, cur_task_idx, current_task, ctx,
                            ret_val, probe, loads, wrong>>

\* The tick is counted and the end-of-interrupt is sent.
handle_tick == /\ handler = "entered"
               /\ isr0' = FALSE
               /\ handler' = "picking"
               /\ UNCHANGED <<present, esp, cur_task_idx, current_task, ctx, irq0,
                              ret_val, probe, loads, wrong>>

\* Mutant: every search starts over at the first slot.
NextSlot_FromZero == IF cur_task_idx = 0 THEN 1 % MAX_TASKS ELSE 0

NextSlot == (cur_task_idx + 1) % MAX_TASKS

\* One iteration of scheduler()'s loop.
SchedulerSkip == /\ handler = "picking"
                 /\ ~ present[NextSlot]
                 /\ cur_task_idx' = NextSlot
                 /\ UNCHANGED <<present, esp, current_task, ctx, handler, irq0, isr0,
                                ret_val, probe, loads, wrong>>

SchedulerPick == /\ handler = "picking"
                 /\ present[NextSlot]
                 /\ cur_task_idx' = NextSlot
                 /\ current_task' = NextSlot
                 /\ handler' = "leaving"
                 /\ UNCHANGED <<present, esp, ctx, irq0, isr0,
                                ret_val, probe, loads, wrong>>

\* The context of the task picked is loaded.
TickLeave == /\ handler = "leaving"
             /\ ctx' = esp[current_task]
             /\ handler' = "off"
             /\ UNCHANGED <<present, esp, cur_task_idx, current_task, irq0, isr0,
                            ret_val, probe, loads, wrong>>
-----------------------------------------------------------------------------
\* The running task executes: no handler is running and no tick is due.
Runs == handler = "off" /\ ~ TickPending

Goes(from, to) == /\ Runs
                  /\ ctx.place = from
                  /\ ctx' = [ctx EXCEPT !.place = to]

Quiet == UNCHANGED <<present, esp, cur_task_idx, current_task, handler, irq0, isr0,
                     ret_val, probe, loads, wrong>>

\* main enters and leaves the disk driver.
MainDisk == /\ probe = -1
            /\ Goes("main", "mainAta") \/ Goes("mainAta", "main")
            /\ Quiet

\* create_task has built the stack and starts to look for a slot.
CreateTask == /\ Runs
              /\ ctx.place = "main"
              /\ probe = -1
              /\ loads < LOADS
              /\ probe' = 0
              /\ loads' = loads + 1
              /\ UNCHANGED <<present, esp, cur_task_idx, current_task, ctx, handler,
                             irq0, isr0, ret_val, wrong>>

\* Where the search of create_task goes on, or -1.
SlotAfter(i) == IF i + 1 = MAX_TASKS THEN -1 ELSE i + 1

\* The slot is taken, or there is none left.
ProbeSlot == /\ Runs
             /\ ctx.place = "main"
             /\ probe \in Slot
             /\ present[probe]
             /\ probe' = SlotAfter(probe)
             /\ UNCHANGED <<present, esp, cur_task_idx, current_task, ctx, handler,
                            irq0, isr0, ret_val, loads, wrong>>

NewContext(i) == [proc |-> i, place |-> "run"]

\* tasks[i] = elf_task: esp is the first word the copy writes.
FillSlot == /\ Runs
            /\ ctx.place = "main"
            /\ probe \in Slot
            /\ ~ present[probe]
            /\ esp[probe] # NewContext(probe)
            /\ esp' = [esp EXCEPT ![probe] = NewContext(probe)]
            /\ UNCHANGED <<present, cur_task_idx, current_task, ctx, handler, irq0, isr0,
                           ret_val, probe, loads, wrong>>

\* Mutant: the slot is marked before its context is there.
Filled_Early(i) == TRUE

Filled(i) == esp[i] = NewContext(i)

\* present is the last one.
PublishSlot == /\ Runs
               /\ ctx.place = "main"
               /\ probe \in Slot
               /\ ~ present[probe]
               /\ Filled(probe)
               /\ present' = [present EXCEPT ![probe] = TRUE]
               /\ probe' = -1
               /\ UNCHANGED <<esp, cur_task_idx, current_task, ctx, handler, irq0, isr0,
                              ret_val, loads, wrong>>
-----------------------------------------------------------------------------
\* A system call comes in through an interrupt gate; its handler may enable
\* interrupts, and the disk driver disables and enables them again.
SyscallEnter == Goes("run", "gate") /\ Quiet

Sti == (Goes("gate", "open") \/ Goes("ata", "open")) /\ Quiet

Cli == (Goes("gate", "ata") \/ Goes("open", "ata")) /\ Quiet

\* syscall_handler stores the result in ret_val ...
StoreResult == /\ Goes("gate", "retMasked") \/ Goes("open", "retOpen")
               /\ ret_val' = ctx.proc
               /\ UNCHANGED <<present, esp, cur_task_idx, current_task, handler,
                              irq0, isr0, probe, loads, wrong>>

\* ... pops the registers, and loads eax from it.
LoadResult == /\ Goes("retMasked", "run") \/ Goes("retOpen", "run")
              /\ wrong' = IF ret_val = ctx.proc THEN wrong ELSE wrong \cup {ctx.place}
              /\ UNCHANGED <<present, esp, cur_task_idx, current_task, handler,
                             irq0, isr0, ret_val, probe, loads>>

ExitEnter == Goes("run", "exit") /\ Quiet

\* Mutant: the slot is looked up through nothing but the first entry.
ExitedSlot_First == 0

ExitedSlot == cur_task_idx

exit_task == /\ Goes("exit", "gone")
             /\ present' = [present EXCEPT ![ExitedSlot] = FALSE]
             /\ UNCHANGED <<esp, cur_task_idx, current_task, handler, irq0, isr0,
                            ret_val, probe, loads, wrong>>

\* int $0x20: tick_handler is entered without the PIC knowing.
ExitSwitch == /\ handler = "off"
              /\ ctx.place = "gone"
              /\ SaveContext
              /\ UNCHANGED <<present, cur_task_idx, current_task, ctx, irq0, isr0,
                             ret_val, probe, loads, wrong>>
-----------------------------------------------------------------------------
Tick == TickEnter \/ handle_tick \/ SchedulerSkip \/ SchedulerPick \/ TickLeave

Main == MainDisk \/ CreateTask \/ ProbeSlot \/ FillSlot \/ PublishSlot

Task == \/ SyscallEnter \/ Sti \/ Cli \/ StoreResult \/ LoadResult
        \/ ExitEnter \/ exit_task \/ ExitSwitch

Next == TimerFires \/ Tick \/ Main \/ Task

Spec == Init /\ [][Next]_vars

\* The timer keeps firing, the handler runs to its end, and the processor
\* leaves a section in which interrupts are disabled.
Fairness == /\ WF_vars(TimerFires)
            /\ WF_vars(Tick)
            /\ WF_vars((Main \/ Task) /\ ctx.place \in Masked)

FairSpec == Spec /\ Fairness
-----------------------------------------------------------------------------
TypeOK == /\ present \in [Slot -> BOOLEAN]
          /\ esp \in [Slot -> Context]
          /\ cur_task_idx \in Slot
          /\ current_task \in Slot
          /\ ctx \in Context
          /\ handler \in {"off", "entered", "picking", "leaving"}
          /\ irq0 \in BOOLEAN
          /\ isr0 \in BOOLEAN
          /\ ret_val \in Slot
          /\ probe \in Slot \cup {-1}
          /\ loads \in 0 .. LOADS
          /\ wrong \subseteq Place

\* While a task runs, the index, the pointer and the processor agree on which
\* one it is, and it is on the run queue unless it is in the middle of exit.
RunningIsCurrent == handler = "off" => /\ current_task = cur_task_idx
                                       /\ ctx.proc = cur_task_idx
                                       /\ (present[ctx.proc] <=> ctx.place # "gone")

\* A task on the run queue that is not loaded can be resumed: its saved context
\* is its own and has interrupts enabled.
SuspendedAreResumable ==
  \A i \in Slot : present[i] /\ (i # ctx.proc \/ handler = "leaving")
                  => esp[i].proc = i /\ esp[i].place \notin Masked

\* main is always on the run queue, so that scheduler() always finds a task.
SomebodyToRun == present[0]

\* A system call that never enabled interrupts gets its own result, although
\* all calls of all tasks return through one variable.
MaskedCallsExact == "retMasked" \notin wrong

\* What tick_handler has saved, and where it may have come from.
HandlerOK ==
  handler # "off" => /\ esp[ctx.proc] = ctx
                     /\ (present[ctx.proc] <=> ctx.place # "gone")
                     /\ ctx.place \in Masked => ctx.place = "gone"
                     /\ handler # "picking" => current_task = cur_task_idx
                     /\ handler = "leaving" => present[current_task]

\* main keeps to its own places, and nobody else visits them.
OnlyMainIsMain ==
  /\ ctx.place \in {"main", "mainAta"} <=> ctx.proc = 0
  /\ \A i \in Slot : present[i] /\ i # ctx.proc
                     => (esp[i].place \in {"main", "mainAta"} <=> i = 0)

ResultIsOwn == ctx.place = "retMasked" => ret_val = ctx.proc

\* The inductive invariant.
IInv == /\ TypeOK
        /\ RunningIsCurrent
        /\ SuspendedAreResumable
        /\ SomebodyToRun
        /\ MaskedCallsExact
        /\ HandlerOK
        /\ OnlyMainIsMain
        /\ ResultIsOwn

\* Seen from above, each task has a processor of its own.
PlaceOf(i) == IF i = ctx.proc THEN ctx.place
              ELSE IF present[i] THEN esp[i].place
              ELSE "none"

Above == INSTANCE Processes WITH at <- [i \in Slot |-> PlaceOf(i)]

ImplementsProcesses == Above!Spec

\* No task on the run queue waits for the processor for ever.
NobodyStarves == \A i \in Slot : []<>(~ present[i] \/ (handler = "off" /\ ctx.proc = i))
=============================================================================
