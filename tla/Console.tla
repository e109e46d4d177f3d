------------------------------ MODULE Console ------------------------------
(***************************************************************************)
(* Console input in kernel/syscalls.c: the keyboard's interrupt handler,   *)
(* and read, which waits for it with `sti; hlt`.                           *)
(*                                                                         *)
(* The system call enables interrupts at once, so that a key or a tick can *)
(* come between any two assignments of read.  The handler itself runs with *)
(* interrupts disabled, in one step.  How a byte gets to it is in Devices, *)
(* and what its echo does to the cursor in Terminal.  All programs are     *)
(* linked at the same address: their buffers have the same virtual address *)
(* and the handler stores in the address space that happens to be loaded.  *)
(* Where nothing is mapped there, the store is a page fault, and the       *)
(* kernel's handler of exceptions halts for ever with interrupts disabled. *)
(* Task 0 is main, which never reads.                                      *)
(***************************************************************************)
EXTENDS Integers, Sequences

CONSTANTS TASKS,   \* main and the programs
          LENGTH,  \* bytes in a program's buffer
          Lens,    \* the lengths programs ask for
          Keys     \* the scan codes that come

Task == 0 .. TASKS - 1
Reader == Task \ {0}
Index == 0 .. LENGTH - 1

\* What a scan code can mean.  LETTER stands for every other key, also for those
\* keymap has a 0 for, and RELEASE for every other key going up.
Code == {"LSHIFT", "LSHIFT_UP", "LMAJ", "BACKSPACE", "ENTER", "LETTER", "RELEASE"}

ASSUME ConsoleAssumption == /\ TASKS \in Nat \ {0}
                            /\ LENGTH \in Nat
                            /\ Lens \subseteq 0 .. LENGTH
                            /\ Keys \subseteq Code

\* The codes that change a line.
Editing == {"BACKSPACE", "ENTER", "LETTER"}

Char == {"lower", "upper", "newline"}
NUL == "NUL"

VARIABLES is_shift,
          enter_pressed,
          read_buf,   \* whether the pointer is set: there is one address only
          read_len,
          read_idx,
          mem,        \* the buffer in each program's address space
          pc,         \* the next assignment of read, or where the program is
          len,        \* read's argument
          ctx,        \* the task that has the processor
          halted,     \* whether a store has been a page fault
          line,       \* history: the line typed since read_idx was reset
          entered,    \* history: whether Enter has ended it
          trouble     \* history: what has happened to the read in progress

vars == <<is_shift, enter_pressed, read_buf, read_len, read_idx, mem, pc, len, ctx,
          halted, line, entered, trouble>>

globals == <<is_shift, enter_pressed, read_buf, read_len, read_idx>>
history == <<line, entered, trouble>>

Init == /\ is_shift = FALSE
        /\ enter_pressed = FALSE
        /\ read_buf = FALSE
        /\ read_len = 0
        /\ read_idx = 0
        /\ mem = [p \in Reader |-> [i \in Index |-> NUL]]
        /\ pc = [p \in Reader |-> "run"]
        /\ len = [p \in Reader |-> 0]
        /\ ctx = 0
        /\ halted = FALSE
        /\ line = [p \in Reader |-> <<>>]
        /\ entered = [p \in Reader |-> FALSE]
        /\ trouble = [p \in Reader |-> {}]

Reading(p) == pc[p] # "run"

\* The other programs in read.
Others(p) == {q \in Reader \ {p} : Reading(q)}

\* Its read is still assigning the length or the index; it is past all its
\* assignments; the keyboard adds to its line.
SettingUp(p) == pc[p] \in {"setLen", "setIdx"}
Waiting(p) == pc[p] \in {"test", "sleep", "asleep", "leave"}
Typing(p) == Waiting(p) \/ pc[p] = "setEnter"

\* An interrupt ends hlt.
Woken == [p \in Reader |-> IF p = ctx /\ pc[p] = "asleep" THEN "test" ELSE pc[p]]
-----------------------------------------------------------------------------
CanErase == read_buf /\ read_idx # 0

\* Mutant: one character more than fits.
HasRoom_OneMore == read_buf /\ read_idx <= read_len

HasRoom == read_buf /\ read_idx < read_len

\* read_buf[i] = c, in the address space of the task that runs.
Store(i, c) == mem' = [p \in Reader |-> IF p = ctx THEN [mem[p] EXCEPT ![i] = c] ELSE mem[p]]

Put(c) == \/ /\ HasRoom
             /\ Store(read_idx, c)
             /\ read_idx' = read_idx + 1
          \/ ~ HasRoom /\ UNCHANGED <<mem, read_idx>>

Erase == \/ /\ CanErase
            /\ Store(read_idx - 1, NUL)
            /\ read_idx' = read_idx - 1
         \/ ~ CanErase /\ UNCHANGED <<mem, read_idx>>

Letter == IF is_shift THEN "upper" ELSE "lower"

\* The line after one more character, if it has room for it.
Longer(p, c) == IF Len(line[p]) < len[p] THEN Append(line[p], c) ELSE line[p]

\* The line of p after code k, as somebody at the keyboard sees it.
Edited(p, k) == CASE k = "LETTER" -> Longer(p, Letter)
                  [] k = "ENTER" -> Longer(p, "newline")
                  [] OTHER -> SubSeq(line[p], 1, Len(line[p]) - 1)

\* What an editing code that comes now means for a read of p.
Hazards(p) == {h \in {"early", "elsewhere", "late"} :
                    CASE h = "early" -> SettingUp(p)
                      [] h = "elsewhere" -> Typing(p) /\ ctx # p
                      [] h = "late" -> Typing(p) /\ entered[p]}

Noted(k) ==
  IF k \in Editing
  THEN /\ line' = [p \in Reader |-> IF Typing(p) /\ ~ entered[p] THEN Edited(p, k) ELSE line[p]]
       /\ entered' = [p \in Reader |-> entered[p] \/ (Waiting(p) /\ k = "ENTER")]
       /\ trouble' = [p \in Reader |-> trouble[p] \cup Hazards(p)]
  ELSE UNCHANGED history

\* Code k stores something.
Stores(k) == \/ k = "BACKSPACE" /\ CanErase
             \/ k \in {"ENTER", "LETTER"} /\ HasRoom

\* main's address space has no buffer of a program.  A program in read has one at
\* that address, one that is not may have.
Mapped == ctx \in Reader
Unmapped == ctx \in Reader => ~ Reading(ctx)

\* The store is a page fault.
KeyFaults(k) == /\ Stores(k) /\ Unmapped
                /\ halted' = TRUE
                /\ UNCHANGED <<globals, mem, pc, len, ctx, history>>

KeyIsHandled(k) ==
  /\ Stores(k) => Mapped
  /\ \/ /\ k \in {"LSHIFT", "LSHIFT_UP", "LMAJ"}
        /\ is_shift' = CASE k = "LSHIFT" -> TRUE
                         [] k = "LSHIFT_UP" -> FALSE
                         [] OTHER -> ~ is_shift
        /\ UNCHANGED <<mem, read_idx, enter_pressed>>
     \/ /\ k = "BACKSPACE"
        /\ Erase
        /\ UNCHANGED <<is_shift, enter_pressed>>
     \/ /\ k = "ENTER"
        /\ Put("newline")
        /\ enter_pressed' = TRUE
        /\ UNCHANGED is_shift
     \/ /\ k = "LETTER"
        /\ Put(Letter)
        /\ UNCHANGED <<is_shift, enter_pressed>>
     \/ /\ k = "RELEASE"
        /\ UNCHANGED <<mem, read_idx, is_shift, enter_pressed>>
  /\ pc' = Woken
  /\ Noted(k)
  /\ UNCHANGED <<read_buf, read_len, len, ctx, halted>>

handle_keyboard(k) == /\ ~ halted
                      /\ KeyFaults(k) \/ KeyIsHandled(k)

\* The timer: the next task runs.
Tick == /\ ~ halted
        /\ ctx' = (ctx + 1) % TASKS
        /\ pc' = Woken
        /\ UNCHANGED <<globals, mem, len, halted, history>>
-----------------------------------------------------------------------------
Goes(p, from, to) == /\ ~ halted
                     /\ ctx = p
                     /\ pc[p] = from
                     /\ pc' = [pc EXCEPT ![p] = to]
                     /\ UNCHANGED halted

\* The system call, up to `read_buf = buf`.
Read(p, n) == /\ Goes(p, "run", "setLen")
              /\ read_buf' = TRUE
              /\ len' = [len EXCEPT ![p] = n]
              /\ trouble' = [q \in Reader |->
                   trouble[q] \cup IF Others(p) # {} /\ q \in Others(p) \cup {p}
                                   THEN {"shared"} ELSE {}]
              /\ UNCHANGED <<is_shift, enter_pressed, read_len, read_idx, mem, ctx, line, entered>>

SetLen(p) == /\ Goes(p, "setLen", "setIdx")
             /\ read_len' = len[p]
             /\ UNCHANGED <<is_shift, enter_pressed, read_buf, read_idx, mem, len, ctx, history>>

\* Mutant: the index is left where the last read ended.
StartOfLine_Stale == read_idx

StartOfLine == 0

SetIdx(p) == /\ Goes(p, "setIdx", "setEnter")
             /\ read_idx' = StartOfLine
             /\ UNCHANGED <<is_shift, enter_pressed, read_buf, read_len, mem, len, ctx, history>>

SetEnter(p) == /\ Goes(p, "setEnter", "test")
               /\ enter_pressed' = FALSE
               /\ UNCHANGED <<is_shift, read_buf, read_len, read_idx, mem, len, ctx, history>>

\* Mutant: only Enter ends the loop.
KeepsWaiting_ForEnter == ~ enter_pressed

\* The condition of the loop.
KeepsWaiting == ~ enter_pressed /\ read_idx < read_len

Test(p) == /\ \/ KeepsWaiting /\ Goes(p, "test", "sleep")
              \/ ~ KeepsWaiting /\ Goes(p, "test", "leave")
           /\ UNCHANGED <<globals, mem, len, ctx, history>>

\* sti; hlt
Sleep(p) == /\ Goes(p, "sleep", "asleep")
            /\ UNCHANGED <<globals, mem, len, ctx, history>>

\* read_buf = 0
Leave(p) == /\ Goes(p, "leave", "return")
            /\ read_buf' = FALSE
            /\ UNCHANGED <<is_shift, enter_pressed, read_len, read_idx, mem, len, ctx, history>>

\* return read_idx
Return(p) == /\ Goes(p, "return", "run")
             /\ len' = [len EXCEPT ![p] = 0]
             /\ line' = [line EXCEPT ![p] = <<>>]
             /\ entered' = [entered EXCEPT ![p] = FALSE]
             /\ trouble' = [trouble EXCEPT ![p] = {}]
             /\ UNCHANGED <<globals, mem, ctx>>

Step(p) == \/ SetLen(p) \/ SetIdx(p) \/ SetEnter(p) \/ Test(p) \/ Sleep(p)
           \/ Leave(p) \/ Return(p)

Next == \/ \E k \in Keys : handle_keyboard(k)
        \/ Tick
        \/ \E p \in Reader : Step(p) \/ \E n \in Lens : Read(p, n)

Spec == Init /\ [][Next]_vars

\* The timer keeps ticking, and a task that gets the processor again and again
\* gets on: a tick comes once in a million cycles.  Nobody has to press a key.
Fairness == WF_vars(Tick) /\ \A p \in Reader : SF_vars(Step(p))

FairSpec == Spec /\ Fairness
-----------------------------------------------------------------------------
TypeOK == /\ is_shift \in BOOLEAN
          /\ enter_pressed \in BOOLEAN
          /\ read_buf \in BOOLEAN
          /\ read_len \in 0 .. LENGTH
          /\ read_idx \in 0 .. LENGTH
          /\ mem \in [Reader -> [Index -> Char \cup {NUL}]]
          /\ pc \in [Reader -> {"run", "setLen", "setIdx", "setEnter", "test", "sleep",
                                "asleep", "leave", "return"}]
          /\ len \in [Reader -> 0 .. LENGTH]
          /\ ctx \in Task
          /\ halted \in BOOLEAN
          /\ line \in [Reader -> Seq(Char)]
          /\ entered \in [Reader -> BOOLEAN]
          /\ trouble \in [Reader -> SUBSET {"early", "elsewhere", "late", "shared"}]

\* A read returns the length of the line that was typed, as edited, unless a
\* second program was in read or keys followed Enter before the reader woke up;
\* and the line is in its buffer, unless a key came while another task ran.
LineDelivered ==
  \A p \in Reader :
    pc[p] = "return" /\ trouble[p] \cap {"shared", "late"} = {} =>
      /\ read_idx = Len(line[p])
      /\ "elsewhere" \notin trouble[p] => \A i \in 1 .. read_idx : mem[p][i - 1] = line[p][i]

\* The handler writes only in the program that runs, and a program alone in read is
\* written no further than it asked for.  A program that runs while others are in
\* read is written as far as one of them asked for: the bytes at that address are its
\* own, and so a second reader's length is applied to its buffer.  Only while a read
\* is still assigning the length and the index can the key be stored further away,
\* where the last read left off.
StoresInside ==
  [][\A p \in Reader : \A i \in Index :
       mem'[p][i] # mem[p][i] => /\ p = ctx
                                 /\ \/ i < len[p]
                                    \/ \E q \in Others(p) : i < len[q]
                                    \/ \E q \in Reader : SettingUp(q)]_vars

\* A read returns once its buffer is full, or Enter has been pressed after it reset
\* enter_pressed, its last assignment before the loop: even if the key came between
\* the test and hlt.  (An Enter that came before is in the line and does not end it.)
\* Two things prevent that: a second program in read, and the kernel halting because a
\* key came while a task ran that does not have the buffer mapped.
EndedReadsReturn ==
  \A p \in Reader : []<>(\/ ~ Waiting(p)
                         \/ ~ (entered[p] \/ Len(line[p]) = len[p])
                         \/ "shared" \in trouble[p]
                         \/ halted)
=============================================================================
