------------------------------- MODULE Frames -------------------------------
(***************************************************************************)
(* The page-frame allocator of kernel/mmap.c: a bitmap with one bit per    *)
(* frame above ALLOC_START, searched from a byte-granular hint.            *)
(*                                                                         *)
(* Two kinds of callers reach alloc_page.  The kernel's main task          *)
(* (init_paging, load_elf) runs with interrupts enabled, so the test of a  *)
(* bit and the setting of it are two steps between which it can be         *)
(* preempted.  A user task reaches it through the mmap system call, whose  *)
(* interrupt gate keeps interrupts disabled, so there it is one step.      *)
(* main calls load_elf once, and its last effect is to create the first    *)
(* user task: `phase` records whether that has happened.                   *)
(***************************************************************************)
EXTENDS Integers

CONSTANTS AvailableMemory,  \* bytes of RAM main() derives from the BIOS figures
          ALLOC_START,      \* physical address of frame 0
          PAGE_SIZE,
          ByteBits,         \* bits in one element of memory_bitmap
          NULL

ASSUME FramesAssumption ==
  /\ PAGE_SIZE \in Nat \ {0}
  /\ ByteBits \in Nat \ {0}
  /\ ALLOC_START \in Nat \ {0}
  /\ AvailableMemory \in Nat
  /\ AvailableMemory >= ALLOC_START
  /\ NULL \notin Int

MAX_PAGES == (AvailableMemory - ALLOC_START) \div PAGE_SIZE

Frame == 0 .. MAX_PAGES - 1

Address(i) == ALLOC_START + i * PAGE_SIZE

VARIABLES memory_bitmap,  \* the frames whose bit is set
          current_idx,    \* the byte of the bitmap where the next search starts
          cand,           \* the frame main found free and has not marked yet
          phase,          \* "load" while main loads the program, then "run"
          grants,         \* history: how often each frame has been returned
          answer          \* history: the frame the last call returned, or NULL

vars == <<memory_bitmap, current_idx, cand, phase, grants, answer>>

Init == /\ memory_bitmap = {}
        /\ current_idx = 0
        /\ cand = NULL
        /\ phase = "load"
        /\ grants = [i \in Frame |-> 0]
        /\ answer = NULL
-----------------------------------------------------------------------------
is_page_used(i) == i \in memory_bitmap

\* What the loop of alloc_page looks at and finds free.
Found == {i \in current_idx * ByteBits .. MAX_PAGES - 1 : ~ is_page_used(i)}

\* The loop stops at frame i: the first one it finds free.
StopsAt(i) == /\ i \in Found
              /\ \A j \in Found : i <= j

\* Mutant: the hint moved to the byte after the one just written.
set_page_used_SkipByte(i) == /\ memory_bitmap' = memory_bitmap \cup {i}
                             /\ current_idx' = i \div ByteBits + 1

set_page_used(i) == /\ memory_bitmap' = memory_bitmap \cup {i}
                    /\ current_idx' = i \div ByteBits

Return(i) == /\ answer' = i
             /\ grants' = [grants EXCEPT ![i] = @ + 1]

\* The loop runs off the end: alloc_page returns 0.
OutOfFrames == /\ Found = {}
               /\ answer' = NULL
               /\ UNCHANGED <<memory_bitmap, current_idx, cand, phase, grants>>
-----------------------------------------------------------------------------
\* main allocates only until its load_elf has created the user task.
MainMayAllocate == phase = "load"

MainProbe == /\ MainMayAllocate
             /\ cand = NULL
             /\ \E i \in Found : StopsAt(i) /\ cand' = i
             /\ UNCHANGED <<memory_bitmap, current_idx, phase, grants, answer>>

MainMark == /\ cand # NULL
            /\ set_page_used(cand)
            /\ Return(cand)
            /\ cand' = NULL
            /\ UNCHANGED phase

MainRefused == /\ MainMayAllocate
               /\ cand = NULL
               /\ OutOfFrames

\* create_task: from now on the user task runs beside main.
TaskCreated == /\ phase = "load"
               /\ cand = NULL
               /\ phase' = "run"
               /\ UNCHANGED <<memory_bitmap, current_idx, cand, grants, answer>>

SyscallAlloc == /\ phase = "run"
                /\ \E i \in Found : /\ StopsAt(i)
                                   /\ set_page_used(i)
                                   /\ Return(i)
                /\ UNCHANGED <<cand, phase>>

SyscallRefused == /\ phase = "run"
                  /\ OutOfFrames

Next == \/ MainProbe
        \/ MainMark
        \/ MainRefused
        \/ TaskCreated
        \/ SyscallAlloc
        \/ SyscallRefused

Spec == Init /\ [][Next]_vars
-----------------------------------------------------------------------------
TypeOK == /\ memory_bitmap \subseteq Frame
          /\ current_idx \in Nat
          /\ cand \in Frame \cup {NULL}
          /\ phase \in {"load", "run"}
          /\ grants \in [Frame -> Nat]
          /\ answer \in Frame \cup {NULL}

\* No frame is ever handed to two callers, although the main task tests and
\* sets a bit in two steps and the mmap system call runs between them.
GrantedOnce == \A i \in Frame : grants[i] = IF i \in memory_bitmap THEN 1 ELSE 0

\* The search hint never moves past a frame that is still free, so starting
\* there instead of at frame 0 loses no memory.
HintSound == \A i \in Frame : i < current_idx * ByteBits => i \in memory_bitmap

\* What main found free is still free when main marks it.
CandStillFree == cand # NULL => /\ cand \notin memory_bitmap
                                /\ phase = "load"

\* The whole of every frame that was handed out is memory the machine has,
\* and lies above the identity-mapped kernel area.
FramesInRam == \A i \in memory_bitmap : /\ Address(i) >= ALLOC_START
                                        /\ Address(i) + PAGE_SIZE <= AvailableMemory

\* The hint never runs ahead of a search: every frame below the one main is
\* about to mark is already in use.
CandIsLowest == cand # NULL => /\ cand >= current_idx * ByteBits
                               /\ \A i \in Frame : i < cand => i \in memory_bitmap

\* The inductive invariant behind the properties above.
IInv == TypeOK /\ GrantedOnce /\ HintSound /\ CandStillFree /\ CandIsLowest

\* The allocator implements FrameSource: a frame leaves the stock when its
\* bit is set, and NULL is returned only when the stock is empty.
Source == INSTANCE FrameSource WITH free <- Frame \ memory_bitmap

ImplementsFrameSource == Source!Spec
=============================================================================
