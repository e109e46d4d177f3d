--------------------------- MODULE AddressSpaces ---------------------------
(***************************************************************************)
(* Address spaces: map_page and init_paging of kernel/mmap.c, create_pd    *)
(* and the stack of create_task in kernel/scheduler.c, load_elf of         *)
(* kernel/elf.c and the mmap system call, each of which stops half way     *)
(* when memory runs out.                                                   *)
(*                                                                         *)
(* Addresses and frames are counted in pages, and what a frame contains    *)
(* byte by byte.  The windows at 0xF0000000 through which the kernel       *)
(* reaches tables and pages of the task are mapped right before they are   *)
(* used and share one page table; WINDOW is the first of them, and stands  *)
(* for all.  Until the task runs there is nobody but main, and afterwards  *)
(* only the task's own mmap changes a mapping, with interrupts disabled.   *)
(***************************************************************************)
EXTENDS Integers, Sequences

CONSTANTS Memories,    \* how many frames a machine may have from ALLOC_START on
          ENTRIES,     \* entries in a page table; ALLOC_START is one table's worth
          PAGE_SIZE,
          FB_BASE, FB_PAGES,
          HEAP_BASE, HEAP_PAGES,
          TASK_HEAP,   \* how many pages of the heap create_pd maps
          STACK,       \* the page of the stack
          WINDOW,
          UserPages,   \* where programs are linked, and map more pages
          Programs,    \* the files there are: sequences of program headers
          NoPrograms   \* those of them whose ELF header is not accepted

ASSUME AddressAssumption ==
  /\ Memories \subseteq Nat \ {0}
  /\ ENTRIES \in Nat \ {0}
  /\ PAGE_SIZE \in Nat \ {0}
  /\ {FB_BASE, HEAP_BASE, STACK, WINDOW} \subseteq Nat
  /\ {FB_PAGES, HEAP_PAGES} \subseteq Nat \ {0}
  /\ TASK_HEAP \in 1 .. HEAP_PAGES
  /\ UserPages \subseteq Nat
  /\ NoPrograms \subseteq Programs

Low == 0 .. ENTRIES - 1
Framebuffer == FB_BASE .. FB_BASE + FB_PAGES - 1
Heap == HEAP_BASE .. HEAP_BASE + HEAP_PAGES - 1
Page == Low \cup Framebuffer \cup Heap \cup {STACK, WINDOW} \cup UserPages

TableOf(v) == v \div ENTRIES
Table == {TableOf(v) : v \in Page}

Space == {"kernel", "task"}

NULL == 0        \* also the first frame of the machine, which holds the BIOS data
UNMAPPED == -1

\* What a byte of memory can be: the byte that the file has for an address, cleared,
\* or what was there before anybody wrote to it.
ZERO == -2
JUNK == -1
Offset == 0 .. PAGE_SIZE - 1
Content == [Offset -> Nat \cup {ZERO, JUNK}]
Blank == [o \in Offset |-> JUNK]

\* The eleven words of create_task, of which nothing is told apart.
StackPage == [o \in Offset |-> STACK * PAGE_SIZE + o]

\* A program header: where its first page is, where in it the segment starts,
\* and what load_elf does with a header of its type.
Segment == [kind : {"load", "other", "refused"}, page : Page,
            p_offset : 0 .. PAGE_SIZE - 1, p_filesz : Nat, p_memsz : Nat]

\* Mutant: a page that is not filled is not counted.
PagesOf_Whole(h) == (h.p_offset + h.p_memsz) \div PAGE_SIZE

\* How many pages mmap maps for a segment, and which.
PagesOf(h) == (h.p_offset + h.p_memsz + PAGE_SIZE - 1) \div PAGE_SIZE

PagesIn(h) == h.page .. h.page + PagesOf(h) - 1

\* The addresses of a segment, those that fread fills, and those that memset does.
p_vaddr(h) == h.page * PAGE_SIZE + h.p_offset
Bytes(h) == p_vaddr(h) .. p_vaddr(h) + h.p_memsz - 1
FileBytes(h) == p_vaddr(h) .. p_vaddr(h) + h.p_filesz - 1

\* Mutant: a segment without contents is not cleared.
ZeroedBytes_None(h) == {}

ZeroedBytes(h) == IF h.p_filesz = 0 THEN Bytes(h) ELSE {}

\* How the kernel has laid out the addresses: no two regions meet, the stack at
\* 0xD0000000 has a page table to itself, and the framebuffer is not memory.
ASSUME LayoutAssumption ==
  /\ Framebuffer \cap (Low \cup Heap \cup UserPages \cup {STACK, WINDOW}) = {}
  /\ Heap \cap (Low \cup UserPages \cup {STACK, WINDOW}) = {}
  /\ UserPages \cap (Low \cup {STACK, WINDOW}) = {}
  /\ STACK # WINDOW /\ {STACK, WINDOW} \cap Low = {}
  /\ \A v \in Page \ {STACK} : TableOf(v) # TableOf(STACK)
  /\ \A m \in Memories : Framebuffer \cap (ENTRIES .. ENTRIES + m - 1) = {}

\* Programs are linked in the pages of programs, with a page of nothing behind
\* the last; what is loaded is not empty, ascends, and does not share pages; and
\* a file with an ELF header has something to load, or to refuse.
ASSUME ProgramAssumption ==
  \A p \in Programs :
    /\ p \in Seq(Segment)
    /\ \A n \in DOMAIN p : p[n].kind = "load" =>
         /\ p[n].p_offset + p[n].p_memsz > 0
         /\ p[n].p_filesz <= p[n].p_memsz
         /\ PagesIn(p[n]) \subseteq UserPages
         /\ p[n].page + PagesOf(p[n]) \notin Page \ UserPages
         /\ \A m \in 1 .. n - 1 : p[m].kind = "load" => p[m].page + PagesOf(p[m]) <= p[n].page
    /\ p \notin NoPrograms => \E n \in DOMAIN p : p[n].kind # "other"

VARIABLES frames,  \* how many frames the machine has
          given,   \* how many of them alloc_page has handed out, lowest first
          pd,      \* the frame of every page table, by space
          pt,      \* the frame that every page is mapped to, by space
          mem,     \* what a frame contains
          dir,     \* the frame of the task's page directory
          program,
          seg,     \* the segment load_elf is at
          i,       \* the page the running loop is at
          pc       \* where main is

vars == <<frames, given, pd, pt, mem, dir, program, seg, i, pc>>

Address(n) == ENTRIES + n
Frame == {Address(n) : n \in 0 .. frames - 1}

Init == /\ frames \in Memories
        /\ given = 0
        /\ pd = [s \in Space |-> [t \in Table |-> NULL]]
        /\ pt = [s \in Space |-> [v \in Page |-> UNMAPPED]]
        /\ mem = [f \in Frame \cup {NULL} |-> Blank]
        /\ dir = NULL
        /\ program \in Programs
        /\ seg = 1
        /\ i = 0
        /\ pc = "first_pt"
-----------------------------------------------------------------------------
\* Mutant: the last frame is not checked for.
IsLeft_OneMore(n) == n <= frames

\* There is a frame left after n have been handed out.
IsLeft(n) == n < frames

\* alloc_page, and how many frames are gone after it.
alloc_page == IF IsLeft(given) THEN Address(given) ELSE NULL
After == IF IsLeft(given) THEN given + 1 ELSE given

HasTable(s, v) == pd[s][TableOf(v)] # NULL

\* map_page succeeds when n frames are gone already.
CanMap(s, v, n) == HasTable(s, v) \/ IsLeft(n)

\* Mutant: the page's own frame is used for a new table as well.
TableFrame_Shared(n) == Address(n - 1)

TableFrame(n) == Address(n)

\* map_page(s, phys, v), with n frames gone already: the page table is made
\* when there is none.
map_page(s, phys, v, n) ==
  /\ pd' = IF HasTable(s, v) THEN pd ELSE [pd EXCEPT ![s][TableOf(v)] = TableFrame(n)]
  /\ pt' = [pt EXCEPT ![s][v] = phys]
  /\ given' = IF HasTable(s, v) THEN n ELSE n + 1

\* The pages Low are mapped to themselves by a table of their own.
MapLow(s, f) == /\ pd' = [pd EXCEPT ![s][0] = f]
                /\ pt' = [pt EXCEPT ![s] = [v \in Page |-> IF v \in Low THEN v ELSE @[v]]]

\* The loop has done page i of n, and goes on at `to` behind the last one.
Loop(n, to) == IF i + 1 < n THEN i' = i + 1 /\ UNCHANGED pc
               ELSE i' = 0 /\ pc' = to

Goto(to) == pc' = to /\ i' = 0

loading == <<frames, mem, dir, program, seg>>
-----------------------------------------------------------------------------
\* init_paging
FirstTable == /\ pc = "first_pt"
              /\ MapLow("kernel", alloc_page)
              /\ given' = After
              /\ Goto("fb")
              /\ UNCHANGED loading

\* A failure ends init_paging, and main goes on all the same.
MapFramebuffer ==
  LET v == FB_BASE + i
  IN  /\ pc = "fb"
      /\ \/ /\ CanMap("kernel", v, given)
            /\ map_page("kernel", v, v, given)
            /\ Loop(FB_PAGES, "heap")
         \/ /\ ~ CanMap("kernel", v, given)
            /\ Goto("init_malloc")
            /\ UNCHANGED <<given, pd, pt>>
      /\ UNCHANGED loading

\* Neither of the two results is looked at.
MapHeap ==
  LET v == HEAP_BASE + i
  IN  /\ pc = "heap"
      /\ \/ CanMap("kernel", v, After) /\ map_page("kernel", alloc_page, v, After)
         \/ ~ CanMap("kernel", v, After) /\ given' = After /\ UNCHANGED <<pd, pt>>
      /\ Loop(HEAP_PAGES, "init_malloc")
      /\ UNCHANGED loading

\* The first header is written.
init_malloc == /\ pc = "init_malloc"
               /\ Goto(IF pt["kernel"][HEAP_BASE] = UNMAPPED THEN "halted" ELSE "parse")
               /\ UNCHANGED <<given, pd, pt, loading>>
-----------------------------------------------------------------------------
\* The file is there and its header says what the kernel can load, or not.
parse_elf_header == /\ pc = "parse"
                    /\ Goto(IF program \in NoPrograms THEN "failed" ELSE "create_pd")
                    /\ UNCHANGED <<given, pd, pt, loading>>

\* create_pd returns NULL; load_elf maps that as the directory, and goes on.
NoDirectory ==
  /\ dir' = NULL
  /\ \/ /\ HasTable("kernel", WINDOW)
        /\ pt' = [pt EXCEPT !["kernel"][WINDOW] = NULL]
        /\ Goto("load")
     \/ /\ ~ HasTable("kernel", WINDOW)
        /\ Goto("failed")
        /\ UNCHANGED pt
  /\ UNCHANGED <<frames, pd, mem, program, seg>>

TakeDirectory ==
  /\ pc = "create_pd"
  /\ \/ /\ IsLeft(given)
        /\ CanMap("kernel", WINDOW, After)
        /\ map_page("kernel", alloc_page, WINDOW, After)
        /\ dir' = alloc_page
        /\ Goto("task_low")
        /\ UNCHANGED <<frames, mem, program, seg>>
     \/ /\ ~ (IsLeft(given) /\ CanMap("kernel", WINDOW, After))
        /\ given' = After
        /\ NoDirectory

TaskLow == /\ pc = "task_low"
           /\ \/ /\ IsLeft(given)
                 /\ MapLow("task", alloc_page)
                 /\ given' = After
                 /\ Goto("task_fb")
                 /\ UNCHANGED loading
              \/ ~ IsLeft(given) /\ NoDirectory /\ UNCHANGED given

\* One page of a loop of create_pd: v is mapped to phys.
TaskMaps(v, phys, n, to) ==
  \/ /\ CanMap("task", v, given)
     /\ map_page("task", phys, v, given)
     /\ Loop(n, to)
     /\ UNCHANGED loading
  \/ ~ CanMap("task", v, given) /\ NoDirectory /\ UNCHANGED given

TaskFramebuffer == /\ pc = "task_fb"
                   /\ TaskMaps(FB_BASE + i, FB_BASE + i, FB_PAGES, "task_heap")

TaskHeap == /\ pc = "task_heap"
            /\ TaskMaps(HEAP_BASE + i, pt["kernel"][HEAP_BASE + i], TASK_HEAP, "load")
-----------------------------------------------------------------------------
\* The program header load_elf looks at.
header == program[seg]
LoadsSegment == seg <= Len(program) /\ header.kind = "load"
p_len == header.p_offset + header.p_memsz

NextHeader == /\ pc = "load"
              /\ seg <= Len(program)
              /\ \/ header.kind = "load" /\ Goto("mmap_kernel") /\ UNCHANGED seg
                 \/ header.kind = "other" /\ seg' = seg + 1 /\ UNCHANGED <<pc, i>>
                 \/ header.kind = "refused" /\ Goto("failed") /\ UNCHANGED seg
              /\ UNCHANGED <<frames, given, pd, pt, mem, dir, program>>

LastHeader == /\ pc = "load"
              /\ seg > Len(program)
              /\ Goto("create_task")
              /\ UNCHANGED <<given, pd, pt, loading>>

\* mmap, one page: a frame of its own for page v, or the end of load_elf.
Maps(s, v, to) ==
  /\ \/ /\ IsLeft(given)
        /\ CanMap(s, v, After)
        /\ map_page(s, alloc_page, v, After)
        /\ Loop(PagesOf(header), to)
     \/ /\ ~ (IsLeft(given) /\ CanMap(s, v, After))
        /\ given' = After
        /\ Goto("failed")
        /\ UNCHANGED <<pd, pt>>
  /\ UNCHANGED loading

MmapKernel == pc = "mmap_kernel" /\ Maps("kernel", header.page + i, "mmap_task")

MmapTask == pc = "mmap_task" /\ Maps("task", header.page + i, "read")

\* What page v holds after fread or memset, when it held `old` before.
Written(h, v, old) ==
  [o \in Offset |-> LET a == v * PAGE_SIZE + o
                    IN  IF a \in FileBytes(h) THEN a
                        ELSE IF a \in ZeroedBytes(h) THEN ZERO ELSE old[o]]

\* fread puts the contents into the kernel's pages; memset clears them when there
\* are none.
ReadSegment ==
  /\ pc = "read"
  /\ mem' = [f \in DOMAIN mem |->
               IF \E v \in PagesIn(header) : pt["kernel"][v] = f
               THEN Written(header, CHOOSE v \in PagesIn(header) : pt["kernel"][v] = f, mem[f])
               ELSE mem[f]]
  /\ Goto("copy")
  /\ UNCHANGED <<frames, given, pd, pt, dir, program, seg>>

\* Where a page of the task is, NULL when it has none.
Target(v) == IF pt["task"][v] = UNMAPPED THEN NULL ELSE pt["task"][v]

\* The loop runs once more when p_len is a whole number of pages.
CopyPage ==
  LET v == header.page + i
      source == IF v \in Page THEN pt["kernel"][v] ELSE UNMAPPED
  IN  /\ pc = "copy"
      /\ \/ /\ source = UNMAPPED
            /\ Goto("halted")
            /\ UNCHANGED <<mem, seg>>
         \/ /\ source # UNMAPPED
            /\ mem' = [mem EXCEPT ![Target(v)] = mem[source]]
            /\ \/ /\ (i + 1) * PAGE_SIZE <= p_len
                  /\ i' = i + 1
                  /\ UNCHANGED <<pc, seg>>
               \/ /\ (i + 1) * PAGE_SIZE > p_len
                  /\ Goto("load")
                  /\ seg' = seg + 1
      /\ UNCHANGED <<frames, given, pd, pt, dir, program>>

\* The stack: nobody looks whether there was a frame for it.
CreateTask ==
  /\ pc = "create_task"
  /\ \/ /\ CanMap("task", STACK, After)
        /\ map_page("task", alloc_page, STACK, After)
        /\ mem' = [mem EXCEPT ![alloc_page] = StackPage]
        /\ Goto("running")
     \/ /\ ~ CanMap("task", STACK, After)
        /\ given' = After
        /\ Goto("failed")
        /\ UNCHANGED <<pd, pt, mem>>
  /\ UNCHANGED <<frames, dir, program, seg>>

\* The task's mmap system call, one page: NULL is returned when it fails.
\* Programs map pages they do not have yet.
mmap(v) == /\ pc = "running"
           /\ pt["task"][v] = UNMAPPED
           /\ \/ /\ IsLeft(given)
                 /\ CanMap("task", v, After)
                 /\ map_page("task", alloc_page, v, After)
              \/ /\ ~ (IsLeft(given) /\ CanMap("task", v, After))
                 /\ given' = After
                 /\ UNCHANGED <<pd, pt>>
           /\ UNCHANGED <<loading, i, pc>>

Next == \/ FirstTable \/ MapFramebuffer \/ MapHeap \/ init_malloc
        \/ parse_elf_header \/ TakeDirectory \/ TaskLow \/ TaskFramebuffer \/ TaskHeap
        \/ NextHeader \/ LastHeader \/ MmapKernel \/ MmapTask
        \/ ReadSegment \/ CopyPage \/ CreateTask
        \/ \E v \in UserPages : mmap(v)

Spec == Init /\ [][Next]_vars
-----------------------------------------------------------------------------
TypeOK == /\ frames \in Memories
          /\ given \in 0 .. frames
          /\ pd \in [Space -> [Table -> Frame \cup {NULL}]]
          /\ pt \in [Space -> [Page -> Frame \cup {NULL, UNMAPPED} \cup Low \cup Framebuffer]]
          /\ mem \in [Frame \cup {NULL} -> Content]
          /\ dir \in Frame \cup {NULL}
          /\ program \in Programs
          /\ seg \in 1 .. Len(program) + 1
          /\ i \in Nat
          /\ pc \in {"first_pt", "fb", "heap", "init_malloc", "parse", "create_pd", "task_low",
                     "task_fb", "task_heap", "load", "mmap_kernel", "mmap_task", "read",
                     "copy", "create_task", "running", "failed", "halted"}

\* What load_elf leaves in page v of a segment: the bytes of the file, and nothing
\* but zeros when the file has none.  Behind the bytes of the file, where .bss is,
\* memory is what it was before.
Loaded(h, v) ==
  [o \in Offset |-> LET a == v * PAGE_SIZE + o
                    IN  CASE a \in FileBytes(h) -> a
                          [] h.p_filesz = 0 /\ a \in Bytes(h) -> ZERO
                          [] OTHER -> JUNK]

\* A task that runs has every page of every segment in its memory, with what the
\* file has for it or cleared (though not the .bss behind bytes of the file, which
\* load_elf never clears), a stack, the framebuffer, and its part of the kernel's
\* heap in the very frames the kernel has it in, wherever memory ran out before.
TaskIsWhole ==
  pc = "running" =>
    /\ \A n \in DOMAIN program : program[n].kind = "load" =>
         \A v \in PagesIn(program[n]) : /\ pt["task"][v] \in Frame
                                        /\ mem[pt["task"][v]] = Loaded(program[n], v)
    /\ pt["task"][STACK] \in Frame /\ mem[pt["task"][STACK]] = StackPage
    /\ \A v \in Low \cup Framebuffer : pt["task"][v] = v
    /\ \A k \in HEAP_BASE .. HEAP_BASE + TASK_HEAP - 1 :
         pt["task"][k] = pt["kernel"][k] /\ pt["task"][k] \in Frame

\* The pages that are mapped for good.
Places == Space \X (Page \ {WINDOW})

\* No frame serves two purposes: two pages share one only if they are the same
\* page of the heap in the two spaces, no page, table or directory lies in a frame
\* that is a table, and no page in the one that is the task's directory.
FramesApart ==
  /\ \A x, y \in Places : pt[x[1]][x[2]] = pt[y[1]][y[2]] /\ pt[x[1]][x[2]] \in Frame
                           => x = y \/ (x[2] = y[2] /\ x[2] \in Heap)
  /\ \A s \in Space, t \in Table : pd[s][t] # NULL =>
       /\ \A x \in Places : pt[x[1]][x[2]] # pd[s][t]
       /\ \A r \in Space, u \in Table : pd[r][u] = pd[s][t] => r = s /\ u = t
       /\ dir # pd[s][t]
  /\ dir # NULL => \A x \in Places : pt[x[1]][x[2]] # dir

\* Loading fails only when memory runs out or the file has a header that
\* load_elf refuses, and a file that is no program never costs a directory; the
\* kernel stops with a page fault only when there is no memory for the heap, or a
\* segment ends at the end of a page; no part of the task is made without a
\* directory; and frame 0, which is what a failed allocation looks like, never gets
\* a page of a program or a stack, and is mapped nowhere but in the heap, when there
\* was too little memory for that.
LoadOutcome ==
  /\ pc = "failed" => \/ given = frames
                      \/ seg <= Len(program) /\ header.kind = "refused"
                      \/ program \in NoPrograms
  /\ program \in NoPrograms => dir = NULL
  /\ pc = "halted" => \/ given = frames /\ pt["kernel"][HEAP_BASE] = UNMAPPED
                      \/ LoadsSegment /\ p_len % PAGE_SIZE = 0
  /\ pc \in {"mmap_task", "read", "copy", "create_task", "running"} => dir # NULL
  /\ mem[NULL] = Blank
  /\ \A x \in Places : pt[x[1]][x[2]] = NULL /\ x[2] \notin Low => x[2] \in Heap /\ given = frames
-----------------------------------------------------------------------------
\* The inductive invariant.  Nothing lies in a frame that is still to be given.
NothingAhead ==
  LET free == ENTRIES + given
  IN  /\ \A s \in Space, v \in Page : pt[s][v] \in Frame => pt[s][v] < free
      /\ \A s \in Space, t \in Table : pd[s][t] < free
      /\ dir < free

Booting == {"first_pt", "fb", "heap", "init_malloc", "parse", "create_pd"}
MakesTask == {"task_low", "task_fb", "task_heap"}
WorksOnSegment == {"mmap_kernel", "mmap_task", "read", "copy"}
Loads == WorksOnSegment \cup {"load", "create_task"}
Stopped == {"failed", "halted"}

\* The loops are inside their bounds, and programs are not loaded before their
\* header has been looked at.
LoopsInBounds ==
  /\ pc \in {"fb", "task_fb"} => i < FB_PAGES
  /\ pc = "heap" => i < HEAP_PAGES
  /\ pc = "task_heap" => i < TASK_HEAP
  /\ pc \in WorksOnSegment => LoadsSegment
  /\ pc \in {"mmap_kernel", "mmap_task"} => i < PagesOf(header)
  /\ pc = "copy" => i * PAGE_SIZE <= p_len
  /\ pc \in Booting \cup MakesTask => seg = 1
  /\ pc \in {"create_task", "running"} => seg > Len(program)
  /\ program \in NoPrograms => pc \in (Booting \ {"create_pd"}) \cup Stopped

\* If main is in this loop, which starts at page `first`, it is past page v.
Past(loop, first, v) == pc = loop => v < first + i

\* With a directory, memory has lasted so far: the whole heap is there.
HasDirectory == dir # NULL /\ pc \notin Booting \cup Stopped

HeapMapped ==
  HasDirectory \/ (pc \in Booting \ {"first_pt", "fb"} /\ given < frames) =>
    \A v \in Heap : Past("heap", HEAP_BASE, v) => pt["kernel"][v] \in Frame

\* What is in the task's directory by now.
TaskSoFar ==
  /\ pc = "first_pt" => given = 0 /\ \A t \in Table : pd["kernel"][t] = NULL
  /\ pc \in Booting \cup {"task_low"} => /\ \A v \in Page : pt["task"][v] = UNMAPPED
                                       /\ \A t \in Table : pd["task"][t] = NULL
  /\ pc \in Booting => dir = NULL
  /\ pc \in MakesTask => dir # NULL
  /\ HasDirectory /\ pc # "task_low" =>
       /\ \A v \in Low : pt["task"][v] = v
       /\ \A v \in Framebuffer : Past("task_fb", FB_BASE, v) => pt["task"][v] = v
       /\ pc # "task_fb" =>
            \A v \in HEAP_BASE .. HEAP_BASE + TASK_HEAP - 1 :
              Past("task_heap", HEAP_BASE, v) => pt["task"][v] = pt["kernel"][v]
  /\ pc \notin Stopped \cup {"running"} => ~ HasTable("task", STACK)
  /\ dir = NULL /\ pc \in Loads => /\ given = frames
                                 /\ \A n \in 1 .. seg - 1 : program[n].kind = "other"

\* Nothing is written before there is a segment to read, nor is any frame that is
\* still to be given.
Untouched ==
  /\ pc \in Booting \cup MakesTask => \A f \in Frame : mem[f] = Blank
  /\ pc \in Loads => \A f \in Frame : f >= ENTRIES + given => mem[f] = Blank

\* The segment load_elf works on has got so far, and nothing of the program lies
\* behind it in the kernel's address space.
SegmentSoFar ==
  /\ pc \in Booting \cup MakesTask => \A v \in UserPages : pt["kernel"][v] = UNMAPPED
  /\ pc \in WorksOnSegment \cup {"load"} =>
       \A v \in UserPages : pt["kernel"][v] # UNMAPPED =>
         \E n \in DOMAIN program : /\ IF pc = "load" THEN n < seg ELSE n <= seg
                                  /\ program[n].kind = "load"
                                  /\ v < program[n].page + PagesOf(program[n])
  /\ pc \in WorksOnSegment => \A v \in PagesIn(header) :
       /\ Past("mmap_kernel", header.page, v) => /\ pt["kernel"][v] \in Frame
                                                 /\ pc # "copy" => mem[pt["kernel"][v]] = Blank
       /\ pc # "mmap_kernel" /\ Past("mmap_task", header.page, v) => pt["task"][v] \in Frame
  /\ pc = "copy" => \A v \in PagesIn(header) :
       /\ mem[pt["kernel"][v]] = Loaded(header, v)
       /\ v < header.page + i => mem[pt["task"][v]] = Loaded(header, v)

\* The segments before it are all there.
SegmentsLoaded ==
  pc \in Loads \cup {"running"} =>
    \A n \in 1 .. seg - 1 : program[n].kind = "load" =>
      \A v \in PagesIn(program[n]) : /\ pt["task"][v] \in Frame
                                     /\ mem[pt["task"][v]] = Loaded(program[n], v)

IInv == /\ TypeOK /\ NothingAhead /\ FramesApart /\ LoopsInBounds /\ HeapMapped
        /\ TaskSoFar /\ Untouched /\ SegmentSoFar /\ SegmentsLoaded /\ TaskIsWhole /\ LoadOutcome
=============================================================================
