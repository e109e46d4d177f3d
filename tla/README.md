# Verification of Nodery-OS in TLA+

Nodery-OS is a small 32-bit x86 kernel: a boot loader, paging with a bitmap of
page frames, a first-fit heap, a preemptive round-robin scheduler, a FAT16
reader/writer over a polled ATA disk, system calls through `int 0x69`, a
keyboard and a mouse.  There is one processor.  What makes it hard is that
`main` and the programs run in the kernel at the same time: the timer's
interrupt preempts whoever has interrupts enabled, the disk driver
(`sys/lba.c`) disables interrupts for a transfer and *enables* them afterwards
whatever they were before, and the tables of the kernel (frames, heap,
descriptors, FAT, the result of a system call) are shared and have no lock.

This directory holds the TLA+ modules, the TLC configurations and the TLAPS
proofs.  `PROJECT.json` maps every definition to the lines it models.

## 1  Inventory

| Component (source) | State | Operations | Hard behaviour | What makes it correct |
|---|---|---|---|---|
| Frame allocator (`mmap.c`) | `memory_bitmap`, `current_idx` | `alloc_page` | `main` can be preempted between test and set | a frame is handed out once, only real memory, NULL only when there is none |
| Heap (`malloc.c`) | block list in the arena | `malloc`, `realloc`, `free` | long sequences of calls; splits and merges | blocks tile the arena, holders are disjoint, nothing is lost, loops end |
| Scheduler (`scheduler.c`, `sys/pic.asm`, `sys/timer.c`) | `tasks`, `cur_task_idx`, `current_task`, `ret_val`, interrupt flag | tick, `create_task`, `exit_task`, system-call entry and return | a tick anywhere interrupts are enabled, also inside `create_task` | the context resumed is whole and the right one, nobody starves, calls get their own result |
| Descriptors (`syscalls.c`) | `fds`, the FILEs | open, read, write, close, dup, dup2, exit | calls interleave where they enable interrupts | a descriptor has one owner, FILEs and entries correspond, no NULL call, no use after free |
| Files (`fat.c`) | cached `fat`, clusters, a FILE's offset and size | `fopen`, `fseek`, `fread`, `fwrite`, `allocate_cluster` | read-modify-write and allocation with interrupts enabled in between; cluster boundaries | chains stay apart and end, transfers go to the right cluster, the disk holds what was written |
| Disk driver (`sys/lba.c`) | the drive, interrupt flag | read, write | leaves interrupts enabled | only its effect on the flag matters to the others |
| Console input (`syscalls.c`) | `read_buf`, `read_len`, `read_idx`, `enter_pressed` | keyboard interrupt, `read` | interrupt between any two assignments, `hlt` after the test, stores in whatever address space is current | a read returns the line typed, and returns |
| Paging, address spaces (`mmap.c`, `scheduler.c`) | page directories, scratch windows | `map_page`, `create_pd`, `init_paging`, `mmap` | windows are reused; failures half way | a task sees the kernel and its own pages, nothing else |
| ELF loader (`elf.c`) | – | `load_elf` | error paths, page boundaries | every page of a segment is mapped and copied once |
| Directories (`fat.c`) | `cwd` of a task | `find_entry`, `chdir` | the copy of the directory is freed before the entry is taken from it | the entry found is the one named |
| Terminal (`io.c`, `sys/io.c`) | cursor `scr_x`, `scr_y`, colour | `putchar`, `new_line`, `backspace` | `main` prints in many accesses; programs and the keyboard's interrupt move the cursor in between | no row is begun below the screen, no glyph drawn beside it |
| Keyboard and mouse (`kernel.c`, `syscalls.c`, `sys/pic.asm`, `sys/ps2.c`) | output buffer, requests and interrupts in service; packet, position | the two interrupts | one buffer for two devices, two controllers, bytes that are counted and never checked | a handler gets its own device's bytes, all of them; the position follows them |
| Formatting (`io.c`, `string.c`), 64-bit arithmetic (`longlong.c`), drawing (`ui.c`) | – | pure functions | signs, borrows, ends of buffers, level and backward lines | equal to their definitions |
| Start-up, boot loader, applications, build files | – | – | – | not modelled, see section 8 |

How they interact: `main` initialises paging, heap, file system, and loads one
program; `load_elf` uses files, frames, and ends in `create_task`, after which
that program runs beside `main`.  A system call enters through an interrupt gate
(interrupts disabled) and reaches the descriptor table, from there the files or
the console; files use the heap for buffers and the disk driver.  The keyboard
interrupt stores into the buffer of a waiting `read`.  The timer calls the
scheduler.

## 2  Plan

Done in this order: `Frames` – `Heap` – `Scheduler` – `Descriptors` – `Files` –
`Console` – `AddressSpaces` – `Directory` – `LongLong`, `Text`, `Drawing` –
`Terminal` – `Devices`, each with its properties and runs.  Every safety
property of every one of them is proved as well (section 7).

What is left: `Files` and `Directory` composed, so that a directory changes while
it is searched.  Nothing in the code creates or removes an entry yet.

## 3  The modules

| Module | What it is |
|---|---|
| `FrameSource` | abstract: a stock of frames |
| `Frames` | `mmap.c` allocator; implements `FrameSource` |
| `HeapSpec` | abstract: disjoint extents, lowest place first, refusal only when nothing fits |
| `Heap`, `HeapProofs` | `malloc.c`; implements `HeapSpec` |
| `Processes` | abstract: every task on a processor of its own |
| `Scheduler` | scheduler and interrupt entries; implements `Processes` |
| `Descriptors`, `DescriptorsProofs` | the table of `syscalls.c` |
| `Files`, `MCFiles`, `FilesProofs` | `fat.c` data paths, and a small volume for them |
| `Console`, `MCConsole` | keyboard interrupt and `read` of `syscalls.c` |
| `Devices`, `MCDevices` | keyboard and mouse, from the device to the handler |
| `InputProofs` | proofs about `Console` and `Devices` |
| `Terminal` | the cursor of `sys/io.c` |
| `AddressSpaces`, `MCAddressSpaces`, `AddressSpacesProofs` | paging of `mmap.c` and `scheduler.c`, the loader of `elf.c`, and small programs for them |
| `Directory`, `MCDirectory` | names and directories of `fat.c`, and a small tree for them |
| `LongLong` | the division of `sys/longlong.c` |
| `SysProofs` | proofs about `Frames`, `Terminal` and `LongLong` |
| `TaskProofs` | proofs about `Scheduler` and `Directory` |
| `Text`, `Drawing` | `printf`, `itoa` and strings; shapes of `ui.c` |
| `Library`, `MCLibrary`, `LibraryProofs` | the calls of their functions, and small arguments for them |

Definitions whose name is that of another one with a suffix, and whose comment
says *Mutant*, are wrong versions of the code: each property is known to fail
when the definition is replaced by its mutant.

A page fault or another exception of the processor ends in a handler that halts
for ever (`sys/ps2.c:27-37`).  `Console` and `AddressSpaces` have it where the code can
run into one (`halted`); the other modules take the memory their code touches to be
mapped, and `Descriptors` and `Files` stop where a call leaves what they know.

### Frames

The bitmap is the set of frames whose bit is set; `current_idx` is the byte the
next search starts at.  `MainProbe` and `MainMark` are the two halves of
`alloc_page` in `main`, which can be preempted; `SyscallAlloc` is the same call
from `mmap`, where interrupts are disabled, in one step.  `phase` is what keeps
the two halves safe: `main` allocates only until it has created the program
(`kernel.c` calls `load_elf` once, and `create_task` is the last thing it does).

### Heap

`block` is the list as a function from addresses to headers, `cur` and `pc` are
the loop a call is in.  One action is one iteration: `TryNext`/`Take`/`NoFit`
of `malloc`, `Join`/`Advance`/`Freed` of `free`.  `realloc` is `malloc`, the
copy, `free`.  `NULL` headers, the commented-out growth of the heap and the
contents of memory are left out.  Calls are taken one at a time and callers
free what they hold; the code has no lock, so that is an assumption about its
callers that `main` and a program inside `open` can break (hazard list).

### Scheduler

`ctx` is the context the processor is in, `esp[i]` the saved context of slot
`i`; a context is reduced to whose it is and where in its program it is.
`Masked` are the places where interrupts are disabled.  `handler` is the step
`tick_handler` has reached.  `TimerFires` latches a request as the PIC does; a
pending one is taken before anything else whenever interrupts are enabled
(`Runs`).  `create_task` looks at one slot a step and writes the slot in two
steps, `esp` first and `present` last, the order in which the structure is laid
out and in which the unoptimised build (`Makefile` has no `-O`) copies it.
`exit` clears the slot and enters the handler by `int 0x20`.

### Descriptors

`fds` has the five fields of the code.  `open` is two steps (it reserves its
entry before `fopen` enables interrupts), `read` three (it enables interrupts
before its test), a `write` to a file two; the others one.  Programs pass the
descriptors they were given and the standard ones to any call, and the -1 of an
open that failed to `read` and `write`, which alone do not look whether it is in
the table (`OUTSIDE`, `CallOutside`); the target of `dup2` may be any entry, free or
another program's.  After the kernel has called NULL or what is in front of the
table, or used a FILE that is not there, the model stops.  The history variables
say what a program may have done to itself or others: `failed` (it was given -1),
`leaked` (entries taken by an open that failed), `seized` (entries that `dup2`
copied to while somebody else had them), `copies`.

### Files

`fat` is the cached table, `disk` the clusters, a byte being known by who wrote
it.  The actions run from one transfer to the next: `ReadCluster`;
`FetchCluster`, `StoreCluster`, then `Extend` and `LinkCluster` (the two halves
of `allocate_cluster`) or `Rewrite` (the loop starts over in the same cluster,
which is what the code does when the chain goes on) and `WriteDone`.
`trouble` records which of the known dangers has occurred: *wrapped* (a write
went over a cluster boundary inside a chain), *overtaken* (two processes had
the same cluster in their buffers), *overlap* (two processes were inside
`allocate_cluster`), *outside* (the current cluster has no entry in the table),
*stray* (`get_nth_cluster` has read behind the table) and *beyond* (an entry
without a cluster has been linked).  The properties say what holds as long as a
danger has not occurred, so they also say that there is no other.  `fat[0]` and
`fat[1]` are taken not to be zero, as in any FAT volume, nobody seeks beyond the
end, and after a transfer *outside* the model stops.

The table fills whole sectors, so it has more entries (`FatEntry`) than the volume
has clusters (`Cluster`), and `allocate_cluster` searches all of them: `FirstFree`
finds an entry without a cluster when the volume is full.  A transfer there is
behind the last cluster; the model takes it to leave the volume's clusters alone
and to deliver nothing.  `get_nth_cluster` tests for the end of the chain before
every step but the last (`fat.c:206`), so when the last step starts there
(`Overruns`) it reads `fat[0xFFFF]`, which in a table of fewer entries is whatever
follows it in the heap: the model returns any `Number`.

`VolumeAssumption` is about the volume before the kernel has written to it: its
chains end and are apart, what is not free is on one of them, and no file is
longer than its chain.  That is what `mkfs.fat` and copying files onto the volume
leave behind (`flake.nix:31`); the kernel neither makes nor removes files.  `Nth`
is the loop of `get_nth_cluster` as long as it stays inside the table, which need not
be the present one.

### Console

`read_buf`, `read_len`, `read_idx` and `enter_pressed` are the globals of
`syscalls.c`; each assignment of `read` is an action of its own, because the
system call enables interrupts before it does anything.  `read_buf` is only
whether the pointer is set: all programs are linked at one address, so the
pointer is the same for all of them, and `mem[p]` is the buffer in the address
space of program `p`.  `handle_keyboard` stores in the address space of `ctx`,
as the interrupt does; where nothing is mapped at that address (`Unmapped`: always
for `main`, and perhaps for a program that is not in `read`, whose stack may be the
reader's buffer) it is a page fault and the kernel halts.  `asleep` is `hlt`; every interrupt ends it.  `line` is
what somebody at the keyboard believes to have typed since the index was reset,
and `trouble` what has happened to the read in progress: a key came before its
length and index were set (*early*), while another task ran (*elsewhere*), after
Enter (*late*), or a second program was in `read` (*shared*).

### AddressSpaces

`pd[s][t]` is the frame of page table `t` in space `s`, `pt[s][v]` the frame that
page `v` is mapped to, `mem` what a frame contains, byte by byte: the byte of the
file for an address, a zero, or junk, what was there before.  Only pages of the
program and the stack are told apart; files are as long as their headers say.  `main` goes through `init_paging`, `init_malloc`, `parse_elf_header`,
`create_pd`, the program headers and `create_task`, and every turn of a loop that
allocates is an action; then the task runs and maps pages of its own.  Every
allocation can be the one that fails, because every size of memory is an initial
state, and each failure leads where the code goes: out of `init_paging`, past it
(the heap's pages), out of `create_pd` with NULL, which `load_elf` takes for a
directory, or out of `load_elf`.  `alloc_page` hands out the lowest frame that is
left, which `Frames` shows.

The windows at 0xF0000000 are mapped right before each use, so where they point
is no state; that they need a page table is, and `WINDOW` stands for it.
`map_page` after the first of them cannot fail for another.  In `create_task` the
stack's frame is not checked: with none left, the page table it needs fails too.
Programs have at least one segment to load, their segments ascend and do not
share a page, and a running program maps pages it does not have yet.
`ReadSegment` is `fread` or `memset`, as line 137 of `elf.c` decides.

`LayoutAssumption` says that the regions the kernel has laid out (the identity
mapping, the framebuffer, the heap at 0xE0000000, the stack at 0xD0000000, the
windows, the programs at 0x10000000, `apps/linker.ld:5`) do not meet, that the
stack has a page table to itself (all of 0xD0000000 to 0xE0000000 is empty but for
it), and that the framebuffer is not memory `alloc_page` gives out.
`ProgramAssumption` is what the linker makes: segments that ascend, lie in the
pages of programs and have something in them.

### Directory

`cwd` is that of the tasks, `look[p]` the local variables of `find_entry` and of
its caller.  `Begin` goes to the end of the first disk transfer, `Search` looks
through the copy and reads the next cluster, `Free` and `Take` are the `free` and
the `memcpy` behind it, with interrupts enabled in between; then `fopen` (`Open`)
or `chdir` (`Change`) goes on.  Words are what the two fields of a name contain,
and `UpToSpace` is what `clean_entry` leaves of them: it cuts at every space, so
that two entries can have the same name.  `malloc` gives any piece of memory that
is free, and `mem` is what pieces contain, as long as somebody may still read it.
`path` is the list of names by which `main` got where it is, updated from the
volume and not from what the code found; `trouble` are the tasks whose copy was
allocated again between `Free` and `Take`, and which the model then follows no
further.  `create_task` hands the current directory on.  Nothing in the
repository calls `chdir`; `main` is taken to.

`Nth` is the cluster the loop of `find_entry` has come to after so many turns,
`Named` the entry it should find, `Leads` where a list of names leads to.
`format_entry` only makes a name here; the zero it writes behind its buffer is in `Text`.
`VolumeAssumption` is about the volume: the clusters of a directory end, and
there are clusters, those of directories, among which the directories named in
them are, each with an entry `..` that leads back and an entry `.` that leads to
itself (`Tree`); that is how directories are made when they are copied onto the
volume, and the kernel never writes one.  And nobody looks for the name an unused
entry has.  A task's depth is bounded by the number of clusters, but for tasks in
trouble, which may have been led to what is no directory.

### Terminal

`main` is the only one that prints with interrupts enabled.  The build is not
optimised, so each of its accesses to `scr_x` and `scr_y` in `putchar` and
`new_line` is an action, and so is each pixel it draws; `reg` is what it has
loaded.  A key's echo (`Newline`, `Letter`, `backspace`) and the `write` of a
program run with interrupts disabled and are one step, between any two of
`main`'s.  `drawn` are the pixels drawn in the last step.  `trouble` says what has
happened to the row since it was begun: a character was *erased* (the cursor is
then no multiple of a glyph from the left), or another was printed while `main`
stood at the edge and had not tested for it (*skipped*).  Glyphs are full, the
colour is left out, and the picture that `swipe_term` moves too.  A program that
prints an error from inside `find_entry` does so with interrupts enabled
(`fat.c:142`); `main` alone is taken to.

### Devices

`queue` is what a device has sent and the PS/2 controller not fetched, `out` its
one output buffer, `irr` and `isr` the requests and the interrupts in service of
the two interrupt controllers, of which the second is behind input 2 of the
first.  `Load`, `AcceptKeyboard` and `AcceptMouse` are hardware, taken at any time
it may act, also between two steps of a handler.  `TakeKey`/`KeyEnd` and
`MouseEnd`/`TakeMouse` are the handlers, in the order in which each reads the
buffer and signals the end of the interrupt.  A key is its number, since what it
means is in `Console`.  `mouse_init` sends the mouse a command and leaves the
answer in the buffer; it is the first byte of the first packet.  `WORD` is 2^32 in
the code.

### LongLong, Text, Drawing, Library

`LongLong` takes one turn of the loop of `udiv64` a step, on words in two halves of
`HALF` bits.  `Text` and `Drawing` are operators that follow the code's arithmetic,
the wrapping of its integers and the order of its exchanges; memory is a function
from addresses to characters, so that what is written behind a buffer is seen.
`printf` and `Joined` are functions of how many characters, or pieces, have been
seen.  They keep no state, so a behaviour of `Library` is one call: `job` is the
function and its arguments, out of `Jobs`, which are any `Calls` the kernel can
make.  `Calls` bounds the arguments where the code does: a name has one to eight
characters and an extension at most three, because those are the fields of a
directory entry; corners are numbers of 16 bits whose differences are such numbers
too; integers are those of `WORDS` values; the zero that ends a string is no
character.  `MCLibrary` takes a small set of them.

## 4  Runs

| Run | Bounds | What it shows |
|---|---|---|
| `frames` | 40 frames and a remainder, 8 bits in an element | `HintSound`, implements `FrameSource` |
| `heap` | arena of 9+2 bytes, headers of 2, margin 1, requests of 0, 1 and 4 | `Tiled`, `NoFreeNeighbours`, `NothingLost`, implements `HeapSpec`; every call returns |
| `heap_region` | the same with a request for everything | expected violation, section 6 |
| `scheduler` | 3 slots, 3 programs loaded | `RunningIsCurrent`, `SuspendedAreResumable`, `MaskedCallsExact`, implements `Processes`; nobody starves |
| `descriptors` | 2 programs, 6 entries, 2 FILEs, one dup or dup2 | `DescriptorsExclusive`, `FilesOneToOne`, `OnlyCopiesFault` |
| `files` | clusters 2..6 of 2 bytes and a table that goes on to 7, 3 files; 2 processes with 2 writes of 3 bytes between them, or one with 2 of 1, 2, 3 and 5 bytes at any offset | `TypeOK`, `ChainsApart`, `CursorInStep`, `DiskHoldsContent`, `WritesOwnClusters`; calls return |
| `console` | `main` and 2 programs; either one reads, lines of 0 to 2, with every key, or both do, a character each; a character or an erasure while a program runs that does not read | `LineDelivered`, `StoresInside`; ended reads return |
| `address_spaces` | tables of 3 entries, pages of 2 bytes, heap of 5 pages of which a task gets 4, memory of 1 to 32 frames, 6 files | `TaskIsWhole`, `FramesApart`, `LoadOutcome` |
| `directory` | `main` and 1 program, a root and two levels of directories of 2 clusters, 3 pieces of memory | `EntryIsNamed`, `CwdInTree` |
| `terminal` | 2 glyphs of 2 by 2 pixels in a row, 3 rows and a line of pixels left over | `RowOnScreen`, `TextOnScreen` |
| `devices` | 2 keys, 3 movements out of 3, screen of 20 by 15 | `ToOwnHandler`, `PositionFollowsBytes`; every byte is taken |
| `library` | words of 4 bits, integers of 10, formats of 3 pieces, names of 8 and extensions of 3, a screen of 4 by 3 | `DivisionExact`, `TextExact`, `EntryNamed`, `PicturesExact` |

Why the bounds are enough: the frames of five bitmap bytes move the hint
several times and end inside a byte; the heap's arena has room for up to five
blocks, so there are blocks with neighbours on both sides, splits that just fit
and ones that do not; with three slots a slot is reused while another task is
suspended, and the search of the scheduler passes an empty slot; two FILEs and
three free entries let two opens overlap and a third find no place; the volume
has a full file, one that ends inside its second cluster and an empty one, and
two free clusters and a free entry without one, so that a chain grows, is passed
over in the middle, ends behind the last cluster, and the table fills up, and a
write that starts over in a cluster can be followed by one whose search for the
current cluster leaves the table; a line of two leaves an index behind that is outside a
buffer of one, and has room for a newline or not; the heap takes two page tables, a segment
crosses from one table to the next, and 32 frames are more than any of the
programs needs; names are in the first and in the second cluster of a
directory, twice, and not at all, and memory that is freed is soon in use again;
a row of two glyphs has an edge that is reached from the first and from the
second, and the screen scrolls after three rows; three movements to the right,
to the left, up and down move the pointer against both ends of both axes once the
bytes are shifted; a word of 4 bits has borrows and carries into a half of 2, and
every pair of words is divided; all corners of a screen and the pixels just beside
it are ends of lines.

The type invariants of all state machines are proved (section 7); the runs of
`Files`, `AddressSpaces` and `Directory` check theirs as well, because they say
more than which set a variable is in (how deep a task is, what is left to read,
where a loop is).  `GrantedOnce` of `Frames` and `HeldAreLive` of `Heap` are proved
only; they follow from what the runs check.

Deadlock is checked where the system never stops.  In `descriptors` all programs
may have exited or a fault ends the run, and in `files` a transfer outside the
data clusters ends it; there it is switched off, in `devices`, where nobody need
touch a key any more, in `library`, whose calls return, in `console`, where a page
fault may halt the kernel, in `address_spaces`, where that happens too, `main` returns,
or the task has mapped all the pages there are, and in `directory`, where every task
may have come to trouble.

## 5  Fairness

`Heap`: the processor runs the loop it is in.  `Scheduler`: the timer keeps
firing (it is programmed for 1 kHz and never reprogrammed), the handler, which
runs with interrupts disabled, gets to its end, and so does a section of a task
with interrupts disabled (a disk transfer, the head of a system call); nothing
is assumed of a task with interrupts enabled, it may loop for ever.  `Files`:
every process goes on with the call it is in, which is what `NobodyStarves` of
`Scheduler` provides.  `Console`: the timer keeps ticking, and a task that gets
the processor again and again takes its next step at some time (strong
fairness, because a tick takes the processor away: there are a million cycles
between two ticks).  Nobody has to press a key.  `Devices`: handlers, which run
with interrupts disabled, go on; the controller fetches a byte of either device,
and the processor takes either interrupt, if it can again and again (strong
fairness, because one device takes the buffer from the other).

## 6  Findings

* **The last header of the heap.**  The repository's `README.md` (line 24) gives
  the heap 256 Mbytes from 0xE0000000, and `init_paging` maps exactly these.
  `init_malloc` (`malloc.c:24`) puts the first header at the start and gives its
  payload the full 256 Mbytes, so the last 12 bytes of the arena are outside.
  Run `heap_region` finds a request that is granted such bytes.

Not findings against a document, but what the guarded properties pin down:
a write that crosses a cluster boundary inside a chain overwrites the cluster it
is in (`fat.c:285`) and leaves a size larger than the chain, after which
`get_nth_cluster` may read `fat[0xFFFF]`, behind the table, and the call go on in
any cluster, another file's too (`fat.c:206`); a write at the end
of a file that fills its clusters, or to an empty file, transfers to an address
outside the data clusters (`fat.c:272`); on a full volume `allocate_cluster` takes
entries of the table that have no cluster, of which the volume of `flake.nix:30-31`
has some, and the size grows over bytes that are nowhere (`fat.c:257`); closing a standard descriptor or one
made by `dup` calls NULL (`syscalls.c:173`); after `dup`, closing both frees a
FILE twice; `dup2` copies over another program's entry (`syscalls.c:200`); `read` and
`write` of -1 look at what is in front of the table and may call it
(`syscalls.c:142,148`); a failed `open` leaves its entry taken (`syscalls.c:162`); a call
that enabled interrupts may return another call's result (`pic.asm:78`);
a key pressed while another task runs is counted by the reader and stored in
that other task's memory, as far as the reader asked for, or, where that task has
nothing at the address, `main` for one, it halts the kernel (`syscalls.c:39`); with
two programs in `read` the length of the second is applied to the buffer of the first
(`syscalls.c:47`); a key pressed while a read sets itself
up is stored at the index the last read left behind (`syscalls.c:48`), and an
Enter pressed then does not end the read (`syscalls.c:50`); a segment whose last
byte is the last of a page makes `load_elf` fault, because its copying loop runs
once more than `mmap` did (`elf.c:145`); a `.bss` behind bytes of the file, in the same
segment, is never cleared (`elf.c:140`); `create_pd` maps 16 of the heap's 256
Mbytes (`scheduler.c:61`); `find_entry` takes the entry out of memory it has given
back, and a task that ran in between makes it another file's (`fat.c:165`); after an
erasure the cursor misses the position that `putchar` tests for and runs past the
edge until the next newline (`sys/io.c:380,386`), and a whole screen of erasures
between two of `main`'s instructions leaves a row above the screen; every packet of
the mouse is the last byte of one movement and the first two of the next, because
the answer to `mouse_init`'s command is taken for one (`sys/ps2.c:125`); a negative
number of several digits is printed with its first digit last, `-123` as `-231`
(`string.c:149`); `mempcpy` returns a pointer twice as far as it should, so that
`format_entry` writes a zero behind its buffer for names of six or seven characters,
or eight with an extension of two (`string.c:60`); a line drawn backwards along its
longer axis is turned over (`ui.c:68`), a triangle whose two last corners are level
divides by zero (`ui.c:87`); shapes are drawn on a column beside the screen and a row
below it, because `oob` lets 800 and 600 pass (`ui.c:7`), and a line of one point, as
at the tip of a triangle, is drawn without any test, so off the screen it is stored
wherever `putpixel`'s unsigned parameters lead (`ui.c:63`); and a channel that a
translucent colour darkens spills into the others (`sys/io.c:299`).

## 7  What is proved

TLAPS checks, for every value of the constants that meets the modules' named
assumptions:

* `Frames` (in `SysProofs`): type correctness, `GrantedOnce`, `HintSound`,
  `FramesInRam`, and that `Frames` implements `FrameSource`.  The invariant adds
  `CandStillFree` and `CandIsLowest`: between the two halves of `main`'s
  `alloc_page` the frame found is still free and everything below is taken, so
  that moving the hint to it skips nothing.
* `Heap`: type correctness, `Tiled`, `NoFreeNeighbours`, `HeldAreLive`,
  `NothingLost`, and that `Heap` implements `HeapSpec`.  The invariant is `IInv` of
  `Heap`; `Tiled` has to say both that a block ends where its successor begins and
  that blocks are disjoint and cover the arena, and `PassedTooSmall`, what the
  search has seen so far, is what makes a refusal and the choice of the lowest
  place right.  Inside `free` there are free neighbours; what is shown of it is
  that they are all behind the block its loop has come to.
* `Scheduler` (in `TaskProofs`): type correctness, `RunningIsCurrent`,
  `SuspendedAreResumable`, `MaskedCallsExact`, and that `Scheduler` implements
  `Processes`.  `HandlerOK` says what holds between the steps of the handler,
  `SomebodyToRun` that `main` never leaves the queue.
* `Descriptors`: type correctness, `DescriptorsExclusive`, `FilesOneToOne`,
  `OnlyCopiesFault`, for any number of entries, programs and copies.  `PlainEntries`
  and `PlainCalls` say what an entry and a call in progress look like as long as
  nothing has been copied, `NothingSeized` that until then nothing has been seized.
* `Files`: type correctness, `ChainsApart`, `CursorInStep`, `DiskHoldsContent` and
  the action property `WritesOwnClusters`, for any volume and any number of
  processes.  The first part of `FilesProofs` is about tables alone.  A table is
  `Chained` with certain lengths when every file's clusters are as many, all
  different, and end there; `LinkChains` shows that linking a free cluster behind
  the last one of a file leaves all chains as they were and makes that one longer by
  one.  Then `CallInv` says that who is inside `allocate_cluster` is alone there, at
  the end of its own chain, with a cluster that is still free; `CursorInv` that a
  process is in the cluster its offset belongs to, or, between transfer and link, in
  the one before, and that `get_nth_cluster` has not left the table; `BufferInv` that
  what a process has fetched is still on the disk; `VolumeInv` that only clusters are
  linked until the volume has been full.  Each holds as long as none of the dangers has occurred that break it, and the
  three have to be proved together: a link in the wrong place would move
  everybody's clusters.
* `Console`: type correctness, the action property `StoresInside` and
  `LineDelivered`, for any number of programs.  `LengthInv` says that while the pointer
  is set the length is that of a program in `read`, or one is about to assign it, and
  that the index is inside it once every read has assigned both; `ReadInv` adds that
  two programs in `read` both know it, and that
  one that has met nobody finds its own length and an index inside it.  `LineInv`
  says the same of what was typed: up to the index the buffer holds the line.
* `AddressSpaces`: type correctness, `TaskIsWhole`, `FramesApart` and `LoadOutcome`,
  for any amount of memory, layout and program that meet the assumptions.  The
  invariant is `IInv` of `AddressSpaces`.  `NothingAhead` is why frames stay apart:
  what has not been handed out is mapped nowhere.  `HeapMapped`, `TaskSoFar` and
  `SegmentSoFar` say how far each loop has got and that everything before is there,
  `Untouched` that nobody has written to frames that are not given out yet,
`LoopsInBounds` that no loop has run past its end.  Most steps are one
  call of `map_page`; what a call does is shown once, for a new frame, for the
  kernel's frames of the heap, and for a page that gets none.
* `Directory` (in `TaskProofs`): type correctness, `EntryIsNamed` and `CwdInTree`,
  for any volume that is a tree.  `HeldInv` says that memory that is held is held by
  one task; therefore a copy is changed by others only once it has been freed.
  `LookInv` says that `find_entry` has looked through the first so many clusters and
  not found the name, and, when it has, that the index is that of the right entry in
  the copy, until somebody allocates that memory.  `PathInv` says where `main` is, and
  inside `chdir` where it was.  That `..` goes back to where the last name came from
  is `ProperLeads`; that no path has more names than there are clusters,
  `ProperIsShort`, since each directory leads back to one only.
* `Terminal` (in `SysProofs`): type correctness, `RowOnScreen` and `TextOnScreen`,
  for any glyph and screen.  `RowInv` says how low the row may be, and how low the
  one `main` has loaded, at each of its accesses: whoever moves the cursor in
  between, it is at most one row too low, and only before `main` has tested for that.
  `ColumnInv` says that as long as nothing has happened to the row the cursor is at a
  whole number of glyphs, and at the edge only until `main` has begun a new row.
* `Devices`: type correctness, which keeps the pointer on the screen, `ToOwnHandler`
  and `PositionFollowsBytes`.  `FlowInv` says that what a device has sent has been
  taken, or is in the buffer, or is still queued; `RequestInv` that a request, or a
  handler about to read, means a byte of its own device is in the buffer, and never
  both; `PacketInv` that the packet is what has been taken since the last whole one.
* `LongLong` (in `SysProofs`): type correctness and `DivisionExact`, for any width.
  The loop's invariant is that quotient times divisor plus remainder is the part of
  the dividend shifted in so far.
* `Library`: `TextExact`, `EntryNamed` and `PicturesExact`, for formats of any length,
  integers of any width, all names, a screen of any size and any of the arguments
  `Calls` has.  What a shape should be is stated over `Screen`, and what is drawn off
  it apart from that (`Spilled`, `Pixel`), so the code's own test is not the standard.
  A job has no steps, so these are facts about the functions.  For
  `printf` an induction over the pieces shows that after each of them its output is
  printed and its arguments are taken (`PiecePrinted`), with one over the characters
  of a text inside (`TextPrinted`); for the numbers, one shows that the loop of `itoa`
  leaves the digits with the last one first (`LastFirstIs`), that there are as many as
  the least power of the base above the number says (`DigitsExist`, `DigitsUnique`),
  and hence that turned around they are the numeral (`ItoaForward`), or, behind a
  sign, the numeral with its first digit last (`ItoaSigned`).  `EntryIs` follows each
  of the calls of `format_entry` through the buffer and what is behind it.  A line has
  a pixel a step and each is less than one away from the line, because `Quotient`
  rounds towards zero (`QuotientIs`, `LineJoins`); a triangle has no gap, because each
  of its rows is a level line (`RowFilled`) and after the exchanges the corners are in
  order (`SortedIs`).

The proof about each state machine has the same shape: the initial states satisfy the inductive invariant,
one lemma per action, or one per conjunct with a step for each action, that it is
kept, and temporal theorems that combine the two.

`Nth`, `Leads`, the position of the mouse, and the loops of `printf` and `itoa` are
functions defined by recursion on a number.  The library's theorems about such functions take an operator as a
parameter, which the provers cannot instantiate.  The proofs show instead that a
set of numbers that is not empty has a least one (well-foundedness of `<`, which
the library states of sets), hence induction for a set of numbers, hence that for
every length there is a beginning of such a function and that two beginnings agree;
that gives the function, and its equations (`NthUnfolds`, `LeadingUnfolds`,
`PrintfUnfolds`, `PowerUnfolds`).  The loop of `itoa` goes from a number to its
quotient, not to its predecessor: `LastFirstIs` names a function that meets the
equation instead (`Backward`, the digits one by one) and shows that it does.

Only model-checked: all liveness (`CallsReturn`, `NobodyStarves`, `EndedReadsReturn`,
`EveryByteTaken`), which needs `ENABLED` and is out of this prover's reach; and the
run `heap_region`, whose property does not hold.

## 8  What is not modelled

Left out for good: `load_str_table`, `display_entry`, `sprintf`, `strtod` and the
output to the serial port, which nothing calls; the boot loader and the set-up of
the interrupt controllers (a straight line of firmware calls and port writes), the
port protocol of the drive (a busy wait on hardware), the glyph tables, `ui_clear`
and `ui_rect` (loops over a rectangle, the second with the same test as the other
shapes), the applications (their calls are the inputs of the models) and the build files.

The walks of two calls of `malloc` or `free` at the same time are not modelled.
The heap has no lock, and with two walks interleaved nothing is left of what it
promises: two calls can take the same block between the test of its flag and the
setting of it.  `Heap` takes calls one at a time, as an assumption about callers.
