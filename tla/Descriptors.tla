---------------------------- MODULE Descriptors ----------------------------
(***************************************************************************)
(* The descriptor table of kernel/syscalls.c, which all programs share,    *)
(* and the FILE objects of kernel/fat.c that its entries point to.         *)
(*                                                                         *)
(* A system call runs with interrupts disabled until something enables     *)
(* them: read does at once, open and write on a file do when the disk      *)
(* driver is done (lba.c).  From there on another program may make its     *)
(* calls, so these three take more than one step; close, dup and dup2 take *)
(* one.  Programs use the standard descriptors and what they were given,   *)
(* also the -1 of an open that failed; dup2 they tell any descriptor to    *)
(* copy to.  After a `fault` (the kernel calls NULL, or what it finds      *)
(* outside the table, or uses a FILE that is not there) nothing is said    *)
(* about what happens next.                                                *)
(***************************************************************************)
EXTENDS Integers

CONSTANTS NFDS,   \* entries in the table
          Proc,   \* programs
          FILEs,  \* the places malloc may put a FILE at
          COPIES, \* bound: how often dup and dup2 are called
          NULL

FD == 0 .. NFDS - 1

\* The -1 a program gets when open fails: it indexes the memory in front of the table.
OUTSIDE == -1

\* What can go wrong with an entry.
Fault == [kind : {"nullCall", "noFile"}, fd : FD] \cup [kind : {"wildCall"}, fd : {OUTSIDE}]

ASSUME DescriptorsAssumption == /\ NFDS \in Nat
                                /\ NFDS >= 3
                                /\ COPIES \in Nat
                                /\ NULL \notin FILEs \cup Fault

\* setup_fds: standard input, output and error.
Std == 0 .. 2

\* The functions an entry can name; close is k_fclose or NULL.
Function == {"none", "console", "file"}

Entry == [present : BOOLEAN, f : FILEs \cup {NULL},
          read : Function, write : Function, close : BOOLEAN]

Unused == [present |-> FALSE, f |-> NULL, read |-> "none", write |-> "none", close |-> FALSE]

\* How far a program's call has got: the file open looks for, the entry read
\* has tested, the FILE that is being read or written.
Call == [step : {"none", "open", "tested", "use"}, fd : FD, f : FILEs \cup {NULL}]

NoCall == [step |-> "none", fd |-> 0, f |-> NULL]

VARIABLES fds,     \* the table
          live,    \* the FILEs that are allocated
          call,    \* the call each program is in
          holds,   \* history: the descriptors each program was given
          exited,  \* the programs that are gone
          copies,  \* history: how often dup and dup2 have been called
          failed,  \* history: the programs that were given -1 by open
          leaked,  \* history: the entries taken for an open that failed
          seized,  \* history: the entries dup2 put something into for one program
                   \* while they belonged to another
          fault    \* history: the first thing that went wrong, or NULL

vars == <<fds, live, call, holds, exited, copies, failed, leaked, seized, fault>>

mistakes == <<failed, leaked, seized>>

setup_fds ==
  [i \in FD |-> IF i = 0 THEN [Unused EXCEPT !.present = TRUE, !.read = "console"]
                ELSE IF i \in Std THEN [Unused EXCEPT !.present = TRUE, !.write = "console"]
                ELSE Unused]

Init == /\ fds = setup_fds
        /\ live = {}
        /\ call = [p \in Proc |-> NoCall]
        /\ holds = [p \in Proc |-> {}]
        /\ exited = {}
        /\ copies = 0
        /\ failed = {}
        /\ leaked = {}
        /\ seized = {}
        /\ fault = NULL
-----------------------------------------------------------------------------
\* The program is running its own code.
Idle(p) == fault = NULL /\ p \notin exited /\ call[p] = NoCall

\* Descriptors in the table that a program passes to a call.
Known(p) == holds[p] \cup Std

\* The entries a program can count on: those it was given and the one its
\* running open has taken.
Claims(p) == holds[p] \cup {i \in FD : call[p].step = "open" /\ call[p].fd = i}

Faults(why, i) == fault' = [kind |-> why, fd |-> i]

\* The search returns i.
find_free_fd(i) == /\ ~ fds[i].present
                   /\ \A j \in FD : j < i => fds[j].present

\* Mutant: the entry is taken only when the file has been found.
Reserved_Later(i) == Unused

Reserved(i) == [fds[i] EXCEPT !.present = TRUE, !.read = "file", !.write = "file", !.close = TRUE]

\* open, up to fopen's reading of the directory.
OpenReserve(p) == /\ Idle(p)
                  /\ \E i \in FD :
                       /\ find_free_fd(i)
                       /\ fds' = [fds EXCEPT ![i] = Reserved(i)]
                       /\ call' = [call EXCEPT ![p] = [step |-> "open", fd |-> i, f |-> NULL]]
                  /\ UNCHANGED <<live, holds, exited, copies, mistakes, fault>>

\* The table is full: open returns -1.
OpenRefused(p) == /\ Idle(p)
                  /\ \A i \in FD : fds[i].present
                  /\ failed' = failed \cup {p}
                  /\ UNCHANGED <<fds, live, call, holds, exited, copies, leaked, seized, fault>>

WithFile(i, h) == [fds[i] EXCEPT !.f = h]

Returns(p) == call' = [call EXCEPT ![p] = NoCall]

\* fopen has found the file and allocated a FILE.
OpenFound(p) == /\ fault = NULL
                /\ call[p].step = "open"
                /\ \E h \in FILEs \ live :
                     /\ live' = live \cup {h}
                     /\ fds' = [fds EXCEPT ![call[p].fd] = WithFile(call[p].fd, h)]
                /\ holds' = [holds EXCEPT ![p] = @ \cup {call[p].fd}]
                /\ Returns(p)
                /\ UNCHANGED <<exited, copies, mistakes, fault>>

\* Mutant: the descriptor is returned although there is no file.
Given_Anyway(p) == {call[p].fd}

\* The entry a program gets from an open that fails.
Given(p) == {}

\* fopen returns NULL: the entry stays as it is, and open returns -1.
OpenMissing(p) == /\ fault = NULL
                  /\ call[p].step = "open"
                  /\ holds' = [holds EXCEPT ![p] = @ \cup Given(p)]
                  /\ failed' = failed \cup {p}
                  /\ leaked' = leaked \cup {call[p].fd}
                  /\ Returns(p)
                  /\ UNCHANGED <<fds, live, exited, copies, seized, fault>>
-----------------------------------------------------------------------------
\* read enables interrupts, and then tests the entry ...
ReadTest(p) == /\ Idle(p)
               /\ \E i \in Known(p) :
                    /\ fds[i].present
                    /\ fds[i].read # "none"
                    /\ call' = [call EXCEPT ![p] = [step |-> "tested", fd |-> i, f |-> NULL]]
               /\ UNCHANGED <<fds, live, holds, exited, copies, mistakes, fault>>

\* The program starts to use the FILE of entry i.
Enter(p, i) == call' = [call EXCEPT ![p] = [step |-> "use", fd |-> i, f |-> fds[i].f]]

\* ... and calls what the entry names by then.
ReadCall(p) == /\ fault = NULL
               /\ call[p].step = "tested"
               /\ \/ /\ fds[call[p].fd].read = "file"
                     /\ Enter(p, call[p].fd)
                     /\ UNCHANGED fault
                  \/ /\ fds[call[p].fd].read = "console"
                     /\ Returns(p)
                     /\ UNCHANGED fault
                  \/ /\ fds[call[p].fd].read = "none"
                     /\ Faults("nullCall", call[p].fd)
                     /\ UNCHANGED call
               /\ UNCHANGED <<fds, live, holds, exited, copies, mistakes>>

\* write tests and calls with interrupts disabled.
WriteCall(p) == /\ Idle(p)
                /\ \E i \in Known(p) : /\ fds[i].present
                                       /\ fds[i].write = "file"
                                       /\ Enter(p, i)
                /\ UNCHANGED <<fds, live, holds, exited, copies, mistakes, fault>>

\* read and write do not look whether a descriptor is in the table.  What is in
\* front of it may look like an entry, and is then called; or the call returns -1.
CallOutside(p) == /\ Idle(p)
                  /\ p \in failed
                  /\ Faults("wildCall", OUTSIDE)
                  /\ UNCHANGED <<fds, live, call, holds, exited, copies, mistakes>>

\* fread and fwrite go on using the FILE they were given.
UseFile(p) == /\ fault = NULL
              /\ call[p].step = "use"
              /\ \/ call[p].f \in live /\ Returns(p) /\ UNCHANGED fault
                 \/ /\ call[p].f \notin live
                    /\ Faults("noFile", call[p].fd)
                    /\ UNCHANGED call
              /\ UNCHANGED <<fds, live, holds, exited, copies, mistakes>>
-----------------------------------------------------------------------------
\* Mutant: the entry keeps its pointer.
Cleared_Pointer(i) == [Unused EXCEPT !.f = fds[i].f]

\* What close leaves in entry i.
Cleared(i) == Unused

\* close calls the entry's function, whatever it is; free(NULL) does nothing.
close(p) == /\ Idle(p)
            /\ \E i \in Known(p) :
                 /\ fds[i].present
                 /\ fds' = [fds EXCEPT ![i] = Cleared(i)]
                 /\ live' = live \ {fds[i].f}
                 /\ holds' = [holds EXCEPT ![p] = @ \ {i}]
                 /\ leaked' = leaked \ {i}
                 /\ \/ /\ ~ fds[i].close
                       /\ Faults("nullCall", i)
                    \/ /\ fds[i].close
                       /\ fds[i].f \in live \cup {NULL}
                       /\ UNCHANGED fault
                    \/ /\ fds[i].close
                       /\ fds[i].f \notin live \cup {NULL}
                       /\ Faults("noFile", i)
            /\ UNCHANGED <<call, exited, copies, failed, seized>>

\* The entry at `new` after dup or dup2: everything but close.
Copy(i, new) == [fds[i] EXCEPT !.close = fds[new].close]

dup(p) == /\ Idle(p)
          /\ copies < COPIES
          /\ \E i \in Known(p), new \in FD :
               /\ fds[i].present
               /\ find_free_fd(new)
               /\ fds' = [fds EXCEPT ![new] = Copy(i, new)]
               /\ holds' = [holds EXCEPT ![p] = @ \cup {new}]
          /\ copies' = copies + 1
          /\ UNCHANGED <<live, call, exited, mistakes, fault>>

\* The entry that is copied to may be free, or belong to any program.
dup2(p) == /\ Idle(p)
           /\ copies < COPIES
           /\ \E i \in Known(p), new \in FD :
                /\ fds[i].present
                /\ i # new
                /\ fds' = [fds EXCEPT ![new] = Copy(i, new)]
                /\ holds' = [holds EXCEPT ![p] = @ \cup ({new} \ Std)]
                /\ seized' = seized \cup {j \in {new} : \E q \in Proc \ {p} : j \in Claims(q)}
           /\ copies' = copies + 1
           /\ UNCHANGED <<live, call, exited, failed, leaked, fault>>

\* exit takes the program off the run queue and closes nothing.
exit(p) == /\ Idle(p)
           /\ exited' = exited \cup {p}
           /\ UNCHANGED <<fds, live, call, holds, copies, mistakes, fault>>

Next == \E p \in Proc : \/ OpenReserve(p) \/ OpenRefused(p) \/ OpenFound(p) \/ OpenMissing(p)
                        \/ ReadTest(p) \/ ReadCall(p) \/ WriteCall(p) \/ CallOutside(p) \/ UseFile(p)
                        \/ close(p) \/ dup(p) \/ dup2(p) \/ exit(p)

Spec == Init /\ [][Next]_vars
-----------------------------------------------------------------------------
TypeOK == /\ fds \in [FD -> Entry]
          /\ live \subseteq FILEs
          /\ call \in [Proc -> Call]
          /\ holds \in [Proc -> SUBSET (FD \ Std)]
          /\ exited \subseteq Proc
          /\ copies \in 0 .. COPIES
          /\ failed \subseteq Proc
          /\ leaked \subseteq FD
          /\ seized \subseteq FD
          /\ fault \in {NULL} \cup Fault

\* Although open enables interrupts half way, no descriptor is given to two
\* programs, and one that was given or is about to be is marked in the table,
\* unless one of the programs has told dup2 to copy to an entry that belonged to
\* the other.  And an entry that is taken has been given to somebody, or is one
\* that an open took for a file that is not there: those nobody can ever free.
DescriptorsExclusive ==
  /\ \A p, q \in Proc : p # q => Claims(p) \cap Claims(q) \subseteq seized
  /\ \A p \in Proc : \A i \in Claims(p) \ seized : fds[i].present
  /\ \A i \in FD \ Std : fds[i].present => i \in leaked \/ \E p \in Proc : i \in Claims(p)

\* As long as nothing is copied, FILEs and the entries that point to one
\* correspond one to one: nothing is lost, nothing is shared.
FilesOneToOne ==
  copies = 0 => /\ \A i \in FD : fds[i].f # NULL => fds[i].present /\ fds[i].f \in live
                /\ \A i, j \in FD : fds[i].f = fds[j].f /\ fds[i].f # NULL => i = j
                /\ \A h \in live : \E i \in FD : fds[i].f = h

\* Programs that never call dup or dup2 can make the kernel jump to NULL only
\* by closing a standard descriptor, to somewhere else only by reading or writing
\* the -1 of an open that failed, and never make it use a FILE that is not there,
\* however their calls interleave.
OnlyCopiesFault ==
  fault # NULL /\ copies = 0 =>
    \/ fault.kind = "nullCall" /\ fault.fd \in Std
    \/ fault.kind = "wildCall" /\ failed # {}

\* The standard entries have no close function, stay until one is closed, and
\* are not what an open gets.
StdOK == /\ \A i \in Std : ~ fds[i].close /\ (fault = NULL => fds[i].present)
         /\ \A p \in Proc : call[p].step = "open" => call[p].fd \notin Std

\* What an entry looks like as long as nothing is copied.
PlainEntries ==
  copies = 0 => \A i \in FD : IF i \in Std
                              THEN /\ fds[i].f = NULL
                                   /\ fds[i].read # "file"
                                   /\ fds[i].write # "file"
                              ELSE fds[i].present => fds[i].close /\ fds[i].read = "file"

\* What the programs rely on as long as nothing is copied.
PlainCalls ==
  copies = 0 => \A p \in Proc :
     /\ \A i \in holds[p] : fds[i].f # NULL
     /\ call[p].step = "open" => fds[call[p].fd].f = NULL
     /\ call[p].step = "tested" => /\ call[p].fd \in Known(p)
                                  /\ (fault = NULL => fds[call[p].fd].read # "none")
     /\ call[p].step = "use" => /\ call[p].fd \in holds[p]
                               /\ call[p].f = fds[call[p].fd].f

\* Only dup2 seizes an entry.
NothingSeized == copies = 0 => seized = {}

\* The inductive invariant.
IInv == /\ TypeOK
        /\ DescriptorsExclusive
        /\ FilesOneToOne
        /\ OnlyCopiesFault
        /\ StdOK
        /\ PlainEntries
        /\ PlainCalls
        /\ NothingSeized
=============================================================================
