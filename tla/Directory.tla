----------------------------- MODULE Directory -----------------------------
(***************************************************************************)
(* Directories and names in kernel/fat.c: find_entry, clean_entry,         *)
(* format_entry, chdir, and fopen and fclose as far as they use the heap.  *)
(*                                                                         *)
(* find_entry reads a directory cluster by cluster into memory from        *)
(* malloc, frees that memory, and takes the entry out of it afterwards.    *)
(* The disk driver enables interrupts, so another task can run in between. *)
(* Only the kernel itself changes directory, that is, main; a program      *)
(* starts where main was when it created the program.  The volume's        *)
(* directories are never written.  Whoever calls malloc gets some piece of *)
(* memory nobody holds, and a process has one FILE at a time.              *)
(***************************************************************************)
EXTENDS Integers, Sequences, FiniteSetsExt

CONSTANTS main, Program,
          Word,       \* what the name and extension fields of entries contain
          UpToSpace,  \* what is left of a word that is cut at its first space
          Listing,    \* the entries in the root directory and in each cluster
          fat,        \* the cluster that follows in a directory
          Name,       \* the names that are looked up
          Piece       \* pieces of memory

ROOT == 0
EOC == 65535
NOTHING == ""

DOT == <<".">>
DOTDOT == <<"..">>

Proc == {main} \cup Program
Cluster == DOMAIN fat

Entry == [filename : Word, extension : Word, Directory : BOOLEAN,
          cluster : Cluster \cup {ROOT}]

ASSUME DirectoryAssumption ==
  /\ main \notin Program
  /\ IsFiniteSet(Cluster) /\ ROOT \notin Cluster /\ EOC \notin Cluster
  /\ fat \in [Cluster -> Cluster \cup {EOC}]
  /\ NOTHING \in Word
  /\ UpToSpace \in [Word -> Word]
  /\ Listing \in [Cluster \cup {ROOT} -> Seq(Entry)]
  /\ Cardinality(Piece) > Cardinality(Proc)

Blank == [filename |-> NOTHING, extension |-> NOTHING, Directory |-> FALSE, cluster |-> ROOT]

\* clean_entry and format_entry: a name, and an extension if there is one.
format_entry(e) == IF UpToSpace[e.extension] = NOTHING
                   THEN <<UpToSpace[e.filename]>>
                   ELSE <<UpToSpace[e.filename], UpToSpace[e.extension]>>

Hits(list, name) == {k \in DOMAIN list : format_entry(list[k]) = name}

\* The cluster that follows the one in the copy; the root directory is one piece.
Following(c) == IF c = ROOT THEN EOC ELSE fat[c]

\* Cluster number n of the directory at c, the first being number 0.
Nth(c, n) ==
  LET nth[k \in Nat] == IF k = 0 THEN c
                        ELSE IF nth[k - 1] = EOC THEN EOC
                        ELSE Following(nth[k - 1])
  IN  nth[n]

\* Which clusters of the directory at c have an entry of that name, and the first
\* such entry, Blank for none.
Holding(c, name) == {n \in 0 .. Cardinality(Cluster) :
                       Nth(c, n) # EOC /\ Hits(Listing[Nth(c, n)], name) # {}}

Named(c, name) == IF Holding(c, name) = {} THEN Blank
                  ELSE LET list == Listing[Nth(c, Min(Holding(c, name)))]
                       IN  list[Min(Hits(list, name))]

\* Where the path of names p leads to.
Leads(p) ==
  LET leads[k \in Nat] == IF k = 0 THEN ROOT ELSE Named(leads[k - 1], p[k]).cluster
  IN  leads[Len(p)]

\* The path that one gets to from path p by a change to directory `name`.
Walk(p, name) == IF ~ Named(Leads(p), name).Directory \/ name = DOT THEN p
                 ELSE IF name = DOTDOT THEN SubSeq(p, 1, Len(p) - 1)
                 ELSE Append(p, name)

\* The clusters `dirs` are those of directories: what a directory has of directories
\* are among them, and lead back to it by ".."; and "." leads to itself.
Tree(dirs) ==
  \A c \in dirs \cup {ROOT}, name \in Name :
    LET entry == Named(c, name)
    IN  entry.Directory =>
          /\ name = DOT => entry.cluster = c
          /\ name \notin {DOT, DOTDOT} => /\ entry.cluster \in dirs
                                         /\ Named(entry.cluster, DOTDOT).cluster = c

\* What mkfs.fat and a copy of directories onto the volume leave behind; and nobody
\* looks up the name of an unused entry.
ASSUME VolumeAssumption ==
  /\ \A c \in Cluster : Nth(c, Cardinality(Cluster)) = EOC
  /\ \E dirs \in SUBSET Cluster : Tree(dirs)
  /\ format_entry(Blank) \notin Name

VARIABLES cwd,      \* depth and cluster of the current directory of a task
          alive,    \* the tasks there are
          pc,       \* "idle", or where in find_entry a task is
          look,     \* the variables of find_entry and of its caller
          file,     \* where the FILE of a task is
          held,     \* the memory that is allocated
          mem,      \* what is in it
          path,     \* history: the names that led to where a task should be
          trouble   \* history: the tasks whose copy was overwritten too early

directory == <<cwd, alive, pc, look, file, held, mem, path, trouble>>

NO_PIECE == "none"

\* What is looked up and for whom, the cluster in the copy, where the copy is,
\* the place of the entry in it, 0 for none yet, and out_entry.
Look == [op : {"none", "fopen", "chdir"}, name : Name \cup {DOT}, cluster : Cluster \cup {ROOT},
         entries : Piece \cup {NO_PIECE}, idx : Nat, entry : Entry]

LookUp(op, name, c, s) == [op |-> op, name |-> name, cluster |-> c, entries |-> s,
                           idx |-> 0, entry |-> Blank]

NoLook == LookUp("none", DOT, ROOT, NO_PIECE)

DirectoryInit == /\ cwd = [p \in Proc |-> [depth |-> 0, cluster |-> ROOT]]
                 /\ alive = {main}
                 /\ pc = [p \in Proc |-> "idle"]
                 /\ look = [p \in Proc |-> NoLook]
                 /\ file = [p \in Proc |-> NO_PIECE]
                 /\ held = {}
                 /\ mem = [s \in Piece |-> << >>]
                 /\ path = [p \in Proc |-> << >>]
                 /\ trouble = {}
-----------------------------------------------------------------------------
\* malloc gives somebody the piece s, who writes `contents` into it.  A task that
\* has freed s, and is about to take an entry out of it, will find that there.
Allocate(s, contents) ==
  /\ s \notin held
  /\ held' = held \cup {s}
  /\ mem' = [mem EXCEPT ![s] = contents]
  /\ trouble' = trouble \cup {q \in Proc : pc[q] = "take" /\ look[q].entries = s}

Goto(p, to) == pc' = [pc EXCEPT ![p] = to]

\* The caller of find_entry is done.
Return(p) == Goto(p, "idle") /\ look' = [look EXCEPT ![p] = NoLook]

\* The directory find_entry searches.
Where(p) == IF cwd[p].depth = 0 THEN ROOT ELSE cwd[p].cluster

\* find_entry up to the first disk transfer.  A task in trouble is not followed.
Begin(p, op, name) ==
  /\ p \in alive \ trouble /\ pc[p] = "idle"
  /\ IF cwd[p].depth # 0 /\ cwd[p].cluster = ROOT
     THEN /\ Goto(p, "failed")
          /\ look' = [look EXCEPT ![p] = LookUp(op, name, ROOT, NO_PIECE)]
          /\ UNCHANGED <<held, mem, trouble>>
     ELSE /\ Goto(p, "search")
          /\ \E s \in Piece : /\ Allocate(s, Listing[Where(p)])
                              /\ look' = [look EXCEPT ![p] = LookUp(op, name, Where(p), s)]
  /\ UNCHANGED <<cwd, alive, file>>

\* Mutant: finding the name ends the inner loop only.
Stops_AtEnd(c, hits) == Following(c) = EOC

Stops(c, hits) == hits # {} \/ Following(c) = EOC

\* The copy is searched; the next cluster is read when the name is not in it.
Search(p) ==
  LET me == look[p]
      hits == Hits(mem[me.entries], me.name)
      idx == IF hits = {} THEN me.idx ELSE Min(hits)
  IN  /\ pc[p] = "search"
      /\ \/ /\ Stops(me.cluster, hits)
            /\ look' = [look EXCEPT ![p].idx = idx]
            /\ Goto(p, "free")
            /\ UNCHANGED mem
         \/ /\ ~ Stops(me.cluster, hits)
            /\ look' = [look EXCEPT ![p].idx = idx, ![p].cluster = Following(me.cluster)]
            /\ mem' = [mem EXCEPT ![me.entries] = Listing[Following(me.cluster)]]
            /\ UNCHANGED pc
      /\ UNCHANGED <<cwd, alive, file, held, path, trouble>>

\* What is in memory that p has done with matters only to others who are still
\* to take an entry out of it: whoever gets it writes it first.
Forget(p, s) ==
  LET matters == \/ pc[p] = "take" /\ s \in held
                 \/ \E q \in Proc \ {p} : pc[q] = "take" /\ look[q].entries = s
  IN  mem' = IF matters THEN mem ELSE [mem EXCEPT ![s] = << >>]

Free(p) == /\ pc[p] = "free"
           /\ held' = held \ {look[p].entries}
           /\ \/ look[p].idx # 0 /\ Goto(p, "take") /\ UNCHANGED mem
              \/ look[p].idx = 0 /\ Goto(p, "failed") /\ Forget(p, look[p].entries)
           /\ UNCHANGED <<cwd, alive, look, file, path, trouble>>

\* The entry is copied out of the memory that has been freed.  What is there need
\* not be an entry any more; such a task is lost.
Take(p) == /\ pc[p] = "take"
           /\ LET list == mem[look[p].entries]
              IN  \/ /\ look[p].idx \in DOMAIN list
                     /\ look' = [look EXCEPT ![p].entry = list[look[p].idx]]
                     /\ Goto(p, "found")
                  \/ /\ look[p].idx \notin DOMAIN list
                     /\ Goto(p, "lost")
                     /\ UNCHANGED look
           /\ Forget(p, look[p].entries)
           /\ UNCHANGED <<cwd, alive, file, held, path, trouble>>

\* find_entry has found nothing, and so does its caller.
Fail(p) == /\ pc[p] = "failed"
           /\ Return(p)
           /\ UNCHANGED <<cwd, alive, file, held, mem, path, trouble>>
-----------------------------------------------------------------------------
fopen(p, name) == Begin(p, "fopen", name) /\ file[p] = NO_PIECE /\ UNCHANGED path

\* A directory is not opened; otherwise there is a FILE.
Open(p) == /\ pc[p] = "found" /\ look[p].op = "fopen"
           /\ Return(p)
           /\ \/ look[p].entry.Directory /\ UNCHANGED <<file, held, mem, trouble>>
              \/ /\ ~ look[p].entry.Directory
                 /\ \E s \in Piece : /\ Allocate(s, << >>)
                                    /\ file' = [file EXCEPT ![p] = s]
           /\ UNCHANGED <<cwd, alive, path>>

fclose(p) == /\ pc[p] = "idle" /\ file[p] # NO_PIECE
             /\ held' = held \ {file[p]}
             /\ file' = [file EXCEPT ![p] = NO_PIECE]
             /\ UNCHANGED <<cwd, alive, pc, look, mem, path, trouble>>

\* In the root directory, "." and ".." lead nowhere.
chdir(name) == /\ ~ (cwd[main].depth = 0 /\ name \in {DOT, DOTDOT})
               /\ Begin(main, "chdir", name)
               /\ path' = [path EXCEPT ![main] = Walk(@, name)]

\* Mutant: every change of directory leads one level down.
Depth_Deeper(d, name) == d + 1

\* Mutant: only a change to the root directory takes back the depth.
Depth_NotUp(d, name) == IF name \in {DOT, DOTDOT} THEN d ELSE d + 1

Depth(d, name) == IF name = DOTDOT THEN d - 1 ELSE IF name = DOT THEN d ELSE d + 1

Change == /\ pc[main] = "found" /\ look[main].op = "chdir"
          /\ Return(main)
          /\ LET to == look[main].entry
             IN  \/ ~ to.Directory /\ UNCHANGED cwd
                 \/ /\ to.Directory
                    /\ cwd' = [cwd EXCEPT ![main] =
                         [depth |-> IF to.cluster = ROOT THEN 0 ELSE Depth(@.depth, look[main].name),
                          cluster |-> to.cluster]]
          /\ UNCHANGED <<alive, file, held, mem, path, trouble>>

\* main creates program p, which starts in the directory main is in.
create_task(p) == /\ p \in Program \ alive
                  /\ pc[main] = "idle" /\ main \notin trouble
                  /\ alive' = alive \cup {p}
                  /\ cwd' = [cwd EXCEPT ![p] = cwd[main]]
                  /\ path' = [path EXCEPT ![p] = path[main]]
                  /\ UNCHANGED <<pc, look, file, held, mem, trouble>>

DirectoryNext == \/ \E p \in Proc, name \in Name : fopen(p, name)
                 \/ \E p \in Proc : Search(p) \/ Free(p) \/ Take(p) \/ Fail(p) \/ Open(p) \/ fclose(p)
                 \/ \E name \in Name : chdir(name)
                 \/ Change
                 \/ \E p \in Program : create_task(p)

DirectorySpec == DirectoryInit /\ [][DirectoryNext]_directory
-----------------------------------------------------------------------------
\* The current directories, the variables of find_entry and the memory it works in have
\* their types; a task that is not in trouble is no deeper in the tree than the volume
\* has clusters.
DirectoryTypeOK == /\ cwd \in [Proc -> [depth : Nat, cluster : Cluster \cup {ROOT}]]
                   /\ \A p \in Proc \ trouble : cwd[p].depth <= Cardinality(Cluster)
                   /\ alive \subseteq Proc
                   /\ pc \in [Proc -> {"idle", "search", "free", "take", "found", "failed", "lost"}]
                   /\ look \in [Proc -> Look]
                   /\ file \in [Proc -> Piece \cup {NO_PIECE}]
                   /\ held \subseteq Piece
                   /\ mem \in [Piece -> {<< >>} \cup {Listing[c] : c \in DOMAIN Listing}]
                   /\ path \in [Proc -> Seq(Name)]
                   /\ trouble \subseteq Proc

\* A look-up that ends has found the first entry of that name in the directory
\* the task is in, whichever cluster it is in, or there is none; the only way
\* to another entry, or to what is none, is that another task allocated the
\* memory between the free and the copy of find_entry.
EntryIsNamed ==
  \A p \in Proc \ trouble :
    /\ pc[p] = "found" => look[p].entry = Named(Where(p), look[p].name) /\ look[p].entry # Blank
    /\ pc[p] = "failed" => Named(Where(p), look[p].name) = Blank
    /\ pc[p] # "lost"

\* However main has gone up and down, it is where the names it gave lead to, as
\* many levels down as there are names on the way; and a program is where main
\* was when it created the program.
CwdInTree ==
  \A p \in alive \ trouble : pc[p] = "idle" =>
    cwd[p] = [depth |-> Len(path[p]), cluster |-> Leads(path[p])]
=============================================================================
