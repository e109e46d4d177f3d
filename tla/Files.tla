------------------------------- MODULE Files -------------------------------
(***************************************************************************)
(* Reading and writing files in kernel/fat.c: the cached allocation table, *)
(* the chains of clusters in it, the loops of fread and fwrite and         *)
(* allocate_cluster.                                                       *)
(*                                                                         *)
(* The disk driver transfers a cluster with interrupts disabled and        *)
(* enables them afterwards, so a call can be preempted after every         *)
(* transfer; one action runs from one transfer to the next.  Each process  *)
(* has one FILE open at a time, and never seeks beyond the end of it.  The *)
(* directory on the disk is never written: an open always finds what was   *)
(* there at the start.                                                     *)
(***************************************************************************)
EXTENDS Integers, FiniteSetsExt

CONSTANTS Proc,               \* processes: the kernel's main and programs
          File,               \* directory entries
          LAST_CLUSTER,       \* the volume has the clusters 2 .. LAST_CLUSTER
          FAT_ENTRIES,        \* entries of the table, which fills whole sectors
          bytes_per_cluster,
          Chains,             \* the allocation table on the disk
          Entries,            \* first cluster and size of every file
          Sizes,              \* how many bytes are read or written at once
          Seeks,              \* the offsets seeked to
          WRITES              \* bound: how often fwrite is called

Cluster == 2 .. LAST_CLUSTER

\* What the table has an entry for; entries 0 and 1 are reserved, and never zero.
FatEntry == 2 .. FAT_ENTRIES - 1

FREE == 0
EOC == 65535

\* The first cluster of an empty file.
NO_CLUSTER == 0

\* Cluster number n of the chain that starts at c in table t, the first being number 0.
Nth(t, c, n) ==
  LET nth[k \in Nat] == IF k = 0 THEN c
                        ELSE IF nth[k - 1] \in FatEntry THEN t[nth[k - 1]]
                        ELSE EOC
  IN  nth[n]

\* The clusters of file f.
ChainIn(t, f) == {Nth(t, Entries[f].cluster, n) : n \in 0 .. FAT_ENTRIES} \cap FatEntry

\* A table in which every chain ends, no entry is on two of them, and every entry
\* that is not free is on one.
WellFormed(t) ==
  /\ \A f \in File : Entries[f].cluster # NO_CLUSTER =>
       Nth(t, Entries[f].cluster, Cardinality(ChainIn(t, f))) = EOC
  /\ \A f, g \in File : f # g => ChainIn(t, f) \cap ChainIn(t, g) = {}
  /\ \A c \in FatEntry : t[c] # FREE => \E f \in File : c \in ChainIn(t, f)

ASSUME FilesAssumption ==
  /\ FAT_ENTRIES \in 3 .. EOC
  /\ LAST_CLUSTER \in 2 .. FAT_ENTRIES - 1
  /\ bytes_per_cluster \in Nat \ {0}
  /\ Chains \in [FatEntry -> {FREE, EOC} \cup Cluster]
  /\ Entries \in [File -> [cluster : Cluster \cup {NO_CLUSTER}, filesize : Nat]]
  /\ Sizes \subseteq Nat \ {0}
  /\ Seeks \subseteq Nat
  /\ WRITES \in Nat

\* What mkfs.fat and a copy of the files onto the volume leave behind.
ASSUME VolumeAssumption ==
  /\ WellFormed(Chains)
  /\ \A f \in File : Entries[f].filesize <= bytes_per_cluster * Cardinality(ChainIn(Chains, f))

Offset == 0 .. bytes_per_cluster - 1

\* A byte is known by who wrote it.
Byte == Proc \cup File \cup {FREE}

VARIABLES fat,      \* the cached allocation table
          disk,     \* the contents of the clusters
          stream,   \* the FILE each process has open
          pc,       \* "idle", or where in fread or fwrite a process is
          left,     \* to_read, to_write
          cur,      \* cur_cluster; in "link", the cluster being extended
          buffer,   \* the copy of a cluster fwrite works on
          found,    \* the cluster allocate_cluster has found
          writes,   \* calls of fwrite so far
          content,  \* history: what each file should contain
          trouble   \* history: what has gone wrong so far

vars == <<fat, disk, stream, pc, left, cur, buffer, found, writes, content, trouble>>

io == <<fat, disk, buffer, found, writes, content, trouble>>

Stream == [file : File, filesize : Nat, offset : Nat]

Fresh(f) == [file |-> f, filesize |-> Entries[f].filesize, offset |-> 0]

\* What a cluster's number in memory may be: one of the table's entries, or none.
Number == FatEntry \cup {FREE, EOC}

\* get_nth_cluster looks for the end of the chain before every step but the last.
\* When it has just come there, the last step reads behind the table.
Overruns(c, n) == /\ n > 1
                  /\ Nth(fat, c, n - 1) = EOC
                  /\ Nth(fat, c, n - 2) # EOC

\* What get_nth_cluster may return.
get_nth_cluster(c, n) == IF Overruns(c, n) THEN Number ELSE {Nth(fat, c, n)}

\* The cluster that holds offset o of file f.
ClusterAt(f, o) == Nth(fat, Entries[f].cluster, o \div bytes_per_cluster)

ChainOf(f) == ChainIn(fat, f)

NoData == [o \in Offset |-> FREE]

\* The file that a cluster belongs to at the start.
Owner(c) == IF \E f \in File : c \in ChainOf(f)
            THEN CHOOSE f \in File : c \in ChainOf(f)
            ELSE FREE

Init == /\ fat = Chains
        /\ disk = [c \in Cluster |-> [o \in Offset |-> Owner(c)]]
        /\ stream \in [Proc -> {Fresh(f) : f \in File}]
        /\ pc = [p \in Proc |-> "idle"]
        /\ left = [p \in Proc |-> 0]
        /\ cur = [p \in Proc |-> EOC]
        /\ buffer = [p \in Proc |-> NoData]
        /\ found = [p \in Proc |-> FREE]
        /\ writes = 0
        /\ content = [f \in File |-> [o \in 0 .. Entries[f].filesize - 1 |-> f]]
        /\ trouble = {}
-----------------------------------------------------------------------------
\* Where the FILE of p points to.
Pos(p) == stream[p].offset % bytes_per_cluster

\* The arguments of get_nth_cluster.
First(p) == Entries[stream[p].file].cluster
Turns(p) == stream[p].offset \div bytes_per_cluster

CurrentCluster(p) == get_nth_cluster(First(p), Turns(p))

\* The trouble a call begins with.
Strays(p) == IF Overruns(First(p), Turns(p)) THEN {"stray"} ELSE {}

fopen(p) == /\ pc[p] = "idle"
            /\ \E f \in File : stream' = [stream EXCEPT ![p] = Fresh(f)]
            /\ UNCHANGED <<pc, left, cur, io>>

fseek(p) == /\ pc[p] = "idle"
            /\ \E o \in {k \in Seeks : k <= stream[p].filesize} :
                 stream' = [stream EXCEPT ![p].offset = o]
            /\ UNCHANGED <<pc, left, cur, io>>

fread(p, n) == /\ pc[p] = "idle"
               /\ pc' = [pc EXCEPT ![p] = "read"]
               /\ left' = [left EXCEPT ![p] = n]
               /\ \E c \in CurrentCluster(p) : cur' = [cur EXCEPT ![p] = c]
               /\ trouble' = trouble \cup Strays(p)
               /\ UNCHANGED <<fat, disk, stream, buffer, found, writes, content>>

\* The loop of fread goes on.
Reading(p) == /\ pc[p] = "read"
              /\ left[p] > 0
              /\ stream[p].filesize # stream[p].offset

ReadChunk(p) == Min({left[p], bytes_per_cluster - Pos(p),
                     stream[p].filesize - stream[p].offset})

\* Mutant: the next cluster is taken to be the one beside.
Following_Beside(c) == c + 1

Following(c) == fat[c]

\* The cluster is transferred, the chunk copied, and the chain followed.
ReadCluster(p) == /\ Reading(p)
                  /\ cur[p] \in FatEntry
                  /\ stream' = [stream EXCEPT ![p].offset = @ + ReadChunk(p)]
                  /\ left' = [left EXCEPT ![p] = @ - ReadChunk(p)]
                  /\ cur' = [cur EXCEPT ![p] = Following(@)]
                  /\ UNCHANGED <<pc, io>>

\* The chain is shorter than the size the FILE was given by an earlier write.
ReadOutside(p) == /\ Reading(p)
                  /\ cur[p] \notin FatEntry
                  /\ trouble' = trouble \cup {"outside"}
                  /\ UNCHANGED <<fat, disk, stream, pc, left, cur, buffer, found, writes, content>>

\* fread returns.
ReadDone(p) == /\ pc[p] = "read"
               /\ ~ Reading(p)
               /\ pc' = [pc EXCEPT ![p] = "idle"]
               /\ left' = [left EXCEPT ![p] = 0]
               /\ cur' = [cur EXCEPT ![p] = EOC]
               /\ UNCHANGED <<stream, io>>
-----------------------------------------------------------------------------
fwrite(p, n) == /\ pc[p] = "idle"
                /\ writes < WRITES
                /\ writes' = writes + 1
                /\ pc' = [pc EXCEPT ![p] = "fetch"]
                /\ left' = [left EXCEPT ![p] = n]
                /\ \E c \in CurrentCluster(p) \cap FatEntry : cur' = [cur EXCEPT ![p] = c]
                /\ trouble' = trouble \cup Strays(p)
                /\ UNCHANGED <<fat, disk, stream, buffer, found, content>>

\* At the end of a chain, and in an empty file, the cluster written is none the
\* table has an entry for.
WriteOutside(p) == /\ pc[p] = "idle"
                   /\ writes < WRITES
                   /\ CurrentCluster(p) \ FatEntry # {}
                   /\ trouble' = trouble \cup Strays(p) \cup {"outside"}
                   /\ writes' = writes + 1
                   /\ UNCHANGED <<fat, disk, stream, pc, left, cur, buffer, found, content>>

\* What the drive delivers: behind the last cluster, nothing of this volume.
Sectors(c) == IF c \in Cluster THEN disk[c] ELSE NoData

\* The cluster is read ...
FetchCluster(p) == /\ pc[p] = "fetch"
                   /\ buffer' = [buffer EXCEPT ![p] = Sectors(cur[p])]
                   /\ pc' = [pc EXCEPT ![p] = "store"]
                   /\ UNCHANGED <<fat, disk, stream, left, cur, found, writes, content, trouble>>

\* Mutant: the last byte of a cluster is never written.
WriteChunk_Short(p) == Min({left[p], bytes_per_cluster - 1 - Pos(p)})

WriteChunk(p) == Min({left[p], bytes_per_cluster - Pos(p)})

\* Mutant: the search looks at one entry too many.
FirstFree_PastEnd == IF \E c \in FatEntry : fat[c] = FREE
                     THEN Min({c \in FatEntry : fat[c] = FREE})
                     ELSE FAT_ENTRIES

\* The first entry allocate_cluster finds free, also one behind the last cluster's;
\* FREE when there is none.
FirstFree == IF \E c \in FatEntry : fat[c] = FREE
             THEN Min({c \in FatEntry : fat[c] = FREE})
             ELSE FREE

\* Another process has fetched the cluster p writes, and not written it yet.
Overtakes(p) == \E q \in Proc \ {p} : pc[q] = "store" /\ cur[q] = cur[p]

\* Another process has searched for a cluster and not linked it yet.
Overlaps(p) == \E q \in Proc \ {p} : pc[q] = "link"

\* Mutant: the bytes in front of the chunk are not kept.
Patched_Short(p) == [o \in Offset |-> IF o < Pos(p) + WriteChunk(p) THEN p ELSE buffer[p][o]]

\* The buffer with the chunk copied into it.
Patched(p) == [o \in Offset |-> IF o \in Pos(p) .. Pos(p) + WriteChunk(p) - 1
                                THEN p ELSE buffer[p][o]]

\* ... patched and written back.  Behind the last cluster there is nothing to write.
StoreCluster(p) ==
  LET chunk == stream[p].offset .. stream[p].offset + WriteChunk(p) - 1
  IN  /\ pc[p] = "store"
      /\ disk' = [c \in Cluster |-> IF c = cur[p] THEN Patched(p) ELSE disk[c]]
      /\ content' = [content EXCEPT ![stream[p].file] =
                       [o \in DOMAIN @ \cup chunk |-> IF o \in chunk THEN p ELSE @[o]]]
      /\ stream' = [stream EXCEPT ![p].offset = @ + WriteChunk(p)]
      /\ left' = [left EXCEPT ![p] = @ - WriteChunk(p)]
      /\ pc' = [pc EXCEPT ![p] = "stored"]
      /\ trouble' = IF Overtakes(p) THEN trouble \cup {"overtaken"} ELSE trouble
      /\ buffer' = [buffer EXCEPT ![p] = NoData]
      /\ UNCHANGED <<fat, cur, found, writes>>

\* Behind the last cluster of the chain another one is needed.
Extend(p) == /\ pc[p] = "stored"
             /\ left[p] > 0
             /\ fat[cur[p]] = EOC
             /\ found' = [found EXCEPT ![p] = FirstFree]
             /\ pc' = [pc EXCEPT ![p] = "link"]
             /\ trouble' = IF Overlaps(p) THEN trouble \cup {"overlap"} ELSE trouble
             /\ UNCHANGED <<fat, disk, stream, left, cur, buffer, writes, content>>

\* When the chain goes on, the loop starts over in the cluster it is in.
Rewrite(p) == /\ pc[p] = "stored"
              /\ left[p] > 0
              /\ fat[cur[p]] # EOC
              /\ pc' = [pc EXCEPT ![p] = "fetch"]
              /\ trouble' = trouble \cup {"wrapped"}
              /\ UNCHANGED <<fat, disk, stream, left, cur, buffer, found, writes, content>>

\* Mutant: the new cluster is taken, but not put behind the old one.
Linked_Loose(c, i) == [fat EXCEPT ![i] = EOC]

\* Mutant: the new cluster is not marked as the end of the chain.
Linked_NoEnd(c, i) == [fat EXCEPT ![c] = i]

\* The table after cluster i has been put behind c.
Linked(c, i) == [fat EXCEPT ![c] = i, ![i] = EOC]

\* allocate_cluster links what it has found.
LinkCluster(p) == /\ pc[p] = "link"
                  /\ found[p] # FREE
                  /\ fat' = Linked(cur[p], found[p])
                  /\ cur' = [cur EXCEPT ![p] = found[p]]
                  /\ pc' = [pc EXCEPT ![p] = "fetch"]
                  /\ found' = [found EXCEPT ![p] = FREE]
                  /\ trouble' = IF found[p] \in Cluster THEN trouble ELSE trouble \cup {"beyond"}
                  /\ UNCHANGED <<disk, stream, left, buffer, writes, content>>

\* fwrite returns: everything is written, or the table is full.
WriteDone(p) == /\ \/ pc[p] = "stored" /\ left[p] = 0
                   \/ pc[p] = "link" /\ found[p] = FREE
                /\ stream' = [stream EXCEPT ![p].filesize = Max({@, stream[p].offset})]
                /\ pc' = [pc EXCEPT ![p] = "idle"]
                /\ left' = [left EXCEPT ![p] = 0]
                /\ cur' = [cur EXCEPT ![p] = EOC]
                /\ UNCHANGED io

\* Nothing is said about what follows a transfer of what the table has no entry for.
Running == "outside" \notin trouble

Progress(p) == /\ Running
               /\ \/ ReadCluster(p) \/ ReadOutside(p) \/ ReadDone(p)
                  \/ FetchCluster(p) \/ StoreCluster(p) \/ Extend(p) \/ Rewrite(p)
                  \/ LinkCluster(p) \/ WriteDone(p)

Start(p) == /\ Running
            /\ \/ fopen(p) \/ fseek(p) \/ WriteOutside(p)
               \/ \E n \in Sizes : fread(p, n) \/ fwrite(p, n)

Next == \E p \in Proc : Start(p) \/ Progress(p)

Spec == Init /\ [][Next]_vars

\* The scheduler gives every process its turn.
FairSpec == Spec /\ \A p \in Proc : WF_vars(Progress(p))
-----------------------------------------------------------------------------
TypeOK == /\ fat \in [FatEntry -> Number]
          /\ disk \in [Cluster -> [Offset -> Byte]]
          /\ stream \in [Proc -> Stream]
          /\ pc \in [Proc -> {"idle", "read", "fetch", "store", "stored", "link"}]
          /\ left \in [Proc -> Nat]
          /\ cur \in [Proc -> Number]
          /\ buffer \in [Proc -> [Offset -> Byte]]
          /\ found \in [Proc -> FatEntry \cup {FREE}]
          /\ writes \in 0 .. WRITES
          /\ trouble \subseteq {"outside", "wrapped", "overtaken", "overlap", "beyond", "stray"}

\* As long as two processes do not allocate at the same time, every chain ends,
\* no cluster is on two of them, and every entry that is not free is on one: also
\* when a call has strayed to another file's chain, and when the volume is full.
ChainsApart == "overlap" \notin trouble => WellFormed(fat)

\* A step changes no cluster but one of the file that is being written, even when
\* the loop of fwrite starts over in a cluster and when the volume is full, unless
\* two processes have allocated at the same time, or get_nth_cluster has read
\* behind the table: it then returns anything, another file's cluster too.
WritesOwnClusters ==
  [][\A c \in Cluster :
       disk'[c] # disk[c] /\ trouble \cap {"overlap", "stray"} = {}
         => \E p \in Proc : pc[p] = "store" /\ c \in ChainOf(stream[p].file)]_vars

\* A loop is always in the cluster its offset belongs to, also when the chain is
\* being extended by somebody else; that is one of the volume's unless the volume
\* has been full; and get_nth_cluster does not read behind the table.  All that
\* until a write runs past the end of a cluster inside the chain, or two processes
\* allocate at the same time.
CursorInStep ==
  \A p \in Proc :
    \/ trouble \cap {"wrapped", "overlap"} # {}
    \/ /\ "stray" \notin trouble
       /\ Reading(p) \/ pc[p] \in {"fetch", "store"}
          => /\ cur[p] = ClusterAt(stream[p].file, stream[p].offset)
             /\ cur[p] \in FatEntry
             /\ cur[p] \in Cluster \/ "beyond" \in trouble
       /\ stream[p].filesize <= bytes_per_cluster * Cardinality(ChainOf(stream[p].file))

\* The clusters hold what was written, at the place it was written to, unless a
\* write ran past the end of a cluster inside the chain, two processes extended
\* files at the same time, or they wrote one cluster at the same time.  Bytes of a
\* file that are nowhere on the volume are behind an entry without a cluster, which
\* allocate_cluster has taken because the volume was full.
DiskHoldsContent ==
  trouble \cap {"wrapped", "overtaken", "overlap"} = {} =>
    \A f \in File : \A o \in DOMAIN content[f] :
      LET c == ClusterAt(f, o)
      IN  \/ c \in Cluster /\ disk[c][o % bytes_per_cluster] = content[f][o]
          \/ c \in FatEntry \ Cluster /\ "beyond" \in trouble

\* fread and fwrite return.
CallsReturn == \A p \in Proc : pc[p] # "idle" ~> pc[p] = "idle" \/ ~ Running
=============================================================================
