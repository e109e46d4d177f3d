------------------------- MODULE DescriptorsProofs -------------------------
(***************************************************************************)
(* Proofs about module Descriptors, for any table size, programs and       *)
(* number of copies: one lemma per system call step, each with one step    *)
(* per conjunct of the inductive invariant.                                *)
(***************************************************************************)
EXTENDS Descriptors, TLAPS

LEMMA DescriptorsInit == Init => IInv
  <1> SUFFICES ASSUME Init PROVE IInv
    OBVIOUS
  <1> USE DescriptorsAssumption DEF Init, FD, Std
  <1>1. fds \in [FD -> Entry]
    BY DEF setup_fds, Unused, Entry, Function
  <1>2. TypeOK
    BY <1>1 DEF TypeOK, Call, NoCall
  <1>3. DescriptorsExclusive
    BY DEF DescriptorsExclusive, Claims, NoCall, setup_fds, Unused
  <1>4. FilesOneToOne /\ OnlyCopiesFault
    BY DEF FilesOneToOne, OnlyCopiesFault, setup_fds, Unused
  <1>5. StdOK /\ PlainEntries
    BY DEF StdOK, PlainEntries, setup_fds, Unused, NoCall
  <1>6. PlainCalls /\ NothingSeized
    BY DEF PlainCalls, NothingSeized, NoCall
  <1> QED
    BY <1>2, <1>3, <1>4, <1>5, <1>6 DEF IInv

\* What the calls write into an entry of the table.
LEMMA ReservedEntry ==
  ASSUME TypeOK, NEW i \in FD
  PROVE  /\ Reserved(i) \in Entry
         /\ Reserved(i).present /\ Reserved(i).close /\ Reserved(i).read = "file"
         /\ Reserved(i).f = fds[i].f
  <1>1. fds[i] \in Entry
    BY DEF TypeOK
  <1> QED
    BY <1>1 DEF Reserved, Entry, Function

LEMMA WithFileEntry ==
  ASSUME TypeOK, NEW i \in FD, NEW h \in FILEs
  PROVE  /\ WithFile(i, h) \in Entry
         /\ (WithFile(i, h).present <=> fds[i].present)
         /\ (WithFile(i, h).close <=> fds[i].close)
         /\ WithFile(i, h).read = fds[i].read
         /\ WithFile(i, h).write = fds[i].write
         /\ WithFile(i, h).f = h
  <1>1. fds[i] \in Entry
    BY DEF TypeOK
  <1> QED
    BY <1>1 DEF WithFile, Entry, Function

LEMMA ClearedEntry ==
  ASSUME NEW i \in FD
  PROVE  /\ Cleared(i) \in Entry
         /\ ~ Cleared(i).present /\ ~ Cleared(i).close
         /\ Cleared(i).f = NULL /\ Cleared(i).read = "none" /\ Cleared(i).write = "none"
  BY DEF Cleared, Unused, Entry, Function

LEMMA CopyEntry ==
  ASSUME TypeOK, NEW i \in FD, NEW j \in FD
  PROVE  /\ Copy(i, j) \in Entry
         /\ (Copy(i, j).present <=> fds[i].present)
         /\ (Copy(i, j).close <=> fds[j].close)
  <1>1. fds[i] \in Entry /\ fds[j] \in Entry
    BY DEF TypeOK
  <1> QED
    BY <1>1 DEF Copy, Entry, Function

\* A step that changes nothing but how far a program's call has got.
LEMMA CallKeeps ==
  ASSUME IInv, NEW p \in Proc, NEW c \in Call,
         UNCHANGED <<fds, live, holds, exited, copies, mistakes, fault>>,
         call[p].step # "open", call' = [call EXCEPT ![p] = c],
         c.step # "open",
         c.step = "tested" => /\ c.fd \in Known(p)
                              /\ (fault = NULL => fds[c.fd].read # "none"),
         copies = 0 /\ c.step = "use" => c.fd \in holds[p] /\ c.f = fds[c.fd].f
  PROVE  IInv'
  <1> USE DEF mistakes
  <1>1. TypeOK'
    BY DEF IInv, TypeOK
  <1>2. \A q \in Proc : call'[q] = IF q = p THEN c ELSE call[q]
    BY DEF IInv, TypeOK
  <1>3. DescriptorsExclusive'
    BY <1>2 DEF IInv, DescriptorsExclusive, Claims
  <1>4. FilesOneToOne' /\ OnlyCopiesFault' /\ StdOK' /\ PlainEntries'
    BY DEF IInv, FilesOneToOne, OnlyCopiesFault, StdOK, PlainEntries
  <1>5. PlainCalls' /\ NothingSeized'
    BY <1>2 DEF IInv, PlainCalls, NothingSeized, Known
  <1> QED
    BY <1>1, <1>3, <1>4, <1>5 DEF IInv

\* A step that does nothing but fail, after something has been copied.
LEMMA FaultKeeps ==
  ASSUME IInv, copies # 0,
         UNCHANGED <<fds, live, call, holds, exited, copies, mistakes>>,
         fault' \in Fault, fault = NULL
  PROVE  IInv'
  <1> USE DEF mistakes
  <1>1. TypeOK'
    BY DEF IInv, TypeOK
  <1>2. DescriptorsExclusive'
    BY DEF IInv, DescriptorsExclusive, Claims
  <1>3. StdOK'
    BY DEF IInv, StdOK
  <1>4. FilesOneToOne' /\ OnlyCopiesFault' /\ PlainEntries' /\ PlainCalls' /\ NothingSeized'
    BY DEF FilesOneToOne, OnlyCopiesFault, PlainEntries, PlainCalls, NothingSeized
  <1> QED
    BY <1>1, <1>2, <1>3, <1>4 DEF IInv

LEMMA NoCallIsCall == NoCall \in Call /\ NoCall.step = "none"
  BY DescriptorsAssumption DEF NoCall, Call, FD

LEMMA OpenReserveKeeps ==
  ASSUME IInv, NEW p \in Proc, OpenReserve(p)
  PROVE  IInv'
  <1>1. PICK i \in FD :
          /\ find_free_fd(i)
          /\ fds' = [fds EXCEPT ![i] = Reserved(i)]
          /\ call' = [call EXCEPT ![p] = [step |-> "open", fd |-> i, f |-> NULL]]
    BY DEF OpenReserve
  <1>2. /\ TypeOK /\ DescriptorsExclusive /\ FilesOneToOne /\ OnlyCopiesFault
        /\ StdOK /\ PlainEntries /\ PlainCalls /\ NothingSeized
    BY DEF IInv
  <1>3. fault = NULL /\ UNCHANGED <<live, holds, exited, copies, failed, leaked, seized, fault>>
    BY DEF OpenReserve, Idle, mistakes
  <1>4. \A j \in FD : fds'[j] = IF j = i THEN Reserved(i) ELSE fds[j]
    BY <1>1, <1>2 DEF TypeOK
  <1>5. /\ \A q \in Proc : q # p => call'[q] = call[q]
        /\ call'[p].step = "open" /\ call'[p].fd = i
    BY <1>1, <1>2 DEF TypeOK
  <1>6. ~ fds[i].present /\ i \notin Std
    BY <1>1, <1>2, <1>3 DEF find_free_fd, StdOK
  <1>7. TypeOK'
    BY <1>1, <1>2, <1>3, ReservedEntry DEF TypeOK, Call
  <1>8. DescriptorsExclusive'
    <2>1. \A q \in Proc : Claims(q)' = IF q = p THEN Claims(p) \cup {i} ELSE Claims(q)
      BY <1>1, <1>2, <1>3, <1>5, NoCallIsCall DEF Claims, OpenReserve, Idle
    <2>2. \A q \in Proc : i \in Claims(q) => i \in seized
      BY <1>2, <1>6 DEF DescriptorsExclusive
    <2>3. \A q, r \in Proc : q # r => Claims(q)' \cap Claims(r)' \subseteq seized'
      BY <1>2, <1>3, <2>1, <2>2 DEF DescriptorsExclusive
    <2>4. \A q \in Proc : Claims(q) \subseteq FD
      BY <1>2 DEF Claims, TypeOK
    <2>5. \A q \in Proc : \A j \in Claims(q)' \ seized' : fds'[j].present
      BY <1>2, <1>3, <1>4, <2>1, <2>4, ReservedEntry DEF DescriptorsExclusive
    <2>6. \A j \in FD \ Std : fds'[j].present => j \in leaked' \/ \E q \in Proc : j \in Claims(q)'
      BY <1>2, <1>3, <1>4, <2>1 DEF DescriptorsExclusive
    <2> QED
      BY <2>3, <2>5, <2>6 DEF DescriptorsExclusive
  <1>9. FilesOneToOne'
    BY <1>2, <1>3, <1>4, ReservedEntry DEF FilesOneToOne
  <1>10. OnlyCopiesFault' /\ StdOK'
    <2>1. OnlyCopiesFault'
      BY <1>2, <1>3 DEF OnlyCopiesFault
    <2>2. StdOK'
      BY <1>2, <1>3, <1>4, <1>5, <1>6, DescriptorsAssumption DEF StdOK, FD, Std
    <2> QED
      BY <2>1, <2>2
  <1>11. PlainEntries'
    BY <1>2, <1>3, <1>4, <1>6, ReservedEntry DEF PlainEntries
  <1>12. copies = 0 => fds[i].f = NULL
    BY <1>2, <1>6 DEF FilesOneToOne
  <1>13. copies = 0 => \A q \in Proc : \A j \in holds[q] : j \in FD /\ j # i
    BY <1>2, <1>6 DEF TypeOK, DescriptorsExclusive, Claims, NothingSeized
  <1>14. \A q \in Proc : call[q].fd \in FD
                         /\ (call[q].step = "open" /\ copies = 0 => call[q].fd # i)
    BY <1>2, <1>6 DEF TypeOK, Call, DescriptorsExclusive, Claims, NothingSeized
  <1>15. \A q \in Proc : call[q].step = "tested" /\ copies = 0 => call[q].fd # i
    BY <1>2, <1>3, <1>6, <1>13 DEF PlainCalls, Known
  <1>16. PlainCalls'
    BY <1>2, <1>3, <1>4, <1>5, <1>6, <1>12, <1>13, <1>14, <1>15, ReservedEntry
       DEF PlainCalls, Known
  <1> QED
    BY <1>2, <1>3, <1>7, <1>8, <1>9, <1>10, <1>11, <1>16 DEF IInv, NothingSeized

LEMMA OpenRefusedKeeps ==
  ASSUME IInv, NEW p \in Proc, OpenRefused(p)
  PROVE  IInv'
  <1>1. /\ UNCHANGED <<fds, live, call, holds, exited, copies, leaked, seized, fault>>
        /\ failed' = failed \cup {p}
    BY DEF OpenRefused
  <1>2. TypeOK'
    BY <1>1 DEF IInv, TypeOK
  <1>3. DescriptorsExclusive' /\ FilesOneToOne'
    BY <1>1 DEF IInv, DescriptorsExclusive, Claims, FilesOneToOne
  <1>4. OnlyCopiesFault' /\ NothingSeized'
    BY <1>1 DEF IInv, OnlyCopiesFault, NothingSeized
  <1>5. StdOK' /\ PlainEntries' /\ PlainCalls'
    BY <1>1 DEF IInv, StdOK, PlainEntries, PlainCalls, Known
  <1> QED
    BY <1>2, <1>3, <1>4, <1>5 DEF IInv

LEMMA OpenFoundKeeps ==
  ASSUME IInv, NEW p \in Proc, OpenFound(p)
  PROVE  IInv'
  <1>1. /\ TypeOK /\ DescriptorsExclusive /\ FilesOneToOne /\ OnlyCopiesFault
        /\ StdOK /\ PlainEntries /\ PlainCalls /\ NothingSeized
    BY DEF IInv
  <1>2. PICK b \in FD : b = call[p].fd
    BY <1>1 DEF TypeOK, Call
  <1>3. PICK h \in FILEs \ live :
          /\ live' = live \cup {h}
          /\ fds' = [fds EXCEPT ![b] = WithFile(b, h)]
    BY <1>2 DEF OpenFound
  <1>4. /\ call[p].step = "open"
        /\ holds' = [holds EXCEPT ![p] = @ \cup {b}]
        /\ call' = [call EXCEPT ![p] = NoCall]
        /\ UNCHANGED <<exited, copies, failed, leaked, seized, fault>>
    BY <1>2 DEF OpenFound, Returns, mistakes
  <1>5. \A j \in FD : fds'[j] = IF j = b THEN WithFile(b, h) ELSE fds[j]
    BY <1>1, <1>3 DEF TypeOK
  <1>6. /\ \A q \in Proc : q # p => call'[q] = call[q] /\ holds'[q] = holds[q]
        /\ call'[p].step = "none" /\ holds'[p] = holds[p] \cup {b}
    BY <1>1, <1>4, NoCallIsCall DEF TypeOK
  <1>7. b \in seized \/ (fds[b].present /\ \A q \in Proc : q # p => b \notin Claims(q))
    BY <1>1, <1>2, <1>4 DEF DescriptorsExclusive, Claims
  <1>7a. copies = 0 => fds[b].present /\ \A q \in Proc : q # p => b \notin Claims(q)
    BY <1>1, <1>7 DEF NothingSeized
  <1>8. b \notin Std
    BY <1>1, <1>2, <1>4 DEF StdOK
  <1>9. TypeOK'
    <2>1. fds' \in [FD -> Entry] /\ live' \subseteq FILEs
      BY <1>1, <1>3, WithFileEntry DEF TypeOK
    <2>2. call' \in [Proc -> Call] /\ holds' \in [Proc -> SUBSET (FD \ Std)]
      BY <1>1, <1>4, <1>8, NoCallIsCall DEF TypeOK
    <2> QED
      BY <1>1, <1>4, <2>1, <2>2 DEF TypeOK
  <1>10. DescriptorsExclusive'
    <2>1. \A q \in Proc : Claims(q)' = Claims(q) /\ Claims(q) \subseteq FD
      BY <1>1, <1>2, <1>4, <1>6 DEF Claims, TypeOK
    <2>2. \A j \in FD : fds'[j].present <=> fds[j].present
      BY <1>1, <1>3, <1>5, WithFileEntry
    <2> QED
      BY <1>1, <1>4, <2>1, <2>2 DEF DescriptorsExclusive
  <1>11. copies = 0 => fds[b].f = NULL
    BY <1>1, <1>2, <1>4 DEF PlainCalls
  <1>12. FilesOneToOne'
    <2> SUFFICES ASSUME copies = 0 PROVE FilesOneToOne'
      BY <1>4 DEF FilesOneToOne
    <2>1. \A i \in FD : fds'[i].f # NULL => fds'[i].present /\ fds'[i].f \in live'
      BY <1>1, <1>3, <1>5, <1>7a, WithFileEntry DEF FilesOneToOne
    <2>2. \A i, j \in FD : fds'[i].f = fds'[j].f /\ fds'[i].f # NULL => i = j
      BY <1>1, <1>3, <1>5, WithFileEntry DEF FilesOneToOne
    <2>3. \A g \in live' : \E i \in FD : fds'[i].f = g
      BY <1>1, <1>3, <1>5, <1>11, WithFileEntry, DescriptorsAssumption
         DEF FilesOneToOne, TypeOK
    <2> QED
      BY <2>1, <2>2, <2>3 DEF FilesOneToOne
  <1>13. OnlyCopiesFault' /\ StdOK'
    <2>1. OnlyCopiesFault'
      BY <1>1, <1>4 DEF OnlyCopiesFault
    <2>2. StdOK'
      BY <1>1, <1>4, <1>5, <1>6, <1>8, DescriptorsAssumption DEF StdOK, FD, Std
    <2> QED
      BY <2>1, <2>2
  <1>14. PlainEntries'
    BY <1>1, <1>3, <1>4, <1>5, <1>8, WithFileEntry DEF PlainEntries
  <1>15. PlainCalls'
    <2> SUFFICES ASSUME copies = 0, NEW q \in Proc
                 PROVE  /\ \A i \in holds'[q] : fds'[i].f # NULL
                        /\ call'[q].step = "open" => fds'[call'[q].fd].f = NULL
                        /\ call'[q].step = "tested" =>
                             /\ call'[q].fd \in Known(q)'
                             /\ (fault' = NULL => fds'[call'[q].fd].read # "none")
                        /\ call'[q].step = "use" => /\ call'[q].fd \in holds'[q]
                                                    /\ call'[q].f = fds'[call'[q].fd].f
      BY <1>4 DEF PlainCalls
    <2>1. CASE q = p
      <3>1. \A i \in holds'[p] : i \in FD /\ fds'[i].f # NULL
        BY <1>1, <1>3, <1>5, <1>6, WithFileEntry, DescriptorsAssumption DEF PlainCalls, TypeOK
      <3> QED
        BY <2>1, <3>1, <1>6
    <2>2. CASE q # p
      <3>1. b \notin holds[q] /\ (call[q].step = "open" => call[q].fd # b) /\ call[q].fd \in FD
        BY <1>1, <1>7a, <2>2 DEF Claims, TypeOK, Call
      <3>2. \A i \in holds[q] : i \in FD
        BY <1>1 DEF TypeOK
      <3>3. fds'[call[q].fd].read = fds[call[q].fd].read
        BY <1>1, <1>3, <1>5, <3>1, WithFileEntry
      <3>4. call'[q] = call[q] /\ holds'[q] = holds[q] /\ Known(q)' = Known(q)
        BY <1>6, <2>2 DEF Known
      <3>5. \A i \in holds[q] : fds'[i].f # NULL
        BY <1>1, <1>5, <3>1, <3>2 DEF PlainCalls
      <3>6. call[q].step = "open" => fds'[call[q].fd].f = NULL
        BY <1>1, <1>5, <3>1 DEF PlainCalls
      <3>7. call[q].step = "use" => fds'[call[q].fd] = fds[call[q].fd]
        BY <1>1, <1>5, <3>1 DEF PlainCalls
      <3>8. call[q].step = "tested" => /\ call[q].fd \in Known(q)
                                       /\ (fault = NULL => fds[call[q].fd].read # "none")
        BY <1>1 DEF PlainCalls
      <3>9. call[q].step = "use" => /\ call[q].fd \in holds[q]
                                    /\ call[q].f = fds[call[q].fd].f
        BY <1>1 DEF PlainCalls
      <3>10. call'[q].step = "tested" => /\ call'[q].fd \in Known(q)'
                                         /\ (fault' = NULL => fds'[call'[q].fd].read # "none")
        BY <1>4, <3>3, <3>4, <3>8
      <3>11. call'[q].step = "use" => /\ call'[q].fd \in holds'[q]
                                      /\ call'[q].f = fds'[call'[q].fd].f
        BY <3>4, <3>7, <3>9
      <3>12. /\ \A i \in holds'[q] : fds'[i].f # NULL
             /\ call'[q].step = "open" => fds'[call'[q].fd].f = NULL
        BY <3>4, <3>5, <3>6
      <3> QED
        BY <3>10, <3>11, <3>12
    <2> QED
      BY <2>1, <2>2
  <1> QED
    BY <1>1, <1>4, <1>9, <1>10, <1>12, <1>13, <1>14, <1>15 DEF IInv, NothingSeized

LEMMA OpenMissingKeeps ==
  ASSUME IInv, NEW p \in Proc, OpenMissing(p)
  PROVE  IInv'
  <1>1. /\ TypeOK /\ DescriptorsExclusive /\ FilesOneToOne /\ OnlyCopiesFault
        /\ StdOK /\ PlainEntries /\ PlainCalls /\ NothingSeized
    BY DEF IInv
  <1>2. PICK b \in FD : b = call[p].fd
    BY <1>1 DEF TypeOK, Call
  <1>3. /\ call[p].step = "open"
        /\ holds' = holds
        /\ failed' = failed \cup {p} /\ leaked' = leaked \cup {b}
        /\ call' = [call EXCEPT ![p] = NoCall]
        /\ UNCHANGED <<fds, live, exited, copies, seized, fault>>
    BY <1>1, <1>2 DEF OpenMissing, Returns, Given, TypeOK
  <1>4. /\ \A q \in Proc : q # p => call'[q] = call[q]
        /\ call'[p].step = "none"
    BY <1>1, <1>3, NoCallIsCall DEF TypeOK
  <1>5. TypeOK'
    BY <1>1, <1>3, NoCallIsCall DEF TypeOK
  <1>6. DescriptorsExclusive'
    <2>1. \A q \in Proc : Claims(q)' \subseteq Claims(q) /\ Claims(q) \subseteq Claims(q)' \cup {b}
      BY <1>2, <1>3, <1>4 DEF Claims
    <2> QED
      BY <1>1, <1>3, <2>1 DEF DescriptorsExclusive
  <1>7. FilesOneToOne' /\ PlainEntries' /\ NothingSeized'
    BY <1>1, <1>3 DEF FilesOneToOne, PlainEntries, NothingSeized
  <1>8. OnlyCopiesFault'
    BY <1>1, <1>3 DEF OnlyCopiesFault
  <1>9. StdOK'
    BY <1>1, <1>3, <1>4 DEF StdOK
  <1>10. PlainCalls'
    BY <1>1, <1>3, <1>4 DEF PlainCalls, Known
  <1> QED
    BY <1>5, <1>6, <1>7, <1>8, <1>9, <1>10 DEF IInv

LEMMA ReadTestKeeps ==
  ASSUME IInv, NEW p \in Proc, ReadTest(p)
  PROVE  IInv'
  <1>1. PICK i \in Known(p) :
          /\ fds[i].read # "none"
          /\ call' = [call EXCEPT ![p] = [step |-> "tested", fd |-> i, f |-> NULL]]
    BY DEF ReadTest
  <1>2. [step |-> "tested", fd |-> i, f |-> NULL] \in Call
    BY DescriptorsAssumption DEF Call, Known, FD, Std, IInv, TypeOK
  <1>3. UNCHANGED <<fds, live, holds, exited, copies, mistakes, fault>> /\ call[p].step # "open"
    BY NoCallIsCall DEF ReadTest, Idle
  <1> QED
    BY <1>1, <1>2, <1>3, CallKeeps

\* A program that starts to use the FILE of one of its own entries.
LEMMA EnterKeeps ==
  ASSUME IInv, NEW p \in Proc, NEW i \in Known(p), Enter(p, i),
         fds[i].read = "file" \/ fds[i].write = "file", call[p].step # "open",
         UNCHANGED <<fds, live, holds, exited, copies, mistakes, fault>>
  PROVE  IInv'
  <1>1. i \in FD
    BY DescriptorsAssumption DEF Known, FD, Std, IInv, TypeOK
  <1>2. [step |-> "use", fd |-> i, f |-> fds[i].f] \in Call
    BY <1>1 DEF Call, Entry, IInv, TypeOK
  <1>3. copies = 0 => i \in holds[p]
    BY <1>1 DEF IInv, PlainEntries, Known
  <1> QED
    BY <1>2, <1>3, CallKeeps DEF Enter

LEMMA ReadCallKeeps ==
  ASSUME IInv, NEW p \in Proc, ReadCall(p)
  PROVE  IInv'
  <1>1. PICK i \in FD : i = call[p].fd
    BY DEF IInv, TypeOK, Call
  <1>2. /\ UNCHANGED <<fds, live, holds, exited, copies, mistakes>>
        /\ fault = NULL
        /\ call[p].step # "open"
    BY DEF ReadCall
  <1>3. copies = 0 => i \in Known(p) /\ fds[i].read # "none"
    BY <1>1, <1>2 DEF ReadCall, IInv, PlainCalls
  <1>4. CASE fds[i].read = "file" /\ Enter(p, i) /\ UNCHANGED fault
    <2>1. [step |-> "use", fd |-> i, f |-> fds[i].f] \in Call
      BY DEF Call, Entry, IInv, TypeOK
    <2>2. copies = 0 => i \in holds[p]
      BY <1>3, <1>4 DEF IInv, PlainEntries, Known
    <2> QED
      BY <1>2, <1>4, <2>1, <2>2, CallKeeps DEF Enter
  <1>5. CASE Returns(p) /\ UNCHANGED fault
    BY <1>2, <1>5, NoCallIsCall, CallKeeps DEF Returns
  <1>6. CASE fds[i].read = "none" /\ Faults("nullCall", i) /\ UNCHANGED call
    <2>1. copies # 0
      BY <1>3, <1>6
    <2>2. fault' \in Fault
      BY <1>6 DEF Faults, Fault
    <2> QED
      BY <1>2, <1>6, <2>1, <2>2, FaultKeeps
  <1> QED
    BY <1>1, <1>4, <1>5, <1>6 DEF ReadCall

LEMMA WriteCallKeeps ==
  ASSUME IInv, NEW p \in Proc, WriteCall(p)
  PROVE  IInv'
  <1>1. call[p].step # "open"
    BY NoCallIsCall DEF WriteCall, Idle
  <1> QED
    BY <1>1, EnterKeeps DEF WriteCall

LEMMA CallOutsideKeeps ==
  ASSUME IInv, NEW p \in Proc, CallOutside(p)
  PROVE  IInv'
  <1>1. /\ UNCHANGED <<fds, live, call, holds, exited, copies, failed, leaked, seized>>
        /\ p \in failed /\ fault = NULL
        /\ fault' = [kind |-> "wildCall", fd |-> OUTSIDE]
    BY DEF CallOutside, Idle, Faults, mistakes
  <1>2. fault' \in Fault /\ fault'.kind = "wildCall"
    BY <1>1 DEF Fault
  <1>3. fault' # NULL
    BY <1>2, DescriptorsAssumption
  <1>4. TypeOK'
    BY <1>1, <1>2 DEF IInv, TypeOK
  <1>5. DescriptorsExclusive' /\ FilesOneToOne'
    BY <1>1 DEF IInv, DescriptorsExclusive, Claims, FilesOneToOne
  <1>6. OnlyCopiesFault' /\ NothingSeized'
    BY <1>1, <1>2 DEF IInv, OnlyCopiesFault, NothingSeized
  <1>7. StdOK' /\ PlainEntries' /\ PlainCalls'
    BY <1>1, <1>3 DEF IInv, StdOK, PlainEntries, PlainCalls, Known
  <1> QED
    BY <1>4, <1>5, <1>6, <1>7 DEF IInv

LEMMA UseFileKeeps ==
  ASSUME IInv, NEW p \in Proc, UseFile(p)
  PROVE  IInv'
  <1>1. PICK i \in FD : i = call[p].fd
    BY DEF IInv, TypeOK, Call
  <1>2. /\ UNCHANGED <<fds, live, holds, exited, copies, mistakes>>
        /\ fault = NULL
        /\ call[p].step = "use"
    BY DEF UseFile
  <1>3. copies = 0 => call[p].f \in live
    BY <1>1, <1>2 DEF IInv, PlainCalls, FilesOneToOne
  <1>4. CASE Returns(p) /\ UNCHANGED fault
    BY <1>2, <1>4, NoCallIsCall, CallKeeps DEF Returns
  <1>5. CASE call[p].f \notin live /\ Faults("noFile", i) /\ UNCHANGED call
    <2>1. fault' \in Fault
      BY <1>5 DEF Faults, Fault
    <2> QED
      BY <1>2, <1>3, <1>5, <2>1, FaultKeeps
  <1> QED
    BY <1>1, <1>4, <1>5 DEF UseFile

LEMMA CloseKeeps ==
  ASSUME IInv, NEW p \in Proc, close(p)
  PROVE  IInv'
  <1>1. /\ TypeOK /\ DescriptorsExclusive /\ FilesOneToOne /\ OnlyCopiesFault
        /\ StdOK /\ PlainEntries /\ PlainCalls /\ NothingSeized
    BY DEF IInv
  <1>2. PICK i \in Known(p) :
          /\ fds[i].present
          /\ fds' = [fds EXCEPT ![i] = Cleared(i)]
          /\ live' = live \ {fds[i].f}
          /\ holds' = [holds EXCEPT ![p] = @ \ {i}]
          /\ leaked' = leaked \ {i}
          /\ \/ ~ fds[i].close /\ Faults("nullCall", i)
             \/ fds[i].close /\ fds[i].f \in live \cup {NULL} /\ UNCHANGED fault
             \/ fds[i].close /\ fds[i].f \notin live \cup {NULL} /\ Faults("noFile", i)
    BY DEF close
  <1>3. fault = NULL /\ call[p] = NoCall /\ UNCHANGED <<call, exited, copies, failed, seized>>
    BY DEF close, Idle
  <1>4. i \in FD
    BY <1>1, DescriptorsAssumption DEF TypeOK, Known, FD, Std
  <1>5. \A j \in FD : fds'[j] = IF j = i THEN Cleared(i) ELSE fds[j]
    BY <1>1, <1>2, <1>4 DEF TypeOK
  <1>6. /\ \A q \in Proc : q # p => holds'[q] = holds[q]
        /\ holds'[p] = holds[p] \ {i}
    BY <1>1, <1>2 DEF TypeOK
  <1>7. i \in Std => Faults("nullCall", i)
    BY <1>1, <1>2 DEF StdOK
  <1>7a. i \in Std => fault' # NULL
    BY <1>4, <1>7, DescriptorsAssumption DEF Faults, Fault
  <1>8. i \notin Std => i \in holds[p]
    BY DEF Known
  <1>9. copies = 0 => fds[i].f \in live \cup {NULL}
    BY <1>1, <1>4 DEF FilesOneToOne
  <1>10. copies = 0 /\ i \notin Std => UNCHANGED fault
    BY <1>1, <1>2, <1>4, <1>9 DEF PlainEntries
  <1>11. fault' \in {NULL} \cup Fault
    BY <1>2, <1>3, <1>4 DEF Faults, Fault
  <1>12. TypeOK'
    <2>1. fds' \in [FD -> Entry] /\ live' \subseteq FILEs
      BY <1>1, <1>2, <1>4, ClearedEntry DEF TypeOK
    <2>2. holds' \in [Proc -> SUBSET (FD \ Std)]
      BY <1>1, <1>2 DEF TypeOK
    <2> QED
      BY <1>1, <1>2, <1>3, <1>11, <2>1, <2>2 DEF TypeOK
  <1>13. \A q \in Proc : i \in Claims(q)' => i \in seized
    <2>1. call[p].step = "none"
      BY <1>3, NoCallIsCall
    <2>2. i \notin Claims(p)'
      BY <1>3, <1>6, <2>1 DEF Claims
    <2>3. ASSUME NEW q \in Proc, q # p PROVE i \in Claims(q)' => i \in seized
      <3>1. CASE i \in Std
        BY <1>1, <1>3, <1>6, <2>3, <3>1 DEF Claims, TypeOK, StdOK
      <3>2. CASE i \notin Std
        BY <1>1, <1>3, <1>6, <1>8, <2>3, <3>2 DEF Claims, DescriptorsExclusive
      <3> QED
        BY <3>1, <3>2
    <2> QED
      BY <2>2, <2>3
  <1>13a. copies = 0 => \A q \in Proc : i \notin Claims(q)'
    BY <1>1, <1>13 DEF NothingSeized
  <1>14. DescriptorsExclusive'
    <2>1. \A q \in Proc : /\ Claims(q)' \subseteq Claims(q)
                         /\ Claims(q) \subseteq Claims(q)' \cup {i}
                         /\ Claims(q) \subseteq FD
      BY <1>1, <1>3, <1>6 DEF Claims, TypeOK
    <2>2. \A q, r \in Proc : q # r => Claims(q)' \cap Claims(r)' \subseteq seized'
      BY <1>1, <1>3, <2>1 DEF DescriptorsExclusive
    <2>3. \A q \in Proc : \A j \in Claims(q)' \ seized' : fds'[j].present
      BY <1>1, <1>3, <1>5, <1>13, <2>1 DEF DescriptorsExclusive
    <2>4. \A j \in FD \ Std : fds'[j].present => j \in leaked' \/ \E q \in Proc : j \in Claims(q)'
      BY <1>1, <1>2, <1>4, <1>5, <2>1, ClearedEntry DEF DescriptorsExclusive
    <2> QED
      BY <2>2, <2>3, <2>4 DEF DescriptorsExclusive
  <1>15. FilesOneToOne'
    BY <1>1, <1>2, <1>3, <1>4, <1>5, ClearedEntry, DescriptorsAssumption
       DEF FilesOneToOne, TypeOK
  <1>16. OnlyCopiesFault'
    <2>1. CASE i \in Std
      BY <1>7, <2>1 DEF OnlyCopiesFault, Faults
    <2>2. CASE i \notin Std
      BY <1>3, <1>10, <2>2 DEF OnlyCopiesFault
    <2> QED
      BY <2>1, <2>2
  <1>17. StdOK'
    BY <1>1, <1>3, <1>4, <1>5, <1>7a, ClearedEntry, DescriptorsAssumption DEF StdOK, FD, Std
  <1>18. PlainEntries'
    BY <1>1, <1>3, <1>4, <1>5, ClearedEntry DEF PlainEntries
  <1>19. PlainCalls'
    <2> SUFFICES ASSUME copies = 0, NEW q \in Proc
                 PROVE  /\ \A j \in holds'[q] : fds'[j].f # NULL
                        /\ call[q].step = "open" => fds'[call[q].fd].f = NULL
                        /\ call[q].step = "tested" =>
                             /\ call[q].fd \in Known(q)'
                             /\ (fault' = NULL => fds'[call[q].fd].read # "none")
                        /\ call[q].step = "use" => /\ call[q].fd \in holds'[q]
                                                   /\ call[q].f = fds'[call[q].fd].f
      BY <1>3 DEF PlainCalls
    <2>1. call[q].fd \in FD /\ holds[q] \subseteq FD
      BY <1>1 DEF TypeOK, Call
    <2>2. i \notin holds'[q] /\ holds'[q] \subseteq holds[q]
      BY <1>6, <1>13a DEF Claims
    <2>3. \A j \in holds'[q] : fds'[j].f # NULL
      BY <1>1, <1>5, <2>1, <2>2 DEF PlainCalls
    <2>4. call[q].step = "open" => fds'[call[q].fd].f = NULL
      BY <1>1, <1>4, <1>5, <2>1, ClearedEntry DEF PlainCalls
    <2>5. CASE q = p
      BY <1>3, <2>3, <2>5, NoCallIsCall
    <2>6. CASE q # p
      <3>1. holds'[q] = holds[q] /\ i \notin holds[q]
        BY <1>6, <2>2, <2>6
      <3>2. call[q].step = "tested" /\ call[q].fd = i => fault' # NULL
        BY <1>1, <1>7a, <3>1 DEF PlainCalls, Known
      <3> QED
        BY <1>1, <1>3, <1>5, <2>1, <2>3, <2>4, <3>1, <3>2 DEF PlainCalls, Known
    <2> QED
      BY <2>5, <2>6
  <1> QED
    BY <1>1, <1>3, <1>12, <1>14, <1>15, <1>16, <1>17, <1>18, <1>19 DEF IInv, NothingSeized

\* After a copy only the general part of the invariant says anything.
LEMMA CopiedKeeps ==
  ASSUME TypeOK, copies' = copies + 1
  PROVE  FilesOneToOne' /\ OnlyCopiesFault' /\ PlainEntries' /\ PlainCalls' /\ NothingSeized'
  <1>1. copies' # 0
    BY DescriptorsAssumption DEF TypeOK
  <1> QED
    BY <1>1 DEF FilesOneToOne, OnlyCopiesFault, PlainEntries, PlainCalls, NothingSeized

LEMMA DupKeeps ==
  ASSUME IInv, NEW p \in Proc, dup(p)
  PROVE  IInv'
  <1>1. TypeOK /\ DescriptorsExclusive /\ StdOK
    BY DEF IInv
  <1>2. PICK i \in Known(p), new \in FD :
          /\ fds[i].present
          /\ find_free_fd(new)
          /\ fds' = [fds EXCEPT ![new] = Copy(i, new)]
          /\ holds' = [holds EXCEPT ![p] = @ \cup {new}]
    BY DEF dup
  <1>3. /\ fault = NULL /\ copies < COPIES /\ copies' = copies + 1
        /\ UNCHANGED <<live, call, exited, failed, leaked, seized, fault>>
    BY DEF dup, Idle, mistakes
  <1>4. i \in FD
    BY <1>1, DescriptorsAssumption DEF TypeOK, Known, FD, Std
  <1>5. \A j \in FD : fds'[j] = IF j = new THEN Copy(i, new) ELSE fds[j]
    BY <1>1, <1>2 DEF TypeOK
  <1>6. ~ fds[new].present /\ new \notin Std
    BY <1>1, <1>2, <1>3 DEF find_free_fd, StdOK
  <1>7. /\ \A q \in Proc : q # p => holds'[q] = holds[q]
        /\ holds'[p] = holds[p] \cup {new}
    BY <1>1, <1>2 DEF TypeOK
  <1>8. TypeOK'
    <2>1. fds' \in [FD -> Entry]
      BY <1>1, <1>2, <1>4, CopyEntry DEF TypeOK
    <2>2. holds' \in [Proc -> SUBSET (FD \ Std)]
      BY <1>1, <1>2, <1>6 DEF TypeOK
    <2>3. copies' \in 0 .. COPIES
      BY <1>1, <1>3, DescriptorsAssumption DEF TypeOK
    <2> QED
      BY <1>1, <1>3, <2>1, <2>2, <2>3 DEF TypeOK
  <1>9. \A q \in Proc : new \in Claims(q) => new \in seized
    BY <1>1, <1>6 DEF DescriptorsExclusive
  <1>9a. \A q \in Proc : /\ Claims(q)' = IF q = p THEN Claims(p) \cup {new} ELSE Claims(q)
                        /\ Claims(q) \subseteq FD
    BY <1>1, <1>3, <1>7 DEF Claims, TypeOK
  <1>10. DescriptorsExclusive'
    <2>1. \A q, r \in Proc : q # r => Claims(q)' \cap Claims(r)' \subseteq seized'
      BY <1>1, <1>3, <1>9, <1>9a DEF DescriptorsExclusive
    <2>2. \A q \in Proc : \A j \in Claims(q)' \ seized' : fds'[j].present
      BY <1>1, <1>2, <1>3, <1>4, <1>5, <1>9a, CopyEntry DEF DescriptorsExclusive
    <2>3. \A j \in FD \ Std : fds'[j].present => j \in leaked' \/ \E q \in Proc : j \in Claims(q)'
      BY <1>1, <1>3, <1>5, <1>9a DEF DescriptorsExclusive
    <2> QED
      BY <2>1, <2>2, <2>3 DEF DescriptorsExclusive
  <1>11. StdOK'
    BY <1>1, <1>3, <1>5, <1>6, DescriptorsAssumption DEF StdOK, FD, Std
  <1> QED
    BY <1>1, <1>3, <1>8, <1>10, <1>11, CopiedKeeps DEF IInv

LEMMA Dup2Keeps ==
  ASSUME IInv, NEW p \in Proc, dup2(p)
  PROVE  IInv'
  <1>1. TypeOK /\ DescriptorsExclusive /\ StdOK
    BY DEF IInv
  <1>2. PICK i \in Known(p), new \in FD :
          /\ fds[i].present
          /\ fds' = [fds EXCEPT ![new] = Copy(i, new)]
          /\ holds' = [holds EXCEPT ![p] = @ \cup ({new} \ Std)]
          /\ seized' = seized \cup {j \in {new} : \E q \in Proc \ {p} : j \in Claims(q)}
    BY DEF dup2
  <1>3. /\ fault = NULL /\ copies < COPIES /\ copies' = copies + 1
        /\ UNCHANGED <<live, call, exited, failed, leaked, fault>>
    BY DEF dup2, Idle
  <1>4. i \in FD
    BY <1>1, DescriptorsAssumption DEF TypeOK, Known, FD, Std
  <1>5. \A j \in FD : fds'[j] = IF j = new THEN Copy(i, new) ELSE fds[j]
    BY <1>1, <1>2, <1>4 DEF TypeOK
  <1>6. TypeOK'
    <2>1. fds' \in [FD -> Entry]
      BY <1>1, <1>2, <1>4, CopyEntry DEF TypeOK
    <2>2. copies' \in 0 .. COPIES
      BY <1>1, <1>3, DescriptorsAssumption DEF TypeOK
    <2>3. holds' \in [Proc -> SUBSET (FD \ Std)] /\ seized' \subseteq FD
      BY <1>1, <1>2 DEF TypeOK
    <2> QED
      BY <1>1, <1>3, <2>1, <2>2, <2>3 DEF TypeOK
  <1>7. DescriptorsExclusive'
    <2>1. \A q \in Proc : /\ Claims(q)' = IF q = p THEN Claims(p) \cup ({new} \ Std) ELSE Claims(q)
                         /\ Claims(q) \subseteq FD
      BY <1>1, <1>2, <1>3 DEF Claims, TypeOK
    <2>2. \A q \in Proc : q # p /\ new \in Claims(q) => new \in seized'
      BY <1>2
    <2>3. seized \subseteq seized'
      BY <1>2
    <2>4. \A q, r \in Proc : q # r => Claims(q)' \cap Claims(r)' \subseteq seized'
      BY <1>1, <2>1, <2>2, <2>3 DEF DescriptorsExclusive
    <2>5. \A q \in Proc : \A j \in Claims(q)' \ seized' : fds'[j].present
      BY <1>1, <1>2, <1>4, <1>5, <2>1, <2>3, CopyEntry DEF DescriptorsExclusive
    <2>6. \A j \in FD \ Std : fds'[j].present => j \in leaked' \/ \E q \in Proc : j \in Claims(q)'
      BY <1>1, <1>3, <1>5, <2>1 DEF DescriptorsExclusive
    <2> QED
      BY <2>4, <2>5, <2>6 DEF DescriptorsExclusive
  <1>8. StdOK'
    BY <1>1, <1>2, <1>3, <1>4, <1>5, CopyEntry, DescriptorsAssumption DEF StdOK, FD, Std
  <1> QED
    BY <1>1, <1>3, <1>6, <1>7, <1>8, CopiedKeeps DEF IInv

LEMMA ExitKeeps ==
  ASSUME IInv, NEW p \in Proc, exit(p)
  PROVE  IInv'
  <1>1. UNCHANGED <<fds, live, call, holds, copies, failed, leaked, seized, fault>>
    BY DEF exit, mistakes
  <1>2. TypeOK'
    BY <1>1 DEF exit, IInv, TypeOK
  <1>3. DescriptorsExclusive' /\ FilesOneToOne' /\ OnlyCopiesFault'
    BY <1>1 DEF IInv, DescriptorsExclusive, Claims, FilesOneToOne, OnlyCopiesFault
  <1>4. StdOK' /\ PlainEntries' /\ PlainCalls' /\ NothingSeized'
    BY <1>1 DEF IInv, StdOK, PlainEntries, PlainCalls, NothingSeized, Known
  <1> QED
    BY <1>2, <1>3, <1>4 DEF IInv

LEMMA DescriptorsStutter == IInv /\ UNCHANGED vars => IInv'
  BY DEF vars, IInv, TypeOK, DescriptorsExclusive, Claims, FilesOneToOne, OnlyCopiesFault,
         StdOK, PlainEntries, PlainCalls, NothingSeized, Known

LEMMA DescriptorsStep == IInv /\ [Next]_vars => IInv'
  BY DescriptorsStutter, OpenReserveKeeps, OpenRefusedKeeps, OpenFoundKeeps, OpenMissingKeeps,
     ReadTestKeeps, ReadCallKeeps, WriteCallKeeps, CallOutsideKeeps, UseFileKeeps, CloseKeeps, DupKeeps, Dup2Keeps, ExitKeeps
     DEF Next

LEMMA DescriptorsInvariant == Spec => []IInv
  BY DescriptorsInit, DescriptorsStep, PTL DEF Spec

\* Every variable keeps its type, and no program is ever given a standard
\* descriptor by open or dup.
THEOREM DescriptorsTypeCorrect == Spec => []TypeOK
  <1>1. IInv => TypeOK
    BY DEF IInv
  <1> QED
    BY <1>1, DescriptorsInvariant, PTL

\* No descriptor is given to two programs, whatever runs while an open of
\* syscalls.c waits for the disk, unless dup2 was told to copy to another program's
\* entry; and only an open that fails takes an entry that nobody has.
THEOREM DescriptorsAreExclusive == Spec => []DescriptorsExclusive
  <1>1. IInv => DescriptorsExclusive
    BY DEF IInv
  <1> QED
    BY <1>1, DescriptorsInvariant, PTL

\* Without dup and dup2, open and close of syscalls.c neither lose nor share
\* a FILE.
THEOREM DescriptorsFilesOneToOne == Spec => []FilesOneToOne
  <1>1. IInv => FilesOneToOne
    BY DEF IInv
  <1> QED
    BY <1>1, DescriptorsInvariant, PTL

\* Without dup and dup2, what goes wrong is the call of NULL in the close of a
\* standard descriptor, or of something outside the table when a program reads or
\* writes the -1 of an open that failed, and nothing else.
THEOREM DescriptorsOnlyCopiesFault == Spec => []OnlyCopiesFault
  <1>1. IInv => OnlyCopiesFault
    BY DEF IInv
  <1> QED
    BY <1>1, DescriptorsInvariant, PTL
=============================================================================
