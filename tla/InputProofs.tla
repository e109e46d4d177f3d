---------------------------- MODULE InputProofs ----------------------------
(***************************************************************************)
(* Proofs about input.  The console, for any number of programs and any    *)
(* size of their buffers: the keyboard's handler stores only in the        *)
(* program that runs, as far as a program in read has asked for, unless a  *)
(* read is still being set up; and a read that Enter has ended returns the *)
(* line typed, but for the cases LineDelivered names.  Keyboard and        *)
(* mouse, for every mouse, any number of keys and packets and any screen:  *)
(* no handler is ever called for a byte of the other device, and so each   *)
(* takes the bytes of its own device in order; and the position is the one *)
(* that follows from the mouse's bytes taken three at a time.              *)
(***************************************************************************)
EXTENDS Console, Devices, SequenceTheorems, WellFoundedInduction, TLAPS

\* Past its first assignments, a read that no second program has met finds the
\* length and the index that are its own.
Own(q) == "shared" \notin trouble[q] =>
            /\ pc[q] \notin {"run", "setLen"} => read_len = len[q]
            /\ Typing(q) => read_idx <= len[q]

\* While the pointer is set, a program is about to assign the length, or the length is
\* that of one in read that has not cleared the pointer again; and no index is beyond
\* the length once every read has assigned both.
LengthInv == /\ read_buf => \E q \in Reader :
                              \/ pc[q] = "setLen"
                              \/ pc[q] \notin {"run", "setLen", "return"} /\ read_len = len[q]
             /\ read_idx <= read_len \/ \E q \in Reader : SettingUp(q)

\* Of two programs in read each knows that it has met the other.
ReadInv == /\ LengthInv
           /\ \A p, q \in Reader : p # q /\ Reading(p) /\ Reading(q) => "shared" \in trouble[p]
           /\ \A q \in Reader : Own(q)

IInv == TypeOK /\ ReadInv
-----------------------------------------------------------------------------
\* The system starts in a state of the invariant.
LEMMA InitIInv == Init => IInv
<1>. SUFFICES ASSUME Init
              PROVE  IInv
  OBVIOUS
<1>1. TypeOK
  <2>1. /\ mem \in [Reader -> [Index -> Char \cup {NUL}]]
        /\ line \in [Reader -> Seq(Char)]
        /\ trouble \in [Reader -> SUBSET {"early", "elsewhere", "late", "shared"}]
    BY DEF Init
  <2>2. 0 \in Task /\ 0 \in 0 .. LENGTH
    BY ConsoleAssumption DEF Task
  <2>. QED
    BY <2>1, <2>2 DEF Init, TypeOK
<1>2. ReadInv
  BY DEF Init, ReadInv, LengthInv, Own, Reading, Typing, Waiting
<1>. QED
  BY <1>1, <1>2 DEF IInv

\* A buffer in which the handler has stored a character is a buffer.
LEMMA StoreType ==
  ASSUME mem \in [Reader -> [Index -> Char \cup {NUL}]], NEW i, NEW c \in Char \cup {NUL},
         Store(i, c)
  PROVE  mem' \in [Reader -> [Index -> Char \cup {NUL}]]
<1>. DEFINE Buffer == [Index -> Char \cup {NUL}]
<1>1. \A b \in Buffer : [b EXCEPT ![i] = c] \in Buffer
  OBVIOUS
<1>. HIDE DEF Buffer
<1>2. \A p \in Reader : mem[p] \in Buffer
  BY DEF Buffer
<1>3. mem' \in [Reader -> Buffer]
  BY <1>1, <1>2 DEF Store
<1>. QED
  BY <1>3 DEF Buffer

\* A character or an erasure leaves an index that is inside the length read was given.
LEMMA IndexType ==
  ASSUME TypeOK, NEW c \in Char, Put(c) \/ Erase
  PROVE  /\ read_idx' \in 0 .. LENGTH
         /\ mem' \in [Reader -> [Index -> Char \cup {NUL}]]
         /\ read_idx' > read_idx => read_idx' <= read_len
<1>. USE ConsoleAssumption
<1>1. CASE HasRoom /\ Put(c)
  <2>1. Store(read_idx, c) /\ read_idx' = read_idx + 1 /\ read_idx < read_len
    BY <1>1 DEF Put, HasRoom
  <2>2. mem' \in [Reader -> [Index -> Char \cup {NUL}]]
    BY <2>1, StoreType DEF TypeOK
  <2>. QED
    BY <2>1, <2>2 DEF TypeOK
<1>2. CASE CanErase /\ Erase
  <2>1. Store(read_idx - 1, NUL) /\ read_idx' = read_idx - 1 /\ read_idx # 0
    BY <1>2 DEF Erase, CanErase
  <2>2. mem' \in [Reader -> [Index -> Char \cup {NUL}]]
    BY <2>1, StoreType DEF TypeOK
  <2>. QED
    BY <2>1, <2>2 DEF TypeOK
<1>3. CASE UNCHANGED <<mem, read_idx>>
  BY <1>3 DEF TypeOK
<1>. QED
  BY <1>1, <1>2, <1>3 DEF Put, Erase

\* What somebody at the keyboard sees is a line of characters.
LEMMA EditedType ==
  ASSUME TypeOK, NEW p \in Reader, NEW k \in Editing
  PROVE  Edited(p, k) \in Seq(Char)
<1>1. line[p] \in Seq(Char) /\ Letter \in Char /\ "newline" \in Char
  BY DEF TypeOK, Letter, Char
<1>2. Longer(p, Letter) \in Seq(Char) /\ Longer(p, "newline") \in Seq(Char)
  BY <1>1 DEF Longer
<1>3. SubSeq(line[p], 1, Len(line[p]) - 1) \in Seq(Char)
  BY <1>1
<1>. QED
  BY <1>2, <1>3 DEF Edited, Editing

\* A key leaves every history of its type, and forgets no trouble.
LEMMA NotedType ==
  ASSUME TypeOK, NEW k, Noted(k)
  PROVE  /\ line' \in [Reader -> Seq(Char)]
         /\ entered' \in [Reader -> BOOLEAN]
         /\ trouble' \in [Reader -> SUBSET {"early", "elsewhere", "late", "shared"}]
         /\ \A q \in Reader : trouble[q] \subseteq trouble'[q]
<1>1. CASE k \in Editing
  <2>1. line' \in [Reader -> Seq(Char)]
    <3>1. \A p \in Reader : line[p] \in Seq(Char) /\ Edited(p, k) \in Seq(Char)
      BY <1>1, EditedType DEF TypeOK
    <3>. HIDE DEF Edited
    <3>. QED
      BY <1>1, <3>1 DEF Noted
  <2>2. entered' \in [Reader -> BOOLEAN]
    BY <1>1 DEF Noted, TypeOK
  <2>3. \A q \in Reader : Hazards(q) \subseteq {"early", "elsewhere", "late"}
    BY DEF Hazards
  <2>4. \A q \in Reader : trouble[q] \subseteq {"early", "elsewhere", "late", "shared"}
    BY DEF TypeOK
  <2>5. trouble' = [q \in Reader |-> trouble[q] \cup Hazards(q)]
    BY <1>1 DEF Noted
  <2>6. \A q \in Reader : trouble'[q] = trouble[q] \cup Hazards(q)
    BY <2>5
  <2>7. \A q \in Reader : trouble'[q] \subseteq {"early", "elsewhere", "late", "shared"}
    BY <2>3, <2>4, <2>6
  <2>8. trouble' \in [Reader -> SUBSET {"early", "elsewhere", "late", "shared"}]
    BY <2>5, <2>7
  <2>. QED
    BY <2>1, <2>2, <2>6, <2>8
<1>2. CASE UNCHANGED history
  BY <1>2 DEF history, TypeOK
<1>. QED
  BY <1>1, <1>2 DEF Noted

\* Waking a program up changes nothing for its read.
LEMMA WokenKeeps ==
  ASSUME TypeOK, pc' = Woken
  PROVE  /\ pc' \in [Reader -> {"run", "setLen", "setIdx", "setEnter", "test", "sleep",
                                "asleep", "leave", "return"}]
         /\ \A q \in Reader : /\ Typing(q)' <=> Typing(q)
                              /\ Reading(q)' <=> Reading(q)
                              /\ SettingUp(q)' <=> SettingUp(q)
                              /\ pc'[q] = "setLen" <=> pc[q] = "setLen"
                              /\ pc'[q] = pc[q] \/ {pc'[q], pc[q]} = {"asleep", "test"}
  BY DEF Woken, TypeOK, Typing, Waiting, Reading, SettingUp
-----------------------------------------------------------------------------
\* A key keeps the invariant.
LEMMA KeyIInv ==
  ASSUME IInv, NEW k \in Keys, KeyIsHandled(k)
  PROVE  IInv'
<1>. USE DEF IInv
<1>1. /\ UNCHANGED <<read_buf, read_len, len, ctx, halted>>
      /\ Noted(k)
      /\ pc' = Woken
  BY DEF KeyIsHandled
<1>2. /\ is_shift' \in BOOLEAN
      /\ enter_pressed' \in BOOLEAN
  BY DEF KeyIsHandled, TypeOK
<1>3. \/ UNCHANGED <<mem, read_idx>>
      \/ \E c \in Char : Put(c) \/ Erase
  <2>1. Letter \in Char /\ "newline" \in Char
    BY DEF Letter, Char
  <2>. QED
    BY <2>1 DEF KeyIsHandled
<1>4. /\ read_idx' \in 0 .. LENGTH
      /\ mem' \in [Reader -> [Index -> Char \cup {NUL}]]
      /\ read_idx' > read_idx => read_idx' <= read_len
  BY <1>3, IndexType DEF TypeOK
<1>5. TypeOK'
  BY <1>1, <1>2, <1>4, NotedType, WokenKeeps DEF TypeOK
<1>6. \A q \in Reader : Own(q)'
  <2>. SUFFICES ASSUME NEW q \in Reader, "shared" \notin trouble'[q]
                PROVE  /\ pc'[q] \notin {"run", "setLen"} => read_len' = len'[q]
                       /\ Typing(q)' => read_idx' <= len'[q]
    BY DEF Own
  <2>1. "shared" \notin trouble[q]
    BY <1>1, NotedType
  <2>2. pc'[q] \notin {"run", "setLen"} => read_len' = len'[q]
    BY <1>1, <2>1, WokenKeeps DEF ReadInv, Own
  <2>3. Typing(q)' => read_idx' <= len'[q]
    <3>1. Typing(q)' => read_len = len[q] /\ read_idx <= len[q]
      BY <1>1, <2>1, WokenKeeps DEF ReadInv, Own, Typing, Waiting
    <3>. QED
      BY <1>1, <1>4, <1>5, <3>1 DEF TypeOK
  <2>. QED
    BY <2>2, <2>3
<1>7. LengthInv'
  <2>1. read_idx <= read_len => read_idx' <= read_len'
    BY <1>1, <1>4, <1>5 DEF TypeOK
  <2>2. \A q \in Reader : SettingUp(q) => SettingUp(q)'
    BY <1>1, WokenKeeps
  <2>3. \A q \in Reader : /\ pc[q] = "setLen" => pc'[q] = "setLen"
                          /\ pc[q] \notin {"run", "setLen", "return"} =>
                               pc'[q] \notin {"run", "setLen", "return"}
    BY <1>1, WokenKeeps
  <2>. QED
    BY <1>1, <2>1, <2>2, <2>3 DEF ReadInv, LengthInv
<1>8. \A p, q \in Reader : p # q /\ Reading(p)' /\ Reading(q)' => "shared" \in trouble'[p]
  BY <1>1, WokenKeeps, NotedType DEF ReadInv
<1>. QED
  BY <1>5, <1>6, <1>7, <1>8 DEF ReadInv

\* A tick keeps it.
LEMMA TickIInv ==
  ASSUME IInv, Tick
  PROVE  IInv'
<1>. USE ConsoleAssumption DEF IInv
<1>1. pc' = Woken /\ UNCHANGED <<globals, mem, len, halted, history>>
  BY DEF Tick
<1>2. ctx' \in Task
  BY DEF Tick, Task, TypeOK
<1>3. TypeOK'
  BY <1>1, <1>2, WokenKeeps DEF globals, history, TypeOK
<1>4. \A q \in Reader : Own(q)'
  BY <1>1, WokenKeeps DEF globals, history, ReadInv, Own
<1>5. LengthInv'
  <2>1. \A q \in Reader : /\ SettingUp(q) => SettingUp(q)'
                          /\ pc[q] = "setLen" => pc'[q] = "setLen"
                          /\ pc[q] \notin {"run", "setLen", "return"} =>
                               pc'[q] \notin {"run", "setLen", "return"}
    BY <1>1, WokenKeeps
  <2>. QED
    BY <1>1, <2>1 DEF globals, ReadInv, LengthInv
<1>. QED
  BY <1>1, <1>3, <1>4, <1>5, WokenKeeps DEF globals, history, ReadInv

\* A program that begins to read keeps it: whoever it meets learns so.
LEMMA ReadIInv ==
  ASSUME IInv, NEW p \in Reader, NEW n \in Lens, Read(p, n)
  PROVE  IInv'
<1>. USE ConsoleAssumption DEF IInv
<1>1. TypeOK'
  BY DEF Read, Goes, TypeOK
<1>2. pc[p] = "run" /\ pc' = [pc EXCEPT ![p] = "setLen"]
  BY DEF Read, Goes
<1>3. \A q \in Reader : trouble[q] \subseteq trouble'[q]
  BY DEF Read, TypeOK
<1>4. LengthInv'
  <2>1. pc'[p] = "setLen"
    BY <1>2 DEF TypeOK
  <2>. QED
    BY <2>1 DEF LengthInv, SettingUp
<1>5. ASSUME NEW q \in Reader, NEW r \in Reader, q # r, Reading(q)', Reading(r)'
      PROVE  "shared" \in trouble'[q]
  <2>1. CASE q # p /\ r # p
    BY <1>2, <1>3, <1>5, <2>1 DEF TypeOK, Reading, ReadInv
  <2>2. CASE q = p \/ r = p
    <3>1. q \in Others(p) \/ r \in Others(p)
      BY <1>2, <1>5, <2>2 DEF Others, Reading, TypeOK
    <3>2. q \in Others(p) \cup {p}
      BY <1>2, <1>5, <2>2 DEF Others, Reading, TypeOK
    <3>. QED
      BY <3>1, <3>2 DEF Read, TypeOK
  <2>. QED
    BY <2>1, <2>2
<1>6. ASSUME NEW q \in Reader
      PROVE  Own(q)'
  <2>1. CASE q = p
    BY <1>2, <2>1 DEF Own, Typing, Waiting, TypeOK
  <2>2. CASE q # p
    <3>1. len'[q] = len[q] /\ pc'[q] = pc[q] /\ read_len' = read_len /\ read_idx' = read_idx
      BY <1>2, <2>2 DEF Read, TypeOK
    <3>. QED
      BY <1>3, <3>1 DEF ReadInv, Own, Typing, Waiting
  <2>. QED
    BY <2>1, <2>2
<1>. QED
  BY <1>1, <1>4, <1>5, <1>6 DEF ReadInv

\* Every assignment of a program in read keeps the length one that is asked for.
LEMMA StepLengthInv ==
  ASSUME IInv, NEW p \in Reader, Step(p)
  PROVE  LengthInv'
<1>. USE ConsoleAssumption DEF IInv
<1>1. \A q \in Reader \ {p} : pc'[q] = pc[q] /\ len'[q] = len[q]
  BY DEF Step, SetLen, SetIdx, SetEnter, Test, Sleep, Leave, Return, Goes, globals, TypeOK
<1>2. CASE SetLen(p)
  <2>1. pc'[p] = "setIdx" /\ read_len' = len'[p]
    BY <1>2 DEF SetLen, Goes, TypeOK
  <2>. QED
    BY <2>1 DEF LengthInv, SettingUp
<1>3. CASE SetIdx(p)
  <2>1. /\ pc[p] = "setIdx" /\ pc'[p] = "setEnter"
        /\ len' = len /\ read_len' = read_len /\ read_buf' = read_buf
        /\ read_idx' = 0 /\ read_len >= 0
    BY <1>3 DEF SetIdx, StartOfLine, Goes, TypeOK
  <2>. QED
    BY <1>1, <2>1 DEF ReadInv, LengthInv
<1>4. ASSUME NEW s \in {"test", "sleep", "asleep", "leave"},
             pc[p] \notin {"run", "setLen", "setIdx", "return"},
             pc' = [pc EXCEPT ![p] = s],
             UNCHANGED <<read_buf, read_len, read_idx, len>>
      PROVE  LengthInv'
  <2>1. pc'[p] = s
    BY <1>4 DEF TypeOK
  <2>. QED
    BY <1>1, <1>4, <2>1 DEF ReadInv, LengthInv, SettingUp
<1>5. CASE SetEnter(p)
  BY <1>4, <1>5 DEF SetEnter, Goes
<1>6. CASE Test(p) \/ Sleep(p)
  BY <1>4, <1>6 DEF Test, Sleep, Goes, globals
<1>7. CASE Leave(p)
  <2>1. /\ ~ read_buf' /\ pc[p] = "leave" /\ pc'[p] = "return"
        /\ UNCHANGED <<read_len, read_idx>>
    BY <1>7 DEF Leave, Goes, TypeOK
  <2>. QED
    BY <1>1, <2>1 DEF ReadInv, LengthInv, SettingUp
<1>8. CASE Return(p)
  <2>1. /\ pc[p] = "return" /\ pc'[p] = "run"
        /\ UNCHANGED <<read_buf, read_len, read_idx>>
    BY <1>8 DEF Return, Goes, globals, TypeOK
  <2>. QED
    BY <1>1, <2>1 DEF ReadInv, LengthInv, SettingUp
<1>. QED
  BY <1>2, <1>3, <1>5, <1>6, <1>7, <1>8 DEF Step

\* So does every assignment of a program in read.
LEMMA StepIInv ==
  ASSUME IInv, NEW p \in Reader, Step(p)
  PROVE  IInv'
<1>. USE ConsoleAssumption DEF IInv
<1>1. TypeOK'
  <2>1. CASE SetLen(p)
    <3>1. read_len' \in 0 .. LENGTH
      BY <2>1 DEF SetLen, TypeOK
    <3>. QED
      BY <2>1, <3>1 DEF SetLen, Goes, history, TypeOK
  <2>2. CASE SetEnter(p) \/ Leave(p)
    BY <2>2 DEF SetEnter, Leave, Goes, history, TypeOK
  <2>3. CASE Test(p) \/ Sleep(p)
    BY <2>3 DEF Test, Sleep, Goes, globals, history, TypeOK
  <2>4. CASE Return(p)
    BY <2>4 DEF Return, Goes, globals, TypeOK
  <2>5. CASE SetIdx(p)
    BY <2>5 DEF SetIdx, StartOfLine, Goes, history, TypeOK
  <2>. QED
    BY <2>1, <2>2, <2>3, <2>4, <2>5 DEF Step
<1>2. /\ Reading(p)
      /\ \E s \in {"setIdx", "setEnter", "test", "sleep", "asleep", "leave", "return", "run"} :
           pc' = [pc EXCEPT ![p] = s] /\ (s = "run" => pc[p] = "return")
                                      /\ (s = "return" => read_buf' = FALSE)
      /\ read_buf' => read_buf
      /\ \A q \in Reader \ {p} : trouble'[q] = trouble[q] /\ len'[q] = len[q]
  BY DEF Step, SetLen, SetIdx, SetEnter, Test, Sleep, Leave, Return, Goes, globals, history,
         Reading, TypeOK
<1>3. LengthInv'
  BY StepLengthInv
<1>4. \A q, r \in Reader : q # r /\ Reading(q)' /\ Reading(r)' => "shared" \in trouble'[q]
  <2>1. trouble'[p] = trouble[p] \/ ~ Reading(p)'
    BY DEF Step, SetLen, SetIdx, SetEnter, Test, Sleep, Leave, Return, Goes, history, Reading,
           TypeOK
  <2>. QED
    BY <1>2, <2>1 DEF Reading, ReadInv, TypeOK
<1>5. ASSUME NEW q \in Reader \ {p}
      PROVE  Own(q)'
  <2>1. CASE Reading(q)
    <3>1. "shared" \in trouble[q]
      BY <1>2, <2>1 DEF ReadInv
    <3>. QED
      BY <1>2, <3>1 DEF Own
  <2>2. CASE ~ Reading(q)
    BY <1>2, <2>2 DEF Own, Reading, Typing, Waiting, TypeOK
  <2>. QED
    BY <2>1, <2>2
<1>6. Own(p)'
  <2>1. CASE SetLen(p)
    BY <2>1 DEF SetLen, Goes, history, Own, Typing, Waiting, TypeOK
  <2>2. CASE SetIdx(p)
    <3>1. "shared" \notin trouble[p] => read_len = len[p]
      BY <2>2 DEF SetIdx, Goes, ReadInv, Own
    <3>2. len[p] >= 0
      BY DEF TypeOK
    <3>. QED
      BY <2>2, <3>1, <3>2 DEF SetIdx, StartOfLine, Goes, history, Own, TypeOK
  <2>3. CASE SetEnter(p)
    BY <2>3 DEF SetEnter, Goes, history, Own, ReadInv, Typing, Waiting, TypeOK
  <2>4. CASE Test(p) \/ Sleep(p)
    BY <2>4 DEF Test, Sleep, Goes, globals, history, Own, ReadInv, Typing, Waiting, TypeOK
  <2>5. CASE Leave(p)
    BY <2>5 DEF Leave, Goes, history, Own, ReadInv, Typing, Waiting, TypeOK
  <2>6. CASE Return(p)
    BY <2>6 DEF Return, Goes, Own, Typing, Waiting, TypeOK
  <2>. QED
    BY <2>1, <2>2, <2>3, <2>4, <2>5, <2>6 DEF Step
<1>. QED
  BY <1>1, <1>3, <1>4, <1>5, <1>6 DEF ReadInv

\* Every step keeps the invariant.
LEMMA NextIInv == IInv /\ [Next]_vars => IInv'
<1>. SUFFICES ASSUME IInv, [Next]_vars
              PROVE  IInv'
  OBVIOUS
<1>1. CASE halted' \in BOOLEAN /\ UNCHANGED <<globals, mem, pc, len, ctx, history>>
  BY <1>1 DEF globals, history, IInv, TypeOK, ReadInv, LengthInv, SettingUp, Own, Reading,
              Typing, Waiting
<1>2. CASE UNCHANGED vars
  BY <1>1, <1>2 DEF vars, globals, history, IInv, TypeOK
<1>3. ASSUME NEW k \in Keys, handle_keyboard(k)
      PROVE  IInv'
  BY <1>1, <1>3, KeyIInv DEF handle_keyboard, KeyFaults
<1>. QED
  BY <1>2, <1>3, TickIInv, ReadIInv, StepIInv DEF Next
-----------------------------------------------------------------------------
\* The keyboard's state, the buffers and the reads keep their types: in particular
\* the index never leaves the length a program may ask for.
THEOREM ConsoleTypeCorrect == Spec => []TypeOK
<1>1. IInv => TypeOK
  BY DEF IInv
<1>. QED
  BY InitIInv, NextIInv, <1>1, PTL DEF Spec

\* A key changes a byte only where the index points: before it moves on, or after
\* it has moved back.
LEMMA KeyStores ==
  ASSUME IInv, NEW k \in Keys, KeyIsHandled(k), NEW p \in Reader, NEW i \in Index,
         mem'[p][i] # mem[p][i]
  PROVE  /\ p = ctx
         /\ k \in Editing
         /\ read_buf
         /\ i < read_len \/ i < read_idx
<1>. USE ConsoleAssumption DEF IInv
<1>1. k \in Editing /\ \E c \in Char : Put(c) \/ Erase
  BY DEF KeyIsHandled, Editing, Letter, Char
<1>2. PICK c \in Char : Put(c) \/ Erase
  BY <1>1
<1>3. PICK n \in Int, d \in Char \cup {NUL} :
        /\ Store(n, d)
        /\ read_buf
        /\ n < read_len \/ n < read_idx
  <2>1. CASE HasRoom /\ Put(c)
    BY <2>1 DEF Put, HasRoom, TypeOK
  <2>2. CASE CanErase /\ Erase
    BY <2>2 DEF Erase, CanErase, TypeOK
  <2>. QED
    BY <1>2, <2>1, <2>2 DEF Put, Erase
<1>4. mem'[p] = IF p = ctx THEN [mem[p] EXCEPT ![n] = d] ELSE mem[p]
  BY <1>3 DEF Store
<1>5. p = ctx
  BY <1>4
<1>6. i = n
  <2>1. mem[p] \in [Index -> Char \cup {NUL}]
    BY DEF TypeOK
  <2>2. mem'[p] = [mem[p] EXCEPT ![n] = d]
    BY <1>4, <1>5
  <2>. QED
    BY <2>1, <2>2
<1>. QED
  BY <1>1, <1>3, <1>5, <1>6

\* The handler stores only in the program that runs, and no further than a program in
\* read asked for, however many there are, unless one of them is still assigning the
\* length and the index.
THEOREM ConsoleStoresInside == Spec => StoresInside
<1>. DEFINE Inside == \A p \in Reader : \A i \in Index :
                        mem'[p][i] # mem[p][i] => /\ p = ctx
                                                  /\ \/ i < len[p]
                                                     \/ \E q \in Others(p) : i < len[q]
                                                     \/ \E q \in Reader : SettingUp(q)
<1>1. IInv /\ [Next]_vars => [Inside]_vars
  <2>. SUFFICES ASSUME IInv, Next, NEW p \in Reader, NEW i \in Index,
                       mem'[p][i] # mem[p][i]
                PROVE  /\ p = ctx
                       /\ \/ i < len[p]
                          \/ \E q \in Others(p) : i < len[q]
                          \/ \E q \in Reader : SettingUp(q)
    OBVIOUS
  <2>1. PICK k \in Keys : KeyIsHandled(k)
    <3>1. ~ Tick /\ ~ \E q \in Reader : Step(q) \/ \E n \in Lens : Read(q, n)
      BY DEF Tick, Step, SetLen, SetIdx, SetEnter, Test, Sleep, Leave, Return, Read
    <3>. QED
      BY <3>1 DEF Next, handle_keyboard, KeyFaults
  <2>2. p = ctx /\ read_buf /\ (i < read_len \/ i < read_idx)
    BY <2>1, KeyStores
  <2>3. ASSUME \A q \in Reader : ~ SettingUp(q)
        PROVE  i < len[p] \/ \E q \in Others(p) : i < len[q]
    <3>1. PICK q \in Reader : pc[q] \notin {"run", "setLen", "return"} /\ read_len = len[q]
      BY <2>2, <2>3 DEF IInv, ReadInv, LengthInv, SettingUp
    <3>2. read_idx <= read_len
      BY <2>3 DEF IInv, ReadInv, LengthInv
    <3>3. i < len[q]
      BY <2>2, <3>1, <3>2, ConsoleAssumption DEF Index, IInv, TypeOK
    <3>. QED
      BY <3>1, <3>3 DEF Others, Reading
  <2>. QED
    BY <2>2, <2>3
<1>. QED
  BY InitIInv, NextIInv, <1>1, PTL DEF Spec, StoresInside
-----------------------------------------------------------------------------
\* What a read that no second program has met finds: the pointer is set until it
\* clears it, and unless a key came after Enter the index is the length of the line;
\* the line is in the buffer, unless a key came while another task ran.
LineOf(p) ==
  /\ pc[p] \notin {"run", "return"} => read_buf
  /\ pc[p] = "return" => ~ read_buf
  /\ (Typing(p) \/ pc[p] = "return") /\ "late" \notin trouble[p] =>
       /\ read_idx = Len(line[p])
       /\ "elsewhere" \notin trouble[p] => \A i \in 1 .. read_idx : mem[p][i - 1] = line[p][i]

\* No line has begun before read has reset the index.
LineInv == \A p \in Reader : /\ pc[p] \in {"run", "setLen", "setIdx"} => line[p] = <<>> /\ ~ entered[p]
                             /\ "shared" \notin trouble[p] => LineOf(p)

LEMMA InitLineInv == Init => LineInv
  BY DEF Init, LineInv, LineOf, Typing, Waiting

\* The line of a program whose buffer the handler stores in: index and line grow and
\* shrink together, and so do buffer and line.
LEMMA KeyLine ==
  ASSUME IInv, LineInv, NEW k \in Editing \cap Keys, KeyIsHandled(k), NEW p \in Reader,
         "shared" \notin trouble[p], "late" \notin trouble'[p], Typing(p)
  PROVE  /\ read_idx' = Len(line'[p])
         /\ "elsewhere" \notin trouble'[p] =>
              \A i \in 1 .. read_idx' : mem'[p][i - 1] = line'[p][i]
<1>. USE DEF IInv
<1>1. trouble'[p] = trouble[p] \cup Hazards(p)
  BY DEF KeyIsHandled, Noted
<1>2. "late" \notin trouble[p] /\ ~ entered[p]
  BY <1>1 DEF Hazards
<1>3. line'[p] = Edited(p, k)
  BY <1>2 DEF KeyIsHandled, Noted
<1>4. read_buf /\ read_idx = Len(line[p]) /\ read_len = len[p]
  BY <1>2 DEF LineInv, LineOf, ReadInv, Own, Typing, Waiting
<1>5. /\ line[p] \in Seq(Char)
      /\ read_idx \in 0 .. LENGTH
      /\ len[p] \in 0 .. LENGTH
      /\ mem[p] \in [Index -> Char \cup {NUL}]
  BY DEF TypeOK
<1>. USE ConsoleAssumption
<1>6. ASSUME "elsewhere" \notin trouble'[p]
      PROVE  /\ ctx = p
             /\ \A i \in 1 .. read_idx : mem[p][i - 1] = line[p][i]
  BY <1>1, <1>2, <1>6 DEF Hazards, LineInv, LineOf
<1>7. ASSUME NEW c \in Char, Put(c), line'[p] = Longer(p, c)
      PROVE  /\ read_idx' = Len(line'[p])
             /\ "elsewhere" \notin trouble'[p] =>
                  \A i \in 1 .. read_idx' : mem'[p][i - 1] = line'[p][i]
  <2>1. CASE read_idx < len[p]
    <3>1. line'[p] = Append(line[p], c)
      BY <1>4, <1>7, <2>1 DEF Longer
    <3>2. Store(read_idx, c) /\ read_idx' = read_idx + 1
      BY <1>4, <1>7, <2>1 DEF Put, HasRoom
    <3>3. read_idx' = Len(line'[p])
      BY <1>4, <1>5, <3>1, <3>2
    <3>4. ASSUME "elsewhere" \notin trouble'[p], NEW i \in 1 .. read_idx'
          PROVE  mem'[p][i - 1] = line'[p][i]
      <4>1. mem'[p] = [mem[p] EXCEPT ![read_idx] = c]
        BY <1>6, <3>2, <3>4 DEF Store
      <4>2. CASE i = read_idx + 1
        <5>1. mem'[p][i - 1] = c
          <6>1. i - 1 = read_idx /\ read_idx \in Index
            BY <1>5, <2>1, <4>2 DEF Index
          <6>. QED
            BY <1>5, <4>1, <6>1
        <5>2. line'[p][i] = c
          BY <1>4, <1>5, <3>1, <4>2
        <5>. QED
          BY <5>1, <5>2
      <4>3. CASE i \in 1 .. read_idx
        <5>1. mem'[p][i - 1] = mem[p][i - 1]
          <6>1. i - 1 # read_idx /\ i - 1 \in Index
            BY <1>5, <2>1, <4>3 DEF Index
          <6>. QED
            BY <1>5, <4>1, <6>1
        <5>2. line'[p][i] = line[p][i]
          BY <1>4, <1>5, <3>1, <4>3
        <5>. QED
          BY <1>6, <3>4, <4>3, <5>1, <5>2
      <4>. QED
        BY <1>5, <3>2, <4>2, <4>3
    <3>. QED
      BY <3>3, <3>4
  <2>2. CASE ~ read_idx < len[p]
    <3>1. line'[p] = line[p]
      BY <1>4, <1>7, <2>2 DEF Longer
    <3>2. UNCHANGED <<mem, read_idx>>
      BY <1>4, <1>7, <2>2 DEF Put, HasRoom
    <3>. QED
      BY <1>4, <1>6, <3>1, <3>2
  <2>. QED
    BY <2>1, <2>2
<1>8. ASSUME Erase, line'[p] = SubSeq(line[p], 1, Len(line[p]) - 1)
      PROVE  /\ read_idx' = Len(line'[p])
             /\ "elsewhere" \notin trouble'[p] =>
                  \A i \in 1 .. read_idx' : mem'[p][i - 1] = line'[p][i]
  <2>1. CASE read_idx # 0
    <3>1. Store(read_idx - 1, NUL) /\ read_idx' = read_idx - 1
      BY <1>4, <1>8, <2>1 DEF Erase, CanErase
    <3>2. /\ Len(line'[p]) = read_idx - 1
          /\ \A i \in 1 .. read_idx - 1 : line'[p][i] = line[p][i]
      BY <1>4, <1>5, <1>8, <2>1
    <3>3. ASSUME "elsewhere" \notin trouble'[p], NEW i \in 1 .. read_idx'
          PROVE  mem'[p][i - 1] = line'[p][i]
      <4>1. mem'[p] = [mem[p] EXCEPT ![read_idx - 1] = NUL]
        BY <1>6, <3>1, <3>3 DEF Store
      <4>2. i \in 1 .. read_idx - 1 /\ i - 1 # read_idx - 1 /\ i - 1 \in Index
        BY <1>5, <3>1 DEF Index
      <4>3. mem'[p][i - 1] = mem[p][i - 1]
        BY <1>5, <4>1, <4>2
      <4>. QED
        BY <1>5, <1>6, <3>2, <3>3, <4>2, <4>3, SMTT(30)
    <3>. QED
      BY <3>1, <3>2, <3>3
  <2>2. CASE read_idx = 0
    <3>1. UNCHANGED <<mem, read_idx>>
      BY <1>8, <2>2 DEF Erase, CanErase
    <3>2. Len(line'[p]) = 0
      BY <1>4, <1>5, <1>8, <2>2
    <3>. QED
      BY <2>2, <3>1, <3>2
  <2>. QED
    BY <2>1, <2>2
<1>9. CASE k = "LETTER"
  BY <1>3, <1>7, <1>9 DEF KeyIsHandled, Edited, Letter, Char
<1>10. CASE k = "ENTER"
  BY <1>3, <1>7, <1>10 DEF KeyIsHandled, Edited, Char
<1>11. CASE k = "BACKSPACE"
  BY <1>3, <1>8, <1>11 DEF KeyIsHandled, Edited
<1>. QED
  BY <1>9, <1>10, <1>11 DEF Editing
\* A key keeps the lines.
LEMMA KeyLineInv ==
  ASSUME IInv, LineInv, NEW k \in Keys, KeyIsHandled(k)
  PROVE  LineInv'
<1>. USE DEF IInv
<1>1. pc' = Woken /\ read_buf' = read_buf /\ Noted(k)
  BY DEF KeyIsHandled
<1>2. SUFFICES ASSUME NEW p \in Reader
               PROVE  /\ pc'[p] \in {"run", "setLen", "setIdx"} => line'[p] = <<>> /\ ~ entered'[p]
                      /\ "shared" \notin trouble'[p] => LineOf(p)'
  BY DEF LineInv
<1>3. /\ Typing(p)' <=> Typing(p)
      /\ pc'[p] = pc[p] \/ {pc'[p], pc[p]} = {"asleep", "test"}
      /\ trouble[p] \subseteq trouble'[p]
  BY <1>1, WokenKeeps, NotedType
<1>4. pc'[p] \in {"run", "setLen", "setIdx"} => line'[p] = <<>> /\ ~ entered'[p]
  BY <1>1, <1>3 DEF Noted, history, Typing, Waiting, LineInv
<1>5. ASSUME "shared" \notin trouble'[p]
      PROVE  LineOf(p)'
  <2>1. /\ pc'[p] \notin {"run", "return"} => read_buf'
        /\ pc'[p] = "return" => ~ read_buf'
    BY <1>1, <1>3, <1>5 DEF LineInv, LineOf
  <2>2. ASSUME Typing(p) \/ pc[p] = "return", "late" \notin trouble'[p]
        PROVE  /\ read_idx' = Len(line'[p])
               /\ "elsewhere" \notin trouble'[p] =>
                    \A i \in 1 .. read_idx' : mem'[p][i - 1] = line'[p][i]
    <3>1. CASE Typing(p) /\ k \in Editing
      BY <1>3, <1>5, <2>2, <3>1, KeyLine
    <3>2. CASE UNCHANGED <<mem, read_idx>> /\ line'[p] = line[p]
      BY <1>3, <1>5, <2>2, <3>2 DEF LineInv, LineOf
    <3>3. CASE k \notin Editing
      <4>1. UNCHANGED <<mem, read_idx>>
        BY <3>3 DEF KeyIsHandled, Editing
      <4>. QED
        BY <1>1, <3>2, <3>3, <4>1 DEF Noted, history
    <3>4. CASE pc[p] = "return"
      <4>1. ~ read_buf
        BY <1>3, <1>5, <3>4 DEF LineInv, LineOf
      <4>2. UNCHANGED <<mem, read_idx>>
        BY <4>1 DEF KeyIsHandled, Put, HasRoom, Erase, CanErase
      <4>3. line'[p] = line[p]
        BY <1>1, <3>4 DEF Noted, history, Typing, Waiting
      <4>. QED
        BY <3>2, <4>2, <4>3
    <3>. QED
      BY <2>2, <3>1, <3>3, <3>4
  <2>. QED
    BY <1>3, <2>1, <2>2 DEF LineOf, Typing, Waiting
<1>. QED
  BY <1>4, <1>5

\* So does a program that begins to read: the line of one that it meets is no longer
\* anybody's.
LEMMA ReadLineInv ==
  ASSUME IInv, LineInv, NEW p \in Reader, NEW n \in Lens, Read(p, n)
  PROVE  LineInv'
<1>. USE DEF IInv
<1>1. /\ pc[p] = "run" /\ pc' = [pc EXCEPT ![p] = "setLen"]
      /\ read_buf' = TRUE
      /\ UNCHANGED <<read_idx, mem, line, entered>>
  BY DEF Read, Goes
<1>2. ASSUME NEW q \in Reader \ {p}, "shared" \notin trouble'[q]
      PROVE  ~ Reading(q)
  BY <1>2 DEF Read, Others, TypeOK
<1>3. \A q \in Reader : pc'[q] = IF q = p THEN "setLen" ELSE pc[q]
  BY <1>1 DEF TypeOK
<1>. QED
  BY <1>1, <1>2, <1>3 DEF LineInv, LineOf, Typing, Waiting, Reading

\* And so does every assignment of a program in read: those of another program
\* concern only a read that has met it.
LEMMA StepLineInv ==
  ASSUME IInv, LineInv, NEW p \in Reader, Step(p)
  PROVE  LineInv'
<1>. USE DEF IInv
<1>1. /\ Reading(p)
      /\ \A q \in Reader \ {p} : /\ pc'[q] = pc[q] /\ line'[q] = line[q]
                                 /\ entered'[q] = entered[q] /\ trouble'[q] = trouble[q]
      /\ mem' = mem
  BY DEF Step, SetLen, SetIdx, SetEnter, Test, Sleep, Leave, Return, Goes, globals, history,
         Reading, TypeOK
<1>2. ASSUME NEW q \in Reader \ {p}
      PROVE  /\ pc'[q] \in {"run", "setLen", "setIdx"} => line'[q] = <<>> /\ ~ entered'[q]
             /\ "shared" \notin trouble'[q] => LineOf(q)'
  <2>1. pc'[q] \in {"run", "setLen", "setIdx"} => line'[q] = <<>> /\ ~ entered'[q]
    BY <1>1, <1>2 DEF LineInv
  <2>2. "shared" \notin trouble'[q] => pc'[q] = "run"
    BY <1>1, <1>2 DEF ReadInv, Reading
  <2>. QED
    BY <2>1, <2>2 DEF LineOf, Typing, Waiting
<1>3. /\ pc'[p] \in {"run", "setLen", "setIdx"} => line'[p] = <<>> /\ ~ entered'[p]
      /\ "shared" \notin trouble'[p] => LineOf(p)'
  <2>1. CASE SetLen(p)
    BY <2>1 DEF SetLen, Goes, history, LineInv, LineOf, Typing, Waiting, TypeOK
  <2>2. CASE SetIdx(p)
    <3>1. /\ pc[p] = "setIdx" /\ pc'[p] = "setEnter"
          /\ line'[p] = <<>> /\ read_idx' = 0 /\ trouble' = trouble /\ read_buf' = read_buf
      BY <2>2 DEF SetIdx, StartOfLine, Goes, history, LineInv, TypeOK
    <3>. QED
      BY <3>1 DEF LineInv, LineOf
  <2>3. CASE SetEnter(p)
    BY <2>3 DEF SetEnter, Goes, history, LineInv, LineOf, Typing, Waiting, TypeOK
  <2>4. CASE Test(p) \/ Sleep(p)
    BY <2>4 DEF Test, Sleep, Goes, globals, history, LineInv, LineOf, Typing, Waiting, TypeOK
  <2>5. CASE Leave(p)
    BY <2>5 DEF Leave, Goes, history, LineInv, LineOf, Typing, Waiting, TypeOK
  <2>6. CASE Return(p)
    BY <2>6 DEF Return, Goes, LineInv, LineOf, Typing, Waiting, TypeOK
  <2>. QED
    BY <2>1, <2>2, <2>3, <2>4, <2>5, <2>6 DEF Step
<1>. QED
  BY <1>2, <1>3 DEF LineInv

\* Every step keeps the lines.
LEMMA NextLineInv == IInv /\ LineInv /\ [Next]_vars => LineInv'
<1>. SUFFICES ASSUME IInv, LineInv, [Next]_vars
              PROVE  LineInv'
  OBVIOUS
<1>1. CASE UNCHANGED <<globals, mem, pc, len, ctx, history>>
  BY <1>1 DEF globals, history, LineInv, LineOf, Typing, Waiting
<1>3. CASE UNCHANGED vars
  BY <1>1, <1>3 DEF vars, globals, history
<1>4. ASSUME NEW k \in Keys, handle_keyboard(k)
      PROVE  LineInv'
  BY <1>1, <1>4, KeyLineInv DEF handle_keyboard, KeyFaults
<1>2. CASE Tick
  <2>1. pc' = Woken /\ UNCHANGED <<globals, mem, history>>
    BY <1>2 DEF Tick
  <2>2. \A q \in Reader : /\ Typing(q)' <=> Typing(q)
                          /\ pc'[q] = pc[q] \/ {pc'[q], pc[q]} = {"asleep", "test"}
    BY <2>1, WokenKeeps DEF IInv
  <2>. QED
    BY <2>1, <2>2 DEF globals, history, LineInv, LineOf
<1>. QED
  BY <1>2, <1>3, <1>4, ReadLineInv, StepLineInv DEF Next

\* Keys, ticks and assignments may come in any order: a read that no second program has
\* met, and that no key followed after Enter, returns the length of the line typed, and
\* the line is in its buffer unless a key came while another task ran.
THEOREM ConsoleLineDelivered == Spec => []LineDelivered
<1>1. LineInv => LineDelivered
  BY DEF LineInv, LineOf, LineDelivered
<1>. QED
  BY InitIInv, NextIInv, InitLineInv, NextLineInv, <1>1, PTL DEF Spec
-----------------------------------------------------------------------------
(* The devices *)

\* The byte of device d in the output buffer.
Held(d) == IF out.from = d THEN <<out.byte>> ELSE <<>>

\* What a device has sent has been taken, or is in the buffer, or is still queued.
FlowInv == \A d \in Device : sent[d] = (taken[d] \o Held(d)) \o queue[d]

\* An interrupt is requested, or its handler about to read, only while the buffer
\* holds a byte of its device; and never both.
RequestInv == /\ 1 \in irr => out.from = "keyboard"
              /\ 12 \in irr => out.from = "mouse"
              /\ handler = "key" => out.from = "keyboard" /\ irr = {}
              /\ handler \in {"mouse", "mouseRead"} => out.from = "mouse" /\ irr = {}

DevicesIInv == DevicesTypeOK /\ FlowInv /\ RequestInv
-----------------------------------------------------------------------------
\* How bytes are put one after the other does not matter.
LEMMA BytesAssociate ==
  ASSUME NEW s \in Seq(Byte), NEW t \in Seq(Byte), NEW u \in Seq(Byte)
  PROVE  (s \o t) \o u = s \o (t \o u)
  BY ConcatAssociative

\* A packet is a sequence of bytes.
LEMMA PacketIsSeq ==
  ASSUME NEW m \in [1 .. 3 -> Byte]
  PROVE  m \in Seq(Byte)
  BY SeqDef

\* The byte that is loaded from a queue is the one it began with.
LEMMA HeadThenTail ==
  ASSUME NEW q \in Seq(Byte), q # <<>>
  PROVE  q = <<Head(q)>> \o Tail(q)
<1>1. /\ Head(q) \in Byte
      /\ Tail(q) \in Seq(Byte)
      /\ Len(Tail(q)) = Len(q) - 1
      /\ \A i \in 1 .. Len(Tail(q)) : Tail(q)[i] = q[i + 1]
  BY HeadTailProperties
<1>2. /\ <<Head(q)>> \in Seq(Byte)
      /\ Len(<<Head(q)>>) = 1
      /\ <<Head(q)>>[1] = q[1]
  BY <1>1
<1>3. /\ <<Head(q)>> \o Tail(q) \in Seq(Byte)
      /\ Len(<<Head(q)>> \o Tail(q)) = Len(q)
      /\ \A i \in 1 .. Len(q) : (<<Head(q)>> \o Tail(q))[i] = q[i]
  BY <1>1, <1>2, ConcatProperties
<1>. QED
  BY <1>3, SeqEqual

\* What has been taken is the beginning of what was sent.
LEMMA TakenIsPrefix ==
  ASSUME NEW t \in Seq(Byte), NEW r \in Seq(Byte)
  PROVE  IsPrefix(t, t \o r)
<1>1. Len(t) <= Len(t \o r)
  BY ConcatProperties, LenProperties
<1>2. SubSeq(t, 1, Len(t)) = SubSeq(t \o r, 1, Len(t))
  BY ConcatProperties, LenProperties
<1>. QED
  BY <1>1, <1>2 DEF IsPrefix

\* A position is kept on the screen, whichever way the sum has wrapped.
LEMMA ClampedType ==
  ASSUME NEW i \in Int, NEW size \in Nat \ {0}
  PROVE  Clamped(i % WORD, size) \in 0 .. size - 1
<1>1. i % WORD \in Nat
  BY DevicesAssumption
<1>. QED
  BY <1>1 DEF Clamped

\* What is in the buffer is a byte.
LEMMA HeldType ==
  ASSUME DevicesTypeOK, NEW d \in Device
  PROVE  Held(d) \in Seq(Byte)
  BY DEF Held, DevicesTypeOK, NONE, Device
-----------------------------------------------------------------------------
\* The system starts in a state of the invariant.
LEMMA InitDevicesIInv == DevicesInit => DevicesIInv
<1>. SUFFICES ASSUME DevicesInit
              PROVE  DevicesIInv
  OBVIOUS
<1>1. Answer \in [Device -> Seq(Byte)]
  BY DevicesAssumption DEF Answer
<1>2. DevicesTypeOK
  BY <1>1, DevicesAssumption DEF DevicesInit, DevicesTypeOK, Byte
<1>3. FlowInv
  BY <1>1, ConcatEmptySeq, EmptySeq DEF DevicesInit, FlowInv, Held, NONE, Device
<1>. QED
  BY <1>2, <1>3 DEF DevicesInit, DevicesIInv, RequestInv, NONE

\* A device that sends something keeps it.
LEMMA SendIInv ==
  ASSUME DevicesIInv, NEW d \in Device, NEW bytes \in Seq(Byte), Send(d, bytes)
  PROVE  DevicesIInv'
<1>. USE DEF DevicesIInv
<1>1. /\ queue[d] \in Seq(Byte)
      /\ sent[d] \in Seq(Byte)
      /\ taken[d] \o Held(d) \in Seq(Byte)
  BY HeldType, ConcatProperties DEF DevicesTypeOK
<1>2. DevicesTypeOK'
  BY <1>1, ConcatProperties DEF Send, mouse, DevicesTypeOK
<1>3. FlowInv'
  <2>. SUFFICES ASSUME NEW e \in Device
                PROVE  (sent[e] = (taken[e] \o Held(e)) \o queue[e])'
    BY DEF FlowInv
  <2>1. Held(e)' = Held(e) /\ taken'[e] = taken[e]
    BY DEF Send, Held
  <2>2. CASE e = d
    <3>1. sent'[d] = sent[d] \o bytes /\ queue'[d] = queue[d] \o bytes
      BY DEF Send, DevicesTypeOK
    <3>. DEFINE gone == taken[d] \o Held(d)
                waiting == queue[d]
    <3>2. sent[d] = gone \o waiting
      BY DEF FlowInv
    <3>3. (gone \o waiting) \o bytes = gone \o (waiting \o bytes)
      <4>. HIDE DEF gone, waiting
      <4>. QED
        BY <1>1, BytesAssociate DEF gone, waiting
    <3>. QED
      BY <2>1, <2>2, <3>1, <3>2, <3>3
  <2>3. CASE e # d
    BY <2>1, <2>3 DEF Send, FlowInv, DevicesTypeOK
  <2>. QED
    BY <2>2, <2>3
<1>. QED
  BY <1>2, <1>3 DEF Send, RequestInv

\* The controller that takes a byte from a device keeps it.
LEMMA LoadIInv ==
  ASSUME DevicesIInv, NEW d \in Device, Load(d)
  PROVE  DevicesIInv'
<1>. USE DEF DevicesIInv
<1>1. /\ queue[d] \in Seq(Byte)
      /\ queue[d] # <<>>
      /\ Head(queue[d]) \in Byte
      /\ Tail(queue[d]) \in Seq(Byte)
  BY HeadTailProperties DEF Load, DevicesTypeOK
<1>2. out = NONE /\ out' = [from |-> d, byte |-> Head(queue[d])]
  BY DEF Load
<1>3. IRQ(d) \in {1, 12}
  BY DEF IRQ
<1>4. DevicesTypeOK'
  <2>1. queue' \in [Device -> Seq(Byte)]
    BY <1>1 DEF Load, DevicesTypeOK
  <2>2. out' \in [from : Device, byte : Byte]
    BY <1>1, <1>2
  <2>3. irr' \subseteq {1, 12}
    BY <1>3 DEF Load, DevicesTypeOK
  <2>. QED
    BY <2>1, <2>2, <2>3 DEF Load, mouse, DevicesTypeOK
<1>5. FlowInv'
  <2>. SUFFICES ASSUME NEW e \in Device
                PROVE  (sent[e] = (taken[e] \o Held(e)) \o queue[e])'
    BY DEF FlowInv
  <2>1. Held(e) = <<>> /\ sent[e] = (taken[e] \o Held(e)) \o queue[e]
    BY <1>2 DEF Held, NONE, Device, FlowInv
  <2>2. UNCHANGED <<sent, taken>>
    BY DEF Load
  <2>3. CASE e = d
    <3>1. Held(e)' = <<Head(queue[d])>> /\ queue'[e] = Tail(queue[d])
      BY <1>2, <2>3 DEF Load, Held, DevicesTypeOK
    <3>2. queue[d] = <<Head(queue[d])>> \o Tail(queue[d])
      BY <1>1, HeadThenTail
    <3>3. taken[d] \in Seq(Byte) /\ <<Head(queue[d])>> \in Seq(Byte)
      BY <1>1 DEF DevicesTypeOK
    <3>4. (taken[d] \o <<Head(queue[d])>>) \o Tail(queue[d]) = taken[d] \o queue[d]
      <4>. DEFINE first == <<Head(queue[d])>>
                  rest == Tail(queue[d])
      <4>1. first \in Seq(Byte) /\ rest \in Seq(Byte) /\ queue[d] = first \o rest
        BY <1>1, <3>2, <3>3
      <4>. HIDE DEF first, rest
      <4>2. (taken[d] \o first) \o rest = taken[d] \o (first \o rest)
        BY <3>3, <4>1, BytesAssociate
      <4>. QED
        BY <4>1, <4>2 DEF first, rest
    <3>5. taken[d] \o <<>> = taken[d]
      BY <3>3, ConcatEmptySeq
    <3>. QED
      BY <2>1, <2>2, <2>3, <3>1, <3>4, <3>5
  <2>4. CASE e # d
    <3>1. Held(e)' = <<>> /\ queue'[e] = queue[e]
      BY <1>2, <2>4 DEF Load, Held, DevicesTypeOK
    <3>. QED
      BY <2>1, <2>2, <3>1
  <2>. QED
    BY <2>3, <2>4
<1>6. RequestInv'
  <2>1. irr = {} /\ handler \notin {"key", "mouse", "mouseRead"}
    BY <1>2 DEF RequestInv, NONE, DevicesTypeOK
  <2>. QED
    BY <1>2, <2>1 DEF Load, IRQ, RequestInv, Device
<1>. QED
  BY <1>4, <1>5, <1>6

\* So does a handler that takes the byte in the buffer, if that is of its device.
LEMMA TakenFlow ==
  ASSUME DevicesIInv, NEW d \in Device, out.from = d, Taken(d), out' = NONE, UNCHANGED <<queue, sent>>
  PROVE  taken' \in [Device -> Seq(Byte)] /\ FlowInv'
<1>. USE DEF DevicesIInv
<1>1. out.byte \in Byte /\ taken[d] \in Seq(Byte)
  BY DEF DevicesTypeOK, NONE, Device
<1>2. taken' \in [Device -> Seq(Byte)]
  BY <1>1, AppendProperties DEF Taken, DevicesTypeOK
<1>3. FlowInv'
  <2>. SUFFICES ASSUME NEW e \in Device
                PROVE  (sent[e] = (taken[e] \o Held(e)) \o queue[e])'
    BY DEF FlowInv
  <2>1. Held(e)' = <<>>
    BY DEF Held, NONE, Device
  <2>2. taken'[e] \o <<>> = taken'[e]
    BY <1>2, ConcatEmptySeq
  <2>3. taken'[e] = taken[e] \o Held(e)
    <3>1. CASE e = d
      BY <1>1, <3>1, AppendIsConcat DEF Taken, Held, DevicesTypeOK
    <3>2. CASE e # d
      BY <3>2, ConcatEmptySeq DEF Taken, Held, DevicesTypeOK
    <3>. QED
      BY <3>1, <3>2
  <2>. QED
    BY <2>1, <2>2, <2>3 DEF FlowInv
<1>. QED
  BY <1>2, <1>3

\* The keyboard's handler keeps it.
LEMMA TakeKeyIInv ==
  ASSUME DevicesIInv, TakeKey
  PROVE  DevicesIInv'
<1>. USE DEF DevicesIInv
<1>1. out.from = "keyboard" /\ irr = {} /\ "keyboard" \in Device /\ out # NONE
  BY DEF TakeKey, RequestInv, Device, NONE
<1>2. Taken("keyboard") /\ out' = NONE /\ UNCHANGED <<queue, sent>>
  BY <1>1 DEF TakeKey
<1>3. taken' \in [Device -> Seq(Byte)] /\ FlowInv'
  BY <1>1, <1>2, TakenFlow
<1>4. DevicesTypeOK'
  BY <1>2, <1>3 DEF TakeKey, AfterKey, mouse, DevicesTypeOK
<1>. QED
  BY <1>1, <1>3, <1>4 DEF TakeKey, AfterKey, RequestInv

\* The mouse's handler keeps it, and the position on the screen.
LEMMA TakeMouseIInv ==
  ASSUME DevicesIInv, TakeMouse
  PROVE  DevicesIInv'
<1>. USE DEF DevicesIInv
<1>1. out.from = "mouse" /\ irr = {} /\ "mouse" \in Device /\ out # NONE
  BY DEF TakeMouse, RequestInv, Device, NONE
<1>2. Taken("mouse") /\ out' = NONE /\ UNCHANGED <<queue, sent>>
  BY <1>1 DEF TakeMouse
<1>3. taken' \in [Device -> Seq(Byte)] /\ FlowInv'
  BY <1>1, <1>2, TakenFlow
<1>4. out.byte \in Byte
  BY <1>1 DEF DevicesTypeOK, NONE
<1>5. mouse_packet' \in [1 .. 3 -> Byte] /\ mouse_cycle' \in 0 .. 2
  <2>1. mouse_packet' = [mouse_packet EXCEPT ![mouse_cycle + 1] = out.byte]
    BY <1>1 DEF TakeMouse
  <2>2. mouse_cycle' = (mouse_cycle + 1) % 3
    BY <1>1 DEF TakeMouse
  <2>3. mouse_packet \in [1 .. 3 -> Byte] /\ mouse_cycle \in 0 .. 2
    BY DEF DevicesTypeOK
  <2>. QED
    BY <1>4, <2>1, <2>2, <2>3
<1>6. mouse_x' \in 0 .. SCR_WIDTH - 1 /\ mouse_y' \in 0 .. SCR_HEIGHT - 1
  <2>1. CASE UNCHANGED <<mouse_x, mouse_y>>
    BY <2>1 DEF DevicesTypeOK
  <2>2. CASE mouse_cycle' = 0
    <3>1. /\ Bit(16) \in Int
          /\ Bit(32) \in Int
          /\ mouse_packet'[2] \in Int
          /\ mouse_packet'[3] \in Int
      BY <1>5 DEF Bit, Byte
    <3>. HIDE DEF Bit
    <3>2. /\ mouse_x + mouse_packet'[2] - 256 * Bit(16) \in Int
          /\ mouse_y - (mouse_packet'[3] - 256 * Bit(32)) \in Int
      BY SMTT(30), <3>1 DEF DevicesTypeOK
    <3>. QED
      BY <1>1, <2>2, <3>2, ClampedType, DevicesAssumption DEF TakeMouse
  <2>. QED
    BY <1>1, <2>1, <2>2 DEF TakeMouse
<1>7. DevicesTypeOK'
  BY <1>2, <1>3, <1>5, <1>6 DEF TakeMouse, DevicesTypeOK
<1>. QED
  BY <1>1, <1>3, <1>7 DEF TakeMouse, RequestInv

\* Every step of a device, of the hardware between and of a handler keeps it.
LEMMA NextDevicesIInv == DevicesIInv /\ [DevicesNext]_devices => DevicesIInv'
<1>. SUFFICES ASSUME DevicesIInv, [DevicesNext]_devices
              PROVE  DevicesIInv'
  OBVIOUS
<1>1. CASE Press
  <2>1. <<Len(sent["keyboard"]) + 1>> \in Seq(Byte)
    <3>1. sent["keyboard"] \in Seq(Byte)
      BY DEF DevicesIInv, DevicesTypeOK, Device
    <3>2. Len(sent["keyboard"]) \in Nat
      BY <3>1, LenProperties
    <3>3. Len(sent["keyboard"]) + 1 \in Byte
      <4>. DEFINE n == Len(sent["keyboard"])
      <4>1. n \in Nat /\ n < KEYS /\ KEYS \in 0 .. 255
        BY <1>1, <3>2, DevicesAssumption DEF Press
      <4>. HIDE DEF n
      <4>2. n + 1 \in Byte
        BY <4>1 DEF Byte
      <4>. QED
        BY <4>2 DEF n
    <3>. QED
      BY <3>3
  <2>. QED
    BY <1>1, <2>1, SendIInv DEF Press, Device
<1>2. CASE Move
  <2>1. \A m \in Moves : m \in Seq(Byte)
    BY DevicesAssumption, PacketIsSeq
  <2>. QED
    BY <1>2, <2>1, SendIInv DEF Move, Device
<1>3. CASE \E d \in Device : Load(d)
  BY <1>3, LoadIInv
<1>4. CASE AcceptKeyboard
  BY <1>4 DEF AcceptKeyboard, mouse, DevicesIInv, DevicesTypeOK, FlowInv, Held, RequestInv
<1>5. CASE AcceptMouse
  BY <1>5 DEF AcceptMouse, mouse, DevicesIInv, DevicesTypeOK, FlowInv, Held, RequestInv
<1>6. CASE TakeKey
  BY <1>6, TakeKeyIInv
<1>7. CASE KeyEnd
  BY <1>7 DEF KeyEnd, mouse, DevicesIInv, DevicesTypeOK, FlowInv, Held, RequestInv
<1>8. CASE MouseEnd
  BY <1>8 DEF MouseEnd, mouse, DevicesIInv, DevicesTypeOK, FlowInv, Held, RequestInv
<1>9. CASE TakeMouse
  BY <1>9, TakeMouseIInv
<1>10. CASE UNCHANGED devices
  BY <1>10 DEF devices, mouse, DevicesIInv, DevicesTypeOK, FlowInv, Held, RequestInv
<1>. QED
  BY <1>1, <1>2, <1>3, <1>4, <1>5, <1>6, <1>7, <1>8, <1>9, <1>10 DEF DevicesNext, Controllers, Handlers
-----------------------------------------------------------------------------
\* Buffers, packet and position keep their types: the pointer stays on the screen.
THEOREM DevicesTypeCorrect == DevicesSpec => []DevicesTypeOK
<1>1. DevicesIInv => DevicesTypeOK
  BY DEF DevicesIInv
<1>. QED
  BY InitDevicesIInv, NextDevicesIInv, <1>1, PTL DEF DevicesSpec

\* Whatever keyboard and mouse send and whichever interrupt comes first, each
\* handler takes its own device's bytes, in order and once.
THEOREM DevicesToOwnHandler == DevicesSpec => []ToOwnHandler
<1>1. ASSUME DevicesIInv
      PROVE  ToOwnHandler
  <2>. SUFFICES ASSUME NEW d \in Device
                PROVE  IsPrefix(taken[d], sent[d])
    BY DEF ToOwnHandler
  <2>1. taken[d] \in Seq(Byte) /\ Held(d) \in Seq(Byte) /\ queue[d] \in Seq(Byte)
    BY <1>1, HeldType DEF DevicesIInv, DevicesTypeOK
  <2>2. sent[d] = taken[d] \o (Held(d) \o queue[d])
    BY <1>1, <2>1, BytesAssociate DEF DevicesIInv, FlowInv
  <2>3. Held(d) \o queue[d] \in Seq(Byte)
    BY <2>1, ConcatProperties
  <2>. QED
    BY <2>1, <2>2, <2>3, TakenIsPrefix
<1>. QED
  BY InitDevicesIInv, NextDevicesIInv, <1>1, PTL DEF DevicesSpec
-----------------------------------------------------------------------------
\* A set of numbers that is not empty has a least one.
LEMMA Least ==
  ASSUME NEW T, T \subseteq Nat, T # {}
  PROVE  \E n \in T : \A k \in T : n <= k
<1>1. PICK n \in T : \A k \in T : ~ (<<k, n>> \in OpToRel(<, Nat))
  BY NatLessThanWellFounded, WFMin
<1>2. ASSUME NEW k \in T
      PROVE  n <= k
  <2>1. n \in Nat /\ k \in Nat
    OBVIOUS
  <2>2. ~ (<<k, n>> \in OpToRel(<, Nat))
    BY <1>1
  <2>3. k < n => <<k, n>> \in OpToRel(<, Nat)
    BY <2>1 DEF OpToRel
  <2>4. ~ (k < n)
    BY <2>2, <2>3, Zenon
  <2>. QED
    BY <2>1, <2>4
<1>. QED
  BY <1>2

\* Induction, for a set of numbers.
LEMMA AllNumbers ==
  ASSUME NEW T, 0 \in T, \A n \in Nat : n \in T => n + 1 \in T
  PROVE  Nat \subseteq T
<1>. SUFFICES ASSUME Nat \ T # {}
              PROVE  FALSE
  OBVIOUS
<1>1. PICK n \in Nat \ T : \A k \in Nat \ T : n <= k
  BY Least
<1>2. n - 1 \in Nat /\ n - 1 \in T
  BY <1>1
<1>. QED
  BY <1>1, <1>2
-----------------------------------------------------------------------------
\* Where packet n of the bytes s moves the mouse from p.
Moved(s, n, p) == LET m == SubSeq(s, 3 * n - 2, 3 * n)
                  IN [x |-> Within(p.x + Signed(m[2], m[1], 16), SCR_WIDTH),
                      y |-> Within(p.y - Signed(m[3], m[1], 32), SCR_HEIGHT)]

Start == [x |-> 0, y |-> 0]

\* Position, for any bytes.
Track(s) == CHOOSE f : f = [n \in Nat |-> IF n = 0 THEN Start ELSE Moved(s, n, f[n - 1])]

LEMMA PositionIsTrack == Position = Track(sent["mouse"])
  BY DEF Position, Track, Moved, Start

\* A track of n packets.
TrackOf(f, s, n) == /\ f = [k \in 0 .. n |-> f[k]]
                    /\ f[0] = Start
                    /\ \A k \in 1 .. n : f[k] = Moved(s, k, f[k - 1])

\* Two tracks agree as far as both go.
LEMMA TracksAgree ==
  ASSUME NEW s, NEW m \in Nat, NEW n \in Nat, NEW f, NEW g, TrackOf(f, s, m), TrackOf(g, s, n)
  PROVE  \A k \in Nat : k <= m /\ k <= n => f[k] = g[k]
<1>. DEFINE T == {k \in Nat : k <= m /\ k <= n => f[k] = g[k]}
<1>1. 0 \in T
  BY DEF TrackOf
<1>2. ASSUME NEW k \in Nat, k \in T
      PROVE  k + 1 \in T
  <2>. SUFFICES ASSUME k + 1 <= m, k + 1 <= n
                PROVE  f[k + 1] = g[k + 1]
    OBVIOUS
  <2>1. k + 1 \in 1 .. m /\ k + 1 \in 1 .. n /\ (k + 1) - 1 = k
    OBVIOUS
  <2>2. f[k + 1] = Moved(s, k + 1, f[k]) /\ g[k + 1] = Moved(s, k + 1, g[k])
    BY <2>1 DEF TrackOf
  <2>3. f[k] = g[k]
    BY <1>2
  <2>. QED
    BY <2>2, <2>3
<1>. HIDE DEF T
<1>3. Nat \subseteq T
  BY <1>1, <1>2, AllNumbers
<1>. QED
  BY <1>3 DEF T

\* There is a track of any length.
LEMMA TrackExists ==
  ASSUME NEW s
  PROVE  \A n \in Nat : \E f : TrackOf(f, s, n)
<1>. DEFINE T == {n \in Nat : \E f : TrackOf(f, s, n)}
<1>1. 0 \in T
  <2>. DEFINE f == [k \in 0 .. 0 |-> Start]
  <2>1. TrackOf(f, s, 0)
    BY DEF TrackOf
  <2>. QED
    BY <2>1
<1>2. ASSUME NEW n \in Nat, n \in T
      PROVE  n + 1 \in T
  <2>1. PICK f : TrackOf(f, s, n)
    BY <1>2
  <2>. DEFINE g == [k \in 0 .. n + 1 |-> IF k = n + 1 THEN Moved(s, n + 1, f[n]) ELSE f[k]]
  <2>2. /\ g = [k \in 0 .. n + 1 |-> g[k]]
        /\ g[0] = Start
    BY <2>1 DEF TrackOf
  <2>3. ASSUME NEW k \in 1 .. n + 1
        PROVE  g[k] = Moved(s, k, g[k - 1])
    <3>1. g[k - 1] = f[k - 1]
      OBVIOUS
    <3>2. CASE k = n + 1
      <4>1. k - 1 = n
        BY <3>2
      <4>. QED
        BY <3>1, <3>2, <4>1
    <3>3. CASE k \in 1 .. n
      <4>1. g[k] = f[k]
        BY <3>3
      <4>. HIDE DEF g
      <4>2. f[k] = Moved(s, k, f[k - 1])
        BY <2>1, <3>3 DEF TrackOf
      <4>. QED
        BY <3>1, <4>1, <4>2
    <3>. QED
      BY <3>2, <3>3
  <2>. HIDE DEF g
  <2>4. TrackOf(g, s, n + 1)
    BY <2>2, <2>3 DEF TrackOf
  <2>. QED
    BY <2>4
<1>. HIDE DEF T
<1>3. Nat \subseteq T
  BY <1>1, <1>2, AllNumbers
<1>. QED
  BY <1>3 DEF T

\* What the recursive definition computes.
LEMMA TrackUnfolds ==
  ASSUME NEW s
  PROVE  /\ Track(s)[0] = Start
         /\ \A n \in Nat : Track(s)[n + 1] = Moved(s, n + 1, Track(s)[n])
<1>. DEFINE part(n) == CHOOSE f : TrackOf(f, s, n)
            whole == [n \in Nat |-> part(n)[n]]
<1>1. \A n \in Nat : TrackOf(part(n), s, n)
  BY TrackExists
<1>. HIDE DEF part
<1>2. whole[0] = Start
  BY <1>1 DEF TrackOf
<1>3. ASSUME NEW n \in Nat
      PROVE  whole[n + 1] = Moved(s, n + 1, whole[n])
  <2>1. n + 1 \in Nat /\ n + 1 \in 1 .. n + 1 /\ (n + 1) - 1 = n
    OBVIOUS
  <2>2. part(n + 1)[n + 1] = Moved(s, n + 1, part(n + 1)[n])
    BY <1>1, <2>1 DEF TrackOf
  <2>3. part(n + 1)[n] = part(n)[n]
    BY <1>1, <2>1, TracksAgree
  <2>. QED
    BY <2>1, <2>2, <2>3
<1>4. whole = [n \in Nat |-> IF n = 0 THEN Start ELSE Moved(s, n, whole[n - 1])]
  <2>1. ASSUME NEW n \in Nat, n # 0
        PROVE  whole[n] = Moved(s, n, whole[n - 1])
    <3>1. n - 1 \in Nat /\ (n - 1) + 1 = n
      BY <2>1
    <3>. HIDE DEF whole
    <3>. QED
      BY <1>3, <3>1
  <2>2. whole = [n \in Nat |-> whole[n]]
    OBVIOUS
  <2>. HIDE DEF whole
  <2>. QED
    BY <1>2, <2>1, <2>2
<1>. HIDE DEF whole
<1>5. Track(s) = [n \in Nat |-> IF n = 0 THEN Start ELSE Moved(s, n, Track(s)[n - 1])]
  BY <1>4 DEF Track
<1>6. Track(s)[0] = Start
  BY <1>5
<1>7. ASSUME NEW n \in Nat
      PROVE  Track(s)[n + 1] = Moved(s, n + 1, Track(s)[n])
  <2>1. n + 1 \in Nat /\ n + 1 # 0 /\ (n + 1) - 1 = n
    OBVIOUS
  <2>. QED
    BY <1>5, <2>1
<1>. QED
  BY <1>6, <1>7
-----------------------------------------------------------------------------
\* A remainder of something that is too large or too small by less than a word.
LEMMA Wraps ==
  ASSUME NEW v \in Int
  PROVE  /\ 0 <= v /\ v < WORD => v % WORD = v
         /\ v < 0 /\ - WORD <= v => v % WORD = v + WORD
  BY DevicesAssumption

\* Clamping the wrapped sum is keeping the sum on the screen: an unsigned sum that is
\* negative lies in the upper half.
LEMMA ClampedIsWithin ==
  ASSUME NEW v \in Int, NEW size \in Nat \ {0}, WORD >= 2 * (size + 256),
         -256 <= v, v <= size + 255
  PROVE  Clamped(v % WORD, size) = Within(v, size)
<1>1. WORD \in Nat /\ size + 256 <= WORD \div 2 /\ WORD \div 2 <= WORD - 256
  BY DevicesAssumption
<1>2. CASE v < 0
  <2>1. v % WORD = v + WORD
    BY <1>1, <1>2, Wraps
  <2>. QED
    BY <1>1, <1>2, <2>1 DEF Clamped, Within
<1>3. CASE 0 <= v
  <2>1. v % WORD = v
    BY <1>1, <1>3, Wraps
  <2>. QED
    BY <1>1, <1>3, <2>1 DEF Clamped, Within
<1>. QED
  BY <1>2, <1>3

\* The bytes of the packet that the mouse's handler is collecting are the last it has
\* taken, and the position is where the packets before it lead.
PacketInv == LET t == taken["mouse"]
             IN /\ mouse_cycle = Len(t) % 3
                /\ \A k \in 1 .. mouse_cycle : mouse_packet[k] = t[Len(t) - mouse_cycle + k]
                /\ [x |-> mouse_x, y |-> mouse_y] = Track(t)[Len(t) \div 3]
\* More bytes do not change where the first packets lead.
LEMMA TrackOfMore ==
  ASSUME NEW s \in Seq(Byte), NEW r \in Seq(Byte)
  PROVE  \A n \in Nat : 3 * n <= Len(s) => Track(s \o r)[n] = Track(s)[n]
<1>. DEFINE more == s \o r
            T == {n \in Nat : 3 * n <= Len(s) => Track(more)[n] = Track(s)[n]}
<1>0. more \in Seq(Byte) /\ Len(more) >= Len(s) /\ \A i \in 1 .. Len(s) : more[i] = s[i]
  BY ConcatProperties, LenProperties
<1>. HIDE DEF more
<1>1. 0 \in T
  BY TrackUnfolds
<1>2. ASSUME NEW n \in Nat, n \in T
      PROVE  n + 1 \in T
  <2>. SUFFICES ASSUME 3 * (n + 1) <= Len(s)
                PROVE  Track(more)[n + 1] = Track(s)[n + 1]
    OBVIOUS
  <2>1. Track(more)[n] = Track(s)[n]
    BY <1>2
  <2>2. SubSeq(more, 3 * (n + 1) - 2, 3 * (n + 1)) = SubSeq(s, 3 * (n + 1) - 2, 3 * (n + 1))
    BY <1>0
  <2>3. Moved(more, n + 1, Track(s)[n]) = Moved(s, n + 1, Track(s)[n])
    BY <2>2 DEF Moved
  <2>. QED
    BY <2>1, <2>3, TrackUnfolds
<1>. HIDE DEF T
<1>3. Nat \subseteq T
  BY <1>1, <1>2, AllNumbers
<1>. QED
  BY <1>3 DEF T, more

\* What the handlers have taken, the rest follows.
LEMMA TakenOfSent ==
  ASSUME DevicesIInv, NEW d \in Device
  PROVE  /\ taken[d] \in Seq(Byte)
         /\ \E r \in Seq(Byte) : sent[d] = taken[d] \o r
<1>1. taken[d] \in Seq(Byte) /\ Held(d) \in Seq(Byte) /\ queue[d] \in Seq(Byte)
  BY HeldType DEF DevicesIInv, DevicesTypeOK
<1>2. sent[d] = taken[d] \o (Held(d) \o queue[d])
  BY <1>1, BytesAssociate DEF DevicesIInv, FlowInv
<1>3. Held(d) \o queue[d] \in Seq(Byte)
  BY <1>1, ConcatProperties
<1>. QED
  BY <1>1, <1>2, <1>3

LEMMA InitPacketInv == DevicesInit => PacketInv
<1>. SUFFICES ASSUME DevicesInit
              PROVE  PacketInv
  OBVIOUS
<1>1. taken["mouse"] = <<>> /\ Len(<<>>) = 0
  BY DEF DevicesInit, Device
<1>2. Track(<<>>)[0] = Start
  BY TrackUnfolds
<1>3. 0 % 3 = 0 /\ 0 \div 3 = 0
  OBVIOUS
<1>4. [x |-> mouse_x, y |-> mouse_y] = Start /\ mouse_cycle = 0
  BY DEF DevicesInit, Start
<1>. QED
  BY <1>1, <1>2, <1>3, <1>4 DEF PacketInv

\* The handler that takes the byte in the buffer adds it to the packet, and the third
\* one moves the mouse.
LEMMA TakePacketInv ==
  ASSUME DevicesIInv, PacketInv, TakeMouse
  PROVE  PacketInv'
<1>. DEFINE t == taken["mouse"]
            u == taken'["mouse"]
            n == Len(t) \div 3
<1>1. out.from = "mouse" /\ out # NONE /\ out.byte \in Byte
  BY DEF TakeMouse, DevicesIInv, DevicesTypeOK, RequestInv, Device, NONE
<1>2. t \in Seq(Byte) /\ u = Append(t, out.byte)
  BY <1>1 DEF TakeMouse, Taken, DevicesIInv, DevicesTypeOK, Device
<1>3. /\ u \in Seq(Byte)
      /\ Len(t) \in Nat
      /\ Len(u) = Len(t) + 1
      /\ u[Len(t) + 1] = out.byte
      /\ \A i \in 1 .. Len(t) : u[i] = t[i]
  BY <1>1, <1>2, AppendProperties, LenProperties
<1>4. /\ mouse_packet' = [mouse_packet EXCEPT ![mouse_cycle + 1] = out.byte]
      /\ mouse_cycle' = (mouse_cycle + 1) % 3
      /\ mouse_cycle' # 0 => UNCHANGED <<mouse_x, mouse_y>>
      /\ mouse_cycle' = 0 =>
           /\ mouse_x' = Clamped((mouse_x + mouse_packet'[2] - 256 * Bit(16)) % WORD, SCR_WIDTH)
           /\ mouse_y' =
                Clamped((mouse_y - (mouse_packet'[3] - 256 * Bit(32))) % WORD, SCR_HEIGHT)
  BY <1>1 DEF TakeMouse
<1>5. /\ mouse_packet \in [1 .. 3 -> Byte]
      /\ mouse_x \in 0 .. SCR_WIDTH - 1
      /\ mouse_y \in 0 .. SCR_HEIGHT - 1
  BY DEF DevicesIInv, DevicesTypeOK
<1>6. /\ mouse_cycle = Len(t) % 3
      /\ \A k \in 1 .. mouse_cycle : mouse_packet[k] = t[Len(t) - mouse_cycle + k]
      /\ [x |-> mouse_x, y |-> mouse_y] = Track(t)[n]
  BY DEF PacketInv
<1>. HIDE DEF t, u
<1>7. mouse_cycle \in 0 .. 2 /\ n \in Nat /\ Len(t) = 3 * n + mouse_cycle
  BY <1>3, <1>6
<1>8. \A k \in 1 .. mouse_cycle + 1 : mouse_packet'[k] = u[3 * n + k]
  <2>. SUFFICES ASSUME NEW k \in 1 .. mouse_cycle + 1
                PROVE  mouse_packet'[k] = u[3 * n + k]
    OBVIOUS
  <2>1. CASE k = mouse_cycle + 1
    BY <1>3, <1>4, <1>5, <1>7, <2>1
  <2>2. CASE k \in 1 .. mouse_cycle
    <3>1. mouse_packet'[k] = mouse_packet[k]
      BY <1>4, <1>5, <1>7, <2>2
    <3>2. mouse_packet[k] = t[3 * n + k]
      BY <1>6, <1>7, <2>2, SMTT(30)
    <3>3. 3 * n + k \in 1 .. Len(t)
      BY <1>7, <2>2
    <3>. QED
      BY <1>3, <3>1, <3>2, <3>3
  <2>. QED
    BY <1>7, <2>1, <2>2
<1>9. Track(u)[n] = Track(t)[n]
  <2>1. <<out.byte>> \in Seq(Byte) /\ u = t \o <<out.byte>>
    BY <1>1, <1>2, AppendIsConcat
  <2>2. 3 * n <= Len(t)
    BY <1>7
  <2>. QED
    BY <1>2, <1>7, <2>1, <2>2, TrackOfMore
<1>10. CASE mouse_cycle # 2
  <2>1. mouse_cycle' = mouse_cycle + 1 /\ mouse_cycle' # 0
    BY <1>4, <1>7, <1>10
  <2>2. Len(u) % 3 = mouse_cycle + 1 /\ Len(u) \div 3 = n
    BY <1>3, <1>7, <1>10
  <2>3. \A k \in 1 .. mouse_cycle' : mouse_packet'[k] = u[Len(u) - mouse_cycle' + k]
    <3>1. Len(u) - mouse_cycle' = 3 * n
      BY <1>3, <1>7, <2>1
    <3>. QED
      BY <1>8, <2>1, <3>1
  <2>. QED
    BY <1>4, <1>6, <1>9, <2>1, <2>2, <2>3 DEF PacketInv, u
<1>11. CASE mouse_cycle = 2
  <2>1. mouse_cycle' = 0 /\ Len(u) = 3 * n + 3 /\ Len(u) % 3 = 0 /\ Len(u) \div 3 = n + 1
    BY <1>3, <1>4, <1>7, <1>11
  <2>2. [x |-> mouse_x', y |-> mouse_y'] = Moved(u, n + 1, [x |-> mouse_x, y |-> mouse_y])
    <3>. DEFINE m == SubSeq(u, 3 * (n + 1) - 2, 3 * (n + 1))
                p == mouse_packet'
    <3>1. m[1] = u[3 * n + 1] /\ m[2] = u[3 * n + 2] /\ m[3] = u[3 * n + 3]
      BY <1>3, <1>7, <2>1
    <3>2. p[1] = m[1] /\ p[2] = m[2] /\ p[3] = m[3]
      BY <1>8, <1>11, <3>1
    <3>3. p[1] \in Byte /\ p[2] \in Byte /\ p[3] \in Byte
      BY <1>1, <1>4, <1>5, <1>11
    <3>. HIDE DEF m
    <3>4. /\ p[2] - 256 * Bit(16) = Signed(m[2], m[1], 16)
          /\ p[3] - 256 * Bit(32) = Signed(m[3], m[1], 32)
          /\ Signed(m[2], m[1], 16) \in -256 .. 255
          /\ Signed(m[3], m[1], 32) \in -256 .. 255
          /\ Bit(16) \in 0 .. 1
          /\ Bit(32) \in 0 .. 1
      <4>1. \A k \in 1 .. 3 : p[k] = m[k] /\ m[k] \in Nat /\ m[k] <= 255
        BY <3>2, <3>3 DEF Byte
      <4>2. Bit(16) = (m[1] \div 16) % 2 /\ Bit(32) = (m[1] \div 32) % 2
        BY <4>1 DEF Bit
      <4>3. m[1] \div 16 \in Int /\ m[1] \div 32 \in Int
        BY <4>1
      <4>4. Bit(16) \in {0, 1} /\ Bit(32) \in {0, 1}
        BY <4>2, <4>3
      <4>5. Signed(m[2], m[1], 16) = m[2] - IF Bit(16) = 1 THEN 256 ELSE 0
        BY <4>2 DEF Signed
      <4>6. Signed(m[3], m[1], 32) = m[3] - IF Bit(32) = 1 THEN 256 ELSE 0
        BY <4>2 DEF Signed
      <4>. QED
        BY <4>1, <4>4, <4>5, <4>6
    <3>. HIDE DEF p
    <3>5. mouse_x' = Within(mouse_x + Signed(m[2], m[1], 16), SCR_WIDTH)
      <4>. DEFINE v == mouse_x + Signed(m[2], m[1], 16)
      <4>1. v \in Int /\ -256 <= v /\ v <= SCR_WIDTH + 255
        BY <1>5, <3>4, DevicesAssumption
      <4>2. mouse_x' = Clamped(v % WORD, SCR_WIDTH)
        <5>1. mouse_x + p[2] - 256 * Bit(16) = v
          BY <1>5, <3>2, <3>3, <3>4 DEF Byte
        <5>. QED
          BY <1>4, <2>1, <5>1 DEF p
      <4>. HIDE DEF v
      <4>. QED
        BY <4>1, <4>2, ClampedIsWithin, DevicesAssumption DEF v
    <3>6. mouse_y' = Within(mouse_y - Signed(m[3], m[1], 32), SCR_HEIGHT)
      <4>. DEFINE v == mouse_y - Signed(m[3], m[1], 32)
      <4>1. v \in Int /\ -256 <= v /\ v <= SCR_HEIGHT + 255
        BY <1>5, <3>4, DevicesAssumption
      <4>2. mouse_y' = Clamped(v % WORD, SCR_HEIGHT)
        BY <1>4, <2>1, <3>4 DEF p
      <4>. HIDE DEF v
      <4>. QED
        BY <4>1, <4>2, ClampedIsWithin, DevicesAssumption DEF v
    <3>. QED
      BY <3>5, <3>6 DEF Moved, m
  <2>3. Track(u)[n + 1] = Moved(u, n + 1, Track(u)[n])
    BY <1>7, TrackUnfolds
  <2>4. [x |-> mouse_x', y |-> mouse_y'] = Track(u)[n + 1]
    BY <1>6, <1>9, <2>2, <2>3
  <2>. QED
    BY <2>1, <2>4 DEF PacketInv, u
<1>. QED
  BY <1>10, <1>11

\* Every step keeps packet and position.
LEMMA NextPacketInv == DevicesIInv /\ PacketInv /\ [DevicesNext]_devices => PacketInv'
<1>. SUFFICES ASSUME DevicesIInv, PacketInv, [DevicesNext]_devices
              PROVE  PacketInv'
  OBVIOUS
<1>1. CASE UNCHANGED mouse /\ taken'["mouse"] = taken["mouse"]
  BY <1>1 DEF PacketInv, mouse
<1>2. CASE TakeKey
  <2>1. UNCHANGED mouse
    BY <1>2 DEF TakeKey
  <2>2. taken'["mouse"] = taken["mouse"]
    <3>1. taken' = [taken EXCEPT !["keyboard"] = Append(@, out.byte)] \/ taken' = taken
      BY <1>2 DEF TakeKey, Taken
    <3>. QED
      BY <3>1 DEF DevicesIInv, DevicesTypeOK, Device
  <2>. QED
    BY <1>1, <2>1, <2>2
<1>3. CASE TakeMouse
  BY <1>3, TakePacketInv
<1>4. ASSUME Press \/ Move \/ Controllers \/ KeyEnd \/ MouseEnd
      PROVE  PacketInv'
  <2>1. UNCHANGED mouse /\ taken' = taken
    BY <1>4
    DEF Press, Move, Send, Controllers, Load, AcceptKeyboard, AcceptMouse, KeyEnd, MouseEnd
  <2>. QED
    BY <1>1, <2>1
<1>5. CASE UNCHANGED devices
  BY <1>1, <1>5 DEF devices, mouse
<1>. QED
  BY <1>2, <1>3, <1>4, <1>5 DEF DevicesNext, Handlers

\* The position follows the bytes the mouse has sent, whatever they are and however large
\* the screen is: no byte is lost between two packets, no sum that wraps is mistaken.
THEOREM DevicesPositionFollowsBytes == DevicesSpec => []PositionFollowsBytes
<1>1. ASSUME DevicesIInv, PacketInv
      PROVE  PositionFollowsBytes
  <2>. DEFINE t == taken["mouse"]
              n == Len(t) \div 3
  <2>1. PICK r \in Seq(Byte) : sent["mouse"] = t \o r
    BY <1>1, TakenOfSent DEF Device
  <2>2. t \in Seq(Byte)
    BY <1>1, TakenOfSent DEF Device
  <2>. HIDE DEF t
  <2>3. n \in Nat /\ 3 * n <= Len(t)
    <3>1. Len(t) \in Nat
      BY <2>2
    <3>. QED
      BY <3>1
  <2>. HIDE DEF n
  <2>4. Track(sent["mouse"])[n] = Track(t)[n]
    BY <2>1, <2>2, <2>3, TrackOfMore
  <2>. QED
    BY <1>1, <2>4, PositionIsTrack DEF t, n, PacketInv, PositionFollowsBytes
<1>. QED
  BY InitDevicesIInv, NextDevicesIInv, InitPacketInv, NextPacketInv, <1>1, PTL DEF DevicesSpec
=============================================================================
