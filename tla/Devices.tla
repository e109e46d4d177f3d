------------------------------ MODULE Devices ------------------------------
(***************************************************************************)
(* Keyboard and mouse: the interrupt handlers in kernel/syscalls.c and     *)
(* kernel/kernel.c, and the hardware between them and the devices.         *)
(*                                                                         *)
(* The two devices share the controller's one output buffer, and each byte *)
(* in it raises the interrupt of its device, through the one interrupt     *)
(* controller or both.  The handlers run with interrupts disabled, but the *)
(* controller goes on.  What a key means is in Console.                    *)
(***************************************************************************)
EXTENDS Integers, Sequences, SequencesExt

CONSTANTS Moves,           \* the packets a mouse sends: three bytes each
          ACK,             \* the byte it answers a command with
          SCR_WIDTH, SCR_HEIGHT,
          WORD,            \* the values of an unsigned integer
          KEYS, PACKETS    \* bounds: keys pressed and packets sent

Byte == 0 .. 255

ASSUME DevicesAssumption ==
  /\ Moves \subseteq [1 .. 3 -> Byte]
  /\ ACK \in Byte
  /\ SCR_WIDTH \in Nat \ {0} /\ SCR_HEIGHT \in Nat \ {0}
  /\ WORD \in Nat /\ WORD >= 2 * (SCR_WIDTH + 256) /\ WORD >= 2 * (SCR_HEIGHT + 256)
  /\ KEYS \in 0 .. 255 /\ PACKETS \in Nat

Device == {"keyboard", "mouse"}

VARIABLES queue,        \* what each device has sent and the controller not taken
          out,          \* the output buffer
          irr,          \* interrupts requested
          isr,          \* interrupts in service
          handler,      \* the handler that runs, or the rest of the system
          mouse_packet,
          mouse_cycle,
          mouse_x, mouse_y,
          sent, taken   \* history: the bytes of each device, those of each handler

mouse == <<mouse_packet, mouse_cycle, mouse_x, mouse_y>>
devices == <<queue, out, irr, isr, handler, mouse_packet, mouse_cycle, mouse_x, mouse_y, sent, taken>>

NONE == [from |-> "none", byte |-> 0]

\* What mouse_init makes the mouse answer nobody reads.
Answer == [d \in Device |-> IF d = "mouse" THEN <<ACK>> ELSE <<>>]

DevicesInit == /\ queue = Answer
               /\ out = NONE
               /\ irr = {}
               /\ isr = {}
               /\ handler = "run"
               /\ mouse_packet = [n \in 1 .. 3 |-> 0]
               /\ mouse_cycle = 0
               /\ mouse_x = 0
               /\ mouse_y = 0
               /\ sent = Answer
               /\ taken = [d \in Device |-> <<>>]
-----------------------------------------------------------------------------
(* The devices and the controllers. *)

Send(d, bytes) == /\ queue' = [queue EXCEPT ![d] = @ \o bytes]
                  /\ sent' = [sent EXCEPT ![d] = @ \o bytes]
                  /\ UNCHANGED <<out, irr, isr, handler, mouse, taken>>

\* A key; which one does not matter, and so they are numbered.
Press == Len(sent["keyboard"]) < KEYS /\ Send("keyboard", <<Len(sent["keyboard"]) + 1>>)

Move == \E m \in Moves : Len(sent["mouse"]) <= 3 * (PACKETS - 1) + 1 /\ Send("mouse", m)

IRQ(d) == IF d = "keyboard" THEN 1 ELSE 12

\* The controller takes the next byte of either device.
Load(d) == /\ out = NONE
           /\ queue[d] # <<>>
           /\ out' = [from |-> d, byte |-> Head(queue[d])]
           /\ queue' = [queue EXCEPT ![d] = Tail(@)]
           /\ irr' = irr \cup {IRQ(d)}
           /\ UNCHANGED <<isr, handler, mouse, sent, taken>>

\* Interrupt 12 comes through input 2 of the first controller, which lets nothing
\* through that is not more urgent than what is in service.
AcceptKeyboard == /\ handler = "run"
                  /\ 1 \in irr
                  /\ 1 \notin isr
                  /\ irr' = irr \ {1}
                  /\ isr' = isr \cup {1}
                  /\ handler' = "key"
                  /\ UNCHANGED <<queue, out, mouse, sent, taken>>

AcceptMouse == /\ handler = "run"
               /\ 12 \in irr
               /\ 1 \notin irr
               /\ isr = {}
               /\ irr' = irr \ {12}
               /\ isr' = {2, 12}
               /\ handler' = "mouse"
               /\ UNCHANGED <<queue, out, mouse, sent, taken>>
-----------------------------------------------------------------------------
(* handle_keyboard *)

\* Mutant: the handler looks for another byte.
AfterKey_Another == IF out = NONE THEN "keyEnd" ELSE "key"

AfterKey == "keyEnd"

Taken(d) == taken' = [taken EXCEPT ![d] = Append(@, out.byte)]

TakeKey == /\ handler = "key"
           /\ handler' = AfterKey
           /\ \/ out # NONE /\ Taken("keyboard") /\ out' = NONE
              \/ out = NONE /\ UNCHANGED <<taken, out>>
           /\ UNCHANGED <<queue, irr, isr, mouse, sent>>

\* The end of interrupt, for the first controller.
KeyEnd == /\ handler = "keyEnd"
          /\ handler' = "run"
          /\ isr' = isr \ {1}
          /\ UNCHANGED <<queue, out, irr, mouse, sent, taken>>
-----------------------------------------------------------------------------
(* handle_mouse *)

\* Mutant: only the first controller is told.
Ended_First == {2}

\* What the ends of interrupt take out of service.
Ended == {12, 2}

MouseEnd == /\ handler = "mouse"
            /\ handler' = "mouseRead"
            /\ isr' = isr \ Ended
            /\ UNCHANGED <<queue, out, irr, mouse, sent, taken>>

\* A bit of the first byte is the sign of the second or third.
Bit(weight) == (mouse_packet'[1] \div weight) % 2

\* Mutant: the position is not below its start, but may be behind its end.
Clamped_Low(p, size) == IF p >= WORD \div 2 THEN 0 ELSE p

\* The upper half of the unsigned integers are the negative numbers.
Clamped(p, size) == IF p >= WORD \div 2 THEN 0
                    ELSE IF p >= size THEN size - 1 ELSE p

TakeMouse ==
  /\ handler = "mouseRead"
  /\ handler' = "run"
  /\ \/ /\ out # NONE
        /\ Taken("mouse")
        /\ out' = NONE
        /\ mouse_packet' = [mouse_packet EXCEPT ![mouse_cycle + 1] = out.byte]
        /\ mouse_cycle' = (mouse_cycle + 1) % 3
        /\ \/ /\ mouse_cycle' = 0
              /\ mouse_x' = Clamped((mouse_x + mouse_packet'[2] - 256 * Bit(16)) % WORD, SCR_WIDTH)
              /\ mouse_y' =
                   Clamped((mouse_y - (mouse_packet'[3] - 256 * Bit(32))) % WORD, SCR_HEIGHT)
           \/ mouse_cycle' # 0 /\ UNCHANGED <<mouse_x, mouse_y>>
     \/ out = NONE /\ UNCHANGED <<taken, out, mouse>>
  /\ UNCHANGED <<queue, irr, isr, sent>>

Controllers == (\E d \in Device : Load(d)) \/ AcceptKeyboard \/ AcceptMouse

Handlers == TakeKey \/ KeyEnd \/ MouseEnd \/ TakeMouse

DevicesNext == Press \/ Move \/ Controllers \/ Handlers

DevicesSpec == DevicesInit /\ [][DevicesNext]_devices

\* The hardware goes on, and so does a handler; nobody has to touch a device.
DevicesFairness == /\ \A d \in Device : SF_devices(Load(d))
                   /\ SF_devices(AcceptKeyboard) /\ SF_devices(AcceptMouse)
                   /\ WF_devices(Handlers)

FairDevicesSpec == DevicesSpec /\ DevicesFairness
-----------------------------------------------------------------------------
DevicesTypeOK == /\ queue \in [Device -> Seq(Byte)]
                 /\ out \in [from : Device, byte : Byte] \cup {NONE}
                 /\ irr \subseteq {1, 12}
                 /\ isr \subseteq {1, 2, 12}
                 /\ handler \in {"run", "key", "keyEnd", "mouse", "mouseRead"}
                 /\ mouse_packet \in [1 .. 3 -> Byte]
                 /\ mouse_cycle \in 0 .. 2
                 /\ mouse_x \in 0 .. SCR_WIDTH - 1
                 /\ mouse_y \in 0 .. SCR_HEIGHT - 1
                 /\ sent \in [Device -> Seq(Byte)]
                 /\ taken \in [Device -> Seq(Byte)]

\* Though neither handler looks where a byte comes from, each takes the bytes of
\* its own device, in the order they were sent and each of them once.
ToOwnHandler == \A d \in Device : IsPrefix(taken[d], sent[d])

\* A number of nine bits whose sign is the bit of that weight of the first byte.
Signed(byte, first, weight) == byte - IF (first \div weight) % 2 = 1 THEN 256 ELSE 0

Within(p, size) == IF p < 0 THEN 0 ELSE IF p < size THEN p ELSE size - 1

\* Where a mouse is after the first n packets of bytes.
Position[n \in Nat] ==
  IF n = 0 THEN [x |-> 0, y |-> 0]
  ELSE LET m == SubSeq(sent["mouse"], 3 * n - 2, 3 * n)
           p == Position[n - 1]
       IN [x |-> Within(p.x + Signed(m[2], m[1], 16), SCR_WIDTH),
           y |-> Within(p.y - Signed(m[3], m[1], 32), SCR_HEIGHT)]

\* The position follows the bytes the mouse has sent, cut into threes from the
\* first one on.  That is the answer to the command, and so every packet is made
\* of the last byte of one movement and the first two of the next.
PositionFollowsBytes ==
  [x |-> mouse_x, y |-> mouse_y] = Position[Len(taken["mouse"]) \div 3]

\* Every byte is taken, however the two devices alternate.
EveryByteTaken == \A d \in Device : []<>(taken[d] = sent[d])
=============================================================================
