------------------------------ MODULE Ps2Input ------------------------------
(***************************************************************************)
(* The PS/2 controller and its two drivers, keyboard.c and mouse.c.        *)
(*                                                                         *)
(* Keyboard, mouse and controller answer through one output buffer: `out'  *)
(* holds the bytes waiting, the first is the one a read of port 0x60       *)
(* gives.  A byte that becomes the first raises the interrupt of its       *)
(* device, if the configuration byte allows it.  The timer tick and IRQ 1  *)
(* read all bytes as scancodes, whoever sent them; IRQ 12 reads one.       *)
(* Handlers run with interrupts off, each is one step; the set-up code and *)
(* the reader of the ring of characters are interrupted anywhere.          *)
(*                                                                         *)
(* keyboard_init and mouse_init run first, with interrupts on.  The waits  *)
(* for the controller to take a command end at once: it always does.       *)
(* Values nobody reads again (a slot of the ring once it was read, the     *)
(* bytes of a packet once it was used) are kept at zero, so that states    *)
(* that cannot be told apart are one.                                      *)
(***************************************************************************)
EXTENDS Integers, Sequences, FiniteSets

CONSTANTS
    KB_BUF_SIZE,
    Keys,          \* bound: the scancodes the user types
    Low, High,     \* sc_low and sc_high: scancode -> character, 0 if none
    Packets,       \* the three bytes of each movement the mouse can make
    Width, Height, \* the screen
    Config,        \* the configuration byte the firmware leaves
    MaxKeys,       \* bound: bytes the keyboard sends
    MaxPackets,    \* bound: packets the mouse sends
    MaxOut         \* the bytes the controller and the devices can hold

LShift == 42
RShift == 54
Release == 128     \* added to the scancode of a key that goes up
Ack == 250

Bit(v, b) == (v \div b) % 2 = 1
SetBit(v, b) == IF Bit(v, b) THEN v ELSE v + b
ClearBit(v, b) == IF Bit(v, b) THEN v - b ELSE v

\* Every first byte of a movement has the bit the mouse always sets.
ASSUME Ps2Constants ==
    /\ KB_BUF_SIZE \in Nat \ {0, 1}
    /\ Width \in Nat \ {0} /\ Height \in Nat \ {0}
    /\ Config \in 0 .. 255
    /\ MaxKeys \in Nat /\ MaxPackets \in Nat /\ MaxOut \in Nat
    /\ Keys \subseteq 0 .. Release - 1 /\ Keys \cap {LShift, RShift} = {}
    /\ Low \in [0 .. Release - 1 -> Nat] /\ High \in [0 .. Release - 1 -> Nat]
    /\ \A p \in Packets : p \in [1 .. 3 -> 0 .. 255] /\ Bit(p[1], 8)

\* Variables of the devices, the drivers, the set-up code and the reader, and
\* what the user did, to compare with.
VARIABLES
    out,        \* bytes waiting: who sent each, its value, the character it means
    pending,    \* interrupts raised and not yet taken
    config,     \* the configuration byte of the controller
    streaming,  \* the mouse sends packets
    last,       \* what a read of an empty output buffer gives: the last byte
    kb_buf, kb_head, kb_tail, kb_shift,
    mouse_cycle, mouse_byte, mouse_x, mouse_y, mouse_left_click,
    boot,       \* where keyboard_init and mouse_init are
    reply,      \* their local cfg, status
    reader,     \* where the caller of keyboard_getchar is, and its character
    down,       \* the shift keys held down
    expect,     \* the characters typed and not yet got
    aim,        \* where the packets sent take the pointer, and the button
    sent,       \* keys and packets sent
    astray,     \* the set-up code did not get an answer it asked for
    lost,       \* a driver did not get a byte of its device, or forgot a packet
    bothDown,   \* both shift keys were held down
    dropped     \* a character met a full ring

controller == <<pending, config, streaming, last>>
keyboard == <<kb_buf, kb_head, kb_tail, kb_shift, dropped>>
mouse == <<mouse_cycle, mouse_byte, mouse_x, mouse_y, mouse_left_click>>
user == <<down, aim, sent, bothDown>>
vars == <<out, controller, keyboard, mouse, boot, reply, reader, user, expect,
          astray, lost>>

Init ==
    /\ out = <<>> /\ pending = {} /\ config = Config
    /\ streaming = FALSE /\ last = 0
    /\ kb_buf = [i \in 0 .. KB_BUF_SIZE - 1 |-> 0]
    /\ kb_head = 0 /\ kb_tail = 0 /\ kb_shift = FALSE
    /\ mouse_cycle = 0 /\ mouse_byte = <<0, 0, 0>>
    /\ mouse_x = Width \div 2 /\ mouse_y = Height \div 2
    /\ mouse_left_click = FALSE
    /\ boot = "kbd_command" /\ reply = 0
    /\ reader = [at |-> "test", char |-> 0]
    /\ down = {} /\ expect = <<>>
    /\ aim = [x |-> Width \div 2, y |-> Height \div 2, left |-> FALSE]
    /\ sent = [keys |-> 0, packets |-> 0]
    /\ astray = FALSE /\ lost = FALSE /\ bothDown = FALSE /\ dropped = FALSE

-----------------------------------------------------------------------------
(* The controller.                                                         *)

\* The interrupt the first byte of a buffer raises.
Raised(q, cfg) ==
    IF q = <<>> THEN {}
    ELSE IF q[1].from \in {"mouse", "ack"}
         THEN IF Bit(cfg, 2) THEN {12} ELSE {}
         ELSE IF Bit(cfg, 1) THEN {1} ELSE {}

\* Bytes arrive behind those waiting.
Send(bytes) ==
    /\ Len(out) + Len(bytes) <= MaxOut
    /\ out' = out \o bytes
    /\ pending' = IF out = <<>> THEN pending \cup Raised(bytes, config) ELSE pending

\* A key goes down or up; the character it stands for, by the keys held.
KeyByte(sc, char) ==
    /\ sent.keys < MaxKeys /\ ~ Bit(config, 16)
    /\ Send(<<[from |-> "key", val |-> sc, char |-> char]>>)
    /\ expect' = IF char = 0 THEN expect ELSE Append(expect, char)
    /\ sent' = [sent EXCEPT !.keys = @ + 1]
    /\ UNCHANGED <<config, streaming, last, keyboard, mouse, boot, reply, reader,
                   aim, astray, lost>>

TypeKey(sc) ==
    /\ KeyByte(sc, IF down = {} THEN Low[sc] ELSE High[sc])
    /\ UNCHANGED <<down, bothDown>>

ShiftDown(s) ==
    /\ s \notin down
    /\ KeyByte(s, 0)
    /\ down' = down \cup {s}
    /\ bothDown' = (bothDown \/ down # {})

ShiftUp(s) ==
    /\ s \in down
    /\ KeyByte(s + Release, 0)
    /\ down' = down \ {s}
    /\ UNCHANGED bothDown

Clamp(v, max) == IF v < 0 THEN 0 ELSE IF v >= max THEN max - 1 ELSE v

\* The movement in a packet: a byte with its sign in the first one.
MovementX(p) == p[2] - (IF Bit(p[1], 16) THEN 256 ELSE 0)
MovementY(p) == p[3] - (IF Bit(p[1], 32) THEN 256 ELSE 0)

MovePointer(p) ==
    /\ streaming /\ ~ Bit(config, 32) /\ sent.packets < MaxPackets
    /\ Send([i \in 1 .. 3 |-> [from |-> "mouse", val |-> p[i], char |-> 0]])
    /\ aim' = [x |-> Clamp(aim.x + MovementX(p), Width),
               y |-> Clamp(aim.y - MovementY(p), Height),
               left |-> Bit(p[1], 1)]
    /\ sent' = [sent EXCEPT !.packets = @ + 1]
    /\ UNCHANGED <<config, streaming, last, keyboard, mouse, boot, reply, reader,
                   down, bothDown, expect, astray, lost>>

-----------------------------------------------------------------------------
(* keyboard.c: scancodes to characters.                                    *)

\* Variant: the ring takes a character in its last slot.
PushIntoLast(k, c) ==
    [k EXCEPT !.buf[k.tail] = c, !.tail = (k.tail + 1) % KB_BUF_SIZE]

\* kb_push: the ring keeps one slot free; a full ring drops the character.
Push(k, c) ==
    LET next == (k.tail + 1) % KB_BUF_SIZE
    IN  IF next = kb_head THEN [k EXCEPT !.dropped = TRUE]
        ELSE [k EXCEPT !.buf[k.tail] = c, !.tail = next]

\* kb_process.
Process(k, sc) ==
    CASE sc \in {LShift, RShift} -> [k EXCEPT !.shift = TRUE]
      [] sc \in {LShift + Release, RShift + Release} -> [k EXCEPT !.shift = FALSE]
      [] sc >= Release /\ sc - Release \notin {LShift, RShift} -> k
      [] sc < Release /\ sc \notin {LShift, RShift} ->
           LET c == IF k.shift THEN High[sc] ELSE Low[sc]
           IN  IF c = 0 THEN k ELSE Push(k, c)

\* The loop of keyboard_poll: every byte is a scancode to it.
Drained ==
    LET k[i \in 0 .. Len(out)] ==
          IF i = 0 THEN [buf |-> kb_buf, tail |-> kb_tail, shift |-> kb_shift,
                         dropped |-> dropped]
          ELSE Process(k[i - 1], out[i].val)
    IN  k[Len(out)]

\* Only the set-up code can read the last byte again.
Kept(val) == IF boot = "run" THEN 0 ELSE val

From(who) == \E i \in 1 .. Len(out) : out[i].from = who

Drain ==
    /\ kb_buf' = Drained.buf /\ kb_tail' = Drained.tail
    /\ kb_shift' = Drained.shift /\ dropped' = Drained.dropped
    /\ last' = IF out = <<>> THEN last ELSE Kept(out[Len(out)].val)
    /\ out' = <<>>
    /\ astray' = (astray \/ From("controller") \/ From("ack"))
    /\ lost' = (lost \/ From("mouse"))

\* timer_callback polls on every tick.
Tick ==
    /\ out # <<>>
    /\ Drain
    /\ UNCHANGED <<pending, config, streaming, kb_head, mouse, boot, reply, reader,
                   user, expect>>

\* IRQ 1, kept as a backup: there is no handler until keyboard_init ends.
KeyboardRegistered == boot \notin {"kbd_command", "kbd_wait", "kbd_read", "kbd_write"}
MouseRegistered == boot \in {"center", "run"}

Irq1 ==
    /\ 1 \in pending
    /\ pending' = pending \ {1}
    /\ IF KeyboardRegistered THEN Drain
       ELSE UNCHANGED <<out, last, kb_buf, kb_tail, kb_shift, dropped, astray, lost>>
    /\ UNCHANGED <<config, streaming, kb_head, mouse, boot, reply, reader, user,
                   expect>>

-----------------------------------------------------------------------------
(* mouse.c.                                                                *)

\* Reading the first byte lets the next one raise its interrupt.
ReadByte(taken) ==
    /\ last' = Kept(out[1].val)
    /\ out' = Tail(out)
    /\ pending' = (pending \ {taken}) \cup Raised(Tail(out), config)

\* Variant: the sign bit of the horizontal movement is not looked at.
ApplyUnsigned(p) ==
    /\ mouse_x' = Clamp(mouse_x + p[2], Width)
    /\ mouse_y' = Clamp(mouse_y - MovementY(p), Height)
    /\ mouse_left_click' = Bit(p[1], 1)

\* Variant: the movement is not clamped.
ApplyUnclamped(p) ==
    /\ mouse_x' = mouse_x + MovementX(p)
    /\ mouse_y' = mouse_y - MovementY(p)
    /\ mouse_left_click' = Bit(p[1], 1)

\* A whole packet moves the pointer.
Apply(p) ==
    /\ mouse_x' = Clamp(mouse_x + MovementX(p), Width)
    /\ mouse_y' = Clamp(mouse_y - MovementY(p), Height)
    /\ mouse_left_click' = Bit(p[1], 1)

\* mouse_handler: a byte goes into the packet; the third one ends it, and the
\* packet is used if its first byte has the bit every first byte has.  The bytes of a
\* packet that has ended are not read again, and are cleared here.
TakeMouseByte ==
    LET p == [mouse_byte EXCEPT ![mouse_cycle + 1] = out[1].val]
    IN  /\ ReadByte(12)
        /\ mouse_byte' = IF mouse_cycle = 2 THEN <<0, 0, 0>> ELSE p
        /\ mouse_cycle' = (mouse_cycle + 1) % 3
        /\ IF mouse_cycle = 2 /\ Bit(p[1], 8) THEN Apply(p)
           ELSE UNCHANGED <<mouse_x, mouse_y, mouse_left_click>>
        /\ lost' = (lost \/ out[1].from = "ack")

\* IRQ 12; a byte that is not the mouse's stays, and so does any byte as long as
\* mouse_init has not registered the handler.  IRQ 1 goes first.
Irq12 ==
    /\ 12 \in pending /\ 1 \notin pending
    /\ IF MouseRegistered /\ out # <<>> /\ out[1].from \in {"mouse", "ack"}
       THEN TakeMouseByte
       ELSE /\ pending' = pending \ {12}
            /\ UNCHANGED <<out, last, mouse, lost>>
    /\ UNCHANGED <<config, streaming, keyboard, boot, reply, reader, user, expect,
                   astray>>

-----------------------------------------------------------------------------
(* keyboard_init and mouse_init.                                           *)

\* The value of port 0x60: the first byte, or the last one read again.
PortValue == IF out = <<>> THEN last ELSE out[1].val

\* A command whose answer is a byte of the controller or of the mouse.
Ask(at, next, who, val) ==
    /\ boot = at /\ boot' = next
    /\ Send(<<[from |-> who, val |-> val, char |-> 0]>>)
    /\ UNCHANGED <<config, last, keyboard, mouse, reply, reader, user, expect,
                   astray, lost>>

\* keyboard_init waits for a byte as long as it takes.
KbdWait ==
    /\ boot = "kbd_wait" /\ out # <<>>
    /\ boot' = "kbd_read"
    /\ UNCHANGED <<out, controller, keyboard, mouse, reply, reader, user, expect,
                   astray, lost>>

\* The byte the set-up code reads, whether or not it is the answer.  mouse_wait gives
\* up after a while, so mouse_init may read at any time.
ReadReply(at, next, who) ==
    /\ boot = at /\ boot' = next
    /\ reply' = IF who = "controller" THEN PortValue ELSE 0
    /\ IF out = <<>> THEN UNCHANGED <<out, pending, last>> ELSE ReadByte(0)
    /\ astray' = (astray \/ out = <<>> \/ out[1].from # who)
    /\ lost' = (lost \/ (out # <<>> /\ out[1].from \in {"key", "mouse"}))
    /\ UNCHANGED <<config, streaming, keyboard, mouse, reader, user, expect>>

\* The new configuration byte, made of the reply.
WriteConfig(at, next, value) ==
    /\ boot = at /\ boot' = next
    /\ config' = value /\ reply' = 0
    /\ UNCHANGED <<out, pending, streaming, last, keyboard, mouse, reader, user,
                   expect, astray, lost>>

\* Variant: the interrupt of the mouse is not enabled.
MouseConfigNoIrq(v) == ClearBit(v, 32)

KbdConfig(v) == ClearBit(SetBit(v, 1), 16)
MouseConfig(v) == ClearBit(SetBit(v, 2), 32)

KeyboardInit ==
    \/ Ask("kbd_command", "kbd_wait", "controller", config) /\ UNCHANGED streaming
    \/ KbdWait
    \/ ReadReply("kbd_read", "kbd_write", "controller")
    \/ WriteConfig("kbd_write", "mouse_enable", KbdConfig(reply))

\* The handler is registered; then the pointer goes to the middle, whatever packets
\* came in between.
Center ==
    /\ boot = "center" /\ boot' = "run"
    /\ mouse_x' = Width \div 2 /\ mouse_y' = Height \div 2
    /\ mouse_left_click' = FALSE /\ last' = 0
    /\ lost' = (lost \/ <<mouse_x, mouse_y, mouse_left_click>>
                         # <<Width \div 2, Height \div 2, FALSE>>)
    /\ UNCHANGED <<out, pending, config, streaming, keyboard, mouse_cycle,
                   mouse_byte, reply, reader, user, expect, astray>>

MouseInit ==
    \/ WriteConfig("mouse_enable", "mouse_command", ClearBit(config, 32))
    \/ Ask("mouse_command", "mouse_read", "controller", config) /\ UNCHANGED streaming
    \/ ReadReply("mouse_read", "mouse_write", "controller")
    \/ WriteConfig("mouse_write", "defaults", MouseConfig(reply))
    \/ Ask("defaults", "defaults_read", "ack", Ack) /\ UNCHANGED streaming
    \/ ReadReply("defaults_read", "stream", "ack")
    \/ Ask("stream", "stream_read", "ack", Ack) /\ streaming' = TRUE
    \/ ReadReply("stream_read", "center", "ack")
    \/ Center

-----------------------------------------------------------------------------
(* keyboard_getchar, called by the shell's thread again and again.         *)

\* An empty ring gives 0, which changes nothing.
ReaderTake ==
    /\ boot = "run" /\ reader.at = "test" /\ kb_head # kb_tail
    /\ reader' = [at |-> "advance", char |-> kb_buf[kb_head]]
    /\ UNCHANGED <<out, controller, keyboard, mouse, boot, reply, user, expect,
                   astray, lost>>

\* The slot it leaves is not read again; it is cleared so that one ring is one state.
ReaderAdvance ==
    /\ reader.at = "advance"
    /\ kb_head' = (kb_head + 1) % KB_BUF_SIZE
    /\ kb_buf' = [kb_buf EXCEPT ![kb_head] = 0]
    /\ reader' = [at |-> "test", char |-> 0]
    /\ expect' = IF expect = <<>> THEN expect ELSE Tail(expect)
    /\ UNCHANGED <<out, controller, kb_tail, kb_shift, dropped, mouse,
                   boot, reply, user, astray, lost>>

-----------------------------------------------------------------------------

Devices == \/ \E sc \in Keys : TypeKey(sc)
           \/ \E s \in {LShift, RShift} : ShiftDown(s) \/ ShiftUp(s)
           \/ \E p \in Packets : MovePointer(p)

Setup == KeyboardInit \/ MouseInit

Next == \/ Devices
        \/ Tick \/ Irq1 \/ Irq12
        \/ Setup
        \/ ReaderTake \/ ReaderAdvance

Spec == Init /\ [][Next]_vars

\* The boot code runs on between interrupts, and the timer ticks.
FairSpec == Spec /\ WF_vars(Setup) /\ WF_vars(Tick)

-----------------------------------------------------------------------------
(* Properties.                                                             *)

Byte == [from : {"key", "mouse", "controller", "ack"}, val : 0 .. 255, char : Nat]
Slot == 0 .. KB_BUF_SIZE - 1
Pointer == [x : 0 .. Width - 1, y : 0 .. Height - 1, left : BOOLEAN]

\* Every variable has its type; the pointer stays on the screen.
TypeOK ==
    /\ out \in Seq(Byte) /\ pending \subseteq {1, 12} /\ config \in 0 .. 255
    /\ streaming \in BOOLEAN /\ last \in 0 .. 255 /\ reply \in 0 .. 255
    /\ kb_buf \in [Slot -> Nat] /\ kb_head \in Slot /\ kb_tail \in Slot
    /\ kb_shift \in BOOLEAN /\ dropped \in BOOLEAN
    /\ mouse_cycle \in 0 .. 2 /\ mouse_byte \in [1 .. 3 -> 0 .. 255]
    /\ [x |-> mouse_x, y |-> mouse_y, left |-> mouse_left_click] \in Pointer
    /\ boot \in {"kbd_command", "kbd_wait", "kbd_read", "kbd_write", "mouse_enable",
                 "mouse_command", "mouse_read", "mouse_write", "defaults",
                 "defaults_read", "stream", "stream_read", "center", "run"}
    /\ reader \in [at : {"test", "advance"}, char : Nat]
    /\ down \subseteq {LShift, RShift} /\ expect \in Seq(Nat) /\ aim \in Pointer
    /\ sent \in [keys : 0 .. MaxKeys, packets : 0 .. MaxPackets]
    /\ astray \in BOOLEAN /\ lost \in BOOLEAN /\ bothDown \in BOOLEAN

\* The characters in the ring, and those of the keys still in the controller.
Ring == [i \in 1 .. (kb_tail - kb_head) % KB_BUF_SIZE |->
            kb_buf[(kb_head + i - 1) % KB_BUF_SIZE]]
Coming ==
    LET meant[i \in 0 .. Len(out)] ==
          IF i = 0 THEN <<>>
          ELSE IF out[i].char = 0 THEN meant[i - 1]
          ELSE Append(meant[i - 1], out[i].char)
    IN  meant[Len(out)]

\* What was typed and not yet got is in the ring and on its way, in order, each
\* character once and in the right case, and getchar holds the oldest - unless a
\* byte went to the wrong reader, both shift keys were down, or the ring was full.
KeysInOrder ==
    ~ lost /\ ~ astray /\ ~ bothDown /\ ~ dropped =>
        /\ expect = Ring \o Coming
        /\ reader.at = "advance" => expect # <<>> /\ reader.char = Head(expect)

\* As long as no byte went to the wrong reader, the driver is in step with the
\* packets, and the pointer is where they take it when all of them have come.
PointerTracks ==
    ~ lost =>
        LET left == Cardinality({i \in 1 .. Len(out) : out[i].from = "mouse"})
        IN  /\ mouse_cycle = (3 - (left % 3)) % 3
            /\ left = 0 => [x |-> mouse_x, y |-> mouse_y, left |-> mouse_left_click] = aim

\* The set-up ends with the keyboard, the mouse and their interrupts enabled and
\* the other bits as they were, unless another reader took an answer.
BootEnds ==
    <>(\/ astray
       \/ /\ boot = "run"
          /\ Bit(config, 1) /\ Bit(config, 2) /\ ~ Bit(config, 16) /\ ~ Bit(config, 32)
          /\ \A b \in {4, 8, 64, 128} : Bit(config, b) = Bit(Config, b))

=============================================================================
