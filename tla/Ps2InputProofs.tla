--------------------------- MODULE Ps2InputProofs ---------------------------
(***************************************************************************)
(* What is proved of Ps2Input for every size of the ring and the screen,   *)
(* every table of characters and every set of keys and movements.          *)
(***************************************************************************)
EXTENDS Ps2Input, SequenceTheorems, FiniteSetTheorems, WellFoundedInduction, TLAPS

-----------------------------------------------------------------------------
(* Numbers.                                                                *)

\* A set of naturals that is not empty has a least element.
LEMMA LeastElement ==
    ASSUME NEW S \in SUBSET Nat, S # {}
    PROVE  \E m \in S : \A n \in S : m <= n
<1> DEFINE Below(n) == 0 .. n - 1
           T == {Below(n) : n \in S}
<1>1. \A n \in S : Below(n) \in FiniteSubsetsOf(Nat)
  <2> SUFFICES ASSUME NEW n \in S PROVE Below(n) \in FiniteSubsetsOf(Nat)
    OBVIOUS
  <2>1. n - 1 \in Int /\ Below(n) \in SUBSET Nat
    OBVIOUS
  <2>2. IsFiniteSet(Below(n))
    BY <2>1, FS_Interval
  <2> HIDE DEF Below
  <2> QED
    BY <2>1, <2>2, Zenon DEF FiniteSubsetsOf
<1>2. T \subseteq FiniteSubsetsOf(Nat) /\ T # {}
  <2> HIDE DEF Below
  <2> QED
    BY <1>1
<1>3. PICK x \in T : \A y \in T : <<y, x>> \notin StrictSubsetOrdering(Nat)
  BY <1>2, FS_StrictSubsetOrderingWellFounded, WFMin, Zenon
<1>4. PICK m \in S : x = Below(m)
  OBVIOUS
<1>5. ASSUME NEW n \in S PROVE m <= n
  <2> SUFFICES ASSUME n < m PROVE FALSE
    OBVIOUS
  <2>1. Below(n) \subseteq Below(m) /\ n \in Below(m) /\ n \notin Below(n)
    OBVIOUS
  <2>2. <<Below(n), Below(m)>> \in StrictSubsetOrdering(Nat)
    BY <2>1 DEF StrictSubsetOrdering
  <2> QED
    BY <1>3, <1>4, <2>2
<1> QED
  BY <1>5


\* What holds of 0 and goes from each number to the next holds up to n.
LEMMA UpTo ==
    ASSUME NEW n \in Nat, NEW S, 0 \in S, \A i \in 0 .. n - 1 : i \in S => i + 1 \in S
    PROVE  \A i \in 0 .. n : i \in S
<1> DEFINE Missing == {i \in 0 .. n : i \notin S}
<1>1. SUFFICES ASSUME Missing # {} PROVE FALSE
  OBVIOUS
<1>2. Missing \in SUBSET Nat
  OBVIOUS
<1>3. PICK m \in Missing : \A i \in Missing : m <= i
  <2> HIDE DEF Missing
  <2> QED
    BY <1>1, <1>2, LeastElement
<1>4. m \in 1 .. n /\ m - 1 \in 0 .. n - 1 /\ (m - 1) + 1 = m
  OBVIOUS
<1>5. m - 1 \notin Missing
  <2>1. ~ (m <= m - 1)
    BY <1>4
  <2> HIDE DEF Missing
  <2> QED
    BY <1>3, <2>1
<1> QED
  BY <1>4, <1>5

\* Setting and clearing the bits of the configuration byte leaves a byte.
LEMMA BitsStay ==
    \A v \in 0 .. 255 :
        /\ KbdConfig(v) \in 0 .. 255 /\ MouseConfig(v) \in 0 .. 255
        /\ ClearBit(v, 32) \in 0 .. 255
<1> SUFFICES ASSUME NEW v \in 0 .. 255
             PROVE  /\ KbdConfig(v) \in 0 .. 255 /\ MouseConfig(v) \in 0 .. 255
                    /\ ClearBit(v, 32) \in 0 .. 255
  OBVIOUS
<1>1. SetBit(v, 1) \in 0 .. 255 /\ SetBit(v, 2) \in 0 .. 255
  BY Z3 DEF SetBit, Bit
<1>2. \A w \in 0 .. 255 : ClearBit(w, 16) \in 0 .. 255 /\ ClearBit(w, 32) \in 0 .. 255
  BY Z3 DEF ClearBit, Bit
<1> QED
  BY <1>1, <1>2 DEF KbdConfig, MouseConfig

-----------------------------------------------------------------------------
(* The loop of keyboard_poll.                                              *)

\* What the loop works on.
Keyboard == [buf : [Slot -> Nat], tail : Slot, shift : BOOLEAN, dropped : BOOLEAN]
KeyboardNow == [buf |-> kb_buf, tail |-> kb_tail, shift |-> kb_shift, dropped |-> dropped]

\* Its states, from before the first byte to after the last.
Loop(k) ==
    /\ DOMAIN k = 0 .. Len(out) /\ k[0] = KeyboardNow
    /\ \A i \in 1 .. Len(out) : k[i] = Process(k[i - 1], out[i].val)

LEMMA DrainedIs ==
    ASSUME Len(out) \in Nat
    PROVE  \E k : Loop(k) /\ Drained = k[Len(out)]
<1> DEFINE n == Len(out)
           Body(f, i) == IF i = 0 THEN KeyboardNow ELSE Process(f[i - 1], out[i].val)
           Reached == {m \in Nat : \E f : f = [i \in 0 .. m |-> Body(f, i)]}
<1>1. 0 \in Reached
  <2> DEFINE f == [i \in 0 .. 0 |-> KeyboardNow]
  <2>1. f = [i \in 0 .. 0 |-> Body(f, i)]
    OBVIOUS
  <2> QED
    BY <2>1
<1>2. ASSUME NEW m \in 0 .. n - 1, m \in Reached PROVE m + 1 \in Reached
  <2>1. PICK f : f = [i \in 0 .. m |-> Body(f, i)]
    BY <1>2
  <2> DEFINE g == [i \in 0 .. m + 1 |-> Body(f, i)]
  <2>2. \A i \in 0 .. m : g[i] = f[i]
    <3> HIDE DEF Body
    <3>1. \A i \in 0 .. m : f[i] = Body(f, i)
      BY <2>1
    <3>2. \A i \in 0 .. m : i \in 0 .. m + 1
      OBVIOUS
    <3> QED
      BY <3>1, <3>2
  <2>3. \A i \in 0 .. m + 1 : Body(g, i) = Body(f, i)
    <3> SUFFICES ASSUME NEW i \in 0 .. m + 1, i # 0 PROVE Body(g, i) = Body(f, i)
      OBVIOUS
    <3>1. i - 1 \in 0 .. m
      OBVIOUS
    <3>2. g[i - 1] = f[i - 1]
      BY <2>2, <3>1
    <3> HIDE DEF g
    <3> QED
      BY <3>2
  <2>4. g = [i \in 0 .. m + 1 |-> Body(g, i)]
    <3>1. g = [i \in 0 .. m + 1 |-> Body(f, i)]
      OBVIOUS
    <3> HIDE DEF g, Body
    <3> QED
      BY <2>3, <3>1
  <2>5. m + 1 \in Nat
    OBVIOUS
  <2> QED
    BY <2>4, <2>5
<1>3. n \in Reached
  <2>1. n \in Nat /\ n \in 0 .. n
    OBVIOUS
  <2> HIDE DEF Reached, n
  <2>2. \A i \in 0 .. n : i \in Reached
    BY <1>1, <1>2, <2>1, UpTo
  <2> QED
    BY <2>1, <2>2
<1> DEFINE k == CHOOSE f : f = [i \in 0 .. n |-> Body(f, i)]
<1>4. k = [i \in 0 .. n |-> Body(k, i)]
  <2>1. \E f : f = [i \in 0 .. n |-> Body(f, i)]
    BY <1>3
  <2> HIDE DEF Body, n
  <2> QED
    BY <2>1, Zenon
<1>5. Drained = k[n]
  BY DEF Drained, KeyboardNow
<1>6. /\ DOMAIN k = 0 .. n /\ k[0] = KeyboardNow
      /\ \A i \in 1 .. n : k[i] = Process(k[i - 1], out[i].val)
  <2> HIDE DEF k
  <2>1. DOMAIN k = 0 .. n /\ \A i \in 0 .. n : k[i] = Body(k, i)
    BY <1>4
  <2>2. 0 \in 0 .. n /\ \A i \in 1 .. n : i \in 0 .. n /\ i # 0
    OBVIOUS
  <2> QED
    BY <2>1, <2>2
<1> HIDE DEF k
<1> QED
  BY <1>5, <1>6 DEF Loop

\* kb_push keeps the ring a ring, and does not touch the slot at head of a ring that
\* is not empty.
LEMMA PushIs ==
    ASSUME NEW k \in Keyboard, NEW c \in Nat, kb_head \in Slot
    PROVE  /\ Push(k, c) \in Keyboard /\ Push(k, c).shift = k.shift
           /\ k.tail # kb_head => /\ Push(k, c).tail # kb_head
                                  /\ Push(k, c).buf[kb_head] = k.buf[kb_head]
           /\ ~ Push(k, c).dropped =>
                /\ ~ k.dropped /\ (k.tail + 1) % KB_BUF_SIZE # kb_head
                /\ Push(k, c).buf = [k.buf EXCEPT ![k.tail] = c]
                /\ Push(k, c).tail = (k.tail + 1) % KB_BUF_SIZE
<1> DEFINE next == (k.tail + 1) % KB_BUF_SIZE
<1>1. next \in Slot
  <2>1. KB_BUF_SIZE \in Nat \ {0} /\ k.tail + 1 \in Nat
    BY Ps2Constants DEF Keyboard, Slot
  <2> QED
    BY <2>1 DEF Slot
<1> HIDE DEF next
<1>2. Push(k, c) = IF next = kb_head THEN [k EXCEPT !.dropped = TRUE]
                   ELSE [k EXCEPT !.buf[k.tail] = c, !.tail = next]
  BY DEF Push, next
<1>3. k.buf \in [Slot -> Nat] /\ k.tail \in Slot /\ k.shift \in BOOLEAN /\ k.dropped \in BOOLEAN
  BY DEF Keyboard
<1>4. CASE next = kb_head
  <2>1. Push(k, c) = [k EXCEPT !.dropped = TRUE]
    BY <1>2, <1>4
  <2>2. /\ Push(k, c).dropped = TRUE /\ Push(k, c).buf = k.buf
        /\ Push(k, c).tail = k.tail /\ Push(k, c).shift = k.shift
        /\ Push(k, c) \in Keyboard
    BY <2>1 DEF Keyboard
  <2> QED
    BY <2>2
<1>5. CASE next # kb_head
  <2>1. Push(k, c) = [k EXCEPT !.buf[k.tail] = c, !.tail = next]
    BY <1>2, <1>5
  <2>2. /\ Push(k, c).dropped = k.dropped /\ Push(k, c).buf = [k.buf EXCEPT ![k.tail] = c]
        /\ Push(k, c).tail = next /\ Push(k, c).shift = k.shift
    BY <2>1 DEF Keyboard
  <2>3. Push(k, c) \in Keyboard
    <3> DEFINE b == [k.buf EXCEPT ![k.tail] = c]
    <3>1. b \in [Slot -> Nat]
      BY <1>3
    <3>2. Push(k, c) = [k EXCEPT !.buf = b, !.tail = next]
      BY <2>1 DEF Keyboard
    <3> HIDE DEF b
    <3> QED
      BY <1>1, <3>1, <3>2 DEF Keyboard
  <2>4. k.tail # kb_head => [k.buf EXCEPT ![k.tail] = c][kb_head] = k.buf[kb_head]
    BY <1>3
  <2> QED
    BY <1>5, <2>2, <2>3, <2>4 DEF next
<1> QED
  BY <1>4, <1>5

\* A scancode that is no shift key, and the character it stands for.
Plain(sc) == sc < Release /\ sc \notin {LShift, RShift}
CharOf(shift, sc) == IF shift THEN High[sc] ELSE Low[sc]
ShiftAfter(shift, sc) ==
    (sc \in {LShift, RShift}) \/ (shift /\ sc \notin {LShift + Release, RShift + Release})

LEMMA Scancodes ==
    ASSUME NEW sc \in 0 .. 255
    PROVE  \/ /\ sc \in {LShift, RShift} /\ ~ Plain(sc)
              /\ sc \notin {LShift + Release, RShift + Release}
              /\ \A k : Process(k, sc) = [k EXCEPT !.shift = TRUE]
           \/ /\ sc \in {LShift + Release, RShift + Release} /\ ~ Plain(sc)
              /\ sc \notin {LShift, RShift}
              /\ \A k : Process(k, sc) = [k EXCEPT !.shift = FALSE]
           \/ /\ sc \notin {LShift, RShift, LShift + Release, RShift + Release} /\ ~ Plain(sc)
              /\ \A k : Process(k, sc) = k
           \/ /\ sc \notin {LShift, RShift, LShift + Release, RShift + Release} /\ Plain(sc)
              /\ Low[sc] \in Nat /\ High[sc] \in Nat
              /\ \A k : Process(k, sc) = IF CharOf(k.shift, sc) = 0 THEN k
                                         ELSE Push(k, CharOf(k.shift, sc))
<1>1. CASE sc \in {42, 54}
  BY <1>1 DEF Process, Plain, LShift, RShift, Release
<1>2. CASE sc \in {170, 182}
  BY <1>2 DEF Process, Plain, LShift, RShift, Release
<1>3. CASE sc >= 128 /\ sc \notin {170, 182}
  BY <1>3 DEF Process, Plain, LShift, RShift, Release
<1>4. CASE sc < 128 /\ sc \notin {42, 54}
  <2>1. sc \in 0 .. Release - 1
    BY <1>4 DEF Release
  <2>2. Low[sc] \in Nat /\ High[sc] \in Nat
    BY <2>1, Ps2Constants
  <2>3. \A k : Process(k, sc) = IF CharOf(k.shift, sc) = 0 THEN k
                                ELSE Push(k, CharOf(k.shift, sc))
    BY <1>4 DEF Process, CharOf, LShift, RShift, Release
  <2> QED
    BY <1>4, <2>2, <2>3 DEF Plain, LShift, RShift, Release
<1> QED
  BY <1>1, <1>2, <1>3, <1>4

LEMMA ProcessIs ==
    ASSUME NEW k \in Keyboard, NEW sc \in 0 .. 255, kb_head \in Slot
    PROVE  /\ Process(k, sc) \in Keyboard
           /\ Process(k, sc).shift = ShiftAfter(k.shift, sc)
           /\ k.tail # kb_head => /\ Process(k, sc).tail # kb_head
                                  /\ Process(k, sc).buf[kb_head] = k.buf[kb_head]
           /\ ~ Process(k, sc).dropped => ~ k.dropped
           /\ ~ Plain(sc) \/ CharOf(k.shift, sc) = 0 =>
                Process(k, sc).buf = k.buf /\ Process(k, sc).tail = k.tail
           /\ Plain(sc) /\ CharOf(k.shift, sc) # 0 =>
                /\ CharOf(k.shift, sc) \in Nat
                /\ Process(k, sc) = Push(k, CharOf(k.shift, sc))
<1>1. k.shift \in BOOLEAN /\ k.tail \in Slot
  BY DEF Keyboard
<1>2. CASE /\ sc \in {LShift, RShift} /\ ~ Plain(sc)
           /\ Process(k, sc) = [k EXCEPT !.shift = TRUE]
  BY <1>1, <1>2 DEF Keyboard, ShiftAfter
<1>3. CASE /\ sc \in {LShift + Release, RShift + Release} /\ ~ Plain(sc)
           /\ sc \notin {LShift, RShift}
           /\ Process(k, sc) = [k EXCEPT !.shift = FALSE]
  BY <1>1, <1>3 DEF Keyboard, ShiftAfter
<1>4. CASE /\ sc \notin {LShift, RShift, LShift + Release, RShift + Release} /\ ~ Plain(sc)
           /\ Process(k, sc) = k
  BY <1>1, <1>4 DEF ShiftAfter
<1>5. CASE /\ sc \notin {LShift, RShift, LShift + Release, RShift + Release} /\ Plain(sc)
           /\ Low[sc] \in Nat /\ High[sc] \in Nat
           /\ Process(k, sc) = IF CharOf(k.shift, sc) = 0 THEN k
                               ELSE Push(k, CharOf(k.shift, sc))
  <2>1. CharOf(k.shift, sc) \in Nat
    BY <1>5 DEF CharOf
  <2>2. ShiftAfter(k.shift, sc) = k.shift
    BY <1>1, <1>5 DEF ShiftAfter
  <2>3. CASE CharOf(k.shift, sc) = 0
    <3>1. Process(k, sc) = k
      BY <1>5, <2>3
    <3> QED
      BY <2>2, <2>3, <3>1
  <2>4. CASE CharOf(k.shift, sc) # 0
    <3>1. Process(k, sc) = Push(k, CharOf(k.shift, sc))
      BY <1>5, <2>4
    <3> DEFINE c == CharOf(k.shift, sc)
               r == Process(k, sc)
    <3>2. c \in Nat /\ r = Push(k, c)
      BY <2>1, <3>1
    <3> HIDE DEF c, r
    <3>3. /\ r \in Keyboard /\ r.shift = k.shift /\ (~ r.dropped => ~ k.dropped)
          /\ k.tail # kb_head => r.tail # kb_head /\ r.buf[kb_head] = k.buf[kb_head]
      BY <3>2, PushIs
    <3> QED
      BY <1>5, <2>2, <2>4, <3>2, <3>3 DEF c, r
  <2> QED
    BY <2>3, <2>4
<1> QED
  BY <1>2, <1>3, <1>4, <1>5, Scancodes

LEMMA Waiting ==
    TypeOK => /\ Len(out) \in Nat /\ out \in Seq(Byte)
              /\ \A i \in 1 .. Len(out) : out[i] \in Byte /\ out[i].val \in 0 .. 255
<1> SUFFICES ASSUME TypeOK
             PROVE  /\ Len(out) \in Nat /\ out \in Seq(Byte)
                    /\ \A i \in 1 .. Len(out) : out[i] \in Byte /\ out[i].val \in 0 .. 255
  OBVIOUS
<1>1. out \in Seq(Byte)
  BY DEF TypeOK
<1>2. Len(out) \in Nat /\ \A i \in 1 .. Len(out) : out[i] \in Byte
  BY <1>1
<1>3. \A b \in Byte : b.val \in 0 .. 255
  BY DEF Byte
<1> QED
  BY <1>1, <1>2, <1>3

\* The loop keeps the types, and the character at head of a ring that is not empty.
LEMMA LoopIs ==
    ASSUME TypeOK, NEW k, Loop(k)
    PROVE  \A i \in 0 .. Len(out) :
              /\ k[i] \in Keyboard
              /\ kb_tail # kb_head => k[i].tail # kb_head /\ k[i].buf[kb_head] = kb_buf[kb_head]
<1> DEFINE Fine(f) == /\ f \in Keyboard
                      /\ kb_tail # kb_head =>
                            f.tail # kb_head /\ f.buf[kb_head] = kb_buf[kb_head]
           S == {i \in 0 .. Len(out) : Fine(k[i])}
<1>1. Len(out) \in Nat /\ \A i \in 1 .. Len(out) : out[i].val \in 0 .. 255
  BY Waiting
<1>2. kb_head \in Slot
  BY DEF TypeOK
<1>3. 0 \in S
  <2>1. KeyboardNow \in Keyboard /\ KeyboardNow.tail = kb_tail /\ KeyboardNow.buf = kb_buf
    BY DEF TypeOK, KeyboardNow, Keyboard
  <2> QED
    BY <1>1, <2>1 DEF Loop
<1>4. ASSUME NEW i \in 0 .. Len(out) - 1, i \in S PROVE i + 1 \in S
  <2>1. i + 1 \in 1 .. Len(out) /\ (i + 1) - 1 = i
    BY <1>1
  <2>2. k[i + 1] = Process(k[i], out[i + 1].val) /\ out[i + 1].val \in 0 .. 255
    BY <1>1, <2>1 DEF Loop
  <2>3. Fine(k[i + 1])
    <3> DEFINE f == k[i]
               sc == out[i + 1].val
    <3>1. Fine(f) /\ k[i + 1] = Process(f, sc) /\ sc \in 0 .. 255
      BY <1>4, <2>2
    <3> HIDE DEF f, sc
    <3>2. /\ Process(f, sc) \in Keyboard
          /\ f.tail # kb_head => /\ Process(f, sc).tail # kb_head
                                 /\ Process(f, sc).buf[kb_head] = f.buf[kb_head]
      BY <1>2, <3>1, ProcessIs
    <3>3. Fine(Process(f, sc))
      BY <3>1, <3>2
    <3> QED
      BY <3>1, <3>3
  <2> QED
    BY <2>1, <2>3
<1>5. \A i \in 0 .. Len(out) : i \in S
  <2> HIDE DEF S
  <2> QED
    BY <1>1, <1>3, <1>4, UpTo
<1> QED
  BY <1>5

LEMMA DrainedTypes ==
    ASSUME TypeOK
    PROVE  /\ Drained \in Keyboard
           /\ kb_tail # kb_head => Drained.tail # kb_head /\ Drained.buf[kb_head] = kb_buf[kb_head]
<1>1. Len(out) \in Nat /\ Len(out) \in 0 .. Len(out)
  BY Waiting
<1>2. PICK k : Loop(k) /\ Drained = k[Len(out)]
  BY <1>1, DrainedIs
<1> QED
  BY <1>1, <1>2, LoopIs

-----------------------------------------------------------------------------
(* The types.                                                              *)

LEMMA ClampIs ==
    \A v \in Int : Clamp(v, Width) \in 0 .. Width - 1 /\ Clamp(v, Height) \in 0 .. Height - 1
BY Ps2Constants DEF Clamp

LEMMA Middle == Width \div 2 \in 0 .. Width - 1 /\ Height \div 2 \in 0 .. Height - 1
<1>1. \A n \in Nat \ {0} : n \div 2 \in 0 .. n - 1
  BY Z3
<1> QED
  BY <1>1, Ps2Constants

LEMMA MovementIs ==
    ASSUME NEW p \in [1 .. 3 -> 0 .. 255]
    PROVE  MovementX(p) \in Int /\ MovementY(p) \in Int /\ Bit(p[1], 1) \in BOOLEAN
BY DEF MovementX, MovementY, Bit

LEMMA RaisedIs == \A q, cfg : Raised(q, cfg) \subseteq {1, 12}
BY DEF Raised

\* What is sent is bytes, and arrives behind the others.
LEMMA SendTypes ==
    ASSUME TypeOK, NEW bytes \in Seq(Byte), Send(bytes)
    PROVE  out' \in Seq(Byte) /\ out' = out \o bytes /\ pending' \subseteq {1, 12}
<1>1. out \in Seq(Byte) /\ pending \subseteq {1, 12}
  BY DEF TypeOK
<1>2. out' = out \o bytes
  BY DEF Send
<1>3. out' \in Seq(Byte)
  BY <1>1, <1>2
<1>4. pending' \subseteq {1, 12}
  BY <1>1, RaisedIs DEF Send
<1> QED
  BY <1>2, <1>3, <1>4

LEMMA OneByte ==
    ASSUME NEW who \in {"key", "mouse", "controller", "ack"}, NEW val \in 0 .. 255,
           NEW char \in Nat
    PROVE  <<[from |-> who, val |-> val, char |-> char]>> \in Seq(Byte)
<1> DEFINE b == [from |-> who, val |-> val, char |-> char]
<1>1. b \in Byte
  BY DEF Byte
<1> HIDE DEF b
<1>2. <<b>> \in Seq(Byte)
  BY <1>1
<1> QED
  BY <1>2 DEF b

LEMMA KeyTypes ==
    ASSUME TypeOK, NEW sc \in 0 .. 255, NEW char \in Nat, KeyByte(sc, char)
    PROVE  /\ out' \in Seq(Byte) /\ pending' \subseteq {1, 12}
           /\ expect' \in Seq(Nat)
           /\ sent' \in [keys : 0 .. MaxKeys, packets : 0 .. MaxPackets]
<1>1. out' \in Seq(Byte) /\ pending' \subseteq {1, 12}
  BY SendTypes, OneByte DEF KeyByte
<1>2. expect' \in Seq(Nat)
  <2>1. expect \in Seq(Nat) /\ expect' = IF char = 0 THEN expect ELSE Append(expect, char)
    BY DEF TypeOK, KeyByte
  <2> QED
    BY <2>1
<1>3. sent' \in [keys : 0 .. MaxKeys, packets : 0 .. MaxPackets]
  <2>1. /\ sent \in [keys : 0 .. MaxKeys, packets : 0 .. MaxPackets]
        /\ sent.keys < MaxKeys /\ sent' = [sent EXCEPT !.keys = @ + 1]
    BY DEF TypeOK, KeyByte
  <2>2. sent.keys + 1 \in 0 .. MaxKeys
    BY <2>1, Ps2Constants
  <2> QED
    BY <2>1, <2>2
<1> QED
  BY <1>1, <1>2, <1>3

LEMMA PacketBytes ==
    ASSUME NEW p \in [1 .. 3 -> 0 .. 255]
    PROVE  LET q == [i \in 1 .. 3 |-> [from |-> "mouse", val |-> p[i], char |-> 0]]
           IN  /\ q \in Seq(Byte) /\ Len(q) = 3
               /\ \A i \in 1 .. 3 : q[i] = [from |-> "mouse", val |-> p[i], char |-> 0]
<1> DEFINE q == [i \in 1 .. 3 |-> [from |-> "mouse", val |-> p[i], char |-> 0]]
<1>1. \A i \in 1 .. 3 : [from |-> "mouse", val |-> p[i], char |-> 0] \in Byte
  BY DEF Byte
<1>2. q \in [1 .. 3 -> Byte]
  BY <1>1
<1>3. q \in Seq(Byte) /\ Len(q) = 3
  <2> HIDE DEF q
  <2>1. q \in Seq(Byte)
    <3>1. \E n \in Nat : q \in [1 .. n -> Byte]
      BY <1>2
    <3> QED
      BY <3>1, SeqDef
  <2>2. 1 .. 3 = 1 .. Len(q) /\ Len(q) \in Nat
    BY <1>2, <2>1, LenProperties, Zenon
  <2>3. Len(q) = 3
    <3> DEFINE n == Len(q)
    <3> HIDE DEF n
    <3>1. 1 .. 3 = 1 .. n /\ n \in Nat
      BY <2>2 DEF n
    <3>2. 3 \in 1 .. 3
      OBVIOUS
    <3>3. 3 \in 1 .. n
      BY <3>1, <3>2, Zenon
    <3>4. n \in 1 .. n
      BY <3>1, <3>3
    <3>5. n \in 1 .. 3
      BY <3>1, <3>4, Zenon
    <3>6. 3 <= n /\ n <= 3
      BY <3>1, <3>3, <3>5
    <3>7. n = 3
      BY <3>1, <3>6
    <3> QED
      BY <3>7 DEF n
  <2> QED
    BY <2>1, <2>3
<1> QED
  BY <1>3

LEMMA PacketTypes ==
    ASSUME TypeOK, NEW p \in Packets, MovePointer(p)
    PROVE  /\ out' \in Seq(Byte) /\ pending' \subseteq {1, 12}
           /\ aim' \in Pointer
           /\ sent' \in [keys : 0 .. MaxKeys, packets : 0 .. MaxPackets]
<1>1. p \in [1 .. 3 -> 0 .. 255]
  BY Ps2Constants
<1>2. out' \in Seq(Byte) /\ pending' \subseteq {1, 12}
  <2> DEFINE q == [i \in 1 .. 3 |-> [from |-> "mouse", val |-> p[i], char |-> 0]]
  <2>1. q \in Seq(Byte)
    BY <1>1, PacketBytes
  <2>2. Send(q)
    BY DEF MovePointer
  <2> HIDE DEF q
  <2> QED
    BY <2>1, <2>2, SendTypes
<1>3. aim' \in Pointer
  <2>1. aim.x \in Int /\ aim.y \in Int
    BY DEF TypeOK, Pointer
  <2>2. aim.x + MovementX(p) \in Int /\ aim.y - MovementY(p) \in Int /\ Bit(p[1], 1) \in BOOLEAN
    BY <1>1, <2>1, MovementIs
  <2>3. aim' = [x |-> Clamp(aim.x + MovementX(p), Width),
                y |-> Clamp(aim.y - MovementY(p), Height), left |-> Bit(p[1], 1)]
    BY DEF MovePointer
  <2> QED
    BY <2>2, <2>3, ClampIs DEF Pointer
<1>4. sent' \in [keys : 0 .. MaxKeys, packets : 0 .. MaxPackets]
  <2>1. /\ sent \in [keys : 0 .. MaxKeys, packets : 0 .. MaxPackets]
        /\ sent.packets < MaxPackets /\ sent' = [sent EXCEPT !.packets = @ + 1]
    BY DEF TypeOK, MovePointer
  <2>2. sent.packets + 1 \in 0 .. MaxPackets
    BY <2>1, Ps2Constants
  <2> QED
    BY <2>1, <2>2
<1> QED
  BY <1>2, <1>3, <1>4

LEMMA DrainTypes ==
    ASSUME TypeOK, Drain
    PROVE  /\ out' = <<>> /\ out' \in Seq(Byte) /\ last' \in 0 .. 255
           /\ kb_buf' \in [Slot -> Nat] /\ kb_tail' \in Slot
           /\ kb_shift' \in BOOLEAN /\ dropped' \in BOOLEAN
           /\ astray' \in BOOLEAN /\ lost' \in BOOLEAN
           /\ kb_tail # kb_head => kb_tail' # kb_head /\ kb_buf'[kb_head] = kb_buf[kb_head]
<1>1. last' \in 0 .. 255
  <2>1. out # <<>> => Len(out) \in 1 .. Len(out)
    BY Waiting
  <2>2. out # <<>> => out[Len(out)].val \in 0 .. 255
    BY <2>1, Waiting
  <2>3. last' = IF out = <<>> THEN last ELSE IF boot = "run" THEN 0 ELSE out[Len(out)].val
    BY DEF Drain, Kept
  <2>4. last \in 0 .. 255
    BY DEF TypeOK
  <2> QED
    BY <2>2, <2>3, <2>4
<1>2. /\ kb_buf' = Drained.buf /\ kb_tail' = Drained.tail
      /\ kb_shift' = Drained.shift /\ dropped' = Drained.dropped /\ out' = <<>>
  BY DEF Drain
<1>3. astray' \in BOOLEAN /\ lost' \in BOOLEAN
  BY DEF Drain, TypeOK
<1>4. out' \in Seq(Byte)
  BY <1>2
<1> QED
  BY <1>1, <1>2, <1>3, <1>4, DrainedTypes DEF Keyboard

LEMMA ReadTypes ==
    ASSUME TypeOK, out # <<>>, NEW taken, ReadByte(taken)
    PROVE  /\ out' \in Seq(Byte) /\ out' = Tail(out) /\ last' \in 0 .. 255
           /\ pending' \subseteq {1, 12} /\ out[1] \in Byte /\ out[1].val \in 0 .. 255
<1>1. out \in Seq(Byte) /\ 1 \in 1 .. Len(out)
  BY Waiting
<1>2. out[1] \in Byte /\ out[1].val \in 0 .. 255
  BY <1>1, Waiting
<1>3. out' = Tail(out) /\ last' = IF boot = "run" THEN 0 ELSE out[1].val
  BY DEF ReadByte, Kept
<1>4. out' \in Seq(Byte)
  BY <1>1, <1>3
<1>5. pending' \subseteq {1, 12}
  BY RaisedIs DEF ReadByte, TypeOK
<1> QED
  BY <1>2, <1>3, <1>4, <1>5

LEMMA MouseTypes ==
    ASSUME TypeOK, out # <<>>, TakeMouseByte
    PROVE  /\ mouse_cycle' \in 0 .. 2 /\ mouse_byte' \in [1 .. 3 -> 0 .. 255]
           /\ [x |-> mouse_x, y |-> mouse_y, left |-> mouse_left_click]' \in Pointer
           /\ lost' \in BOOLEAN
           /\ out' \in Seq(Byte) /\ last' \in 0 .. 255 /\ pending' \subseteq {1, 12}
<1> DEFINE p == [mouse_byte EXCEPT ![mouse_cycle + 1] = out[1].val]
<1>1. ReadByte(12)
  BY DEF TakeMouseByte
<1>2. /\ out' \in Seq(Byte) /\ last' \in 0 .. 255 /\ pending' \subseteq {1, 12}
      /\ out[1].val \in 0 .. 255
  BY <1>1, ReadTypes
<1>3. mouse_byte \in [1 .. 3 -> 0 .. 255] /\ mouse_cycle \in 0 .. 2
  BY DEF TypeOK
<1>4. p \in [1 .. 3 -> 0 .. 255]
  BY <1>2, <1>3
<1>5. mouse_byte' \in [1 .. 3 -> 0 .. 255]
  <2>1. mouse_byte' = IF mouse_cycle = 2 THEN <<0, 0, 0>> ELSE p
    BY DEF TakeMouseByte
  <2>2. <<0, 0, 0>> \in [1 .. 3 -> 0 .. 255]
    OBVIOUS
  <2> HIDE DEF p
  <2> QED
    BY <1>4, <2>1, <2>2
<1>6. mouse_cycle' \in 0 .. 2
  <2>1. mouse_cycle' = (mouse_cycle + 1) % 3
    BY DEF TakeMouseByte
  <2> QED
    BY <1>3, <2>1
<1>7. [x |-> mouse_x, y |-> mouse_y, left |-> mouse_left_click]' \in Pointer
  <2>1. mouse_x \in 0 .. Width - 1 /\ mouse_y \in 0 .. Height - 1 /\ mouse_left_click \in BOOLEAN
    BY DEF TypeOK, Pointer
  <2>2. Apply(p) \/ UNCHANGED <<mouse_x, mouse_y, mouse_left_click>>
    BY DEF TakeMouseByte
  <2> HIDE DEF p
  <2>3. CASE Apply(p)
    <3>1. mouse_x + MovementX(p) \in Int /\ mouse_y - MovementY(p) \in Int
          /\ Bit(p[1], 1) \in BOOLEAN
      BY <1>4, <2>1, MovementIs
    <3> QED
      BY <2>3, <3>1, ClampIs DEF Apply, Pointer
  <2>4. CASE UNCHANGED <<mouse_x, mouse_y, mouse_left_click>>
    BY <2>1, <2>4 DEF Pointer
  <2> QED
    BY <2>2, <2>3, <2>4
<1>8. lost' \in BOOLEAN
  BY DEF TakeMouseByte, TypeOK
<1> QED
  BY <1>2, <1>5, <1>6, <1>7, <1>8

LEMMA TypesInit == Init => TypeOK
<1> SUFFICES ASSUME Init PROVE TypeOK
  OBVIOUS
<1>1. /\ out = <<>> /\ expect = <<>> /\ pending = {} /\ config = Config /\ last = 0 /\ reply = 0
      /\ streaming = FALSE /\ boot = "kbd_command" /\ down = {}
      /\ astray = FALSE /\ lost = FALSE /\ bothDown = FALSE
  BY DEF Init
<1>2. kb_buf \in [Slot -> Nat] /\ kb_head \in Slot /\ kb_tail \in Slot
  BY Ps2Constants DEF Init, Slot
<1>3. kb_shift \in BOOLEAN /\ dropped \in BOOLEAN
  BY DEF Init
<1>4. mouse_cycle \in 0 .. 2 /\ mouse_byte \in [1 .. 3 -> 0 .. 255]
  <2>1. <<0, 0, 0>> \in [1 .. 3 -> 0 .. 255]
    OBVIOUS
  <2> QED
    BY <2>1 DEF Init
<1>5. [x |-> mouse_x, y |-> mouse_y, left |-> mouse_left_click] \in Pointer /\ aim \in Pointer
  BY Middle DEF Init, Pointer
<1>6. reader \in [at : {"test", "advance"}, char : Nat]
  BY DEF Init
<1>7. sent \in [keys : 0 .. MaxKeys, packets : 0 .. MaxPackets]
  BY Ps2Constants DEF Init
<1>8. out \in Seq(Byte) /\ expect \in Seq(Nat)
  BY <1>1
<1>9. /\ pending \subseteq {1, 12} /\ config \in 0 .. 255 /\ last \in 0 .. 255
      /\ reply \in 0 .. 255
  BY <1>1, Ps2Constants
<1>10. /\ streaming \in BOOLEAN /\ down \subseteq {LShift, RShift}
       /\ astray \in BOOLEAN /\ lost \in BOOLEAN /\ bothDown \in BOOLEAN
  BY <1>1
<1> QED
  BY <1>1, <1>2, <1>3, <1>4, <1>5, <1>6, <1>7, <1>8, <1>9, <1>10 DEF TypeOK

LEMMA DeviceTypes == TypeOK /\ Devices => TypeOK'
<1> SUFFICES ASSUME TypeOK, Devices PROVE TypeOK'
  OBVIOUS
<1>1. ASSUME NEW sc \in Keys, TypeKey(sc) PROVE TypeOK'
  <2> DEFINE char == IF down = {} THEN Low[sc] ELSE High[sc]
  <2>1. sc \in 0 .. 255 /\ char \in Nat
    BY Ps2Constants DEF Release
  <2>2. KeyByte(sc, char) /\ UNCHANGED <<down, bothDown>>
    BY <1>1 DEF TypeKey
  <2> HIDE DEF char
  <2>3. /\ out' \in Seq(Byte) /\ pending' \subseteq {1, 12} /\ expect' \in Seq(Nat)
        /\ sent' \in [keys : 0 .. MaxKeys, packets : 0 .. MaxPackets]
    BY <2>1, <2>2, KeyTypes
  <2> QED
    BY <2>2, <2>3 DEF TypeOK, KeyByte, keyboard, mouse
<1>2. ASSUME NEW s \in {LShift, RShift}, ShiftDown(s) \/ ShiftUp(s) PROVE TypeOK'
  <2>1. PICK sc \in {s, s + Release} : KeyByte(sc, 0)
    BY <1>2 DEF ShiftDown, ShiftUp
  <2>2. sc \in 0 .. 255 /\ 0 \in Nat
    BY DEF LShift, RShift, Release
  <2>3. /\ out' \in Seq(Byte) /\ pending' \subseteq {1, 12} /\ expect' \in Seq(Nat)
        /\ sent' \in [keys : 0 .. MaxKeys, packets : 0 .. MaxPackets]
    BY <2>1, <2>2, KeyTypes
  <2>4. down' \subseteq {LShift, RShift} /\ bothDown' \in BOOLEAN
    BY <1>2 DEF ShiftDown, ShiftUp, TypeOK
  <2> QED
    BY <2>1, <2>3, <2>4 DEF TypeOK, KeyByte, keyboard, mouse
<1>3. ASSUME NEW p \in Packets, MovePointer(p) PROVE TypeOK'
  <2>1. /\ out' \in Seq(Byte) /\ pending' \subseteq {1, 12} /\ aim' \in Pointer
        /\ sent' \in [keys : 0 .. MaxKeys, packets : 0 .. MaxPackets]
    BY <1>3, PacketTypes
  <2> QED
    BY <1>3, <2>1 DEF TypeOK, MovePointer, keyboard, mouse
<1> QED
  BY <1>1, <1>2, <1>3 DEF Devices

LEMMA HandlerTypes == TypeOK /\ (Tick \/ Irq1 \/ Irq12) => TypeOK'
<1> SUFFICES ASSUME TypeOK, Tick \/ Irq1 \/ Irq12 PROVE TypeOK'
  OBVIOUS
<1>1. CASE Drain /\ (Tick \/ Irq1)
  <2>1. /\ pending' \subseteq {1, 12}
        /\ UNCHANGED <<config, streaming, kb_head, mouse, boot, reply, reader, user, expect>>
    BY <1>1 DEF Tick, Irq1, TypeOK
  <2>2. /\ out' \in Seq(Byte) /\ last' \in 0 .. 255
        /\ kb_buf' \in [Slot -> Nat] /\ kb_tail' \in Slot
        /\ kb_shift' \in BOOLEAN /\ dropped' \in BOOLEAN
        /\ astray' \in BOOLEAN /\ lost' \in BOOLEAN
    BY <1>1, DrainTypes
  <2> QED
    BY <2>1, <2>2 DEF TypeOK, mouse, user
<1>2. CASE Irq1 /\ ~ Drain
  <2>1. /\ pending' \subseteq {1, 12}
        /\ UNCHANGED <<config, streaming, kb_head, mouse, boot, reply, reader, user, expect>>
        /\ UNCHANGED <<out, last, kb_buf, kb_tail, kb_shift, dropped, astray, lost>>
    BY <1>2 DEF Irq1, TypeOK
  <2> QED
    BY <2>1 DEF TypeOK, mouse, user
<1>3. CASE Irq12
  <2>1. UNCHANGED <<config, streaming, keyboard, boot, reply, reader, user, expect, astray>>
    BY <1>3 DEF Irq12
  <2>2. CASE TakeMouseByte /\ out # <<>>
    <3>1. /\ mouse_cycle' \in 0 .. 2 /\ mouse_byte' \in [1 .. 3 -> 0 .. 255]
          /\ [x |-> mouse_x, y |-> mouse_y, left |-> mouse_left_click]' \in Pointer
          /\ lost' \in BOOLEAN
          /\ out' \in Seq(Byte) /\ last' \in 0 .. 255 /\ pending' \subseteq {1, 12}
      BY <2>2, MouseTypes
    <3> QED
      BY <2>1, <3>1, SMTT(20) DEF TypeOK, keyboard, user
  <2>3. CASE pending' = pending \ {12} /\ UNCHANGED <<out, last, mouse, lost>>
    <3>1. pending' \subseteq {1, 12}
      BY <2>3 DEF TypeOK
    <3> QED
      BY <2>1, <2>3, <3>1 DEF TypeOK, keyboard, user, mouse
  <2> QED
    BY <1>3, <2>2, <2>3 DEF Irq12
<1> QED
  BY <1>1, <1>2, <1>3 DEF Tick

Places == {"kbd_command", "kbd_wait", "kbd_read", "kbd_write", "mouse_enable",
           "mouse_command", "mouse_read", "mouse_write", "defaults",
           "defaults_read", "stream", "stream_read", "center", "run"}

LEMMA AskTypes ==
    ASSUME TypeOK, NEW at, NEW next \in Places, NEW who \in {"controller", "ack"},
           NEW val \in 0 .. 255, Ask(at, next, who, val), streaming' \in BOOLEAN
    PROVE  TypeOK'
<1>1. Send(<<[from |-> who, val |-> val, char |-> 0]>>)
  BY DEF Ask
<1>2. out' \in Seq(Byte) /\ pending' \subseteq {1, 12}
  <2>1. 0 \in Nat /\ who \in {"key", "mouse", "controller", "ack"}
    OBVIOUS
  <2> QED
    BY <1>1, <2>1, OneByte, SendTypes
<1> QED
  BY <1>2 DEF TypeOK, Ask, Places, keyboard, mouse, user

LEMMA ReplyTypes ==
    ASSUME TypeOK, NEW at, NEW next \in Places, NEW who, ReadReply(at, next, who)
    PROVE  TypeOK'
<1>1. out' \in Seq(Byte) /\ last' \in 0 .. 255 /\ pending' \subseteq {1, 12}
      /\ PortValue \in 0 .. 255
  <2>1. CASE out = <<>>
    BY <2>1 DEF ReadReply, TypeOK, PortValue
  <2>2. CASE out # <<>>
    <3>1. ReadByte(0)
      BY <2>2 DEF ReadReply
    <3> QED
      BY <2>2, <3>1, ReadTypes DEF PortValue
  <2> QED
    BY <2>1, <2>2
<1>2. reply' \in 0 .. 255 /\ astray' \in BOOLEAN /\ lost' \in BOOLEAN
  BY <1>1 DEF ReadReply, TypeOK
<1> QED
  BY <1>1, <1>2 DEF TypeOK, ReadReply, Places, keyboard, mouse, user

LEMMA ConfigTypes ==
    ASSUME TypeOK, NEW at, NEW next \in Places, NEW value \in 0 .. 255,
           WriteConfig(at, next, value)
    PROVE  TypeOK'
BY DEF TypeOK, WriteConfig, Places, keyboard, mouse, user

LEMMA SetupTypes == TypeOK /\ Setup => TypeOK'
<1> SUFFICES ASSUME TypeOK, Setup PROVE TypeOK'
  OBVIOUS
<1>1. config \in 0 .. 255 /\ reply \in 0 .. 255 /\ Ack \in 0 .. 255 /\ streaming \in BOOLEAN
  BY DEF TypeOK, Ack
<1>2. CASE KeyboardInit
  <2>1. CASE Ask("kbd_command", "kbd_wait", "controller", config) /\ UNCHANGED streaming
    <3>1. "kbd_wait" \in Places /\ "controller" \in {"controller", "ack"}
      BY DEF Places
    <3>2. streaming' \in BOOLEAN
      BY <1>1, <2>1
    <3> QED
      BY <1>1, <2>1, <3>1, <3>2, AskTypes
  <2>2. CASE KbdWait
    BY <2>2 DEF KbdWait, TypeOK, controller, keyboard, mouse, user
  <2>3. CASE ReadReply("kbd_read", "kbd_write", "controller")
    <3>1. "kbd_write" \in Places
      BY DEF Places
    <3> QED
      BY <2>3, <3>1, ReplyTypes
  <2>4. CASE WriteConfig("kbd_write", "mouse_enable", KbdConfig(reply))
    <3>1. "mouse_enable" \in Places
      BY DEF Places
    <3>2. KbdConfig(reply) \in 0 .. 255
      BY <1>1, BitsStay
    <3> QED
      BY <2>4, <3>1, <3>2, ConfigTypes
  <2> QED
    BY <1>2, <2>1, <2>2, <2>3, <2>4 DEF KeyboardInit
<1>3. CASE MouseInit
  <2>1. CASE WriteConfig("mouse_enable", "mouse_command", ClearBit(config, 32))
    <3>1. "mouse_command" \in Places
      BY DEF Places
    <3>2. ClearBit(config, 32) \in 0 .. 255
      BY <1>1, BitsStay
    <3> QED
      BY <2>1, <3>1, <3>2, ConfigTypes
  <2>2. CASE Ask("mouse_command", "mouse_read", "controller", config) /\ UNCHANGED streaming
    <3>1. "mouse_read" \in Places /\ "controller" \in {"controller", "ack"}
      BY DEF Places
    <3>2. streaming' \in BOOLEAN
      BY <1>1, <2>2
    <3> QED
      BY <1>1, <2>2, <3>1, <3>2, AskTypes
  <2>3. CASE ReadReply("mouse_read", "mouse_write", "controller")
    <3>1. "mouse_write" \in Places
      BY DEF Places
    <3> QED
      BY <2>3, <3>1, ReplyTypes
  <2>4. CASE WriteConfig("mouse_write", "defaults", MouseConfig(reply))
    <3>1. "defaults" \in Places
      BY DEF Places
    <3>2. MouseConfig(reply) \in 0 .. 255
      BY <1>1, BitsStay
    <3> QED
      BY <2>4, <3>1, <3>2, ConfigTypes
  <2>5. CASE Ask("defaults", "defaults_read", "ack", Ack) /\ UNCHANGED streaming
    <3>1. "defaults_read" \in Places /\ "ack" \in {"controller", "ack"}
      BY DEF Places
    <3>2. streaming' \in BOOLEAN
      BY <1>1, <2>5
    <3> QED
      BY <1>1, <2>5, <3>1, <3>2, AskTypes
  <2>6. CASE ReadReply("defaults_read", "stream", "ack")
    <3>1. "stream" \in Places
      BY DEF Places
    <3> QED
      BY <2>6, <3>1, ReplyTypes
  <2>7. CASE Ask("stream", "stream_read", "ack", Ack) /\ streaming' = TRUE
    <3>1. "stream_read" \in Places /\ "ack" \in {"controller", "ack"}
      BY DEF Places
    <3>2. streaming' \in BOOLEAN
      BY <2>7
    <3> QED
      BY <1>1, <2>7, <3>1, <3>2, AskTypes
  <2>8. CASE ReadReply("stream_read", "center", "ack")
    <3>1. "center" \in Places
      BY DEF Places
    <3> QED
      BY <2>8, <3>1, ReplyTypes
  <2>9. CASE Center
    <3>1. [x |-> mouse_x, y |-> mouse_y, left |-> mouse_left_click]' \in Pointer
      BY <2>9, Middle DEF Center, Pointer
    <3>2. lost' \in BOOLEAN /\ last' \in 0 .. 255 /\ boot' \in Places
      BY <2>9 DEF Center, TypeOK, Places
    <3> QED
      BY <2>9, <3>1, <3>2 DEF Center, TypeOK, Places, keyboard, user
  <2> QED
    BY <1>3, <2>1, <2>2, <2>3, <2>4, <2>5, <2>6, <2>7, <2>8, <2>9 DEF MouseInit
<1> QED
  BY <1>2, <1>3 DEF Setup

LEMMA ReaderTypes == TypeOK /\ (ReaderTake \/ ReaderAdvance) => TypeOK'
<1> SUFFICES ASSUME TypeOK, ReaderTake \/ ReaderAdvance PROVE TypeOK'
  OBVIOUS
<1>1. kb_buf \in [Slot -> Nat] /\ kb_head \in Slot /\ expect \in Seq(Nat)
  BY DEF TypeOK
<1>2. CASE ReaderTake
  <2>1. reader' \in [at : {"test", "advance"}, char : Nat]
    BY <1>1, <1>2 DEF ReaderTake
  <2> QED
    BY <1>2, <2>1 DEF TypeOK, ReaderTake, controller, keyboard, mouse, user
<1>3. CASE ReaderAdvance
  <2>1. reader' \in [at : {"test", "advance"}, char : Nat]
    BY <1>3 DEF ReaderAdvance
  <2>2. kb_head' \in Slot
    <3>1. KB_BUF_SIZE \in Nat \ {0} /\ kb_head + 1 \in Nat
      BY <1>1, Ps2Constants DEF Slot
    <3>2. kb_head' = (kb_head + 1) % KB_BUF_SIZE
      BY <1>3 DEF ReaderAdvance
    <3> QED
      BY <3>1, <3>2 DEF Slot
  <2>3. kb_buf' \in [Slot -> Nat]
    BY <1>1, <1>3 DEF ReaderAdvance
  <2>4. expect' \in Seq(Nat)
    BY <1>1, <1>3 DEF ReaderAdvance
  <2> QED
    BY <1>3, <2>1, <2>2, <2>3, <2>4 DEF TypeOK, ReaderAdvance, controller, mouse, user
<1> QED
  BY <1>2, <1>3

LEMMA TypesStep == TypeOK /\ [Next]_vars => TypeOK'
<1> SUFFICES ASSUME TypeOK, [Next]_vars PROVE TypeOK'
  OBVIOUS
<1>1. CASE UNCHANGED vars
  BY <1>1 DEF TypeOK, vars, controller, keyboard, mouse, user
<1> QED
  BY <1>1, DeviceTypes, HandlerTypes, SetupTypes, ReaderTypes DEF Next

-----------------------------------------------------------------------------
(* What the bytes waiting will do.  R gives what a byte may turn a state    *)
(* into.                                                                    *)

Run(R, q, r) == \A i \in 1 .. Len(q) : r[i] \in R[r[i - 1]][q[i]]

\* The bytes of q take a to z.
Takes(R, q, a, z) == \E r : Run(R, q, r) /\ r[0] = a /\ r[Len(q)] = z

LEMMA TakesNone == \A R, a : Takes(R, <<>>, a, a)
<1> SUFFICES ASSUME NEW R, NEW a PROVE Takes(R, <<>>, a, a)
  OBVIOUS
<1> DEFINE r == [i \in {0} |-> a]
<1>1. r[0] = a /\ Len(<<>>) = 0 /\ Run(R, <<>>, r)
  BY DEF Run
<1> HIDE DEF r
<1> QED
  BY <1>1 DEF Takes

\* One byte more.
LEMMA TakesMore ==
    ASSUME NEW B, NEW R, NEW q \in Seq(B), NEW b \in B, NEW a, NEW z, NEW y,
           Takes(R, q, a, z), y \in R[z][b]
    PROVE  Takes(R, Append(q, b), a, y)
<1>1. PICK r : Run(R, q, r) /\ r[0] = a /\ r[Len(q)] = z
  BY DEF Takes
<1> DEFINE n == Len(q)
           w == Append(q, b)
           s == [i \in 0 .. n + 1 |-> IF i = n + 1 THEN y ELSE r[i]]
<1>2. n \in Nat /\ Len(w) = n + 1 /\ w[n + 1] = b /\ \A i \in 1 .. n : w[i] = q[i]
  OBVIOUS
<1> HIDE DEF n, w
<1>3. s[n + 1] = y /\ \A i \in 0 .. n : s[i] = r[i]
  BY <1>2
<1>4. s[0] = a /\ s[n] = z
  BY <1>1, <1>2, <1>3 DEF n
<1> HIDE DEF s
<1>5. ASSUME NEW i \in 1 .. n + 1 PROVE s[i] \in R[s[i - 1]][w[i]]
  <2>1. CASE i = n + 1
    <3>1. i - 1 = n
      BY <1>2, <2>1
    <3> QED
      BY <1>2, <1>3, <1>4, <2>1, <3>1
  <2>2. CASE i # n + 1
    <3>1. i \in 1 .. n /\ i \in 0 .. n /\ i - 1 \in 0 .. n
      BY <1>2, <2>2
    <3>2. r[i] \in R[r[i - 1]][q[i]]
      BY <1>1, <3>1 DEF Run, n
    <3> QED
      BY <1>2, <1>3, <3>1, <3>2
  <2> QED
    BY <2>1, <2>2
<1>6. Run(R, w, s) /\ s[Len(w)] = y
  BY <1>2, <1>3, <1>5 DEF Run
<1> QED
  BY <1>4, <1>6 DEF Takes, w

\* One byte less.
LEMMA TakesRest ==
    ASSUME NEW B, NEW R, NEW q \in Seq(B), q # <<>>, NEW a, NEW z, Takes(R, q, a, z)
    PROVE  \E s \in R[a][q[1]] : Takes(R, Tail(q), s, z)
<1>1. PICK r : Run(R, q, r) /\ r[0] = a /\ r[Len(q)] = z
  BY DEF Takes
<1> DEFINE n == Len(q)
           w == Tail(q)
           s == [i \in 0 .. n |-> r[i + 1]]
<1>2. n \in Nat \ {0} /\ Len(w) = n - 1 /\ \A i \in 1 .. n - 1 : w[i] = q[i + 1]
  OBVIOUS
<1> HIDE DEF n, w
<1>3. \A i \in 0 .. n : s[i] = r[i + 1]
  OBVIOUS
<1> HIDE DEF s
<1>4. s[0] = r[1] /\ s[n - 1] = z
  <2>1. 0 \in 0 .. n /\ n - 1 \in 0 .. n /\ (n - 1) + 1 = n /\ 0 + 1 = 1
    BY <1>2
  <2> QED
    BY <1>1, <1>3, <2>1 DEF n
<1>5. ASSUME NEW i \in 1 .. n - 1 PROVE s[i] \in R[s[i - 1]][w[i]]
  <2>1. i \in 0 .. n /\ i - 1 \in 0 .. n /\ i + 1 \in 1 .. n /\ (i - 1) + 1 = i /\ (i + 1) - 1 = i
    BY <1>2
  <2>2. r[i + 1] \in R[r[(i + 1) - 1]][q[i + 1]]
    BY <1>1, <2>1 DEF Run, n
  <2> QED
    BY <1>2, <1>3, <2>1, <2>2
<1>6. r[1] \in R[a][q[1]]
  <2>1. 1 \in 1 .. n /\ 1 - 1 = 0
    BY <1>2
  <2>2. r[1] \in R[r[1 - 1]][q[1]]
    BY <1>1, <2>1 DEF Run, n
  <2> QED
    BY <1>1, <2>1, <2>2
<1>7. Run(R, w, s) /\ s[Len(w)] = z
  BY <1>2, <1>4, <1>5 DEF Run
<1>8. Takes(R, w, r[1], z)
  BY <1>4, <1>7 DEF Takes
<1> QED
  BY <1>6, <1>8 DEF w

\* All states of a run are states.
LEMMA RunStates ==
    ASSUME NEW B, NEW S, NEW R, NEW q \in Seq(B), NEW r, Run(R, q, r), r[0] \in S,
           \A s \in S, b \in B : R[s][b] \subseteq S
    PROVE  \A i \in 0 .. Len(q) : r[i] \in S
<1> DEFINE n == Len(q)
           T == {i \in 0 .. n : r[i] \in S}
<1>1. n \in Nat /\ \A i \in 1 .. n : q[i] \in B
  OBVIOUS
<1>2. \A i \in 1 .. n : r[i] \in R[r[i - 1]][q[i]]
  BY DEF Run
<1> HIDE DEF n
<1>3. 0 \in T
  BY <1>1
<1>4. ASSUME NEW i \in 0 .. n - 1, i \in T PROVE i + 1 \in T
  <2>1. i + 1 \in 1 .. n /\ i + 1 \in 0 .. n /\ (i + 1) - 1 = i
    BY <1>1
  <2>2. r[i + 1] \in R[r[i]][q[i + 1]]
    BY <1>2, <2>1
  <2>3. r[i + 1] \in S
    BY <1>1, <1>4, <2>1, <2>2
  <2> QED
    BY <2>1, <2>3
<1> HIDE DEF T
<1>5. \A i \in 0 .. n : i \in T
  BY <1>1, <1>3, <1>4, UpTo
<1> QED
  BY <1>5 DEF T, n

\* The bytes of a packet come one behind the other.
LEMMA PacketAppended ==
    ASSUME TypeOK, NEW p \in Packets, MovePointer(p)
    PROVE  LET b(i) == [from |-> "mouse", val |-> p[i], char |-> 0]
           IN  out' = Append(Append(Append(out, b(1)), b(2)), b(3))
<1> DEFINE b(i) == [from |-> "mouse", val |-> p[i], char |-> 0]
           q == [i \in 1 .. 3 |-> b(i)]
           w1 == Append(out, b(1))
           w2 == Append(w1, b(2))
           w3 == Append(w2, b(3))
<1>1. p \in [1 .. 3 -> 0 .. 255]
  BY Ps2Constants
<1>2. b(1) \in Byte /\ b(2) \in Byte /\ b(3) \in Byte
  BY <1>1 DEF Byte
<1>3. out \in Seq(Byte) /\ w1 \in Seq(Byte) /\ w2 \in Seq(Byte) /\ w3 \in Seq(Byte)
  <2>1. out \in Seq(Byte)
    BY Waiting
  <2> HIDE DEF b
  <2> QED
    BY <1>2, <2>1
<1>4. out' = w3
  <2>1. out' = out \o q
    BY DEF MovePointer, Send
  <2>2. q \in Seq(Byte) /\ Len(q) = 3 /\ q[1] = b(1) /\ q[2] = b(2) /\ q[3] = b(3)
    BY <1>1, PacketBytes
  <2> HIDE DEF b, q
  <2> DEFINE n == Len(out)
             w == out \o q
  <2>0. /\ out \o q \in Seq(Byte) /\ Len(out \o q) = Len(out) + Len(q)
        /\ \A i \in 1 .. Len(out) + Len(q) : (out \o q)[i] =
              IF i <= Len(out) THEN out[i] ELSE q[i - Len(out)]
    <3>1. out \in Seq(Byte) /\ q \in Seq(Byte)
      BY <1>3, <2>2
    <3> QED
      BY <3>1, ConcatProperties
  <2>3. w \in Seq(Byte) /\ Len(w) = n + 3
    <3> HIDE DEF w1, w2, w3
    <3> QED
      BY <2>0, <2>2
  <2>n. n \in Nat
    BY <1>3
  <2>4. (\A i \in 1 .. n : w[i] = out[i]) /\ w[n + 1] = b(1) /\ w[n + 2] = b(2) /\ w[n + 3] = b(3)
    <3>1. \A i \in 1 .. n + 3 : w[i] = IF i <= n THEN out[i] ELSE q[i - n]
      <4> HIDE DEF w1, w2, w3
      <4> QED
        BY <2>0, <2>2
    <3> HIDE DEF n, w
    <3>2. /\ n + 1 \in 1 .. n + 3 /\ n + 2 \in 1 .. n + 3 /\ n + 3 \in 1 .. n + 3
          /\ ~ (n + 1 <= n) /\ ~ (n + 2 <= n) /\ ~ (n + 3 <= n)
          /\ (n + 1) - n = 1 /\ (n + 2) - n = 2 /\ (n + 3) - n = 3
      BY <2>n
    <3>3. \A i \in 1 .. n : i \in 1 .. n + 3 /\ i <= n
      BY <2>n
    <3>4. \A i \in 1 .. n : w[i] = out[i]
      BY <3>1, <3>3
    <3> QED
      BY <2>2, <3>1, <3>2, <3>4
  <2>5. /\ Len(w3) = n + 3 /\ \A i \in 1 .. n : w3[i] = out[i]
        /\ w3[n + 1] = b(1) /\ w3[n + 2] = b(2) /\ w3[n + 3] = b(3)
    <3>1. Len(w1) = n + 1 /\ w1[n + 1] = b(1) /\ \A i \in 1 .. n : w1[i] = out[i]
      BY <1>2, <1>3, AppendProperties
    <3> HIDE DEF n, w1
    <3>2. /\ Len(w2) = n + 2 /\ w2[n + 2] = b(2) /\ w2[n + 1] = b(1)
          /\ \A i \in 1 .. n : w2[i] = out[i]
      <4>1. /\ Len(w2) = Len(w1) + 1 /\ w2[Len(w1) + 1] = b(2)
            /\ \A i \in 1 .. Len(w1) : w2[i] = w1[i]
        BY <1>2, <1>3, AppendProperties
      <4> HIDE DEF w2
      <4>2. (n + 1) + 1 = n + 2 /\ n + 1 \in 1 .. n + 1 /\ \A i \in 1 .. n : i \in 1 .. n + 1
        BY <2>n
      <4> QED
        BY <3>1, <4>1, <4>2
    <3> HIDE DEF w2
    <3>3. /\ Len(w3) = Len(w2) + 1 /\ w3[Len(w2) + 1] = b(3)
          /\ \A i \in 1 .. Len(w2) : w3[i] = w2[i]
      BY <1>2, <1>3, AppendProperties
    <3> HIDE DEF w3
    <3>4. /\ (n + 2) + 1 = n + 3 /\ n + 1 \in 1 .. n + 2 /\ n + 2 \in 1 .. n + 2
          /\ \A i \in 1 .. n : i \in 1 .. n + 2
      BY <2>n
    <3> QED
      BY <3>2, <3>3, <3>4
  <2>6. \A i \in 1 .. n + 3 : w[i] = w3[i]
    <3> HIDE DEF n, w, w3
    <3>1. \A i \in 1 .. n + 3 : i \in 1 .. n \/ i = n + 1 \/ i = n + 2 \/ i = n + 3
      BY <2>n
    <3> QED
      BY <2>4, <2>5, <3>1
  <2> QED
    BY <1>3, <2>1, <2>3, <2>5, <2>6, SeqEqual
<1> QED
  BY <1>4

-----------------------------------------------------------------------------
(* The mouse.                                                              *)

\* The state of its driver, now and when all packets sent have come.
Driver == [x : 0 .. Width - 1, y : 0 .. Height - 1, left : BOOLEAN,
           cycle : 0 .. 2, bytes : [1 .. 3 -> 0 .. 255]]
DriverNow == [x |-> mouse_x, y |-> mouse_y, left |-> mouse_left_click,
              cycle |-> mouse_cycle, bytes |-> mouse_byte]
NoBytes == <<0, 0, 0>>
AtAim == [x |-> aim.x, y |-> aim.y, left |-> aim.left, cycle |-> 0, bytes |-> NoBytes]

\* What a byte of the mouse does.
Packet(m, v) == [m.bytes EXCEPT ![m.cycle + 1] = v]
Pointed(m, p) ==
    [x |-> Clamp(m.x + MovementX(p), Width), y |-> Clamp(m.y - MovementY(p), Height),
     left |-> Bit(p[1], 1), cycle |-> 0, bytes |-> NoBytes]
Moved(m, v) ==
    IF m.cycle # 2 THEN [m EXCEPT !.bytes = Packet(m, v), !.cycle = m.cycle + 1]
    ELSE IF Bit(Packet(m, v)[1], 8) THEN Pointed(m, Packet(m, v))
    ELSE [m EXCEPT !.bytes = NoBytes, !.cycle = 0]

MouseSteps ==
    [m \in Driver |-> [b \in Byte |-> {IF b.from = "mouse" THEN Moved(m, b.val) ELSE m}]]

\* The driver is in step: the bytes waiting take it to where the packets go.
InStep == ~ lost => Takes(MouseSteps, out, DriverNow, AtAim)

LEMMA NoBytesAre == NoBytes \in [1 .. 3 -> 0 .. 255]
BY DEF NoBytes

LEMMA PacketIs ==
    ASSUME NEW m \in Driver, NEW v \in 0 .. 255
    PROVE  Packet(m, v) \in [1 .. 3 -> 0 .. 255]
<1>1. m.bytes \in [1 .. 3 -> 0 .. 255] /\ m.cycle + 1 \in 1 .. 3
  BY DEF Driver
<1> QED
  BY <1>1 DEF Packet

\* Another packet and another place in it.
With(m, b, c) == [m EXCEPT !.bytes = b, !.cycle = c]

LEMMA DriverWith ==
    ASSUME NEW m \in Driver, NEW b \in [1 .. 3 -> 0 .. 255], NEW c \in 0 .. 2
    PROVE  /\ With(m, b, c) \in Driver
           /\ With(m, b, c).bytes = b /\ With(m, b, c).cycle = c
           /\ With(m, b, c).x = m.x /\ With(m, b, c).y = m.y
BY DEF Driver, With

LEMMA MovedIs ==
    ASSUME NEW m \in Driver, NEW v \in 0 .. 255
    PROVE  Moved(m, v) \in Driver /\ Moved(m, v).cycle = (m.cycle + 1) % 3
<1> DEFINE p == Packet(m, v)
<1>1. p \in [1 .. 3 -> 0 .. 255] /\ NoBytes \in [1 .. 3 -> 0 .. 255]
  BY PacketIs, NoBytesAre, Zenon
<1> HIDE DEF p
<1>2. m.x \in Int /\ m.y \in Int /\ m.cycle \in 0 .. 2
  BY DEF Driver
<1>3. CASE m.cycle # 2
  <2> DEFINE next == m.cycle + 1
  <2>0. next \in 0 .. 2
    BY <1>2, <1>3
  <2>1. next = (m.cycle + 1) % 3
    BY <1>2, <1>3
  <2>2. Moved(m, v) = With(m, p, next)
    BY <1>3 DEF Moved, With, p
  <2> HIDE DEF next
  <2>3. Moved(m, v) \in Driver /\ Moved(m, v).cycle = next
    <3>1. With(m, p, next) \in Driver /\ With(m, p, next).cycle = next
      BY <1>1, <2>0, DriverWith
    <3> QED
      BY <2>2, <3>1
  <2> QED
    BY <2>1, <2>3
<1>4. CASE m.cycle = 2 /\ Bit(p[1], 8)
  <2>1. Moved(m, v) = Pointed(m, p)
    BY <1>4 DEF Moved, p
  <2>2. /\ m.x + MovementX(p) \in Int /\ m.y - MovementY(p) \in Int
        /\ Bit(p[1], 1) \in BOOLEAN
    BY <1>1, <1>2, MovementIs
  <2>3. Pointed(m, p) \in Driver /\ Pointed(m, p).cycle = 0
    BY <1>1, <2>2, ClampIs DEF Pointed, Driver
  <2>4. (m.cycle + 1) % 3 = 0
    BY <1>4
  <2> QED
    BY <2>1, <2>3, <2>4
<1>5. CASE m.cycle = 2 /\ ~ Bit(p[1], 8)
  <2> DEFINE first == 0
  <2>0. first \in 0 .. 2
    OBVIOUS
  <2>1. Moved(m, v) = With(m, NoBytes, first)
    BY <1>5 DEF Moved, With, p
  <2> HIDE DEF first
  <2>2. Moved(m, v) \in Driver /\ Moved(m, v).cycle = first
    <3>1. With(m, NoBytes, first) \in Driver /\ With(m, NoBytes, first).cycle = first
      BY <1>1, <2>0, DriverWith, Zenon
    <3> QED
      BY <2>1, <3>1
  <2>3. (m.cycle + 1) % 3 = first
    BY <1>5 DEF first
  <2> QED
    BY <2>2, <2>3
<1> QED
  BY <1>3, <1>4, <1>5

LEMMA MouseStepsAre ==
    ASSUME NEW m \in Driver, NEW b \in Byte
    PROVE  /\ MouseSteps[m][b] = {IF b.from = "mouse" THEN Moved(m, b.val) ELSE m}
           /\ MouseSteps[m][b] \subseteq Driver
<1>1. MouseSteps[m][b] = {IF b.from = "mouse" THEN Moved(m, b.val) ELSE m}
  BY DEF MouseSteps
<1>2. b.val \in 0 .. 255
  BY DEF Byte
<1> QED
  BY <1>1, <1>2, MovedIs

LEMMA DriverIs == TypeOK => DriverNow \in Driver /\ AtAim \in Driver
<1>1. NoBytes \in [1 .. 3 -> 0 .. 255]
  BY DEF NoBytes
<1>2. TypeOK => DriverNow \in Driver
  BY DEF TypeOK, DriverNow, Driver, Pointer
<1>3. TypeOK => AtAim \in Driver
  BY <1>1 DEF TypeOK, AtAim, Driver, Pointer
<1> QED
  BY <1>2, <1>3

\* A byte of another device leaves the driver alone, behind the others or before them.
LEMMA OtherByte ==
    ASSUME TypeOK, InStep, ~ lost, NEW b \in Byte, b.from # "mouse"
    PROVE  Takes(MouseSteps, Append(out, b), DriverNow, AtAim)
<1>1. AtAim \in MouseSteps[AtAim][b]
  BY DriverIs, MouseStepsAre
<1>2. out \in Seq(Byte) /\ Takes(MouseSteps, out, DriverNow, AtAim)
  BY Waiting DEF InStep
<1> QED
  BY <1>1, <1>2, TakesMore

LEMMA FirstByte ==
    ASSUME TypeOK, InStep, ~ lost, out # <<>>
    PROVE  Takes(MouseSteps, Tail(out),
                 IF out[1].from = "mouse" THEN Moved(DriverNow, out[1].val) ELSE DriverNow,
                 AtAim)
<1>1. out \in Seq(Byte) /\ out[1] \in Byte
  <2>1. 1 \in 1 .. Len(out)
    BY Waiting
  <2> QED
    BY <2>1, Waiting
<1>2. PICK s \in MouseSteps[DriverNow][out[1]] : Takes(MouseSteps, Tail(out), s, AtAim)
  <2>1. Takes(MouseSteps, out, DriverNow, AtAim)
    BY DEF InStep
  <2> QED
    BY <1>1, <2>1, TakesRest
<1>3. s = IF out[1].from = "mouse" THEN Moved(DriverNow, out[1].val) ELSE DriverNow
  BY <1>1, <1>2, DriverIs, MouseStepsAre
<1> QED
  BY <1>2, <1>3

\* Without a byte of the mouse the driver is where it will be.
LEMMA NoMouseByte ==
    ASSUME TypeOK, InStep, ~ lost, ~ From("mouse")
    PROVE  DriverNow = AtAim
<1>1. PICK r : Run(MouseSteps, out, r) /\ r[0] = DriverNow /\ r[Len(out)] = AtAim
  BY DEF InStep, Takes
<1> DEFINE n == Len(out)
           T == {i \in 0 .. n : r[i] = DriverNow}
<1>2. n \in Nat /\ \A i \in 1 .. n : out[i] \in Byte /\ out[i].from # "mouse"
  BY Waiting DEF From
<1>3. \A i \in 1 .. n : r[i] \in MouseSteps[r[i - 1]][out[i]]
  BY <1>1 DEF Run
<1>4. r[0] = DriverNow /\ r[n] = AtAim
  BY <1>1
<1> HIDE DEF n
<1>5. 0 \in T
  BY <1>2, <1>4
<1>6. ASSUME NEW i \in 0 .. n - 1, i \in T PROVE i + 1 \in T
  <2>1. i + 1 \in 1 .. n /\ i + 1 \in 0 .. n /\ (i + 1) - 1 = i
    BY <1>2
  <2>2. r[i + 1] \in MouseSteps[r[i]][out[i + 1]]
    BY <1>3, <2>1
  <2>3. r[i + 1] = r[i]
    BY <1>2, <1>6, <2>1, <2>2, DriverIs, MouseStepsAre
  <2> QED
    BY <1>6, <2>1, <2>3
<1> HIDE DEF T
<1>7. \A i \in 0 .. n : i \in T
  BY <1>2, <1>5, <1>6, UpTo
<1>8. n \in T
  BY <1>2, <1>7
<1> QED
  BY <1>4, <1>8 DEF T

\* A packet more at the end moves what the driver will come to as the user moves.
LEMMA PacketSent ==
    ASSUME TypeOK, InStep, ~ lost, NEW p \in Packets, MovePointer(p)
    PROVE  Takes(MouseSteps, out', DriverNow, AtAim')
<1> DEFINE b(i) == [from |-> "mouse", val |-> p[i], char |-> 0]
           q == [i \in 1 .. 3 |-> b(i)]
           w1 == Append(out, b(1))
           w2 == Append(w1, b(2))
           w3 == Append(w2, b(3))
           s0 == AtAim
           s1 == Moved(s0, p[1])
           s2 == Moved(s1, p[2])
           s3 == Moved(s2, p[3])
<1>1. p \in [1 .. 3 -> 0 .. 255] /\ Bit(p[1], 8)
  BY Ps2Constants
<1>2. /\ p[1] \in 0 .. 255 /\ p[2] \in 0 .. 255 /\ p[3] \in 0 .. 255
      /\ b(1) \in Byte /\ b(2) \in Byte /\ b(3) \in Byte
  BY <1>1 DEF Byte
<1>3. out \in Seq(Byte) /\ w1 \in Seq(Byte) /\ w2 \in Seq(Byte) /\ w3 \in Seq(Byte)
  <2>1. out \in Seq(Byte)
    BY Waiting
  <2> HIDE DEF b
  <2> QED
    BY <1>2, <2>1
<1>4. out' = w3
  <2> HIDE DEF b, w3
  <2> QED
    BY PacketAppended DEF b, w1, w2, w3
<1>5. s0 \in Driver /\ s1 \in Driver /\ s2 \in Driver /\ s3 \in Driver
  <2>1. s0 \in Driver
    BY DriverIs
  <2>2. s1 \in Driver
    BY <1>2, <2>1, MovedIs
  <2>3. s2 \in Driver
    BY <1>2, <2>2, MovedIs
  <2> QED
    BY <1>2, <2>1, <2>2, <2>3, MovedIs
<1>6. /\ s1 \in MouseSteps[s0][b(1)] /\ s2 \in MouseSteps[s1][b(2)]
      /\ s3 \in MouseSteps[s2][b(3)]
  <2>1. /\ b(1).from = "mouse" /\ b(1).val = p[1] /\ b(2).from = "mouse" /\ b(2).val = p[2]
        /\ b(3).from = "mouse" /\ b(3).val = p[3]
    OBVIOUS
  <2> HIDE DEF b
  <2> QED
    BY <1>2, <1>5, <2>1, MouseStepsAre
<1>7. Takes(MouseSteps, w3, DriverNow, s3)
  <2>1. Takes(MouseSteps, out, DriverNow, s0)
    BY DEF InStep
  <2> HIDE DEF b, w1, w2, w3, s0, s1, s2, s3
  <2>2. Takes(MouseSteps, w1, DriverNow, s1)
    BY <1>2, <1>3, <1>6, <2>1, TakesMore DEF w1
  <2>3. Takes(MouseSteps, w2, DriverNow, s2)
    BY <1>2, <1>3, <1>6, <2>2, TakesMore DEF w2
  <2> QED
    BY <1>2, <1>3, <1>6, <2>3, TakesMore DEF w3
<1>8. s3 = AtAim'
  <2>1. /\ s0.cycle = 0 /\ s0.x = aim.x /\ s0.y = aim.y /\ s0.bytes = NoBytes
        /\ NoBytes \in [1 .. 3 -> 0 .. 255]
    BY DEF AtAim, NoBytes
  <2> DEFINE p1 == Packet(s0, p[1])
             p2 == Packet(s1, p[2])
             p3 == Packet(s2, p[3])
  <2>2. s1.cycle = 1 /\ s1.x = aim.x /\ s1.y = aim.y /\ s1.bytes = p1
    <3>1. s1 = With(s0, p1, s0.cycle + 1)
      BY <2>1 DEF Moved, With
    <3> HIDE DEF s1, s0
    <3>2. p1 \in [1 .. 3 -> 0 .. 255]
      BY <1>2, <1>5, PacketIs
    <3> HIDE DEF p1
    <3> DEFINE c == s0.cycle + 1
    <3>3. c \in 0 .. 2
      BY <2>1
    <3>4. s1 = With(s0, p1, c)
      BY <3>1
    <3> HIDE DEF c
    <3> HIDE DEF s0, s1, s2, s3, p1, p2, p3
    <3>7. s0 \in Driver
      BY <1>5
    <3>5. /\ With(s0, p1, c).bytes = p1 /\ With(s0, p1, c).cycle = c
          /\ With(s0, p1, c).x = s0.x /\ With(s0, p1, c).y = s0.y
      BY <3>2, <3>3, <3>7, DriverWith
    <3>6. s1.cycle = c /\ s1.x = s0.x /\ s1.y = s0.y /\ s1.bytes = p1
      BY <3>4, <3>5
    <3> QED
      BY <2>1, <3>6 DEF c
  <2>3. s2.cycle = 2 /\ s2.x = aim.x /\ s2.y = aim.y /\ s2.bytes = p2
    <3>1. s2 = With(s1, p2, s1.cycle + 1)
      <4> HIDE DEF s1
      <4> QED
        BY <2>2 DEF Moved, With
    <3> HIDE DEF s1, s2
    <3>2. p2 \in [1 .. 3 -> 0 .. 255]
      BY <1>2, <1>5, PacketIs
    <3> HIDE DEF p2
    <3> DEFINE c == s1.cycle + 1
    <3>3. c \in 0 .. 2
      BY <2>2
    <3>4. s2 = With(s1, p2, c)
      BY <3>1
    <3> HIDE DEF c
    <3> HIDE DEF s0, s1, s2, s3, p1, p2, p3
    <3>7. s1 \in Driver
      BY <1>5
    <3>5. /\ With(s1, p2, c).bytes = p2 /\ With(s1, p2, c).cycle = c
          /\ With(s1, p2, c).x = s1.x /\ With(s1, p2, c).y = s1.y
      BY <3>2, <3>3, <3>7, DriverWith
    <3>6. s2.cycle = c /\ s2.x = s1.x /\ s2.y = s1.y /\ s2.bytes = p2
      BY <3>4, <3>5
    <3> QED
      BY <2>2, <3>6 DEF c
  <2>4. p3 = p
    <3> HIDE DEF s0, s1, s2
    <3>1. p1 = [NoBytes EXCEPT ![1] = p[1]]
      BY <2>1 DEF Packet
    <3>2. p2 = [p1 EXCEPT ![2] = p[2]]
      BY <2>2 DEF Packet
    <3>3. p3 = [p2 EXCEPT ![3] = p[3]]
      BY <2>3 DEF Packet
    <3> HIDE DEF p1, p2, p3
    <3>4. p1 \in [1 .. 3 -> 0 .. 255] /\ p1[1] = p[1]
      BY <1>2, <2>1, <3>1
    <3>5. p2 \in [1 .. 3 -> 0 .. 255] /\ p2[1] = p[1] /\ p2[2] = p[2]
      BY <1>2, <3>2, <3>4
    <3>6. p3 \in [1 .. 3 -> 0 .. 255] /\ p3[1] = p[1] /\ p3[2] = p[2] /\ p3[3] = p[3]
      BY <1>2, <3>3, <3>5
    <3>7. \A i \in 1 .. 3 : p3[i] = p[i]
      BY <3>6
    <3> QED
      BY <1>1, <3>6, <3>7
  <2>5. s3 = Pointed(s2, p)
    <3> HIDE DEF s2
    <3> QED
      BY <1>1, <2>3, <2>4 DEF Moved
  <2>6. aim' = [x |-> Clamp(aim.x + MovementX(p), Width),
                y |-> Clamp(aim.y - MovementY(p), Height), left |-> Bit(p[1], 1)]
    BY DEF MovePointer
  <2> HIDE DEF s3, s2
  <2> QED
    BY <2>3, <2>5, <2>6 DEF Pointed, AtAim
<1> HIDE DEF w3, s3
<1> QED
  BY <1>4, <1>7, <1>8

LEMMA InStepInit == Init => InStep
<1> SUFFICES ASSUME Init PROVE InStep
  OBVIOUS
<1>1. out = <<>> /\ DriverNow = AtAim
  BY DEF Init, DriverNow, AtAim, NoBytes
<1> QED
  BY <1>1, TakesNone DEF InStep

\* A step that neither reads nor sends a byte, and leaves the mouse alone.
LEMMA MouseUntouched ==
    ASSUME InStep, UNCHANGED <<out, mouse, aim>>, lost' = lost
    PROVE  InStep'
<1>1. DriverNow' = DriverNow /\ AtAim' = AtAim
  BY DEF DriverNow, AtAim, mouse
<1>2. out' = out
  OBVIOUS
<1> QED
  BY <1>1, <1>2 DEF InStep

\* A byte of another device is sent.
LEMMA OtherSent ==
    ASSUME TypeOK, InStep, NEW who, who # "mouse", NEW val \in 0 .. 255, NEW char \in Nat,
           who \in {"key", "controller", "ack"},
           Send(<<[from |-> who, val |-> val, char |-> char]>>),
           UNCHANGED <<mouse, aim, lost>>
    PROVE  InStep'
<1> DEFINE b == [from |-> who, val |-> val, char |-> char]
<1>1. b \in Byte /\ b.from # "mouse"
  BY DEF Byte
<1>2. out' = out \o <<b>>
  BY DEF Send
<1>3. DriverNow' = DriverNow /\ AtAim' = AtAim /\ lost' = lost
  BY DEF DriverNow, AtAim, mouse
<1> HIDE DEF b
<1>4. out' = Append(out, b)
  BY <1>1, <1>2, Waiting, AppendIsConcat
<1>5. ~ lost => Takes(MouseSteps, out', DriverNow, AtAim)
  BY <1>1, <1>4, OtherByte
<1> QED
  BY <1>3, <1>5 DEF InStep

\* All bytes are read by the keyboard.
LEMMA MouseDrained ==
    ASSUME TypeOK, InStep, Drain, UNCHANGED <<mouse, aim>>
    PROVE  InStep'
<1>1. DriverNow' = DriverNow /\ AtAim' = AtAim /\ out' = <<>>
  BY DEF DriverNow, AtAim, mouse, Drain
<1>2. ~ lost' => ~ lost /\ ~ From("mouse")
  BY DEF Drain
<1>3. ~ lost' => DriverNow = AtAim
  BY <1>2, NoMouseByte
<1>4. Takes(MouseSteps, <<>>, AtAim, AtAim)
  BY TakesNone
<1> QED
  BY <1>1, <1>3, <1>4 DEF InStep

\* The driver takes a byte.
LEMMA MouseTaken ==
    ASSUME TypeOK, InStep, out # <<>>, out[1].from \in {"mouse", "ack"}, TakeMouseByte,
           UNCHANGED aim
    PROVE  InStep'
<1> SUFFICES ASSUME ~ lost' PROVE Takes(MouseSteps, out', DriverNow', AtAim')
  BY DEF InStep
<1>1. ~ lost /\ out[1].from = "mouse"
  BY DEF TakeMouseByte
<1>2. out' = Tail(out) /\ AtAim' = AtAim
  BY DEF TakeMouseByte, ReadByte, AtAim
<1>3. DriverNow' = Moved(DriverNow, out[1].val)
  <2> DEFINE p == [mouse_byte EXCEPT ![mouse_cycle + 1] = out[1].val]
  <2>1. Packet(DriverNow, out[1].val) = p /\ DriverNow.cycle = mouse_cycle
    BY DEF Packet, DriverNow
  <2>2. mouse_cycle \in 0 .. 2
    BY DEF TypeOK
  <2>3. /\ mouse_byte' = IF mouse_cycle = 2 THEN <<0, 0, 0>> ELSE p
        /\ mouse_cycle' = (mouse_cycle + 1) % 3
        /\ IF mouse_cycle = 2 /\ Bit(p[1], 8) THEN Apply(p)
           ELSE UNCHANGED <<mouse_x, mouse_y, mouse_left_click>>
    BY DEF TakeMouseByte
  <2> HIDE DEF p
  <2>4. CASE mouse_cycle # 2
    <3>1. Moved(DriverNow, out[1].val)
            = [DriverNow EXCEPT !.bytes = p, !.cycle = mouse_cycle + 1]
      BY <2>1, <2>4 DEF Moved
    <3>2. /\ mouse_byte' = p /\ mouse_cycle' = mouse_cycle + 1
          /\ UNCHANGED <<mouse_x, mouse_y, mouse_left_click>>
      BY <2>2, <2>3, <2>4
    <3> QED
      BY <3>1, <3>2 DEF DriverNow
  <2>5. CASE mouse_cycle = 2 /\ Bit(p[1], 8)
    <3>1. Moved(DriverNow, out[1].val) = Pointed(DriverNow, p)
      BY <2>1, <2>5 DEF Moved
    <3>2. mouse_byte' = NoBytes /\ mouse_cycle' = 0 /\ Apply(p)
      BY <2>3, <2>5 DEF NoBytes
    <3> QED
      BY <3>1, <3>2 DEF DriverNow, Pointed, Apply
  <2>6. CASE mouse_cycle = 2 /\ ~ Bit(p[1], 8)
    <3>1. Moved(DriverNow, out[1].val) = [DriverNow EXCEPT !.bytes = NoBytes, !.cycle = 0]
      BY <2>1, <2>6 DEF Moved
    <3>2. /\ mouse_byte' = NoBytes /\ mouse_cycle' = 0
          /\ UNCHANGED <<mouse_x, mouse_y, mouse_left_click>>
      BY <2>3, <2>6 DEF NoBytes
    <3> QED
      BY <3>1, <3>2 DEF DriverNow
  <2> QED
    BY <2>4, <2>5, <2>6
<1> QED
  BY <1>1, <1>2, <1>3, FirstByte

\* The set-up code reads a byte.
LEMMA MouseReplied ==
    ASSUME TypeOK, InStep, NEW at, NEW next, NEW who, ReadReply(at, next, who)
    PROVE  InStep'
<1> SUFFICES ASSUME ~ lost' PROVE Takes(MouseSteps, out', DriverNow', AtAim')
  BY DEF InStep
<1>1. ~ lost /\ ~ (out # <<>> /\ out[1].from \in {"key", "mouse"})
  BY DEF ReadReply
<1>2. DriverNow' = DriverNow /\ AtAim' = AtAim
  BY DEF ReadReply, DriverNow, AtAim, mouse, user
<1>3. CASE out = <<>>
  <2>1. out' = out
    BY <1>3 DEF ReadReply
  <2> QED
    BY <1>1, <1>2, <2>1 DEF InStep
<1>4. CASE out # <<>>
  <2>1. out' = Tail(out) /\ out[1].from # "mouse"
    BY <1>1, <1>4 DEF ReadReply, ReadByte
  <2> QED
    BY <1>1, <1>2, <1>4, <2>1, FirstByte
<1> QED
  BY <1>3, <1>4

LEMMA CenterStep ==
    ASSUME InStep, Center
    PROVE  InStep'
<1> SUFFICES ASSUME ~ lost' PROVE Takes(MouseSteps, out', DriverNow', AtAim')
  BY DEF InStep
<1>1. ~ lost /\ mouse_x = Width \div 2 /\ mouse_y = Height \div 2 /\ mouse_left_click = FALSE
  BY DEF Center
<1>2. DriverNow' = DriverNow /\ AtAim' = AtAim /\ out' = out
  BY <1>1 DEF Center, DriverNow, AtAim, user
<1> QED
  BY <1>1, <1>2 DEF InStep

LEMMA InStepStep == TypeOK /\ InStep /\ [Next]_vars => InStep'
<1> SUFFICES ASSUME TypeOK, InStep, [Next]_vars PROVE InStep'
  OBVIOUS
<1>0. config \in 0 .. 255 /\ Ack \in 0 .. 255 /\ 0 \in Nat
  BY DEF TypeOK, Ack
<1>1. CASE UNCHANGED vars
  BY <1>1, MouseUntouched DEF vars, user
<1>2. ASSUME NEW sc \in Keys, TypeKey(sc) PROVE InStep'
  <2> DEFINE char == IF down = {} THEN Low[sc] ELSE High[sc]
  <2>1. sc \in 0 .. 255 /\ char \in Nat
    BY Ps2Constants DEF Release
  <2>2. KeyByte(sc, char)
    BY <1>2 DEF TypeKey
  <2> HIDE DEF char
  <2> QED
    BY <2>1, <2>2, OtherSent DEF KeyByte
<1>3. ASSUME NEW s \in {LShift, RShift}, ShiftDown(s) \/ ShiftUp(s) PROVE InStep'
  <2>1. PICK sc \in {s, s + Release} : KeyByte(sc, 0)
    BY <1>3 DEF ShiftDown, ShiftUp
  <2>2. sc \in 0 .. 255
    BY DEF LShift, RShift, Release
  <2> QED
    BY <1>0, <2>1, <2>2, OtherSent DEF KeyByte
<1>4. ASSUME NEW p \in Packets, MovePointer(p) PROVE InStep'
  <2>1. DriverNow' = DriverNow /\ lost' = lost
    BY <1>4 DEF MovePointer, DriverNow, mouse
  <2> QED
    BY <1>4, <2>1, PacketSent DEF InStep
<1>5. CASE Tick
  BY <1>5, MouseDrained DEF Tick, user
<1>6. CASE Irq1
  <2>1. CASE Drain
    BY <1>6, <2>1, MouseDrained DEF Irq1, user
  <2>2. CASE ~ Drain
    BY <1>6, <2>2, MouseUntouched DEF Irq1, user
  <2> QED
    BY <2>1, <2>2
<1>7. CASE Irq12
  <2>1. UNCHANGED aim
    BY <1>7 DEF Irq12, user
  <2>2. CASE TakeMouseByte /\ out # <<>> /\ out[1].from \in {"mouse", "ack"}
    BY <2>1, <2>2, MouseTaken
  <2>3. CASE UNCHANGED <<out, last, mouse, lost>>
    BY <2>1, <2>3, MouseUntouched
  <2> QED
    BY <1>7, <2>2, <2>3 DEF Irq12
<1>8. ASSUME NEW at, NEW next, NEW who \in {"controller", "ack"}, NEW val \in 0 .. 255,
             Ask(at, next, who, val)
      PROVE  InStep'
  <2>1. who # "mouse" /\ who \in {"key", "controller", "ack"}
    OBVIOUS
  <2> QED
    BY <1>0, <1>8, <2>1, OtherSent DEF Ask, user
<1>9. ASSUME NEW at, NEW next, NEW who, ReadReply(at, next, who) PROVE InStep'
  BY <1>9, MouseReplied
<1>10. ASSUME NEW at, NEW next, NEW value, WriteConfig(at, next, value) PROVE InStep'
  BY <1>10, MouseUntouched DEF WriteConfig, user
<1>11. CASE KeyboardInit
  <2>1. CASE KbdWait
    BY <2>1, MouseUntouched DEF KbdWait, user
  <2> QED
    BY <1>0, <1>8, <1>9, <1>10, <1>11, <2>1 DEF KeyboardInit
<1>12. CASE MouseInit
  BY <1>0, <1>8, <1>9, <1>10, <1>12, CenterStep DEF MouseInit
<1>13. CASE ReaderTake \/ ReaderAdvance
  BY <1>13, MouseUntouched DEF ReaderTake, ReaderAdvance, user
<1> QED
  BY <1>1, <1>2, <1>3, <1>4, <1>5, <1>6, <1>7, <1>11, <1>12, <1>13 DEF Next, Devices, Setup

\* What a driver in step shows.
LEMMA PointerIs == TypeOK /\ InStep => PointerTracks
<1> SUFFICES ASSUME TypeOK, InStep, ~ lost
             PROVE  LET left == Cardinality({i \in 1 .. Len(out) : out[i].from = "mouse"})
                    IN  /\ mouse_cycle = (3 - (left % 3)) % 3
                        /\ left = 0 => [x |-> mouse_x, y |-> mouse_y,
                                        left |-> mouse_left_click] = aim
  BY DEF PointerTracks
<1> DEFINE n == Len(out)
           Mice(i) == {j \in 1 .. i : out[j].from = "mouse"}
<1>1. PICK r : Run(MouseSteps, out, r) /\ r[0] = DriverNow /\ r[n] = AtAim
  BY DEF InStep, Takes
<1>2. n \in Nat /\ \A i \in 1 .. n : out[i] \in Byte
  BY Waiting
<1>3. \A i \in 0 .. n : r[i] \in Driver
  <2>1. /\ out \in Seq(Byte) /\ r[0] \in Driver
        /\ \A m \in Driver, b \in Byte : MouseSteps[m][b] \subseteq Driver
    BY <1>1, Waiting, DriverIs, MouseStepsAre
  <2> QED
    BY <1>1, <2>1, RunStates
<1>4. \A i \in 0 .. n : IsFiniteSet(Mice(i)) /\ Cardinality(Mice(i)) \in Nat
  <2> SUFFICES ASSUME NEW i \in 0 .. n PROVE IsFiniteSet(Mice(i)) /\ Cardinality(Mice(i)) \in Nat
    OBVIOUS
  <2>1. Mice(i) \subseteq 1 .. i /\ IsFiniteSet(1 .. i)
    BY <1>2, FS_Interval
  <2> QED
    BY <2>1, FS_Subset, FS_CardinalityType
<1> DEFINE C(i) == Cardinality(Mice(i))
           S == {i \in 0 .. n : r[i].cycle = (mouse_cycle + C(i)) % 3}
<1>5. 0 \in S
  <2>1. C(0) = 0
    <3>1. Mice(0) = {}
      OBVIOUS
    <3> QED
      BY <3>1, FS_EmptySet
  <2>2. r[0].cycle = mouse_cycle /\ mouse_cycle \in 0 .. 2
    BY <1>1 DEF DriverNow, TypeOK
  <2> QED
    BY <1>2, <2>1, <2>2
<1>6. ASSUME NEW i \in 0 .. n - 1, i \in S PROVE i + 1 \in S
  <2>1. i + 1 \in 1 .. n /\ i + 1 \in 0 .. n /\ i \in 0 .. n /\ (i + 1) - 1 = i
    BY <1>2
  <2>2. out[i + 1] \in Byte /\ r[i] \in Driver /\ out[i + 1].val \in 0 .. 255
    BY <1>2, <1>3, <2>1, Waiting
  <2>3. r[i + 1] = IF out[i + 1].from = "mouse" THEN Moved(r[i], out[i + 1].val) ELSE r[i]
    <3>1. r[i + 1] \in MouseSteps[r[i]][out[i + 1]]
      BY <1>1, <2>1 DEF Run
    <3> QED
      BY <2>2, <3>1, MouseStepsAre
  <2>4. CASE out[i + 1].from = "mouse"
    <3>1. Mice(i + 1) = Mice(i) \cup {i + 1} /\ i + 1 \notin Mice(i)
      BY <1>2, <2>1, <2>4
    <3>2. C(i + 1) = C(i) + 1
      <4> HIDE DEF Mice
      <4> QED
        BY <1>4, <2>1, <3>1, FS_AddElement
    <3>3. r[i + 1].cycle = (r[i].cycle + 1) % 3
      <4> DEFINE m == r[i]
                 v == out[i + 1].val
      <4>1. r[i + 1] = Moved(m, v) /\ m \in Driver /\ v \in 0 .. 255
        BY <2>2, <2>3, <2>4
      <4> HIDE DEF m, v
      <4>2. Moved(m, v).cycle = (m.cycle + 1) % 3
        BY <4>1, MovedIs
      <4> QED
        BY <4>1, <4>2 DEF m
    <3>4. r[i].cycle = (mouse_cycle + C(i)) % 3 /\ C(i) \in Nat /\ mouse_cycle \in 0 .. 2
      BY <1>4, <1>6, <2>1 DEF TypeOK
    <3> HIDE DEF C
    <3>5. (((mouse_cycle + C(i)) % 3) + 1) % 3 = (mouse_cycle + (C(i) + 1)) % 3
      BY <3>4, Z3
    <3> QED
      BY <2>1, <3>2, <3>3, <3>4, <3>5
  <2>5. CASE out[i + 1].from # "mouse"
    <3>1. Mice(i + 1) = Mice(i)
      BY <1>2, <2>1, <2>5
    <3> QED
      BY <1>6, <2>1, <2>3, <2>5, <3>1
  <2> QED
    BY <2>4, <2>5
<1>7. n \in S
  <2> HIDE DEF S, n
  <2>1. \A i \in 0 .. n : i \in S
    BY <1>2, <1>5, <1>6, UpTo
  <2>2. n \in 0 .. n
    BY <1>2
  <2> QED
    BY <2>1, <2>2
<1>8. (mouse_cycle + C(n)) % 3 = 0
  BY <1>1, <1>7 DEF AtAim
<1>9. mouse_cycle = (3 - (C(n) % 3)) % 3
  <2>1. C(n) \in Nat
    <3>1. n \in 0 .. n
      BY <1>2
    <3> HIDE DEF n, Mice
    <3> QED
      BY <1>4, <3>1
  <2>2. mouse_cycle \in 0 .. 2
    BY DEF TypeOK
  <2>3. \A c \in Nat, m \in 0 .. 2 : (m + c) % 3 = 0 => m = (3 - (c % 3)) % 3
    BY Z3
  <2> HIDE DEF C
  <2> QED
    BY <1>8, <2>1, <2>2, <2>3
<1>10. ASSUME C(n) = 0 PROVE [x |-> mouse_x, y |-> mouse_y, left |-> mouse_left_click] = aim
  <2>1. Mice(n) = {}
    <3> HIDE DEF Mice
    <3>1. n \in 0 .. n
      BY <1>2
    <3> QED
      BY <1>4, <1>10, <3>1, FS_EmptySet
  <2>2. ~ From("mouse")
    BY <2>1 DEF From
  <2>3. DriverNow = AtAim
    BY <2>2, NoMouseByte
  <2>4. mouse_x = aim.x /\ mouse_y = aim.y /\ mouse_left_click = aim.left
    BY <2>3 DEF DriverNow, AtAim
  <2> QED
    BY <2>4 DEF TypeOK, Pointer
<1> QED
  BY <1>9, <1>10

-----------------------------------------------------------------------------
(* The keyboard.                                                           *)

\* Places in the ring.
LEMMA Remainder ==
    ASSUME NEW N \in Nat \ {0}, NEW a \in Int, - N < a, a < 2 * N
    PROVE  a % N = IF a < 0 THEN a + N ELSE IF a < N THEN a ELSE a - N
<1> DEFINE q == a \div N
           m == a % N
<1>1. N \in Nat \ {0}
  OBVIOUS
<1>2. q \in Int /\ m \in 0 .. N - 1 /\ a = N * q + m
  BY <1>1
<1> HIDE DEF q, m
<1>3. q = -1 \/ q = 0 \/ q = 1
  <2>1. CASE q <= -2
    <3>1. N * q <= - (2 * N)
      BY <1>1, <1>2, <2>1
    <3> QED
      BY <1>1, <1>2, <3>1
  <2>2. CASE q >= 2
    <3>1. N * q >= 2 * N
      BY <1>1, <1>2, <2>2
    <3> QED
      BY <1>1, <1>2, <3>1
  <2> QED
    BY <1>2, <2>1, <2>2
<1>4. CASE q = -1
  <2>1. N * q = - N
    BY <1>1, <1>4
  <2> QED
    BY <1>1, <1>2, <2>1 DEF m
<1>5. CASE q = 0
  <2>1. N * q = 0
    BY <1>1, <1>5
  <2> QED
    BY <1>1, <1>2, <2>1 DEF m
<1>6. CASE q = 1
  <2>1. N * q = N
    BY <1>1, <1>6
  <2> QED
    BY <1>1, <1>2, <2>1 DEF m
<1> QED
  BY <1>3, <1>4, <1>5, <1>6

LEMMA Wrapped ==
    \A a \in Int :
        /\ 0 <= a /\ a < 2 * KB_BUF_SIZE =>
              a % KB_BUF_SIZE = IF a < KB_BUF_SIZE THEN a ELSE a - KB_BUF_SIZE
        /\ - KB_BUF_SIZE < a /\ a < 0 => a % KB_BUF_SIZE = a + KB_BUF_SIZE
<1> SUFFICES ASSUME NEW a \in Int
             PROVE  /\ 0 <= a /\ a < 2 * KB_BUF_SIZE =>
                         a % KB_BUF_SIZE = IF a < KB_BUF_SIZE THEN a ELSE a - KB_BUF_SIZE
                    /\ - KB_BUF_SIZE < a /\ a < 0 => a % KB_BUF_SIZE = a + KB_BUF_SIZE
  OBVIOUS
<1> DEFINE N == KB_BUF_SIZE
           m == a % N
<1>1. N \in Nat \ {0}
  BY Ps2Constants
<1> HIDE DEF N
<1>2. - N < a /\ a < 2 * N => m = IF a < 0 THEN a + N ELSE IF a < N THEN a ELSE a - N
  BY <1>1, Remainder
<1> HIDE DEF m
<1>3. /\ 0 <= a /\ a < 2 * N => m = IF a < N THEN a ELSE a - N
      /\ - N < a /\ a < 0 => m = a + N
  BY <1>1, <1>2
<1> QED
  BY <1>3 DEF m, N

Size(h, t) == (t - h) % KB_BUF_SIZE
Place(h, i) == (h + i - 1) % KB_BUF_SIZE
RingOf(h, buf, t) == [i \in 1 .. Size(h, t) |-> buf[Place(h, i)]]

LEMMA PlacesAre ==
    ASSUME NEW h \in Slot, NEW t \in Slot
    PROVE  /\ Size(h, t) = IF t >= h THEN t - h ELSE t - h + KB_BUF_SIZE
           /\ \A i \in 1 .. KB_BUF_SIZE :
                 Place(h, i) = IF h + i - 1 < KB_BUF_SIZE THEN h + i - 1
                            ELSE h + i - 1 - KB_BUF_SIZE
           /\ (t + 1) % KB_BUF_SIZE = IF t + 1 < KB_BUF_SIZE THEN t + 1 ELSE 0
<1> DEFINE N == KB_BUF_SIZE
<1>1. N \in Nat /\ N > 1 /\ h \in 0 .. N - 1 /\ t \in 0 .. N - 1
  BY Ps2Constants DEF Slot
<1>2. \A a \in Int : /\ 0 <= a /\ a < 2 * N => a % N = IF a < N THEN a ELSE a - N
                     /\ - N < a /\ a < 0 => a % N = a + N
  BY Wrapped
<1> HIDE DEF N
<1>3. Size(h, t) = IF t >= h THEN t - h ELSE t - h + N
  <2> DEFINE a == t - h
  <2>1. a \in Int /\ - N < a /\ a < N /\ a < 2 * N /\ (0 <= a <=> t >= h)
    BY <1>1
  <2>2. Size(h, t) = a % N
    BY DEF Size, N
  <2> HIDE DEF a
  <2>3. Size(h, t) = IF 0 <= a THEN a ELSE a + N
    BY <1>1, <1>2, <2>1, <2>2
  <2> QED
    BY <2>1, <2>3 DEF a
<1>4. ASSUME NEW i \in 1 .. N
      PROVE  Place(h, i) = IF h + i - 1 < N THEN h + i - 1 ELSE h + i - 1 - N
  <2> DEFINE a == h + i - 1
  <2>1. a \in Int /\ 0 <= a /\ a < 2 * N
    BY <1>1
  <2>2. Place(h, i) = a % N
    BY DEF Place, N
  <2> HIDE DEF a
  <2>3. Place(h, i) = IF a < N THEN a ELSE a - N
    BY <1>2, <2>1, <2>2
  <2>4. a = h + i - 1
    BY DEF a
  <2>5. i \in Int /\ N \in Int /\ h \in Int
    BY <1>1
  <2> QED
    BY <2>3, <2>4, <2>5
<1>5. (t + 1) % N = IF t + 1 < N THEN t + 1 ELSE 0
  <2> DEFINE a == t + 1
  <2>1. a \in Int /\ 0 <= a /\ a < 2 * N /\ a <= N
    BY <1>1
  <2> HIDE DEF a
  <2>2. a % N = IF a < N THEN a ELSE a - N
    BY <1>2, <2>1
  <2>3. a % N = IF a < N THEN a ELSE 0
    BY <1>1, <2>1, <2>2
  <2> QED
    BY <2>3 DEF a
<1> QED
  BY <1>3, <1>4, <1>5 DEF N

\* The characters in the ring are a sequence.
LEMMA RingIs ==
    ASSUME NEW h \in Slot, NEW t \in Slot, NEW buf \in [Slot -> Nat]
    PROVE  /\ RingOf(h, buf, t) \in Seq(Nat) /\ Len(RingOf(h, buf, t)) = Size(h, t)
           /\ Size(h, t) \in 0 .. KB_BUF_SIZE - 1
           /\ \A i \in 1 .. Size(h, t) :
                 RingOf(h, buf, t)[i] = buf[Place(h, i)] /\ Place(h, i) \in Slot
<1>1. KB_BUF_SIZE \in Nat /\ h \in 0 .. KB_BUF_SIZE - 1 /\ t \in 0 .. KB_BUF_SIZE - 1
  BY Ps2Constants DEF Slot
<1>2. Size(h, t) \in 0 .. KB_BUF_SIZE - 1
  BY <1>1, PlacesAre
<1>3. \A i \in 1 .. Size(h, t) : Place(h, i) \in Slot
  <2> SUFFICES ASSUME NEW i \in 1 .. Size(h, t) PROVE Place(h, i) \in Slot
    OBVIOUS
  <2>1. i \in 1 .. KB_BUF_SIZE
    BY <1>1, <1>2
  <2>2. Place(h, i) = IF h + i - 1 < KB_BUF_SIZE THEN h + i - 1
                   ELSE h + i - 1 - KB_BUF_SIZE
    BY <2>1, PlacesAre
  <2> QED
    BY <1>1, <2>1, <2>2 DEF Slot
<1> DEFINE n == Size(h, t)
           e(i) == buf[Place(h, i)]
           s == [i \in 1 .. n |-> e(i)]
<1>4. \A i \in 1 .. n : e(i) \in Nat
  BY <1>3
<1>5. s \in Seq(Nat) /\ Len(s) = n /\ \A i \in 1 .. n : s[i] = e(i)
  <2>1. n \in Nat
    BY <1>2
  <2> HIDE DEF n, e
  <2> QED
    BY <1>4, <2>1
<1> QED
  BY <1>2, <1>3, <1>5 DEF RingOf

\* A character more.
LEMMA RingPushed ==
    ASSUME NEW h \in Slot, NEW t \in Slot, NEW buf \in [Slot -> Nat], NEW c \in Nat,
           (t + 1) % KB_BUF_SIZE # h
    PROVE  RingOf(h, [buf EXCEPT ![t] = c], (t + 1) % KB_BUF_SIZE) = Append(RingOf(h, buf, t), c)
<1> DEFINE u == (t + 1) % KB_BUF_SIZE
           new == [buf EXCEPT ![t] = c]
           n == Size(h, t)
           s == RingOf(h, buf, t)
           w == RingOf(h, new, u)
<1>1. KB_BUF_SIZE \in Nat /\ h \in 0 .. KB_BUF_SIZE - 1 /\ t \in 0 .. KB_BUF_SIZE - 1
  BY Ps2Constants DEF Slot
<1>2. u = IF t + 1 < KB_BUF_SIZE THEN t + 1 ELSE 0
  BY PlacesAre
<1>3. u \in Slot /\ u # h
  BY <1>1, <1>2 DEF Slot
<1> HIDE DEF u
<1>4. n = (IF t >= h THEN t - h ELSE t - h + KB_BUF_SIZE)
  BY PlacesAre
<1>5. Size(h, u) = IF u >= h THEN u - h ELSE u - h + KB_BUF_SIZE
  BY <1>3, PlacesAre
<1>6. Size(h, u) = n + 1 /\ n \in 0 .. KB_BUF_SIZE - 1 /\ n + 1 \in 1 .. KB_BUF_SIZE
  <2> HIDE DEF n
  <2> QED
    BY <1>1, <1>2, <1>3, <1>4, <1>5
<1> HIDE DEF n
<1>7. Place(h, n + 1) = t
  <2>1. Place(h, n + 1) = IF h + (n + 1) - 1 < KB_BUF_SIZE THEN h + (n + 1) - 1
                       ELSE h + (n + 1) - 1 - KB_BUF_SIZE
    BY <1>6, PlacesAre
  <2> QED
    BY <1>1, <1>4, <1>6, <2>1
<1>8. \A i \in 1 .. n : Place(h, i) # t
  <2> SUFFICES ASSUME NEW i \in 1 .. n PROVE Place(h, i) # t
    OBVIOUS
  <2>1. i \in 1 .. KB_BUF_SIZE
    BY <1>1, <1>6
  <2>2. Place(h, i) = IF h + i - 1 < KB_BUF_SIZE THEN h + i - 1
                   ELSE h + i - 1 - KB_BUF_SIZE
    BY <2>1, PlacesAre
  <2> QED
    BY <1>1, <1>4, <1>6, <2>1, <2>2
<1>9. /\ s \in Seq(Nat) /\ Len(s) = n
      /\ \A i \in 1 .. n : s[i] = buf[Place(h, i)] /\ Place(h, i) \in Slot
  BY RingIs DEF n
<1>10. new \in [Slot -> Nat] /\ new[t] = c /\ \A j \in Slot : j # t => new[j] = buf[j]
  OBVIOUS
<1> HIDE DEF new
<1>11. w \in Seq(Nat) /\ Len(w) = n + 1 /\ \A i \in 1 .. n + 1 : w[i] = new[Place(h, i)]
  <2>1. new \in [Slot -> Nat]
    BY <1>10
  <2>2. /\ w \in Seq(Nat) /\ Len(w) = Size(h, u)
        /\ \A i \in 1 .. Size(h, u) : w[i] = new[Place(h, i)]
    BY <1>3, <2>1, RingIs
  <2> HIDE DEF w
  <2> QED
    BY <1>6, <2>2
<1> HIDE DEF s, w
<1>12. Append(s, c) \in Seq(Nat) /\ Len(Append(s, c)) = n + 1 /\ Append(s, c)[n + 1] = c
       /\ \A i \in 1 .. n : Append(s, c)[i] = s[i]
  BY <1>9, AppendProperties
<1>13. \A i \in 1 .. n + 1 : w[i] = Append(s, c)[i]
  <2> SUFFICES ASSUME NEW i \in 1 .. n + 1 PROVE w[i] = Append(s, c)[i]
    OBVIOUS
  <2>1. CASE i = n + 1
    BY <1>7, <1>10, <1>11, <1>12, <2>1
  <2>2. CASE i # n + 1
    <3>1. i \in 1 .. n
      BY <1>6, <2>2
    <3>2. w[i] = new[Place(h, i)] /\ new[Place(h, i)] = buf[Place(h, i)]
      BY <1>8, <1>9, <1>10, <1>11, <3>1
    <3> QED
      BY <1>9, <1>12, <3>1, <3>2
  <2> QED
    BY <2>1, <2>2
<1>14. w = Append(s, c)
  BY <1>11, <1>12, <1>13, SeqEqual
<1> QED
  BY <1>14 DEF w, s, new, u


\* A character less.
LEMMA RingRemoved ==
    ASSUME NEW h \in Slot, NEW t \in Slot, NEW buf \in [Slot -> Nat], t # h
    PROVE  /\ RingOf(h, buf, t) # <<>> /\ Head(RingOf(h, buf, t)) = buf[h]
           /\ RingOf((h + 1) % KB_BUF_SIZE, [buf EXCEPT ![h] = 0], t) = Tail(RingOf(h, buf, t))
<1> DEFINE g == (h + 1) % KB_BUF_SIZE
           new == [buf EXCEPT ![h] = 0]
           n == Size(h, t)
           s == RingOf(h, buf, t)
           w == RingOf(g, new, t)
<1>1. KB_BUF_SIZE \in Nat /\ h \in 0 .. KB_BUF_SIZE - 1 /\ t \in 0 .. KB_BUF_SIZE - 1
  BY Ps2Constants DEF Slot
<1>2. g = IF h + 1 < KB_BUF_SIZE THEN h + 1 ELSE 0
  BY PlacesAre
<1>3. g \in Slot
  BY <1>1, <1>2 DEF Slot
<1> HIDE DEF g
<1>4. n = (IF t >= h THEN t - h ELSE t - h + KB_BUF_SIZE)
  BY PlacesAre
<1>5. Size(g, t) = IF t >= g THEN t - g ELSE t - g + KB_BUF_SIZE
  BY <1>3, PlacesAre
<1>6. n \in 1 .. KB_BUF_SIZE - 1 /\ Size(g, t) = n - 1
  <2> HIDE DEF n
  <2> QED
    BY <1>1, <1>2, <1>3, <1>4, <1>5
<1>7. s \in Seq(Nat) /\ Len(s) = n
      /\ \A i \in 1 .. n : s[i] = buf[Place(h, i)] /\ Place(h, i) \in Slot
  BY RingIs DEF n
<1> HIDE DEF n
<1>8. Place(h, 1) = h
  <2>1. 1 \in 1 .. KB_BUF_SIZE
    BY <1>1, <1>6
  <2>2. Place(h, 1) = IF h + 1 - 1 < KB_BUF_SIZE THEN h + 1 - 1 ELSE h + 1 - 1 - KB_BUF_SIZE
    BY <2>1, PlacesAre
  <2> QED
    BY <1>1, <2>2
<1>9. \A i \in 1 .. n - 1 : Place(g, i) = Place(h, i + 1) /\ Place(g, i) # h
  <2> SUFFICES ASSUME NEW i \in 1 .. n - 1 PROVE Place(g, i) = Place(h, i + 1) /\ Place(g, i) # h
    OBVIOUS
  <2>1. i \in 1 .. KB_BUF_SIZE /\ i + 1 \in 1 .. KB_BUF_SIZE
    BY <1>1, <1>6
  <2>2. Place(g, i) = IF g + i - 1 < KB_BUF_SIZE THEN g + i - 1 ELSE g + i - 1 - KB_BUF_SIZE
    BY <1>3, <2>1, PlacesAre
  <2>3. Place(h, i + 1) = IF h + (i + 1) - 1 < KB_BUF_SIZE THEN h + (i + 1) - 1
                          ELSE h + (i + 1) - 1 - KB_BUF_SIZE
    BY <2>1, PlacesAre
  <2>4. i \in Int /\ n \in Int /\ i <= n - 1 /\ 1 <= i
    BY <1>6
  <2> QED
    BY <1>1, <1>2, <1>4, <1>6, <2>2, <2>3, <2>4
<1>10. new \in [Slot -> Nat] /\ \A j \in Slot : j # h => new[j] = buf[j]
  OBVIOUS
<1> HIDE DEF new
<1>11. w \in Seq(Nat) /\ Len(w) = n - 1 /\ \A i \in 1 .. n - 1 : w[i] = new[Place(g, i)]
  <2>1. new \in [Slot -> Nat]
    BY <1>10
  <2>2. /\ w \in Seq(Nat) /\ Len(w) = Size(g, t)
        /\ \A i \in 1 .. Size(g, t) : w[i] = new[Place(g, i)]
    BY <1>3, <2>1, RingIs
  <2> HIDE DEF w
  <2> QED
    BY <1>6, <2>2
<1> HIDE DEF s, w
<1>12. s # <<>> /\ Head(s) = s[1]
  BY <1>6, <1>7
<1>13. Head(s) = buf[h]
  BY <1>6, <1>7, <1>8, <1>12
<1>14. Tail(s) \in Seq(Nat) /\ Len(Tail(s)) = n - 1 /\ \A i \in 1 .. n - 1 : Tail(s)[i] = s[i + 1]
  BY <1>6, <1>7, <1>12, HeadTailProperties
<1>15. \A i \in 1 .. n - 1 : w[i] = Tail(s)[i]
  <2> SUFFICES ASSUME NEW i \in 1 .. n - 1 PROVE w[i] = Tail(s)[i]
    OBVIOUS
  <2>1. i + 1 \in 1 .. n
    BY <1>6
  <2>2. Place(g, i) \in Slot /\ Place(g, i) # h
    BY <1>7, <1>9, <2>1
  <2>3. w[i] = buf[Place(g, i)]
    BY <1>10, <1>11, <2>2
  <2> QED
    BY <1>7, <1>9, <1>14, <2>1, <2>3
<1>16. w = Tail(s)
  BY <1>11, <1>14, <1>15, SeqEqual
<1> QED
  BY <1>12, <1>13, <1>16 DEF w, s, new, g

\* What the bytes waiting will type: the characters, and the state of the shift key.
Typist == [chars : Seq(Nat), shift : BOOLEAN]
Fits(s, b) ==
    b.char = IF b.from = "key" /\ Plain(b.val) THEN CharOf(s.shift, b.val) ELSE 0
Typed(s, b) ==
    [chars |-> IF b.char = 0 THEN s.chars ELSE Append(s.chars, b.char),
     shift |-> IF b.from = "key" THEN ShiftAfter(s.shift, b.val) ELSE s.shift]
KeySteps == [s \in Typist |-> [b \in Byte |-> {y \in {Typed(s, b)} : Fits(s, b)}]]

TypistNow == [chars |-> <<>>, shift |-> kb_shift]
Ends(c) == [chars |-> c, shift |-> down # {}]

LEMMA TypedIs ==
    ASSUME NEW s \in Typist, NEW b \in Byte
    PROVE  /\ Typed(s, b) \in Typist
           /\ KeySteps[s][b] \subseteq Typist
           /\ \A y : y \in KeySteps[s][b] <=> Fits(s, b) /\ y = Typed(s, b)
<1>1. s.chars \in Seq(Nat) /\ s.shift \in BOOLEAN /\ b.char \in Nat
  BY DEF Typist, Byte
<1>2. Append(s.chars, b.char) \in Seq(Nat)
  BY <1>1, AppendProperties
<1>3. ShiftAfter(s.shift, b.val) \in BOOLEAN
  BY DEF ShiftAfter
<1>4. Typed(s, b) \in Typist
  BY <1>1, <1>2, <1>3 DEF Typed, Typist
<1>5. KeySteps[s][b] = {y \in {Typed(s, b)} : Fits(s, b)}
  BY DEF KeySteps
<1> QED
  BY <1>4, <1>5, Zenon

\* The state of the typist is a state.
LEMMA TypistIs ==
    TypeOK => /\ TypistNow \in Typist /\ \A c \in Seq(Nat) : Ends(c) \in Typist
              /\ expect \in Seq(Nat) /\ Ring \in Seq(Nat)
              /\ Ring = RingOf(kb_head, kb_buf, kb_tail)
              /\ kb_head \in Slot /\ kb_tail \in Slot /\ kb_buf \in [Slot -> Nat]
<1> SUFFICES ASSUME TypeOK
             PROVE  /\ TypistNow \in Typist /\ \A c \in Seq(Nat) : Ends(c) \in Typist
                    /\ expect \in Seq(Nat) /\ Ring \in Seq(Nat)
                    /\ Ring = RingOf(kb_head, kb_buf, kb_tail)
                    /\ kb_head \in Slot /\ kb_tail \in Slot /\ kb_buf \in [Slot -> Nat]
  OBVIOUS
<1>1. /\ kb_shift \in BOOLEAN /\ expect \in Seq(Nat)
      /\ kb_head \in Slot /\ kb_tail \in Slot /\ kb_buf \in [Slot -> Nat]
  BY DEF TypeOK
<1>2. <<>> \in Seq(Nat) /\ (down # {}) \in BOOLEAN
  OBVIOUS
<1>3. TypistNow \in Typist /\ \A c \in Seq(Nat) : Ends(c) \in Typist
  BY <1>1, <1>2 DEF TypistNow, Typist, Ends
<1>4. Ring = RingOf(kb_head, kb_buf, kb_tail)
  BY DEF Ring, RingOf, Size, Place
<1>5. Ring \in Seq(Nat)
  BY <1>1, <1>4, RingIs
<1> QED
  BY <1>1, <1>3, <1>4, <1>5

\* As long as nothing went wrong, the bytes waiting type the characters that are not in
\* the ring yet, and leave the shift keys as the user holds them.
Right == ~ lost /\ ~ astray /\ ~ bothDown /\ ~ dropped
Typing ==
    Right => \E c \in Seq(Nat) : /\ Takes(KeySteps, out, TypistNow, Ends(c))
                                 /\ expect = Ring \o c
OneShift == ~ bothDown => \A s, t \in down : s = t
ReaderKnows == reader.at = "advance" => kb_head # kb_tail /\ reader.char = kb_buf[kb_head]

LEMMA TypingInit == Init => Typing /\ OneShift /\ ReaderKnows
<1> SUFFICES ASSUME Init PROVE Typing /\ OneShift /\ ReaderKnows
  OBVIOUS
<1>0. TypeOK
  BY TypesInit
<1>1. out = <<>> /\ expect = <<>> /\ kb_shift = FALSE /\ down = {} /\ reader.at = "test"
  BY DEF Init
<1>2. TypistNow = Ends(<<>>)
  BY <1>1 DEF TypistNow, Ends
<1>3. Takes(KeySteps, out, TypistNow, Ends(<<>>))
  BY <1>1, <1>2, TakesNone
<1>4. expect = Ring \o <<>>
  <2>1. Ring = RingOf(kb_head, kb_buf, kb_tail) /\ kb_head \in Slot /\ kb_tail \in Slot
        /\ kb_buf \in [Slot -> Nat]
    BY <1>0, TypistIs
  <2>2. Size(kb_head, kb_tail) = 0
    <3>1. kb_head = 0 /\ kb_tail = 0
      BY DEF Init
    <3> QED
      BY <2>1, <3>1, PlacesAre
  <2>3. Ring \in Seq(Nat) /\ Len(Ring) = 0
    BY <2>1, <2>2, RingIs
  <2>4. Ring = <<>>
    BY <2>3, EmptySeq
  <2> QED
    BY <1>1, <2>4
<1>5. <<>> \in Seq(Nat)
  OBVIOUS
<1> QED
  BY <1>1, <1>3, <1>4, <1>5 DEF Typing, OneShift, ReaderKnows

LEMMA TypistUntouched ==
    ASSUME Typing, UNCHANGED <<out, kb_buf, kb_head, kb_tail, kb_shift, expect, down>>,
           Right' => Right
    PROVE  Typing'
<1>1. TypistNow' = TypistNow /\ (\A c : Ends(c)' = Ends(c)) /\ Ring' = Ring
  BY DEF TypistNow, Ends, Ring
<1>2. out' = out /\ expect' = expect
  OBVIOUS
<1> SUFFICES ASSUME Right'
             PROVE  (\E c \in Seq(Nat) : /\ Takes(KeySteps, out, TypistNow, Ends(c))
                                         /\ expect = Ring \o c)'
  BY DEF Typing
<1>3. PICK c \in Seq(Nat) : Takes(KeySteps, out, TypistNow, Ends(c)) /\ expect = Ring \o c
  BY DEF Typing
<1> QED
  BY <1>1, <1>2, <1>3

\* Bytes of the controller or the mouse type nothing.
LEMMA OtherTyped ==
    ASSUME NEW s \in Typist, NEW b \in Byte, b.from # "key"
    PROVE  /\ \A y \in KeySteps[s][b] : y = s
           /\ b.char = 0 => s \in KeySteps[s][b]
<1>1. s = [chars |-> s.chars, shift |-> s.shift]
  BY DEF Typist
<1>2. b.char = 0 => Typed(s, b) = s
  BY <1>1 DEF Typed
<1>3. Fits(s, b) <=> b.char = 0
  BY DEF Fits
<1> QED
  BY <1>2, <1>3, TypedIs

\* One more byte, that is not of the keyboard.
LEMMA OtherBehind ==
    ASSUME NEW q \in Seq(Byte), NEW b \in Byte, b.from # "key", b.char = 0,
           NEW a \in Typist, NEW z \in Typist, Takes(KeySteps, q, a, z)
    PROVE  Append(q, b) \in Seq(Byte) /\ Takes(KeySteps, Append(q, b), a, z)
<1>1. z \in KeySteps[z][b]
  BY OtherTyped
<1>2. Takes(KeySteps, Append(q, b), a, z)
  BY <1>1, TakesMore
<1> QED
  BY <1>2, AppendProperties

\* Bytes are sent that type nothing.
LEMMA TypingOther ==
    ASSUME TypeOK, Typing, NEW who, who \in {"controller", "ack"}, NEW val \in 0 .. 255,
           Send(<<[from |-> who, val |-> val, char |-> 0]>>),
           UNCHANGED <<keyboard, expect, down, lost, astray, bothDown>>
    PROVE  Typing'
<1> DEFINE b == [from |-> who, val |-> val, char |-> 0]
<1>1. b \in Byte /\ b.from # "key" /\ b.char = 0
  BY DEF Byte
<1>2. out' = out \o <<b>>
  BY DEF Send
<1>3. /\ TypistNow' = TypistNow /\ (\A c : Ends(c)' = Ends(c)) /\ Ring' = Ring
      /\ (Right' => Right) /\ expect' = expect
  BY DEF TypistNow, Ends, Ring, Right, keyboard
<1> HIDE DEF b
<1>4. out' = Append(out, b) /\ out \in Seq(Byte)
  BY <1>1, <1>2, Waiting, AppendIsConcat
<1> SUFFICES ASSUME Right'
             PROVE  (\E c \in Seq(Nat) : /\ Takes(KeySteps, out, TypistNow, Ends(c))
                                         /\ expect = Ring \o c)'
  BY DEF Typing
<1>5. PICK c \in Seq(Nat) : Takes(KeySteps, out, TypistNow, Ends(c)) /\ expect = Ring \o c
  BY <1>3 DEF Typing
<1>6. TypistNow \in Typist /\ Ends(c) \in Typist
  BY TypistIs
<1>7. Takes(KeySteps, out', TypistNow, Ends(c))
  BY <1>1, <1>4, <1>5, <1>6, OtherBehind
<1> QED
  BY <1>3, <1>5, <1>7

LEMMA TypingPacket ==
    ASSUME TypeOK, Typing, NEW p \in Packets, MovePointer(p)
    PROVE  Typing'
<1> DEFINE b(i) == [from |-> "mouse", val |-> p[i], char |-> 0]
           w1 == Append(out, b(1))
           w2 == Append(w1, b(2))
           w3 == Append(w2, b(3))
<1>1. p \in [1 .. 3 -> 0 .. 255]
  BY Ps2Constants
<1>2. \A i \in 1 .. 3 : b(i) \in Byte /\ b(i).from # "key" /\ b(i).char = 0
  BY <1>1 DEF Byte
<1>3. out' = w3
  <2> HIDE DEF b, w3
  <2> QED
    BY PacketAppended DEF b, w1, w2, w3
<1>4. /\ TypistNow' = TypistNow /\ (\A c : Ends(c)' = Ends(c)) /\ Ring' = Ring
      /\ (Right' => Right) /\ expect' = expect
  BY DEF MovePointer, TypistNow, Ends, Ring, Right, keyboard
<1> SUFFICES ASSUME Right'
             PROVE  (\E c \in Seq(Nat) : /\ Takes(KeySteps, out, TypistNow, Ends(c))
                                         /\ expect = Ring \o c)'
  BY DEF Typing
<1>5. PICK c \in Seq(Nat) : Takes(KeySteps, out, TypistNow, Ends(c)) /\ expect = Ring \o c
  BY <1>4 DEF Typing
<1>6. TypistNow \in Typist /\ Ends(c) \in Typist /\ out \in Seq(Byte)
  BY TypistIs, Waiting
<1>7. Takes(KeySteps, out', TypistNow, Ends(c))
  <2> HIDE DEF b, w1, w2, w3
  <2>1. w1 \in Seq(Byte) /\ Takes(KeySteps, w1, TypistNow, Ends(c))
    BY <1>2, <1>5, <1>6, OtherBehind DEF w1
  <2>2. w2 \in Seq(Byte) /\ Takes(KeySteps, w2, TypistNow, Ends(c))
    BY <1>2, <1>6, <2>1, OtherBehind DEF w2
  <2>3. w3 \in Seq(Byte) /\ Takes(KeySteps, w3, TypistNow, Ends(c))
    BY <1>2, <1>6, <2>2, OtherBehind DEF w3
  <2> QED
    BY <1>3, <2>3
<1> QED
  BY <1>4, <1>5, <1>7

LEMMA AppendBehind ==
    ASSUME NEW s \in Seq(Nat), NEW c \in Seq(Nat), NEW x \in Nat
    PROVE  Append(s \o c, x) = s \o Append(c, x)
<1> DEFINE e == <<x>>
<1>1. e \in Seq(Nat) /\ s \o c \in Seq(Nat)
  BY ConcatProperties
<1>2. /\ Append(c, x) = c \o e
      /\ \A t \in Seq(Nat) : Append(t, x) = t \o e
  BY AppendIsConcat
<1> HIDE DEF e
<1>3. (s \o c) \o e = s \o (c \o e)
  BY <1>1, ConcatAssociative, SMTT(30)
<1>4. Append(s \o c, x) = (s \o c) \o e
  BY <1>1, <1>2, Zenon
<1> QED
  BY <1>2, <1>3, <1>4, Zenon

\* A byte of the keyboard, that types the character its key stands for.
LEMMA TypingKey ==
    ASSUME TypeOK, Typing, NEW sc \in 0 .. 255, NEW char \in Nat, KeyByte(sc, char),
           Right' => char = IF Plain(sc) THEN CharOf(down # {}, sc) ELSE 0,
           Right' => ShiftAfter(down # {}, sc) = (down' # {}),
           Right' => Right
    PROVE  Typing'
<1> DEFINE b == [from |-> "key", val |-> sc, char |-> char]
<1>1. b \in Byte /\ b.from = "key" /\ b.char = char /\ b.val = sc
  BY DEF Byte
<1>2. out' = out \o <<b>>
  BY DEF KeyByte, Send
<1> HIDE DEF b
<1>3. out' = Append(out, b) /\ out \in Seq(Byte)
  BY <1>1, <1>2, Waiting, AppendIsConcat
<1>4. /\ TypistNow' = TypistNow /\ Ring' = Ring
      /\ expect' = IF char = 0 THEN expect ELSE Append(expect, char)
  BY DEF KeyByte, TypistNow, Ring, keyboard
<1> SUFFICES ASSUME Right'
             PROVE  (\E c \in Seq(Nat) : /\ Takes(KeySteps, out, TypistNow, Ends(c))
                                         /\ expect = Ring \o c)'
  BY DEF Typing
<1>5. PICK c \in Seq(Nat) : Takes(KeySteps, out, TypistNow, Ends(c)) /\ expect = Ring \o c
  BY DEF Typing
<1>6. TypistNow \in Typist /\ Ends(c) \in Typist /\ Ring \in Seq(Nat)
  BY TypistIs
<1> DEFINE d == IF char = 0 THEN c ELSE Append(c, char)
<1>7. d \in Seq(Nat)
  BY AppendProperties
<1>8. expect' = Ring \o d
  <2>1. CASE char = 0
    BY <1>4, <1>5, <2>1
  <2>2. CASE char # 0
    <3>1. Append(Ring \o c, char) = Ring \o Append(c, char)
      BY <1>6, AppendBehind
    <3> QED
      BY <1>4, <1>5, <2>2, <3>1
  <2> QED
    BY <2>1, <2>2
<1>9. [chars |-> d, shift |-> down' # {}] \in KeySteps[Ends(c)][b]
  <2>1. Ends(c).chars = c /\ Ends(c).shift = (down # {})
    BY DEF Ends
  <2>2. Fits(Ends(c), b)
    BY <1>1, <2>1 DEF Fits
  <2>3. Typed(Ends(c), b) = [chars |-> d, shift |-> down' # {}]
    BY <1>1, <2>1 DEF Typed
  <2> HIDE DEF d
  <2> QED
    BY <1>1, <1>6, <2>2, <2>3, TypedIs
<1> HIDE DEF d
<1>10. Takes(KeySteps, out', TypistNow, [chars |-> d, shift |-> down' # {}])
  BY <1>1, <1>3, <1>5, <1>9, TakesMore
<1>11. Ends(d)' = [chars |-> d, shift |-> down' # {}]
  BY DEF Ends
<1> QED
  BY <1>4, <1>7, <1>8, <1>10, <1>11

\* The first byte is read by somebody else than the keyboard, and was not meant for it.
LEMMA TypingRead ==
    ASSUME TypeOK, Typing, out # <<>>, out' = Tail(out), out[1].from # "key",
           UNCHANGED <<kb_buf, kb_head, kb_tail, kb_shift, expect, down>>, Right' => Right
    PROVE  Typing'
<1>1. /\ TypistNow' = TypistNow /\ (\A c : Ends(c)' = Ends(c)) /\ Ring' = Ring
      /\ expect' = expect
  BY DEF TypistNow, Ends, Ring
<1> SUFFICES ASSUME Right'
             PROVE  (\E c \in Seq(Nat) : /\ Takes(KeySteps, out, TypistNow, Ends(c))
                                         /\ expect = Ring \o c)'
  BY DEF Typing
<1>2. PICK c \in Seq(Nat) : Takes(KeySteps, out, TypistNow, Ends(c)) /\ expect = Ring \o c
  BY DEF Typing
<1>3. out \in Seq(Byte) /\ out[1] \in Byte /\ TypistNow \in Typist
  <2>1. out \in Seq(Byte) /\ 1 \in 1 .. Len(out)
    BY Waiting
  <2> QED
    BY <2>1, Waiting, TypistIs
<1>4. PICK s \in KeySteps[TypistNow][out[1]] : Takes(KeySteps, Tail(out), s, Ends(c))
  BY <1>2, <1>3, TakesRest
<1>5. s = TypistNow
  BY <1>3, <1>4, OtherTyped
<1> QED
  BY <1>1, <1>2, <1>4, <1>5

\* The loop of keyboard_poll types what the bytes mean.
LEMMA TypingDrained ==
    ASSUME TypeOK, Typing, Drain, UNCHANGED <<kb_head, expect, down, bothDown>>
    PROVE  Typing'
<1> SUFFICES ASSUME Right'
             PROVE  (\E c \in Seq(Nat) : /\ Takes(KeySteps, out, TypistNow, Ends(c))
                                         /\ expect = Ring \o c)'
  BY DEF Typing
<1> DEFINE n == Len(out)
           ring == Ring
<1>1. n \in Nat /\ out \in Seq(Byte)
      /\ \A i \in 1 .. n : out[i] \in Byte /\ out[i].val \in 0 .. 255
  BY Waiting
<1>2. PICK k : Loop(k) /\ Drained = k[n]
  BY <1>1, DrainedIs
<1>3. /\ ~ lost /\ ~ astray /\ ~ bothDown /\ ~ k[n].dropped
      /\ ~ From("controller") /\ ~ From("ack") /\ ~ From("mouse")
      /\ kb_buf' = k[n].buf /\ kb_tail' = k[n].tail /\ kb_shift' = k[n].shift /\ out' = <<>>
  BY <1>2 DEF Drain, Right
<1>4. \A i \in 1 .. n : out[i].from = "key"
  <2>1. \A b \in Byte : b.from \in {"key", "mouse", "controller", "ack"}
    BY DEF Byte
  <2> QED
    BY <1>1, <1>3, <2>1 DEF From
<1>5. /\ \A i \in 0 .. n : k[i] \in Keyboard
      /\ k[0] = KeyboardNow /\ \A i \in 1 .. n : k[i] = Process(k[i - 1], out[i].val)
  BY <1>2, LoopIs DEF Loop
<1>6. kb_head \in Slot /\ ring \in Seq(Nat) /\ ring = RingOf(kb_head, kb_buf, kb_tail)
      /\ expect \in Seq(Nat) /\ TypistNow \in Typist
  BY TypistIs
<1> HIDE DEF ring
<1> DEFINE Undropped == {i \in 0 .. n : ~ k[i].dropped}
<1>7. \A i \in 1 .. n : i \in Undropped => i - 1 \in Undropped
  <2> SUFFICES ASSUME NEW i \in 1 .. n, ~ k[i].dropped PROVE ~ k[i - 1].dropped
    BY <1>1
  <2> DEFINE f == k[i - 1]
             sc == out[i].val
  <2>1. i - 1 \in 0 .. n
    BY <1>1
  <2>2. f \in Keyboard /\ sc \in 0 .. 255 /\ k[i] = Process(f, sc)
    BY <1>1, <1>5, <2>1
  <2> HIDE DEF f, sc
  <2>3. ~ Process(f, sc).dropped
    BY <2>2
  <2>4. ~ Process(f, sc).dropped => ~ f.dropped
    BY <1>6, <2>2, ProcessIs
  <2> QED
    BY <2>3, <2>4 DEF f
<1>8. ~ dropped
  <2> DEFINE S == {i \in 0 .. n : n - i \in Undropped}
  <2>1. 0 \in S
    BY <1>1, <1>3
  <2>2. ASSUME NEW i \in 0 .. n - 1, i \in S PROVE i + 1 \in S
    <3>1. n - i \in 1 .. n /\ (n - i) - 1 = n - (i + 1) /\ i + 1 \in 0 .. n
      BY <1>1
    <3> HIDE DEF Undropped
    <3> QED
      BY <1>7, <2>2, <3>1
  <2>3. n \in S
    <3> HIDE DEF S, n
    <3>1. \A i \in 0 .. n : i \in S
      BY <1>1, <2>1, <2>2, UpTo
    <3>2. n \in 0 .. n
      BY <1>1
    <3> QED
      BY <3>1, <3>2
  <2>4. n - n = 0
    BY <1>1
  <2> QED
    BY <1>5, <2>3, <2>4 DEF KeyboardNow
<1>9. PICK c \in Seq(Nat) : Takes(KeySteps, out, TypistNow, Ends(c)) /\ expect = ring \o c
  BY <1>3, <1>8 DEF Typing, Right, ring
<1>10. PICK r : Run(KeySteps, out, r) /\ r[0] = TypistNow /\ r[n] = Ends(c)
  BY <1>9 DEF Takes
<1>11. \A i \in 0 .. n : r[i] \in Typist
  <2>1. \A s \in Typist, b \in Byte : KeySteps[s][b] \subseteq Typist
    BY TypedIs
  <2> QED
    BY <1>1, <1>6, <1>10, <2>1, RunStates
<1>12. \A i \in 1 .. n : Fits(r[i - 1], out[i]) /\ r[i] = Typed(r[i - 1], out[i])
  <2> SUFFICES ASSUME NEW i \in 1 .. n
               PROVE  Fits(r[i - 1], out[i]) /\ r[i] = Typed(r[i - 1], out[i])
    OBVIOUS
  <2>1. i - 1 \in 0 .. n
    BY <1>1
  <2>2. r[i] \in KeySteps[r[i - 1]][out[i]]
    BY <1>10 DEF Run
  <2> QED
    BY <1>1, <1>11, <2>1, <2>2, TypedIs
\* Key by key, the ring grows by the characters and the driver knows the shift key.
<1> DEFINE Same(f, s) == /\ f.shift = s.shift
                         /\ ~ f.dropped => RingOf(kb_head, f.buf, f.tail) = ring \o s.chars
           S == {i \in 0 .. n : Same(k[i], r[i])}
<1>13. 0 \in S
  <2>1. /\ k[0].shift = kb_shift /\ r[0].shift = kb_shift
        /\ k[0].buf = kb_buf /\ k[0].tail = kb_tail /\ r[0].chars = <<>>
    BY <1>5, <1>10 DEF KeyboardNow, TypistNow
  <2>2. ring \o <<>> = ring
    BY <1>6, ConcatEmptySeq
  <2>3. 0 \in 0 .. n
    BY <1>1
  <2> QED
    BY <1>6, <2>1, <2>2, <2>3
<1>14. ASSUME NEW i \in 0 .. n - 1, i \in S PROVE i + 1 \in S
  <2> DEFINE f == k[i]
             s == r[i]
             b == out[i + 1]
             sc == b.val
             ch == CharOf(f.shift, sc)
             g == Process(f, sc)
             t == Typed(s, b)
  <2>1. i \in 0 .. n /\ i + 1 \in 1 .. n /\ i + 1 \in 0 .. n /\ (i + 1) - 1 = i
    BY <1>1
  <2>2. f \in Keyboard /\ s \in Typist /\ Same(f, s)
    BY <1>5, <1>11, <1>14, <2>1
  <2>3. /\ b \in Byte /\ sc \in 0 .. 255 /\ b.from = "key"
        /\ k[i + 1] = g /\ r[i + 1] = t /\ Fits(s, b)
    BY <1>1, <1>4, <1>5, <1>12, <2>1
  <2> HIDE DEF f, s, b
  <2>4. f.buf \in [Slot -> Nat] /\ f.tail \in Slot /\ f.shift = s.shift /\ s.chars \in Seq(Nat)
    BY <2>2 DEF Keyboard, Typist
  <2>5. b.char = IF Plain(sc) THEN ch ELSE 0
    BY <2>3, <2>4 DEF Fits
  <2>6. t.shift = ShiftAfter(s.shift, sc)
        /\ t.chars = IF b.char = 0 THEN s.chars ELSE Append(s.chars, b.char)
    BY <2>3 DEF Typed
  <2>7. g.shift = ShiftAfter(f.shift, sc) /\ (~ g.dropped => ~ f.dropped)
        /\ (~ Plain(sc) \/ ch = 0 => g.buf = f.buf /\ g.tail = f.tail)
        /\ (Plain(sc) /\ ch # 0 => ch \in Nat /\ g = Push(f, ch))
    BY <1>6, <2>2, <2>3, ProcessIs
  <2> HIDE DEF sc, ch, g, t
  <2>8. ASSUME ~ g.dropped PROVE RingOf(kb_head, g.buf, g.tail) = ring \o t.chars
    <3>1. RingOf(kb_head, f.buf, f.tail) = ring \o s.chars
      BY <2>2, <2>7, <2>8
    <3>2. CASE ~ Plain(sc) \/ ch = 0
      BY <2>5, <2>6, <2>7, <3>1, <3>2
    <3>3. CASE Plain(sc) /\ ch # 0
      <4>1. ch \in Nat /\ g = Push(f, ch)
        BY <2>7, <3>3
      <4>2. /\ (f.tail + 1) % KB_BUF_SIZE # kb_head
            /\ g.buf = [f.buf EXCEPT ![f.tail] = ch] /\ g.tail = (f.tail + 1) % KB_BUF_SIZE
        BY <1>6, <2>2, <2>8, <4>1, PushIs
      <4>3. RingOf(kb_head, g.buf, g.tail) = Append(RingOf(kb_head, f.buf, f.tail), ch)
        <5> DEFINE buf == f.buf
                   u == f.tail
        <5>1. buf \in [Slot -> Nat] /\ u \in Slot /\ (u + 1) % KB_BUF_SIZE # kb_head
          BY <2>4, <4>2
        <5> HIDE DEF buf, u
        <5>2. RingOf(kb_head, [buf EXCEPT ![u] = ch], (u + 1) % KB_BUF_SIZE)
                = Append(RingOf(kb_head, buf, u), ch)
          BY <1>6, <4>1, <5>1, RingPushed
        <5> QED
          BY <4>2, <5>2 DEF buf, u
      <4>4. t.chars = Append(s.chars, ch)
        BY <2>5, <2>6, <3>3
      <4>5. Append(ring \o s.chars, ch) = ring \o Append(s.chars, ch)
        BY <1>6, <2>4, <4>1, AppendBehind
      <4> QED
        BY <3>1, <4>3, <4>4, <4>5
    <3> QED
      BY <3>2, <3>3
  <2>9. Same(g, t)
    BY <2>4, <2>6, <2>7, <2>8
  <2> QED
    BY <2>1, <2>3, <2>9
<1>15. n \in S
  <2> HIDE DEF S, n
  <2>1. \A i \in 0 .. n : i \in S
    BY <1>1, <1>13, <1>14, UpTo
  <2>2. n \in 0 .. n
    BY <1>1
  <2> QED
    BY <2>1, <2>2
<1>16. kb_shift' = (down # {}) /\ RingOf(kb_head, kb_buf', kb_tail') = ring \o c
  <2>1. k[n].shift = r[n].shift /\ RingOf(kb_head, k[n].buf, k[n].tail) = ring \o r[n].chars
    BY <1>3, <1>15
  <2>2. r[n].shift = (down # {}) /\ r[n].chars = c
    BY <1>10 DEF Ends
  <2> HIDE DEF n
  <2> QED
    BY <1>3, <2>1, <2>2
<1>17. Ring' = RingOf(kb_head, kb_buf', kb_tail')
  BY DEF Ring, RingOf, Size, Place
<1>18. expect' = Ring' /\ expect' \in Seq(Nat)
  BY <1>6, <1>9, <1>16, <1>17
<1>19. expect' = Ring' \o <<>>
  <2> DEFINE e == Ring'
  <2>1. e \in Seq(Nat)
    BY <1>18
  <2> HIDE DEF e
  <2>2. e \o <<>> = e
    BY <2>1, ConcatEmptySeq
  <2> QED
    BY <1>18, <2>2 DEF e
<1>20. TypistNow' = Ends(<<>>)'
  BY <1>16 DEF TypistNow, Ends
<1>21. Takes(KeySteps, <<>>, TypistNow', Ends(<<>>)')
  BY <1>20, TakesNone
<1>22. <<>> \in Seq(Nat)
  OBVIOUS
<1> QED
  BY <1>3, <1>19, <1>21, <1>22

\* What stays of two sequences when the first of the one goes.
LEMMA TailConcat ==
    ASSUME NEW s \in Seq(Nat), NEW c \in Seq(Nat), s # <<>>
    PROVE  s \o c # <<>> /\ Tail(s \o c) = Tail(s) \o c /\ Head(s \o c) = Head(s)
<1> DEFINE w == s \o c
           x == Tail(w)
           u == Tail(s)
           y == u \o c
           n == Len(s)
           m == Len(c)
<1>1. n \in Nat /\ m \in Nat /\ n > 0 /\ Head(s) = s[1]
  OBVIOUS
<1>2. /\ w \in Seq(Nat) /\ Len(w) = n + m
      /\ \A i \in 1 .. n + m : w[i] = IF i <= n THEN s[i] ELSE c[i - n]
  BY ConcatProperties
<1>3. /\ u \in Seq(Nat) /\ Len(u) = n - 1
      /\ \A i \in 1 .. n - 1 : u[i] = s[i + 1]
  BY HeadTailProperties
<1> HIDE DEF w, u
<1>4. /\ y \in Seq(Nat) /\ Len(y) = (n - 1) + m
      /\ \A i \in 1 .. (n - 1) + m : y[i] = IF i <= n - 1 THEN u[i] ELSE c[i - (n - 1)]
  <2>1. /\ y \in Seq(Nat) /\ Len(y) = Len(u) + m
        /\ \A i \in 1 .. Len(u) + m : y[i] = IF i <= Len(u) THEN u[i] ELSE c[i - Len(u)]
    BY <1>3, ConcatProperties
  <2> HIDE DEF y, n, m
  <2> QED
    BY <1>3, <2>1
<1> HIDE DEF n, m, y
<1>5. w # <<>> /\ Head(w) = w[1]
  BY <1>1, <1>2
<1>6. w[1] = s[1]
  BY <1>1, <1>2
<1>7. /\ x \in Seq(Nat) /\ Len(x) = (n - 1) + m
      /\ \A i \in 1 .. (n - 1) + m : x[i] = w[i + 1]
  <2>1. /\ x \in Seq(Nat) /\ Len(x) = Len(w) - 1
        /\ \A i \in 1 .. Len(x) : x[i] = w[i + 1]
    BY <1>2, <1>5, HeadTailProperties
  <2> HIDE DEF x
  <2> QED
    BY <1>1, <1>2, <2>1
<1> HIDE DEF x
<1>8. \A i \in 1 .. (n - 1) + m : x[i] = y[i]
  <2> SUFFICES ASSUME NEW i \in 1 .. (n - 1) + m PROVE x[i] = y[i]
    OBVIOUS
  <2>1. i + 1 \in 1 .. n + m /\ (i + 1) - n = i - (n - 1)
    BY <1>1
  <2>2. x[i] = IF i + 1 <= n THEN s[i + 1] ELSE c[(i + 1) - n]
    BY <1>2, <1>7, <2>1
  <2>3. y[i] = IF i <= n - 1 THEN u[i] ELSE c[i - (n - 1)]
    BY <1>4
  <2>4. CASE i + 1 <= n
    BY <1>1, <1>3, <2>2, <2>3, <2>4
  <2>5. CASE ~ (i + 1 <= n)
    BY <1>1, <2>1, <2>2, <2>3, <2>5
  <2> QED
    BY <2>4, <2>5
<1>9. x = y
  BY <1>4, <1>7, <1>8, SeqEqual
<1> QED
  BY <1>1, <1>5, <1>6, <1>9 DEF w, x, u, y

\* The reader takes the oldest character off the ring.
LEMMA TypingAdvance ==
    ASSUME TypeOK, Typing, ReaderKnows, ReaderAdvance
    PROVE  Typing'
<1> DEFINE s == Ring
<1>1. kb_head \in Slot /\ kb_tail \in Slot /\ kb_buf \in [Slot -> Nat]
      /\ s \in Seq(Nat) /\ s = RingOf(kb_head, kb_buf, kb_tail) /\ kb_tail # kb_head
  BY TypistIs DEF ReaderKnows, ReaderAdvance
<1>2. /\ TypistNow' = TypistNow /\ (\A c : Ends(c)' = Ends(c)) /\ out' = out
      /\ (Right' => Right) /\ expect' = IF expect = <<>> THEN expect ELSE Tail(expect)
      /\ kb_head' = (kb_head + 1) % KB_BUF_SIZE /\ kb_buf' = [kb_buf EXCEPT ![kb_head] = 0]
      /\ kb_tail' = kb_tail
  BY DEF ReaderAdvance, TypistNow, Ends, user, Right
<1>3. Ring' = RingOf(kb_head', kb_buf', kb_tail')
  BY DEF Ring, RingOf, Size, Place
<1>4. s # <<>> /\ Ring' = Tail(s)
  <2>1. /\ RingOf(kb_head, kb_buf, kb_tail) # <<>>
        /\ RingOf((kb_head + 1) % KB_BUF_SIZE, [kb_buf EXCEPT ![kb_head] = 0], kb_tail)
             = Tail(RingOf(kb_head, kb_buf, kb_tail))
    BY <1>1, RingRemoved
  <2> HIDE DEF s
  <2> QED
    BY <1>1, <1>2, <1>3, <2>1
<1> SUFFICES ASSUME Right'
             PROVE  (\E c \in Seq(Nat) : /\ Takes(KeySteps, out, TypistNow, Ends(c))
                                         /\ expect = Ring \o c)'
  BY DEF Typing
<1>5. PICK c \in Seq(Nat) : Takes(KeySteps, out, TypistNow, Ends(c)) /\ expect = s \o c
  BY <1>2 DEF Typing
<1> HIDE DEF s
<1>6. s \o c # <<>> /\ Tail(s \o c) = Tail(s) \o c
  BY <1>1, <1>4, TailConcat
<1>7. expect' = Tail(s) \o c
  BY <1>2, <1>5, <1>6
<1> QED
  BY <1>2, <1>4, <1>5, <1>7

LEMMA OneShiftStep == TypeOK /\ OneShift /\ [Next]_vars => OneShift'
<1> SUFFICES ASSUME TypeOK, OneShift, [Next]_vars PROVE OneShift'
  OBVIOUS
<1>1. CASE UNCHANGED <<down, bothDown>>
  BY <1>1 DEF OneShift
<1>2. ASSUME NEW s \in {LShift, RShift}, ShiftDown(s) \/ ShiftUp(s) PROVE OneShift'
  <2>1. \/ down' = down \cup {s} /\ bothDown' = (bothDown \/ down # {})
        \/ down' = down \ {s} /\ bothDown' = bothDown
    BY <1>2 DEF ShiftDown, ShiftUp
  <2>2. CASE down' = down \cup {s} /\ bothDown' = (bothDown \/ down # {})
    BY <2>2 DEF OneShift
  <2>3. CASE down' = down \ {s} /\ bothDown' = bothDown
    BY <2>3 DEF OneShift
  <2> QED
    BY <2>1, <2>2, <2>3
<1>3. CASE UNCHANGED vars
  BY <1>1, <1>3 DEF vars, user
<1>4. CASE Devices
  <2>1. ASSUME NEW sc \in Keys, TypeKey(sc) PROVE UNCHANGED <<down, bothDown>>
    BY <2>1 DEF TypeKey
  <2>2. ASSUME NEW p \in Packets, MovePointer(p) PROVE UNCHANGED <<down, bothDown>>
    BY <2>2 DEF MovePointer
  <2> QED
    BY <1>1, <1>2, <1>4, <2>1, <2>2 DEF Devices
<1>5. CASE Tick \/ Irq1 \/ Irq12 \/ ReaderTake \/ ReaderAdvance
  BY <1>1, <1>5 DEF Tick, Irq1, Irq12, ReaderTake, ReaderAdvance, user
<1>6. CASE Setup
  BY <1>1, <1>6 DEF Setup, KeyboardInit, MouseInit, Ask, KbdWait, ReadReply, WriteConfig,
                    Center, user
<1> QED
  BY <1>3, <1>4, <1>5, <1>6 DEF Next

LEMMA ReaderKnowsStep == TypeOK /\ ReaderKnows /\ [Next]_vars => ReaderKnows'
<1> SUFFICES ASSUME TypeOK, ReaderKnows, [Next]_vars PROVE ReaderKnows'
  OBVIOUS
<1>1. CASE UNCHANGED <<reader, kb_buf, kb_head, kb_tail>>
  BY <1>1 DEF ReaderKnows
<1>2. CASE Drain /\ UNCHANGED <<reader, kb_head>>
  <2>1. kb_tail # kb_head => kb_tail' # kb_head /\ kb_buf'[kb_head] = kb_buf[kb_head]
    BY <1>2, DrainTypes
  <2> QED
    BY <1>2, <2>1 DEF ReaderKnows
<1>3. CASE ReaderTake
  BY <1>3 DEF ReaderTake, ReaderKnows, keyboard
<1>4. CASE ReaderAdvance
  BY <1>4 DEF ReaderAdvance, ReaderKnows
<1>5. CASE UNCHANGED vars
  BY <1>1, <1>5 DEF vars, keyboard
<1>6. CASE Devices
  <2>1. ASSUME NEW sc, NEW char, KeyByte(sc, char)
        PROVE  UNCHANGED <<reader, kb_buf, kb_head, kb_tail>>
    BY <2>1 DEF KeyByte, keyboard
  <2>2. ASSUME NEW p \in Packets, MovePointer(p)
        PROVE  UNCHANGED <<reader, kb_buf, kb_head, kb_tail>>
    BY <2>2 DEF MovePointer, keyboard
  <2> QED
    BY <1>1, <1>6, <2>1, <2>2 DEF Devices, TypeKey, ShiftDown, ShiftUp
<1>7. CASE Tick
  BY <1>2, <1>7 DEF Tick
<1>8. CASE Irq1
  BY <1>1, <1>2, <1>8 DEF Irq1
<1>9. CASE Irq12
  BY <1>1, <1>9 DEF Irq12, keyboard
<1>10. CASE Setup
  BY <1>1, <1>10 DEF Setup, KeyboardInit, MouseInit, Ask, KbdWait, ReadReply, WriteConfig,
                     Center, keyboard
<1> QED
  BY <1>3, <1>4, <1>5, <1>6, <1>7, <1>8, <1>9, <1>10 DEF Next

LEMMA TypingStep == TypeOK /\ Typing /\ OneShift /\ ReaderKnows /\ [Next]_vars => Typing'
<1> SUFFICES ASSUME TypeOK, Typing, OneShift, ReaderKnows, [Next]_vars PROVE Typing'
  OBVIOUS
<1>0. config \in 0 .. 255 /\ Ack \in 0 .. 255 /\ 0 \in Nat /\ down \subseteq {LShift, RShift}
  BY DEF TypeOK, Ack
<1>1. CASE UNCHANGED vars
  <2>1. UNCHANGED <<out, kb_buf, kb_head, kb_tail, kb_shift, expect, down>> /\ (Right' => Right)
    BY <1>1 DEF vars, keyboard, user, Right
  <2> QED
    BY <2>1, TypistUntouched
<1>2. ASSUME NEW sc \in Keys, TypeKey(sc) PROVE Typing'
  <2> DEFINE char == IF down = {} THEN Low[sc] ELSE High[sc]
  <2>1. sc \in 0 .. 255 /\ char \in Nat /\ Plain(sc)
        /\ sc \notin {LShift, RShift, LShift + Release, RShift + Release}
    <3>1. sc \in 0 .. Release - 1 /\ sc \notin {LShift, RShift}
      BY Ps2Constants
    <3> QED
      BY <3>1, Ps2Constants DEF Release, Plain, LShift, RShift
  <2>2. char = CharOf(down # {}, sc)
    BY DEF CharOf
  <2>3. KeyByte(sc, char) /\ UNCHANGED <<down, bothDown>>
    BY <1>2 DEF TypeKey
  <2>4. Right' => Right
    BY <2>3 DEF KeyByte, Right, keyboard
  <2>5. ShiftAfter(down # {}, sc) = (down' # {})
    BY <2>1, <2>3 DEF ShiftAfter
  <2> HIDE DEF char
  <2> QED
    BY <2>1, <2>2, <2>3, <2>4, <2>5, TypingKey
<1>3. ASSUME NEW s \in {LShift, RShift}, ShiftDown(s) PROVE Typing'
  <2>1. KeyByte(s, 0) /\ down' = down \cup {s} /\ bothDown' = (bothDown \/ down # {})
    BY <1>3 DEF ShiftDown
  <2>2. s \in 0 .. 255 /\ ~ Plain(s)
    BY DEF LShift, RShift, Plain
  <2>3. Right' => Right
    BY <2>1 DEF KeyByte, Right, keyboard
  <2>4. ShiftAfter(down # {}, s) = (down' # {})
    BY <2>1 DEF ShiftAfter
  <2> QED
    BY <1>0, <2>1, <2>2, <2>3, <2>4, TypingKey
<1>4. ASSUME NEW s \in {LShift, RShift}, ShiftUp(s) PROVE Typing'
  <2> DEFINE sc == s + Release
  <2>1. KeyByte(sc, 0) /\ s \in down /\ down' = down \ {s} /\ bothDown' = bothDown
    BY <1>4 DEF ShiftUp
  <2>2. sc \in 0 .. 255 /\ ~ Plain(sc) /\ sc \notin {LShift, RShift}
        /\ sc \in {LShift + Release, RShift + Release}
    BY DEF LShift, RShift, Release, Plain
  <2>3. Right' => Right
    BY <2>1 DEF KeyByte, Right, keyboard
  <2>4. Right' => ShiftAfter(down # {}, sc) = (down' # {})
    <3>1. ShiftAfter(down # {}, sc) = FALSE
      BY <2>2 DEF ShiftAfter
    <3>2. Right' => down' = {}
      BY <2>1, <2>3 DEF OneShift, Right
    <3> QED
      BY <3>1, <3>2
  <2> HIDE DEF sc
  <2> QED
    BY <1>0, <2>1, <2>2, <2>3, <2>4, TypingKey
<1>5. ASSUME NEW p \in Packets, MovePointer(p) PROVE Typing'
  BY <1>5, TypingPacket
<1>6. CASE Tick
  BY <1>6, TypingDrained DEF Tick, user
<1>7. CASE Irq1
  <2>1. CASE Drain
    BY <1>7, <2>1, TypingDrained DEF Irq1, user
  <2>2. CASE ~ Drain
    <3>1. UNCHANGED <<out, kb_buf, kb_head, kb_tail, kb_shift, expect, down>> /\ (Right' => Right)
      BY <1>7, <2>2 DEF Irq1, user, Right
    <3> QED
      BY <3>1, TypistUntouched
  <2> QED
    BY <2>1, <2>2
<1>8. CASE Irq12
  <2>1. UNCHANGED <<kb_buf, kb_head, kb_tail, kb_shift, expect, down>> /\ (Right' => Right)
    <3>1. UNCHANGED <<keyboard, user, expect, astray>> /\ (~ lost' => ~ lost)
      BY <1>8 DEF Irq12, TakeMouseByte
    <3> QED
      BY <3>1 DEF keyboard, user, Right
  <2>2. CASE TakeMouseByte /\ out # <<>> /\ out[1].from \in {"mouse", "ack"}
    <3>1. out' = Tail(out) /\ out[1].from # "key"
      BY <2>2 DEF TakeMouseByte, ReadByte
    <3> QED
      BY <2>1, <2>2, <3>1, TypingRead
  <2>3. CASE UNCHANGED out
    BY <2>1, <2>3, TypistUntouched
  <2> QED
    BY <1>8, <2>2, <2>3 DEF Irq12
<1>9. ASSUME NEW at, NEW next, NEW who \in {"controller", "ack"}, NEW val \in 0 .. 255,
             Ask(at, next, who, val)
      PROVE  Typing'
  <2>1. Send(<<[from |-> who, val |-> val, char |-> 0]>>)
    BY <1>9 DEF Ask
  <2>2. UNCHANGED <<keyboard, expect, down, lost, astray, bothDown>>
    BY <1>9 DEF Ask, user
  <2> QED
    BY <2>1, <2>2, TypingOther
<1>10. ASSUME NEW at, NEW next, NEW who, ReadReply(at, next, who) PROVE Typing'
  <2>1. /\ UNCHANGED <<keyboard, user, expect>> /\ (~ lost' => ~ lost) /\ (~ astray' => ~ astray)
        /\ ~ lost' => ~ (out # <<>> /\ out[1].from = "key")
    BY <1>10 DEF ReadReply
  <2>2. UNCHANGED <<kb_buf, kb_head, kb_tail, kb_shift, expect, down>> /\ (Right' => Right)
    BY <2>1 DEF keyboard, user, Right
  <2>3. CASE out = <<>>
    <3>1. UNCHANGED out
      BY <1>10, <2>3 DEF ReadReply
    <3> QED
      BY <2>2, <3>1, TypistUntouched
  <2>4. CASE out # <<>> /\ out[1].from # "key"
    <3>1. out' = Tail(out)
      BY <1>10, <2>4 DEF ReadReply, ReadByte
    <3> QED
      BY <2>2, <2>4, <3>1, TypingRead
  <2>5. CASE lost'
    BY <2>5 DEF Typing, Right
  <2> QED
    BY <2>1, <2>3, <2>4, <2>5
<1>11. CASE Setup /\ UNCHANGED <<out, keyboard, user, expect, astray>> /\ (~ lost' => ~ lost)
  <2>1. UNCHANGED <<out, kb_buf, kb_head, kb_tail, kb_shift, expect, down>> /\ (Right' => Right)
    BY <1>11 DEF keyboard, user, Right
  <2> QED
    BY <2>1, TypistUntouched
<1>12. ASSUME NEW at, NEW next, NEW value, WriteConfig(at, next, value)
       PROVE  UNCHANGED <<out, keyboard, user, expect, astray>> /\ (~ lost' => ~ lost)
  BY <1>12 DEF WriteConfig
<1>13. ASSUME KbdWait \/ Center PROVE Typing'
  <2>1. Setup
    BY <1>13, SMTT(20) DEF KeyboardInit, MouseInit, Setup
  <2>2. CASE KbdWait
    <3>1. UNCHANGED <<out, keyboard, user, expect, astray>> /\ (~ lost' => ~ lost)
      BY <2>2 DEF KbdWait
    <3> QED
      BY <1>11, <2>1, <3>1
  <2>3. CASE Center
    <3>1. UNCHANGED <<out, keyboard, user, expect, astray>>
      BY <2>3 DEF Center
    <3>2. ~ lost' => ~ lost
      BY <2>3 DEF Center
    <3> QED
      BY <1>11, <2>1, <3>1, <3>2
  <2> QED
    BY <1>13, <2>2, <2>3
<1>14. ASSUME NEW at, NEW next, NEW value, WriteConfig(at, next, value), Setup PROVE Typing'
  BY <1>11, <1>12, <1>14
<1>15. CASE KeyboardInit
  <2>1. CASE Ask("kbd_command", "kbd_wait", "controller", config)
    BY <1>0, <1>9, <2>1
  <2>2. CASE ReadReply("kbd_read", "kbd_write", "controller")
    BY <1>10, <2>2
  <2>3. CASE WriteConfig("kbd_write", "mouse_enable", KbdConfig(reply))
    BY <1>14, <1>15, <2>3 DEF Setup
  <2> QED
    BY <1>13, <1>15, <2>1, <2>2, <2>3 DEF KeyboardInit
<1>18. CASE MouseInit
  <2>1. ASSUME NEW at, NEW next, NEW who \in {"controller", "ack"},
               Ask(at, next, who, config) \/ Ask(at, next, who, Ack)
        PROVE  Typing'
    BY <1>0, <1>9, <2>1
  <2>2. CASE \/ Ask("mouse_command", "mouse_read", "controller", config)
             \/ Ask("defaults", "defaults_read", "ack", Ack)
             \/ Ask("stream", "stream_read", "ack", Ack)
    BY <2>1, <2>2
  <2>3. CASE \/ ReadReply("mouse_read", "mouse_write", "controller")
             \/ ReadReply("defaults_read", "stream", "ack")
             \/ ReadReply("stream_read", "center", "ack")
    BY <1>10, <2>3
  <2>4. CASE \/ WriteConfig("mouse_enable", "mouse_command", ClearBit(config, 32))
             \/ WriteConfig("mouse_write", "defaults", MouseConfig(reply))
    BY <1>14, <1>18, <2>4 DEF Setup
  <2> QED
    BY <1>13, <1>18, <2>2, <2>3, <2>4 DEF MouseInit
<1>16. CASE ReaderTake
  <2>1. UNCHANGED <<out, kb_buf, kb_head, kb_tail, kb_shift, expect, down>> /\ (Right' => Right)
    BY <1>16 DEF ReaderTake, keyboard, user, Right
  <2> QED
    BY <2>1, TypistUntouched
<1>17. CASE ReaderAdvance
  BY <1>17, TypingAdvance
<1> QED
  BY <1>1, <1>2, <1>3, <1>4, <1>5, <1>6, <1>7, <1>8, <1>15, <1>16, <1>17, <1>18
  DEF Next, Devices, Setup

\* What is still to come, computed from the bytes waiting, is what they type.
LEMMA ComingIs ==
    ASSUME TypeOK, NEW c \in Seq(Nat), Takes(KeySteps, out, TypistNow, Ends(c))
    PROVE  Coming = c
<1> DEFINE n == Len(out)
           Body(f, i) == IF i = 0 THEN <<>>
                         ELSE IF out[i].char = 0 THEN f[i - 1]
                         ELSE Append(f[i - 1], out[i].char)
<1>1. n \in Nat /\ out \in Seq(Byte) /\ \A i \in 1 .. n : out[i] \in Byte
  BY Waiting
<1>2. PICK r : Run(KeySteps, out, r) /\ r[0] = TypistNow /\ r[n] = Ends(c)
  BY DEF Takes
<1>3. \A i \in 0 .. n : r[i] \in Typist
  <2>1. \A s \in Typist, b \in Byte : KeySteps[s][b] \subseteq Typist
    BY TypedIs
  <2>2. r[0] \in Typist
    BY <1>2, TypistIs
  <2> QED
    BY <1>1, <1>2, <2>1, <2>2, RunStates
<1>4. \A i \in 1 .. n :
         r[i].chars = IF out[i].char = 0 THEN r[i - 1].chars
                      ELSE Append(r[i - 1].chars, out[i].char)
  <2> SUFFICES ASSUME NEW i \in 1 .. n
               PROVE  r[i].chars = IF out[i].char = 0 THEN r[i - 1].chars
                                   ELSE Append(r[i - 1].chars, out[i].char)
    OBVIOUS
  <2>1. i - 1 \in 0 .. n
    BY <1>1
  <2>2. r[i] \in KeySteps[r[i - 1]][out[i]]
    BY <1>2 DEF Run
  <2>3. r[i] = Typed(r[i - 1], out[i])
    BY <1>1, <1>3, <2>1, <2>2, TypedIs
  <2> QED
    BY <2>3 DEF Typed
<1>5. r[0].chars = <<>> /\ r[n].chars = c
  BY <1>2 DEF TypistNow, Ends
<1> DEFINE f == [i \in 0 .. n |-> r[i].chars]
<1>6. f = [i \in 0 .. n |-> Body(f, i)]
  <2>1. ASSUME NEW i \in 0 .. n PROVE f[i] = Body(f, i)
    <3>1. f[i] = r[i].chars
      OBVIOUS
    <3>2. CASE i = 0
      BY <1>5, <3>1, <3>2
    <3>3. CASE i # 0
      <4>1. i \in 1 .. n /\ i - 1 \in 0 .. n
        BY <1>1, <3>3
      <4>2. f[i - 1] = r[i - 1].chars
        BY <4>1
      <4> HIDE DEF f
      <4> QED
        BY <1>4, <3>1, <3>3, <4>1, <4>2
    <3> QED
      BY <3>2, <3>3
  <2>2. f = [i \in 0 .. n |-> f[i]]
    OBVIOUS
  <2> HIDE DEF f, Body
  <2> QED
    BY <2>1, <2>2
<1> DEFINE meant == CHOOSE g : g = [i \in 0 .. n |-> Body(g, i)]
<1>7. meant = [i \in 0 .. n |-> Body(meant, i)]
  <2> HIDE DEF f, Body, n
  <2> QED
    BY <1>6, Zenon
<1>8. Coming = meant[n]
  BY DEF Coming
<1> HIDE DEF meant
<1> DEFINE S == {i \in 0 .. n : meant[i] = r[i].chars}
<1>9. \A i \in 0 .. n : meant[i] = Body(meant, i)
  <2> HIDE DEF Body
  <2> QED
    BY <1>7
<1>10. 0 \in S
  BY <1>1, <1>5, <1>9
<1>11. ASSUME NEW i \in 0 .. n - 1, i \in S PROVE i + 1 \in S
  <2>1. i + 1 \in 1 .. n /\ i + 1 \in 0 .. n /\ (i + 1) - 1 = i /\ i + 1 # 0
    BY <1>1
  <2>2. meant[i + 1] = IF out[i + 1].char = 0 THEN meant[i]
                       ELSE Append(meant[i], out[i + 1].char)
    BY <1>9, <2>1
  <2>3. r[i + 1].chars = IF out[i + 1].char = 0 THEN r[i].chars
                         ELSE Append(r[i].chars, out[i + 1].char)
    BY <1>4, <2>1
  <2> QED
    BY <1>11, <2>1, <2>2, <2>3
<1>12. n \in S
  <2> HIDE DEF S, n
  <2>1. \A i \in 0 .. n : i \in S
    BY <1>1, <1>10, <1>11, UpTo
  <2>2. n \in 0 .. n
    BY <1>1
  <2> QED
    BY <2>1, <2>2
<1> QED
  BY <1>5, <1>8, <1>12

LEMMA KeysAre == TypeOK /\ Typing /\ ReaderKnows => KeysInOrder
<1> SUFFICES ASSUME TypeOK, Typing, ReaderKnows, Right
             PROVE  /\ expect = Ring \o Coming
                    /\ reader.at = "advance" => expect # <<>> /\ reader.char = Head(expect)
  BY DEF KeysInOrder, Right
<1>1. PICK c \in Seq(Nat) : Takes(KeySteps, out, TypistNow, Ends(c)) /\ expect = Ring \o c
  BY DEF Typing
<1>2. Coming = c
  BY <1>1, ComingIs
<1>3. ASSUME reader.at = "advance" PROVE expect # <<>> /\ reader.char = Head(expect)
  <2> DEFINE s == Ring
  <2>1. kb_head \in Slot /\ kb_tail \in Slot /\ kb_buf \in [Slot -> Nat]
        /\ s \in Seq(Nat) /\ s = RingOf(kb_head, kb_buf, kb_tail)
        /\ kb_tail # kb_head /\ reader.char = kb_buf[kb_head] /\ expect = s \o c
    BY <1>1, <1>3, TypistIs DEF ReaderKnows
  <2> HIDE DEF s
  <2>2. s # <<>> /\ Head(s) = kb_buf[kb_head]
    BY <2>1, RingRemoved
  <2> QED
    BY <2>1, <2>2, TailConcat
<1> QED
  BY <1>1, <1>2, <1>3

-----------------------------------------------------------------------------
(* The theorems.                                                           *)

\* Every variable keeps its type, whatever the devices send, whoever reads it and
\* wherever the set-up is: the pointer is on the screen, the ring's head and tail are
\* slots and the driver's byte counter is below three.
THEOREM Ps2TypeCorrect == Spec => []TypeOK
BY TypesInit, TypesStep, PTL DEF Spec

\* As long as every byte of the mouse reaches its driver, the driver and the mouse agree
\* on where a packet begins, and the pointer is where the movements sent take it.
THEOREM PointerCorrect == Spec => []PointerTracks
<1>1. Init => TypeOK /\ InStep
  BY TypesInit, InStepInit
<1>2. TypeOK /\ InStep /\ [Next]_vars => (TypeOK /\ InStep)'
  BY TypesStep, InStepStep
<1>3. TypeOK /\ InStep => PointerTracks
  BY PointerIs
<1> QED
  BY <1>1, <1>2, <1>3, PTL DEF Spec

\* What was typed is in the ring and in the bytes waiting, in order and in the right case,
\* and the reader holds the oldest character - unless a byte went to the wrong reader,
\* both shift keys were down or the ring was full.
THEOREM KeysCorrect == Spec => []KeysInOrder
<1> DEFINE IInv == TypeOK /\ Typing /\ OneShift /\ ReaderKnows
<1>1. Init => IInv
  BY TypesInit, TypingInit
<1>2. IInv /\ [Next]_vars => IInv'
  BY TypesStep, TypingStep, OneShiftStep, ReaderKnowsStep
<1>3. IInv => KeysInOrder
  BY KeysAre
<1> QED
  BY <1>1, <1>2, <1>3, PTL DEF Spec
=============================================================================
