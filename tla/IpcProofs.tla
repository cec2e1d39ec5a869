----------------------------- MODULE IpcProofs -----------------------------
(* Proofs about Ipc, for any number of threads, any capacity of the        *)
(* mailboxes and any contents of the messages.                             *)
EXTENDS Ipc, Sequences, SequenceTheorems, FiniteSetTheorems, TLAPS

\* An index at most once round the ring.
LEMMA ModOnce ==
    ASSUME NEW C \in Nat \ {0}, NEW a \in Nat, a < 2 * C
    PROVE  a % C = IF a < C THEN a ELSE a - C
<1>1. CASE a < C
  BY <1>1, SMT
<1>2. CASE a >= C
  <2> DEFINE q == a \div C
             m == a % C
  <2>1. q \in Int /\ m \in 0 .. C - 1 /\ a = C * q + m
    OBVIOUS
  <2> HIDE DEF q, m
  <2>2. q = 1
    <3>1. CASE q <= 0
      <4>1. C * q <= 0
        BY <2>1, <3>1
      <4> QED
        BY <1>2, <2>1, <4>1
    <3>2. CASE q >= 2
      <4>1. C * q >= 2 * C
        BY <2>1, <3>2
      <4> QED
        BY <2>1, <4>1
    <3> QED
      BY <2>1, <3>1, <3>2
  <2>3. m = a - C
    BY <2>1, <2>2
  <2> QED
    BY <1>2, <2>3 DEF m
<1> QED
  BY <1>1, <1>2

LEMMA ModCapacity ==
    \A a \in Nat : a < 2 * Capacity =>
        a % Capacity = IF a < Capacity THEN a ELSE a - Capacity
BY ModOnce, IpcConstants

\* Adding at the end: the slot behind the last message, then one further.
LEMMA RingAppend ==
    ASSUME NEW h \in Index, NEW n \in 0 .. Capacity - 1
    PROVE  Following((h + n) % Capacity) = (h + n + 1) % Capacity
<1> DEFINE C == Capacity
           a == h + n
           b == h + n + 1
           c == a % C
           d == c + 1
<1>1. /\ C \in Nat \ {0} /\ a \in Nat /\ b \in Nat /\ b = a + 1
      /\ a < 2 * C /\ b < 2 * C
  BY IpcConstants DEF Index
<1>2. Following(c) = d % C /\ d = c + 1
  BY DEF Following
<1> HIDE DEF a, b, C
<1>3. a % C = (IF a < C THEN a ELSE a - C) /\ b % C = IF b < C THEN b ELSE b - C
  BY <1>1, ModCapacity DEF C
<1>4. c \in Nat /\ d \in Nat /\ d < 2 * C /\ c < C
  BY <1>1, <1>3
<1>5. d % C = IF d < C THEN d ELSE d - C
  <2> HIDE DEF c, d
  <2> QED
    BY <1>4, ModCapacity DEF C
<1> HIDE DEF c, d
<1>6. d % C = b % C
  <2>1. c = IF a < C THEN a ELSE a - C
    BY <1>3 DEF c
  <2> QED
    BY <1>1, <1>2, <1>3, <1>4, <1>5, <2>1
<1> QED
  BY <1>2, <1>6 DEF a, b, c, C

\* Removing at the front: head moves on and one message less is counted.
LEMMA RingRemove ==
    ASSUME NEW h \in Index, NEW n \in 1 .. Capacity
    PROVE  (Following(h) + n - 1) % Capacity = (h + n) % Capacity
<1> DEFINE C == Capacity
           a == h + n
           d == h + 1
           f == d % C
           g == f + n - 1
<1>1. /\ C \in Nat \ {0} /\ a \in Nat /\ d \in Nat /\ d < 2 * C
      /\ a < 2 * C /\ a = d + n - 1 /\ n \in 1 .. C /\ d <= C
  BY IpcConstants DEF Index
<1>2. Following(h) = f
  BY DEF Following
<1> HIDE DEF a, d, C
<1>3. a % C = (IF a < C THEN a ELSE a - C) /\ d % C = IF d < C THEN d ELSE d - C
  BY <1>1, ModCapacity DEF C
<1> HIDE DEF f
<1>4. f = IF d < C THEN d ELSE 0
  BY <1>1, <1>3 DEF f
<1>5. g \in Nat /\ g < 2 * C
  BY <1>1, <1>4
<1>6. g % C = IF g < C THEN g ELSE g - C
  <2> HIDE DEF g
  <2> QED
    BY <1>5, ModCapacity DEF C
<1>7. g = IF d < C THEN a ELSE n - 1
  BY <1>1, <1>4
<1> HIDE DEF g
<1>8. g % C = a % C
  BY <1>1, <1>3, <1>5, <1>6, <1>7
<1> QED
  BY <1>2, <1>8 DEF a, g, C

LEMMA FollowingIndex == \A i \in Index : Following(i) \in Index
BY IpcConstants DEF Index, Following

-----------------------------------------------------------------------------
(* The invariant.                                                          *)

\* Between cli and sti.
Locked == {"locked", "stored", "moved", "counted",
           "rlocked", "copied", "rmoved", "rcounted"}

\* The lock is the interrupt flag: whoever is between cli and sti has the CPU,
\* and nobody can take it away.
LockedRuns == \A t \in Slots : pc[t] \in Locked => t = running /\ ~ iflag

\* A sender past the check still has room, a receiver still has a message.
RoomLeft ==
    /\ pc[running] \in {"stored", "moved"} => count[mb[running]] < Capacity
    /\ pc[running] \in {"copied", "rmoved"} => count[mb[running]] > 0

\* How far tail is ahead of head and count while a call is under way.
Drift(r) ==
    IF mb[running] # r THEN 0
    ELSE IF pc[running] = "moved" THEN 1
    ELSE IF pc[running] = "rmoved" THEN -1
    ELSE 0

RingShape ==
    \A r \in Slots : tail[r] = (head[r] + count[r] + Drift(r)) % Capacity

RingInv == TypeOK /\ LockedRuns /\ RoomLeft /\ RingShape

LEMMA RingInit == Init => RingInv
<1> SUFFICES ASSUME Init PROVE RingInv
  OBVIOUS
<1> USE IpcConstants
<1>1. TypeOK
  BY DEF Init, TypeOK, Index, PCs
<1>2. LockedRuns /\ RoomLeft
  BY DEF Init, LockedRuns, RoomLeft, Locked
<1>3. 0 % Capacity = 0
  BY ModOnce
<1>4. RingShape
  BY <1>3 DEF Init, RingShape, Drift
<1> QED
  BY <1>1, <1>2, <1>4 DEF RingInv

\* The types, given what the lock guarantees.
LEMMA RingTypes == RingInv /\ [Next]_vars => TypeOK'
<1> SUFFICES ASSUME RingInv, [Next]_vars PROVE TypeOK'
  OBVIOUS
<1> USE IpcConstants DEF TypeOK, PCs, GoTo, rings
<1>a. TypeOK /\ RoomLeft
  BY DEF RingInv
<1>1. ASSUME NEW t \in Slots, NEW r \in Receivers, NEW m \in Messages,
             SendFind(t, r, m)
      PROVE  TypeOK'
  BY <1>1, <1>a DEF SendFind
<1>2. ASSUME NEW t \in Slots,
             SendCli(t) \/ SendFull(t) \/ ReceiveCli(t) \/ ReceiveEmpty(t)
      PROVE  TypeOK'
  <2>1. /\ UNCHANGED <<rings, sent, recv, running, mb, msg, got>>
        /\ iflag' \in BOOLEAN
        /\ \E w \in PCs : pc' = [pc EXCEPT ![t] = w]
    BY <1>2 DEF SendCli, SendFull, ReceiveCli, ReceiveEmpty
  <2> QED
    BY <2>1, <1>a
<1>3. ASSUME NEW t \in Slots, SendStore(t) PROVE TypeOK'
  BY <1>3, <1>a DEF SendStore
<1>4. ASSUME NEW t \in Slots, SendTail(t) PROVE TypeOK'
  BY <1>4, <1>a, FollowingIndex DEF SendTail
<1>5. ASSUME NEW t \in Slots, SendCount(t) PROVE TypeOK'
  BY <1>5, <1>a DEF SendCount, RoomLeft
<1>6. ASSUME NEW t \in Slots, SendSti(t) \/ ReceiveSti(t) PROVE TypeOK'
  <2>1. /\ UNCHANGED <<rings, running, mb, msg, got>>
        /\ sent' \in {sent, (sent + 1) % Wrap}
        /\ recv' \in {recv, (recv + 1) % Wrap}
        /\ iflag' \in BOOLEAN
        /\ pc' = [pc EXCEPT ![t] = "idle"]
    BY <1>6 DEF SendSti, ReceiveSti
  <2>2. sent' \in 0 .. Wrap - 1 /\ recv' \in 0 .. Wrap - 1
    BY <2>1, <1>a
  <2> QED
    BY <2>1, <2>2, <1>a
<1>7. ASSUME NEW t \in Slots, ReceiveFind(t) PROVE TypeOK'
  BY <1>7, <1>a DEF ReceiveFind
<1>8. ASSUME NEW t \in Slots, ReceiveCopy(t) PROVE TypeOK'
  <2>1. messages[mb[t]][head[mb[t]]] \in Messages \cup {Nothing}
    BY <1>a
  <2> QED
    BY <1>8, <1>a, <2>1 DEF ReceiveCopy
<1>9. ASSUME NEW t \in Slots, ReceiveHead(t) PROVE TypeOK'
  BY <1>9, <1>a, FollowingIndex DEF ReceiveHead
<1>10. ASSUME NEW t \in Slots, ReceiveCount(t) PROVE TypeOK'
  BY <1>10, <1>a DEF ReceiveCount, RoomLeft
<1>11. ASSUME NEW t \in Slots, SwitchIn(t) PROVE TypeOK'
  BY <1>11, <1>a DEF SwitchIn
<1>12. CASE UNCHANGED vars
  BY <1>12, <1>a DEF vars
<1> QED
  BY <1>1, <1>2, <1>3, <1>4, <1>5, <1>6, <1>7, <1>8, <1>9, <1>10, <1>11,
     <1>12 DEF Next, Send, Receive

\* Steps that leave the rings and who runs alone.
LEMMA QuietStep ==
    ASSUME RingInv, UNCHANGED rings, UNCHANGED running,
           NEW w \in PCs \ {"stored", "moved", "copied", "rmoved"},
           pc[running] \notin {"moved", "rmoved"},
           pc' = [pc EXCEPT ![running] = w],
           w \in Locked => ~ iflag'
    PROVE  LockedRuns' /\ RoomLeft' /\ RingShape'
<1>a. TypeOK /\ LockedRuns /\ RingShape
  BY DEF RingInv
<1>1. pc'[running] = w /\ \A t \in Slots : t # running => pc'[t] = pc[t]
  BY <1>a DEF TypeOK
<1>2. LockedRuns'
  BY <1>a, <1>1 DEF LockedRuns
<1>3. RoomLeft'
  BY <1>1 DEF RoomLeft
<1>4. \A r \in Slots : Drift(r) = 0 /\ Drift(r)' = 0
  BY <1>1 DEF Drift
<1>5. RingShape'
  BY <1>a, <1>4 DEF RingShape, rings
<1> QED
  BY <1>2, <1>3, <1>5

LEMMA RingStep == RingInv /\ [Next]_vars => RingInv'
<1> SUFFICES ASSUME RingInv, [Next]_vars
             PROVE  LockedRuns' /\ RoomLeft' /\ RingShape'
  BY RingTypes DEF RingInv
<1> USE IpcConstants
<1>a. TypeOK /\ TypeOK' /\ LockedRuns /\ RoomLeft /\ RingShape
  BY RingTypes DEF RingInv
<1>1. ASSUME NEW t \in Slots, NEW r \in Receivers, NEW m \in Messages,
             SendFind(t, r, m)
      PROVE  LockedRuns' /\ RoomLeft' /\ RingShape'
  BY <1>1, QuietStep DEF SendFind, GoTo, PCs, Locked
<1>2. ASSUME NEW t \in Slots,
             SendCli(t) \/ SendFull(t) \/ ReceiveFind(t) \/ ReceiveCli(t)
                \/ ReceiveEmpty(t) \/ SendSti(t) \/ ReceiveSti(t)
      PROVE  LockedRuns' /\ RoomLeft' /\ RingShape'
  <2>1. /\ UNCHANGED rings /\ UNCHANGED running
        /\ pc[running] \notin {"moved", "rmoved"}
    BY <1>2
    DEF SendCli, SendFull, ReceiveFind, ReceiveCli, ReceiveEmpty, SendSti,
        ReceiveSti, GoTo
  <2>2. \E w \in {"found", "locked", "rfound", "rlocked", "idle"} :
            pc' = [pc EXCEPT ![running] = w] /\ (w \in Locked => ~ iflag')
    BY <1>2
    DEF SendCli, SendFull, ReceiveFind, ReceiveCli, ReceiveEmpty, SendSti,
        ReceiveSti, GoTo, Locked
  <2> QED
    BY <2>1, <2>2, QuietStep DEF PCs
<1>3. ASSUME NEW t \in Slots, SendStore(t)
      PROVE  LockedRuns' /\ RoomLeft' /\ RingShape'
  <2>1. /\ t = running /\ pc[t] = "locked" /\ count[mb[t]] < Capacity
        /\ pc' = [pc EXCEPT ![t] = "stored"]
        /\ UNCHANGED <<head, tail, count, running, iflag, mb>>
    BY <1>3 DEF SendStore, GoTo
  <2>2. pc'[t] = "stored" /\ \A s \in Slots : s # t => pc'[s] = pc[s]
    BY <1>a, <2>1 DEF TypeOK
  <2>3. LockedRuns' /\ RoomLeft'
    BY <1>a, <2>1, <2>2 DEF LockedRuns, RoomLeft, Locked
  <2>4. RingShape'
    BY <1>a, <2>1, <2>2 DEF RingShape, Drift
  <2> QED
    BY <2>3, <2>4
<1>4. ASSUME NEW t \in Slots, SendTail(t)
      PROVE  LockedRuns' /\ RoomLeft' /\ RingShape'
  <2> DEFINE r == mb[t]
  <2>1. /\ t = running /\ pc[t] = "stored"
        /\ pc' = [pc EXCEPT ![t] = "moved"]
        /\ tail' = [tail EXCEPT ![r] = Following(@)]
        /\ UNCHANGED <<head, count, running, iflag, mb>>
    BY <1>4 DEF SendTail, GoTo
  <2>2. pc'[t] = "moved" /\ \A s \in Slots : s # t => pc'[s] = pc[s]
    BY <1>a, <2>1 DEF TypeOK
  <2>3. LockedRuns' /\ RoomLeft'
    BY <1>a, <2>1, <2>2 DEF LockedRuns, RoomLeft, Locked
  <2>4. /\ r \in Slots /\ head[r] \in Index /\ count[r] \in 0 .. Capacity - 1
        /\ tail[r] = (head[r] + count[r]) % Capacity
    <3>1. /\ r \in Slots /\ head[r] \in Index /\ count[r] \in 0 .. Capacity
          /\ count[r] < Capacity /\ Drift(r) = 0
      BY <1>a, <2>1 DEF TypeOK, RoomLeft, Drift
    <3>2. head[r] + count[r] + Drift(r) = head[r] + count[r]
      BY <3>1 DEF Index
    <3> QED
      BY <1>a, <3>1, <3>2 DEF RingShape
  <2>5. tail'[r] = (head[r] + count[r] + 1) % Capacity
    <3>1. tail'[r] = Following(tail[r])
      BY <1>a, <2>1, <2>4 DEF TypeOK
    <3> QED
      BY <2>4, <3>1, RingAppend
  <2>6. \A s \in Slots : s # r => tail'[s] = tail[s]
    BY <1>a, <2>1 DEF TypeOK
  <2>7. Drift(r)' = 1 /\ \A s \in Slots : s # r => Drift(s) = 0 /\ Drift(s)' = 0
    BY <2>1, <2>2 DEF Drift
  <2>8. RingShape'
    <3>1. ASSUME NEW s \in Slots
          PROVE  tail'[s] = (head'[s] + count'[s] + Drift(s)') % Capacity
      BY <1>a, <2>1, <2>5, <2>6, <2>7 DEF RingShape
    <3> QED
      BY <3>1 DEF RingShape
  <2> QED
    BY <2>3, <2>8
<1>5. ASSUME NEW t \in Slots, SendCount(t)
      PROVE  LockedRuns' /\ RoomLeft' /\ RingShape'
  <2> DEFINE r == mb[t]
  <2>1. /\ t = running /\ pc[t] = "moved"
        /\ pc' = [pc EXCEPT ![t] = "counted"]
        /\ count' = [count EXCEPT ![r] = @ + 1]
        /\ UNCHANGED <<head, tail, running, iflag, mb>>
    BY <1>5 DEF SendCount, GoTo
  <2>2. pc'[t] = "counted" /\ \A s \in Slots : s # t => pc'[s] = pc[s]
    BY <1>a, <2>1 DEF TypeOK
  <2>3. LockedRuns' /\ RoomLeft'
    BY <1>a, <2>1, <2>2 DEF LockedRuns, RoomLeft, Locked
  <2>4. /\ r \in Slots /\ count'[r] = count[r] + 1
        /\ \A s \in Slots : s # r => count'[s] = count[s]
    BY <1>a, <2>1 DEF TypeOK
  <2>5. /\ Drift(r) = 1 /\ \A s \in Slots : Drift(s)' = 0
        /\ \A s \in Slots : s # r => Drift(s) = 0
    BY <2>1, <2>2 DEF Drift
  <2>6. RingShape'
    <3>1. ASSUME NEW s \in Slots
          PROVE  tail'[s] = (head'[s] + count'[s] + Drift(s)') % Capacity
      <4>1. head[s] \in Int /\ count[s] \in Int
        BY <1>a DEF TypeOK, Index
      <4>2. head[s] + count[s] + Drift(s) = head'[s] + count'[s] + Drift(s)'
        BY <2>1, <2>4, <2>5, <4>1
      <4>3. tail'[s] = (head[s] + count[s] + Drift(s)) % Capacity
        BY <1>a, <2>1 DEF RingShape
      <4> QED
        BY <4>2, <4>3
    <3> QED
      BY <3>1 DEF RingShape
  <2> QED
    BY <2>3, <2>6
<1>6. ASSUME NEW t \in Slots, ReceiveCopy(t)
      PROVE  LockedRuns' /\ RoomLeft' /\ RingShape'
  <2>1. /\ t = running /\ pc[t] = "rlocked" /\ count[mb[t]] # 0
        /\ pc' = [pc EXCEPT ![t] = "copied"]
        /\ UNCHANGED <<head, tail, count, running, iflag, mb>>
    BY <1>6 DEF ReceiveCopy, GoTo, rings
  <2>2. pc'[t] = "copied" /\ \A s \in Slots : s # t => pc'[s] = pc[s]
    BY <1>a, <2>1 DEF TypeOK
  <2>3. LockedRuns' /\ RoomLeft'
    BY <1>a, <2>1, <2>2 DEF LockedRuns, RoomLeft, Locked, TypeOK
  <2>4. RingShape'
    BY <1>a, <2>1, <2>2 DEF RingShape, Drift
  <2> QED
    BY <2>3, <2>4
<1>7. ASSUME NEW t \in Slots, ReceiveHead(t)
      PROVE  LockedRuns' /\ RoomLeft' /\ RingShape'
  <2> DEFINE r == mb[t]
  <2>1. /\ t = running /\ pc[t] = "copied"
        /\ pc' = [pc EXCEPT ![t] = "rmoved"]
        /\ head' = [head EXCEPT ![r] = Following(@)]
        /\ UNCHANGED <<tail, count, running, iflag, mb>>
    BY <1>7 DEF ReceiveHead, GoTo
  <2>2. pc'[t] = "rmoved" /\ \A s \in Slots : s # t => pc'[s] = pc[s]
    BY <1>a, <2>1 DEF TypeOK
  <2>3. LockedRuns' /\ RoomLeft'
    BY <1>a, <2>1, <2>2 DEF LockedRuns, RoomLeft, Locked
  <2>4. /\ r \in Slots /\ head[r] \in Index /\ count[r] \in 1 .. Capacity
        /\ tail[r] = (head[r] + count[r]) % Capacity
    <3>1. /\ r \in Slots /\ head[r] \in Index /\ count[r] \in 1 .. Capacity
          /\ Drift(r) = 0
      BY <1>a, <2>1 DEF TypeOK, RoomLeft, Drift
    <3>2. head[r] + count[r] + Drift(r) = head[r] + count[r]
      BY <3>1 DEF Index
    <3> QED
      BY <1>a, <3>1, <3>2 DEF RingShape
  <2>5. head'[r] = Following(head[r]) /\ \A s \in Slots : s # r => head'[s] = head[s]
    BY <1>a, <2>1, <2>4 DEF TypeOK
  <2>6. tail[r] = (head'[r] + count[r] - 1) % Capacity
    BY <2>4, <2>5, RingRemove
  <2>7. /\ \A s \in Slots : s = r => Drift(s)' = -1
        /\ \A s \in Slots : s # r => Drift(s) = 0 /\ Drift(s)' = 0
    BY <2>1, <2>2 DEF Drift
  <2>8. RingShape'
    <3>1. ASSUME NEW s \in Slots, s # r
          PROVE  tail'[s] = (head'[s] + count'[s] + Drift(s)') % Capacity
      BY <1>a, <2>1, <2>5, <2>7, <3>1 DEF RingShape
    <3>2. ASSUME NEW s \in Slots, s = r
          PROVE  tail'[s] = (head'[s] + count'[s] + Drift(s)') % Capacity
      <4>1. head'[s] \in Int /\ count[s] \in Int
        BY <1>a, <2>4, <3>2 DEF TypeOK, Index
      <4>2. head'[s] + count'[s] + Drift(s)' = head'[s] + count[s] - 1
        BY <2>1, <2>7, <3>2, <4>1
      <4> QED
        BY <2>1, <2>6, <3>2, <4>2
    <3>3. ASSUME NEW s \in Slots
          PROVE  tail'[s] = (head'[s] + count'[s] + Drift(s)') % Capacity
      BY <3>1, <3>2
    <3> HIDE DEF r
    <3> QED
      BY <3>3 DEF RingShape
  <2> QED
    BY <2>3, <2>8
<1>8. ASSUME NEW t \in Slots, ReceiveCount(t)
      PROVE  LockedRuns' /\ RoomLeft' /\ RingShape'
  <2> DEFINE r == mb[t]
  <2>1. /\ t = running /\ pc[t] = "rmoved"
        /\ pc' = [pc EXCEPT ![t] = "rcounted"]
        /\ count' = [count EXCEPT ![r] = @ - 1]
        /\ UNCHANGED <<head, tail, running, iflag, mb>>
    BY <1>8 DEF ReceiveCount, GoTo
  <2>2. pc'[t] = "rcounted" /\ \A s \in Slots : s # t => pc'[s] = pc[s]
    BY <1>a, <2>1 DEF TypeOK
  <2>3. LockedRuns' /\ RoomLeft'
    BY <1>a, <2>1, <2>2 DEF LockedRuns, RoomLeft, Locked
  <2>4. /\ r \in Slots /\ count'[r] = count[r] - 1
        /\ \A s \in Slots : s # r => count'[s] = count[s]
    BY <1>a, <2>1 DEF TypeOK
  <2>5. /\ Drift(r) = -1 /\ \A s \in Slots : Drift(s)' = 0
        /\ \A s \in Slots : s # r => Drift(s) = 0
    BY <2>1, <2>2 DEF Drift
  <2>6. RingShape'
    <3>1. ASSUME NEW s \in Slots
          PROVE  tail'[s] = (head'[s] + count'[s] + Drift(s)') % Capacity
      <4>1. head[s] \in Int /\ count[s] \in Int
        BY <1>a DEF TypeOK, Index
      <4>2. head[s] + count[s] + Drift(s) = head'[s] + count'[s] + Drift(s)'
        BY <2>1, <2>4, <2>5, <4>1
      <4>3. tail'[s] = (head[s] + count[s] + Drift(s)) % Capacity
        BY <1>a, <2>1 DEF RingShape
      <4> QED
        BY <4>2, <4>3
    <3> QED
      BY <3>1 DEF RingShape
  <2> QED
    BY <2>3, <2>6
<1>9. ASSUME NEW t \in Slots, SwitchIn(t)
      PROVE  LockedRuns' /\ RoomLeft' /\ RingShape'
  <2>1. /\ iflag \/ pc[running] = "idle"
        /\ running' = t /\ UNCHANGED <<rings, pc, mb>>
    BY <1>9 DEF SwitchIn
  <2>2. \A s \in Slots : pc[s] \notin Locked
    BY <1>a, <2>1 DEF LockedRuns, Locked
  <2>3. pc[running] \notin Locked /\ pc'[running'] \notin Locked
    BY <1>a, <2>1, <2>2 DEF TypeOK
  <2>4. LockedRuns' /\ RoomLeft'
    BY <2>1, <2>2, <2>3 DEF LockedRuns, RoomLeft, Locked
  <2>5. \A s \in Slots : Drift(s) = 0 /\ Drift(s)' = 0
    BY <2>3 DEF Drift, Locked
  <2>6. RingShape'
    BY <1>a, <2>1, <2>5 DEF RingShape, rings
  <2> QED
    BY <2>4, <2>6
<1>10. CASE UNCHANGED vars
  BY <1>10, <1>a DEF vars, LockedRuns, RoomLeft, RingShape, Drift
<1> QED
  BY <1>1, <1>2, <1>3, <1>4, <1>5, <1>6, <1>7, <1>8, <1>9, <1>10
  DEF Next, Send, Receive

\* The types, in particular: no mailbox ever counts more than its capacity or
\* less than nothing, and no index leaves the ring.
THEOREM IpcTypeCorrect == Spec => []TypeOK
<1>1. RingInv => TypeOK
  BY DEF RingInv
<1> QED
  BY RingInit, RingStep, <1>1, PTL DEF Spec

\* Between calls, and whenever an interrupt may look, head, tail and count of
\* every mailbox agree: clearing the interrupt flag is enough of a lock.
THEOREM RingsCorrect == Spec => []RingsWhole
<1>1. RingInv => RingsWhole
  <2> SUFFICES ASSUME RingInv, iflag, NEW r \in Slots
               PROVE  tail[r] = (head[r] + count[r]) % Capacity
    BY DEF RingsWhole
  <2>1. pc[running] \notin Locked /\ head[r] \in Int /\ count[r] \in Int
    BY DEF RingInv, LockedRuns, TypeOK, Index
  <2>2. Drift(r) = 0
    BY <2>1 DEF Drift, Locked
  <2> QED
    BY <2>1, <2>2 DEF RingInv, RingShape
<1> QED
  BY RingInit, RingStep, <1>1, PTL DEF Spec

-----------------------------------------------------------------------------
(* The totals.  The invariant adds the messages a call has counted in its   *)
(* mailbox and not yet in the total.                                       *)

\* Numbers that differ by a multiple of w are the same after a wrap.
LEMMA SameModulo ==
    ASSUME NEW w \in Nat \ {0}, NEW a \in Int, NEW b \in Int, NEW k \in Int, a = b + k * w
    PROVE  a % w = b % w
<1> DEFINE qa == a \div w
           ma == a % w
           qb == b \div w
           mb1 == b % w
           d == qb + k - qa
<1>1. /\ qa \in Int /\ ma \in 0 .. w - 1 /\ a = w * qa + ma
      /\ qb \in Int /\ mb1 \in 0 .. w - 1 /\ b = w * qb + mb1
  OBVIOUS
<1> HIDE DEF qa, ma, qb, mb1
<1>2. d \in Int /\ ma - mb1 = w * d
  BY <1>1
<1> HIDE DEF d
<1>3. d = 0
  <2>1. CASE d >= 1
    <3>1. w * d >= w
      BY <1>2, <2>1
    <3> QED
      BY <1>1, <1>2, <3>1
  <2>2. CASE d <= -1
    <3>1. w * d <= - w
      BY <1>2, <2>2
    <3> QED
      BY <1>1, <1>2, <3>1
  <2> QED
    BY <1>2, <2>1, <2>2
<1>4. ma = mb1
  BY <1>1, <1>2, <1>3
<1> QED
  BY <1>4 DEF ma, mb1

\* A total that was counted up, and perhaps wrapped.
LEMMA CountedUp ==
    ASSUME NEW n \in 0 .. Wrap - 1
    PROVE  \E k \in {0, 1} : (n + 1) % Wrap = n + 1 - k * Wrap
<1> DEFINE w == Wrap
           m == n + 1
<1>b. n \in Int /\ Wrap \in Nat \ {0}
  BY IpcConstants
<1>1. w \in Nat \ {0} /\ m \in Nat /\ m < 2 * w
  BY IpcConstants
<1> HIDE DEF w, m
<1>2. m % w = IF m < w THEN m ELSE m - w
  BY <1>1, ModOnce
<1>3. CASE m < w
  <2>1. m % w = m - 0 * w
    BY <1>1, <1>2, <1>3
  <2>2. (n + 1) % Wrap = n + 1 - 0 * Wrap
    BY <2>1, <1>b DEF w, m
  <2> WITNESS 0 \in {0, 1}
  <2> QED
    BY <2>2
<1>4. CASE ~ (m < w)
  <2>1. m % w = m - 1 * w
    BY <1>1, <1>2, <1>4
  <2>2. (n + 1) % Wrap = n + 1 - 1 * Wrap
    BY <2>1, <1>b DEF w, m
  <2> WITNESS 1 \in {0, 1}
  <2> QED
    BY <2>2
<1> QED
  BY <1>3, <1>4

\* The waiting messages are finitely many; a count that grows or shrinks by one adds
\* or takes one of them.
LEMMA HeldFinite == IsFiniteSet(Held) /\ Cardinality(Held) \in Nat
<1>1. IsFiniteSet(Slots) /\ IsFiniteSet(1 .. Capacity)
  <2>1. 1 \in Int /\ Capacity \in Int
    BY IpcConstants
  <2> QED
    BY <2>1, IpcConstants, FS_Interval
<1>2. IsFiniteSet(Slots \X (1 .. Capacity))
  BY <1>1, FS_Product
<1>3. IsFiniteSet(Held)
  BY <1>2, FS_Subset DEF Held
<1> QED
  BY <1>3, FS_CardinalityType

LEMMA HeldGrows ==
    ASSUME TypeOK, NEW r \in Slots, count[r] < Capacity,
           count' = [count EXCEPT ![r] = @ + 1]
    PROVE  Cardinality(Held') = Cardinality(Held) + 1
<1> DEFINE p == <<r, count[r] + 1>>
<1>1. count \in [Slots -> 0 .. Capacity] /\ Capacity \in Nat
  BY IpcConstants DEF TypeOK
<1>2. \A q \in Slots \X (1 .. Capacity) : q = <<q[1], q[2]>> /\ q[1] \in Slots
                                            /\ q[2] \in 1 .. Capacity
  OBVIOUS
<1>3. p \in Slots \X (1 .. Capacity) /\ p[1] = r /\ p[2] = count[r] + 1
  BY <1>1
<1>4. p \notin Held
  BY <1>1, <1>3 DEF Held
<1>5. \A q \in Slots \X (1 .. Capacity) :
         q[2] <= count'[q[1]] <=> q[2] <= count[q[1]] \/ q = p
  <2> SUFFICES ASSUME NEW q \in Slots \X (1 .. Capacity)
               PROVE  q[2] <= count'[q[1]] <=> q[2] <= count[q[1]] \/ q = p
    OBVIOUS
  <2>1. CASE q[1] = r
    <3>1. count'[q[1]] = count[r] + 1
      BY <1>1, <1>2, <2>1
    <3>2. q = p <=> q[2] = count[r] + 1
      BY <1>2, <1>3, <2>1
    <3> HIDE DEF p
    <3> QED
      BY <1>1, <1>2, <2>1, <3>1, <3>2
  <2>2. CASE q[1] # r
    <3>1. count'[q[1]] = count[q[1]] /\ q # p
      BY <1>1, <1>2, <1>3, <2>2
    <3> QED
      BY <3>1
  <2> QED
    BY <2>1, <2>2
<1> HIDE DEF p
<1>6. Held' = Held \cup {p}
  BY <1>3, <1>5 DEF Held
<1> QED
  BY <1>4, <1>6, HeldFinite, FS_AddElement

LEMMA HeldShrinks ==
    ASSUME TypeOK, NEW r \in Slots, count[r] > 0,
           count' = [count EXCEPT ![r] = @ - 1]
    PROVE  Cardinality(Held') = Cardinality(Held) - 1
<1> DEFINE p == <<r, count[r]>>
<1>1. count \in [Slots -> 0 .. Capacity] /\ Capacity \in Nat
  BY IpcConstants DEF TypeOK
<1>2. \A q \in Slots \X (1 .. Capacity) : q = <<q[1], q[2]>> /\ q[1] \in Slots
                                            /\ q[2] \in 1 .. Capacity
  OBVIOUS
<1>3. p \in Slots \X (1 .. Capacity) /\ p[1] = r /\ p[2] = count[r]
  BY <1>1
<1>4. p \in Held
  BY <1>1, <1>3 DEF Held
<1>5. \A q \in Slots \X (1 .. Capacity) :
         q[2] <= count'[q[1]] <=> q[2] <= count[q[1]] /\ q # p
  <2> SUFFICES ASSUME NEW q \in Slots \X (1 .. Capacity)
               PROVE  q[2] <= count'[q[1]] <=> q[2] <= count[q[1]] /\ q # p
    OBVIOUS
  <2>1. CASE q[1] = r
    <3>1. count'[q[1]] = count[r] - 1
      BY <1>1, <1>2, <2>1
    <3>2. q = p <=> q[2] = count[r]
      BY <1>2, <1>3, <2>1
    <3> HIDE DEF p
    <3> QED
      BY <1>1, <1>2, <2>1, <3>1, <3>2
  <2>2. CASE q[1] # r
    <3>1. count'[q[1]] = count[q[1]] /\ q # p
      BY <1>1, <1>2, <1>3, <2>2
    <3> QED
      BY <3>1
  <2> QED
    BY <2>1, <2>2
<1> HIDE DEF p
<1>6. Held' = Held \ {p}
  BY <1>5 DEF Held
<1>7. Cardinality(Held \ {p}) = Cardinality(Held) - 1
  BY <1>4, HeldFinite, FS_RemoveElement
<1> QED
  BY <1>6, <1>7

\* What the running call has counted in the mailbox only.
Owed == IF pc[running] = "counted" THEN 1
        ELSE IF pc[running] = "rcounted" THEN -1
        ELSE 0

\* The totals and the messages waiting agree but for that, and for wraps.
Balanced ==
    \E k \in Int : sent - recv + Owed = Cardinality(Held) + k * Wrap

LEMMA BalancedInit == Init => Balanced
<1> SUFFICES ASSUME Init PROVE Balanced
  OBVIOUS
<1>1. Held = {}
  BY DEF Init, Held
<1>2. Cardinality(Held) = 0
  BY <1>1, FS_EmptySet
<1>3. sent = 0 /\ recv = 0 /\ Owed = 0
  BY DEF Init, Owed
<1>4. 0 - 0 + 0 = 0 + 0 * Wrap
  BY IpcConstants
<1> QED
  BY <1>2, <1>3, <1>4 DEF Balanced

LEMMA BalancedStep == RingInv /\ Balanced /\ [Next]_vars => Balanced'
<1> SUFFICES ASSUME RingInv, Balanced, [Next]_vars PROVE Balanced'
  OBVIOUS
<1>a. TypeOK /\ LockedRuns /\ RoomLeft
  BY DEF RingInv
<1>b. /\ sent \in 0 .. Wrap - 1 /\ recv \in 0 .. Wrap - 1 /\ Wrap \in Nat \ {0}
      /\ running \in Slots /\ pc \in [Slots -> PCs] /\ mb \in [Slots -> Slots]
  BY <1>a, IpcConstants DEF TypeOK
<1>c. Cardinality(Held) \in Nat
  BY HeldFinite
<1>d. PICK k \in Int : sent - recv + Owed = Cardinality(Held) + k * Wrap
  BY DEF Balanced
<1>e. PICK z \in Int : z = k * Wrap
  BY <1>b
<1>f. sent - recv + Owed = Cardinality(Held) + z
  BY <1>d, <1>e
<1>0. ASSUME count' = count PROVE Cardinality(Held') = Cardinality(Held)
  BY <1>0 DEF Held
<1>1. ASSUME UNCHANGED <<count, sent, recv>>, Owed' = Owed
      PROVE  Balanced'
  BY <1>0, <1>1, <1>d DEF Balanced
<1>2. ASSUME NEW t \in Slots,
             \/ \E r \in Receivers, m \in Messages : SendFind(t, r, m)
             \/ SendCli(t) \/ SendFull(t) \/ SendStore(t) \/ SendTail(t)
             \/ ReceiveFind(t) \/ ReceiveCli(t) \/ ReceiveEmpty(t) \/ ReceiveCopy(t)
             \/ ReceiveHead(t)
      PROVE  Balanced'
  <2>1. /\ UNCHANGED <<count, sent, recv, running>> /\ running = t
        /\ pc[t] \notin {"counted", "rcounted"}
        /\ \E w \in PCs \ {"counted", "rcounted"} : pc' = [pc EXCEPT ![t] = w]
    BY <1>2 DEF SendFind, SendCli, SendFull, SendStore, SendTail, ReceiveFind, ReceiveCli,
                ReceiveEmpty, ReceiveCopy, ReceiveHead, GoTo, rings, PCs
  <2>2. Owed = 0 /\ Owed' = 0
    BY <1>b, <2>1 DEF Owed
  <2> QED
    BY <1>1, <2>1, <2>2
<1>3. ASSUME NEW t \in Slots, SendCount(t) PROVE Balanced'
  <2>1. /\ running = t /\ pc[t] = "moved" /\ pc' = [pc EXCEPT ![t] = "counted"]
        /\ count' = [count EXCEPT ![mb[t]] = @ + 1] /\ UNCHANGED <<sent, recv, running>>
    BY <1>3 DEF SendCount, GoTo
  <2>2. mb[t] \in Slots /\ count[mb[t]] < Capacity
    BY <1>a, <1>b, <2>1 DEF RoomLeft
  <2>3. Cardinality(Held') = Cardinality(Held) + 1
    BY <1>a, <2>1, <2>2, HeldGrows
  <2>4. Owed = 0 /\ Owed' = 1
    BY <1>b, <2>1 DEF Owed
  <2>5. sent' = sent /\ recv' = recv
    BY <2>1
  <2>6. sent' - recv' + Owed' = Cardinality(Held') + z
    <3> HIDE DEF Owed
    <3> QED
      BY <1>b, <1>c, <1>f, <2>3, <2>4, <2>5
  <2> QED
    BY <1>e, <2>6 DEF Balanced
<1>4. ASSUME NEW t \in Slots, ReceiveCount(t) PROVE Balanced'
  <2>1. /\ running = t /\ pc[t] = "rmoved" /\ pc' = [pc EXCEPT ![t] = "rcounted"]
        /\ count' = [count EXCEPT ![mb[t]] = @ - 1] /\ UNCHANGED <<sent, recv, running>>
    BY <1>4 DEF ReceiveCount, GoTo
  <2>2. mb[t] \in Slots /\ count[mb[t]] > 0
    BY <1>a, <1>b, <2>1 DEF RoomLeft
  <2>3. Cardinality(Held') = Cardinality(Held) - 1
    BY <1>a, <2>1, <2>2, HeldShrinks
  <2>4. Owed = 0 /\ Owed' = -1
    BY <1>b, <2>1 DEF Owed
  <2>5. sent' = sent /\ recv' = recv
    BY <2>1
  <2>6. sent' - recv' + Owed' = Cardinality(Held') + z
    <3> HIDE DEF Owed
    <3> QED
      BY <1>b, <1>c, <1>f, <2>3, <2>4, <2>5
  <2> QED
    BY <1>e, <2>6 DEF Balanced
<1>5. ASSUME NEW t \in Slots, SendSti(t) PROVE Balanced'
  <2>1. /\ running = t /\ pc[t] = "counted" /\ pc' = [pc EXCEPT ![t] = "idle"]
        /\ sent' = (sent + 1) % Wrap /\ UNCHANGED <<count, recv, running>>
    BY <1>5 DEF SendSti, GoTo, rings
  <2>2. Owed = 1 /\ Owed' = 0
    BY <1>b, <2>1 DEF Owed
  <2>3. PICK j \in {0, 1} : sent' = sent + 1 - j * Wrap
    BY <1>b, <2>1, CountedUp
  <2>4. k - j \in Int /\ (k - j) * Wrap = k * Wrap - j * Wrap
    BY <1>b
  <2>5. PICK y \in Int : y = j * Wrap
    BY <1>b
  <2>6. sent' = sent + 1 - y /\ recv' = recv /\ Cardinality(Held') = Cardinality(Held)
    BY <1>0, <2>1, <2>3, <2>5
  <2>7. sent' - recv' + Owed' = Cardinality(Held') + (z - y)
    BY <1>b, <1>c, <1>f, <2>2, <2>6
  <2> QED
    BY <1>e, <2>4, <2>5, <2>7 DEF Balanced
<1>6. ASSUME NEW t \in Slots, ReceiveSti(t) PROVE Balanced'
  <2>1. /\ running = t /\ pc[t] = "rcounted" /\ pc' = [pc EXCEPT ![t] = "idle"]
        /\ recv' = (recv + 1) % Wrap /\ UNCHANGED <<count, sent, running>>
    BY <1>6 DEF ReceiveSti, GoTo, rings
  <2>2. Owed = -1 /\ Owed' = 0
    BY <1>b, <2>1 DEF Owed
  <2>3. PICK j \in {0, 1} : recv' = recv + 1 - j * Wrap
    BY <1>b, <2>1, CountedUp
  <2>4. k + j \in Int /\ (k + j) * Wrap = k * Wrap + j * Wrap
    BY <1>b
  <2>5. PICK y \in Int : y = j * Wrap
    BY <1>b
  <2>6. recv' = recv + 1 - y /\ sent' = sent /\ Cardinality(Held') = Cardinality(Held)
    BY <1>0, <2>1, <2>3, <2>5
  <2>7. sent' - recv' + Owed' = Cardinality(Held') + (z + y)
    BY <1>b, <1>c, <1>f, <2>2, <2>6
  <2> QED
    BY <1>e, <2>4, <2>5, <2>7 DEF Balanced
<1>7. ASSUME NEW t \in Slots, SwitchIn(t) PROVE Balanced'
  <2>1. /\ running # t /\ running' = t /\ (iflag \/ pc[running] = "idle")
        /\ UNCHANGED <<count, sent, recv>> /\ pc' = pc
    BY <1>7 DEF SwitchIn, rings
  <2>2. pc[running] \notin {"counted", "rcounted"} /\ pc[t] \notin {"counted", "rcounted"}
    BY <1>a, <1>b, <2>1 DEF LockedRuns, Locked
  <2>3. Owed = 0 /\ Owed' = 0
    BY <2>1, <2>2 DEF Owed
  <2> QED
    BY <1>1, <2>1, <2>3
<1>8. CASE UNCHANGED vars
  <2>1. Owed' = Owed
    BY <1>8 DEF vars, Owed
  <2> QED
    BY <1>1, <1>8, <2>1 DEF vars
<1> QED
  BY <1>2, <1>3, <1>4, <1>5, <1>6, <1>7, <1>8 DEF Next, Send, Receive

\* Whenever the dashboard may read the totals, in the timer interrupt, they add up to the
\* messages waiting: ipc_send counts a message before it sets the interrupt flag again.
THEOREM StatsCorrect == Spec => []StatsAddUp
<1>1. RingInv /\ Balanced => StatsAddUp
  <2> SUFFICES ASSUME RingInv, Balanced, iflag
               PROVE  (sent - recv) % Wrap = Cardinality(Held) % Wrap
    BY DEF StatsAddUp
  <2>1. pc[running] \notin Locked /\ sent - recv \in Int /\ Wrap \in Nat \ {0}
    BY IpcConstants DEF RingInv, LockedRuns, TypeOK
  <2>2. Owed = 0
    BY <2>1 DEF Owed, Locked
  <2>3. PICK k \in Int : sent - recv + Owed = Cardinality(Held) + k * Wrap
    BY DEF Balanced
  <2>4. PICK a \in Int, b \in Int : a = sent - recv /\ b = Cardinality(Held)
    BY <2>1, HeldFinite
  <2>5. a = b + k * Wrap
    BY <2>2, <2>3, <2>4
  <2>6. a % Wrap = b % Wrap
    BY <2>1, <2>5, SameModulo
  <2> QED
    BY <2>4, <2>6
<1> QED
  BY RingInit, RingStep, BalancedInit, BalancedStep, <1>1, PTL DEF Spec

-----------------------------------------------------------------------------
(* The refinement of Mailbox.  The invariant adds what the running call has *)
(* in its hands.                                                           *)

\* The slot of the oldest message once head has moved past it.
Before(h) == (h + Capacity - 1) % Capacity

\* What a call knows about the ring it works on: a message to send is a
\* message, a stored one is in the slot behind the last, and one that was taken
\* out is what the slot at head holds, or held before head moved on.
InHand ==
    \A t \in Slots :
        /\ pc[t] \in {"found", "locked", "stored", "moved"} => msg[t] \in Messages
        /\ pc[t] \in {"stored", "moved"} =>
              messages[mb[t]][(head[mb[t]] + count[mb[t]]) % Capacity] = msg[t]
        /\ pc[t] \in {"rfound", "rlocked", "copied", "rmoved"} => mb[t] = t
        /\ pc[t] = "copied" => msg[t] = messages[t][head[t]]
        /\ pc[t] = "rmoved" => msg[t] = messages[t][Before(head[t])]

FifoInv == RingInv /\ InHand
LEMMA SlotIndex ==
    ASSUME NEW h \in Index, NEW k \in 0 .. Capacity
    PROVE  (h + k) % Capacity \in Index
<1> DEFINE a == h + k
<1>1. a \in Nat /\ a < 2 * Capacity
  BY IpcConstants DEF Index
<1> HIDE DEF a
<1>2. a % Capacity \in Index
  BY <1>1, ModCapacity, IpcConstants DEF Index
<1> QED
  BY <1>2 DEF a

\* A message is stored behind the ones that wait, never over one of them.
LEMMA SlotApart ==
    ASSUME NEW h \in Index, NEW n \in 0 .. Capacity - 1, NEW k \in 0 .. n - 1
    PROVE  (h + k) % Capacity # (h + n) % Capacity
<1> DEFINE a == h + k
           b == h + n
<1>1. /\ a \in Nat /\ b \in Nat /\ a < 2 * Capacity /\ b < 2 * Capacity
      /\ a < b /\ b < a + Capacity
  BY IpcConstants DEF Index
<1> HIDE DEF a, b
<1>2. a % Capacity # b % Capacity
  BY <1>1, ModCapacity, IpcConstants
<1> QED
  BY <1>2 DEF a, b

\* One step back and on again.
LEMMA BeforeSlot ==
    ASSUME NEW h \in Index
    PROVE  /\ Before(h) \in Index
           /\ Before(Following(h)) = h
           /\ \A k \in 0 .. Capacity - 1 :
                  (Before(h) + (k + 1)) % Capacity = (h + k) % Capacity
<1> DEFINE C == Capacity
<1>1. C \in Nat \ {0} /\ h \in 0 .. C - 1
  BY IpcConstants DEF Index
<1>2. \A a \in Nat : a < 2 * C => a % C = IF a < C THEN a ELSE a - C
  BY ModCapacity
<1>3. Before(h) = (h + C - 1) % C /\ Following(h) = (h + 1) % C
  BY DEF Before, Following
<1>4. Before(Following(h)) = (Following(h) + C - 1) % C
  BY DEF Before
<1> HIDE DEF C
<1>5. Before(h) = IF h = 0 THEN C - 1 ELSE h - 1
  BY <1>1, <1>2, <1>3
<1>6. Following(h) = IF h = C - 1 THEN 0 ELSE h + 1
  BY <1>1, <1>2, <1>3
<1>7. Before(Following(h)) = h
  <2>1. Following(h) + C - 1 \in Nat /\ Following(h) + C - 1 < 2 * C
    BY <1>1, <1>6
  <2> QED
    BY <1>1, <1>2, <1>4, <1>6, <2>1
<1>8. ASSUME NEW k \in 0 .. C - 1
      PROVE  (Before(h) + (k + 1)) % C = (h + k) % C
  <2> DEFINE a == Before(h) + (k + 1)
             b == h + k
  <2>1. /\ a \in Nat /\ b \in Nat /\ a < 2 * C /\ b < 2 * C
        /\ a = b \/ (a = b + C /\ b < C)
    BY <1>1, <1>5
  <2> HIDE DEF a, b
  <2>2. a % C = b % C
    BY <1>1, <1>2, <2>1
  <2> QED
    BY <2>2 DEF a, b
<1> QED
  BY <1>1, <1>5, <1>7, <1>8 DEF Index, C

LEMMA FifoInit == Init => FifoInv
BY RingInit DEF Init, FifoInv, InHand

\* What the running call has in its hands.
LEMMA InHandStep == FifoInv /\ [Next]_vars => InHand'
<1> SUFFICES ASSUME FifoInv, [Next]_vars PROVE InHand'
  OBVIOUS
<1> USE IpcConstants
<1>a. RingInv /\ RingInv' /\ InHand
  BY RingStep DEF FifoInv
<1>b. TypeOK /\ TypeOK' /\ LockedRuns /\ LockedRuns' /\ RoomLeft /\ RingShape
  BY <1>a DEF RingInv
<1>c. \A t \in Slots : t # running =>
          pc[t] \notin {"stored", "moved", "copied", "rmoved"}
  BY <1>b DEF LockedRuns, Locked
<1> DEFINE Good(t) ==
        /\ pc[t] \in {"found", "locked", "stored", "moved"} => msg[t] \in Messages
        /\ pc[t] \in {"stored", "moved"} =>
              messages[mb[t]][(head[mb[t]] + count[mb[t]]) % Capacity] = msg[t]
        /\ pc[t] \in {"rfound", "rlocked", "copied", "rmoved"} => mb[t] = t
        /\ pc[t] = "copied" => msg[t] = messages[t][head[t]]
        /\ pc[t] = "rmoved" => msg[t] = messages[t][Before(head[t])]
<1>d. \A t \in Slots : Good(t)
  BY <1>a DEF InHand
<1>e. (\A t \in Slots : Good(t)') => InHand'
  BY DEF InHand
\* A thread that does not run keeps what it has.
<1>f. ASSUME NEW t \in Slots, NEW s \in Slots, s # t, t = running,
             \E w \in PCs : pc' = [pc EXCEPT ![t] = w],
             mb'[s] = mb[s], msg'[s] = msg[s]
      PROVE  Good(s)'
  <2>1. pc'[s] = pc[s]
    BY <1>b, <1>f DEF TypeOK
  <2> QED
    BY <1>c, <1>d, <1>f, <2>1
<1>1. ASSUME NEW t \in Slots, NEW r \in Receivers, NEW m \in Messages,
             SendFind(t, r, m)
      PROVE  InHand'
  <2>1. /\ t = running /\ pc' = [pc EXCEPT ![t] = "found"]
        /\ mb' = [mb EXCEPT ![t] = r] /\ msg' = [msg EXCEPT ![t] = m]
    BY <1>1 DEF SendFind, GoTo
  <2>2. Good(t)'
    BY <1>b, <2>1 DEF TypeOK
  <2>3. ASSUME NEW s \in Slots, s # t PROVE Good(s)'
    <3>1. mb'[s] = mb[s] /\ msg'[s] = msg[s]
      BY <1>b, <2>1, <2>3 DEF TypeOK
    <3>2. \E w \in PCs : pc' = [pc EXCEPT ![t] = w]
      BY <2>1 DEF PCs
    <3> QED
      BY <1>f, <2>1, <2>3, <3>1, <3>2
  <2> QED
    BY <1>e, <2>2, <2>3
<1>2. ASSUME NEW t \in Slots,
             SendCli(t) \/ SendFull(t) \/ SendSti(t) \/ ReceiveCli(t)
                \/ ReceiveEmpty(t) \/ ReceiveSti(t)
      PROVE  InHand'
  <2>1. /\ t = running /\ UNCHANGED <<mb, msg>>
        /\ \/ pc[t] = "found" /\ pc' = [pc EXCEPT ![t] = "locked"]
           \/ pc[t] = "rfound" /\ pc' = [pc EXCEPT ![t] = "rlocked"]
           \/ pc' = [pc EXCEPT ![t] = "idle"]
    BY <1>2 DEF SendCli, SendFull, SendSti, ReceiveCli, ReceiveEmpty,
                ReceiveSti, GoTo
  <2>2. Good(t)'
    BY <1>b, <1>d, <2>1 DEF TypeOK
  <2>3. ASSUME NEW s \in Slots, s # t PROVE Good(s)'
    BY <1>f, <2>1, <2>3 DEF PCs
  <2> QED
    BY <1>e, <2>2, <2>3
<1>3. ASSUME NEW t \in Slots, SendStore(t) PROVE InHand'
  <2>1. /\ t = running /\ pc[t] = "locked" /\ pc' = [pc EXCEPT ![t] = "stored"]
        /\ messages' = [messages EXCEPT ![mb[t]][tail[mb[t]]] = msg[t]]
        /\ UNCHANGED <<head, count, mb, msg>>
    BY <1>3 DEF SendStore, GoTo
  <2>2. tail[mb[t]] = (head[mb[t]] + count[mb[t]]) % Capacity
    <3>1. Drift(mb[t]) = 0 /\ mb[t] \in Slots
      BY <1>b, <2>1 DEF Drift, TypeOK
    <3>2. head[mb[t]] \in Int /\ count[mb[t]] \in Int
      BY <1>b, <3>1 DEF TypeOK, Index
    <3>3. head[mb[t]] + count[mb[t]] + Drift(mb[t]) = head[mb[t]] + count[mb[t]]
      BY <3>1, <3>2
    <3> QED
      BY <1>b, <3>1, <3>3 DEF RingShape
  <2>3. Good(t)'
    BY <1>b, <1>d, <2>1, <2>2 DEF TypeOK
  <2>4. ASSUME NEW s \in Slots, s # t PROVE Good(s)'
    BY <1>f, <2>1, <2>4 DEF PCs
  <2> QED
    BY <1>e, <2>3, <2>4
<1>4. ASSUME NEW t \in Slots, SendTail(t) PROVE InHand'
  <2>1. /\ t = running /\ pc[t] = "stored" /\ pc' = [pc EXCEPT ![t] = "moved"]
        /\ UNCHANGED <<messages, head, count, mb, msg>>
    BY <1>4 DEF SendTail, GoTo
  <2>2. Good(t)'
    BY <1>b, <1>d, <2>1 DEF TypeOK
  <2>3. ASSUME NEW s \in Slots, s # t PROVE Good(s)'
    BY <1>f, <2>1, <2>3 DEF PCs
  <2> QED
    BY <1>e, <2>2, <2>3
<1>5. ASSUME NEW t \in Slots, SendCount(t) \/ ReceiveCount(t) PROVE InHand'
  <2>1. /\ t = running /\ UNCHANGED <<mb, msg>>
        /\ \E w \in {"counted", "rcounted"} : pc' = [pc EXCEPT ![t] = w]
    BY <1>5 DEF SendCount, ReceiveCount, GoTo
  <2>2. Good(t)'
    <3>1. pc'[t] \in {"counted", "rcounted"}
      BY <1>b, <2>1 DEF TypeOK
    <3> QED
      BY <3>1
  <2>3. ASSUME NEW s \in Slots, s # t PROVE Good(s)'
    <3>1. \E w \in PCs : pc' = [pc EXCEPT ![t] = w]
      BY <2>1 DEF PCs
    <3> QED
      BY <1>f, <2>1, <2>3, <3>1
  <2> QED
    BY <1>e, <2>2, <2>3
<1>6. ASSUME NEW t \in Slots, ReceiveFind(t) PROVE InHand'
  <2>1. /\ t = running /\ pc' = [pc EXCEPT ![t] = "rfound"]
        /\ mb' = [mb EXCEPT ![t] = t] /\ UNCHANGED msg
    BY <1>6 DEF ReceiveFind, GoTo
  <2>2. Good(t)'
    <3>1. pc'[t] = "rfound" /\ mb'[t] = t
      BY <1>b, <2>1 DEF TypeOK
    <3> QED
      BY <3>1
  <2>3. ASSUME NEW s \in Slots, s # t PROVE Good(s)'
    <3>1. mb'[s] = mb[s] /\ msg'[s] = msg[s]
      BY <1>b, <2>1, <2>3 DEF TypeOK
    <3>2. \E w \in PCs : pc' = [pc EXCEPT ![t] = w]
      BY <2>1 DEF PCs
    <3> QED
      BY <1>f, <2>1, <2>3, <3>1, <3>2
  <2> QED
    BY <1>e, <2>2, <2>3
<1>7. ASSUME NEW t \in Slots, ReceiveCopy(t) PROVE InHand'
  <2>1. /\ t = running /\ pc[t] = "rlocked" /\ pc' = [pc EXCEPT ![t] = "copied"]
        /\ msg' = [msg EXCEPT ![t] = messages[mb[t]][head[mb[t]]]]
        /\ UNCHANGED <<messages, head, mb>>
    BY <1>7 DEF ReceiveCopy, GoTo, rings
  <2>2. Good(t)'
    BY <1>b, <1>d, <2>1 DEF TypeOK
  <2>3. ASSUME NEW s \in Slots, s # t PROVE Good(s)'
    <3>1. mb'[s] = mb[s] /\ msg'[s] = msg[s]
      BY <1>b, <2>1, <2>3 DEF TypeOK
    <3>2. \E w \in PCs : pc' = [pc EXCEPT ![t] = w]
      BY <2>1 DEF PCs
    <3> QED
      BY <1>f, <2>1, <2>3, <3>1, <3>2
  <2> QED
    BY <1>e, <2>2, <2>3
<1>8. ASSUME NEW t \in Slots, ReceiveHead(t) PROVE InHand'
  <2>1. /\ t = running /\ pc[t] = "copied" /\ pc' = [pc EXCEPT ![t] = "rmoved"]
        /\ head' = [head EXCEPT ![mb[t]] = Following(@)]
        /\ UNCHANGED <<messages, mb, msg>>
    BY <1>8 DEF ReceiveHead, GoTo
  <2>2. mb[t] = t /\ head[t] \in Index /\ msg[t] = messages[t][head[t]]
    BY <1>b, <1>d, <2>1 DEF TypeOK
  <2>3. Before(head'[t]) = head[t]
    BY <1>b, <2>1, <2>2, BeforeSlot DEF TypeOK
  <2>4. Good(t)'
    <3>1. Before(head[t])' = head[t]
      BY <2>3 DEF Before
    <3>2. pc'[t] = "rmoved"
      BY <1>b, <2>1 DEF TypeOK
    <3>3. (msg[t] = messages[t][Before(head[t])])'
      BY <2>1, <2>2, <3>1
    <3> QED
      BY <2>1, <2>2, <3>2, <3>3
  <2>5. ASSUME NEW s \in Slots, s # t PROVE Good(s)'
    BY <1>f, <2>1, <2>5 DEF PCs
  <2> QED
    BY <1>e, <2>4, <2>5
<1>9. ASSUME NEW t \in Slots, SwitchIn(t) PROVE InHand'
  <2>1. \A s \in Slots : pc[s] \notin {"stored", "moved", "copied", "rmoved"}
    BY <1>b, <1>9 DEF SwitchIn, LockedRuns, Locked, TypeOK
  <2>2. UNCHANGED <<pc, mb, msg>>
    BY <1>9 DEF SwitchIn
  <2> QED
    BY <1>d, <1>e, <2>1, <2>2
<1>10. CASE UNCHANGED vars
  <2>1. UNCHANGED <<messages, head, count, pc, mb, msg>>
    BY <1>10 DEF vars
  <2> QED
    BY <1>a, <2>1 DEF InHand, Before
<1> QED
  BY <1>1, <1>2, <1>3, <1>4, <1>5, <1>6, <1>7, <1>8, <1>9, <1>10
  DEF Next, Send, Receive

LEMMA FifoStep == FifoInv /\ [Next]_vars => FifoInv'
BY RingStep, InHandStep DEF FifoInv
LEMMA SeqOf ==
    ASSUME NEW S, NEW n \in Nat, NEW s \in [1 .. n -> S]
    PROVE  s \in Seq(S) /\ Len(s) = n
OBVIOUS

LEMMA IsAppend ==
    ASSUME NEW S, NEW n \in Nat, NEW s \in [1 .. n -> S],
           NEW q \in [1 .. n + 1 -> S], \A k \in 1 .. n : q[k] = s[k]
    PROVE  q = Append(s, q[n + 1])
<1>1. /\ s \in Seq(S) /\ Len(s) = n /\ q \in Seq(S) /\ Len(q) = n + 1
      /\ q[n + 1] \in S
  BY SeqOf
<1> DEFINE a == Append(s, q[n + 1])
<1>2. /\ a \in Seq(S) /\ Len(a) = n + 1
      /\ \A k \in 1 .. n + 1 : a[k] = q[k]
  BY <1>1, AppendProperties
<1> HIDE DEF a
<1>3. q = a
  BY <1>1, <1>2, SeqEqual
<1> QED
  BY <1>3 DEF a

LEMMA IsTail ==
    ASSUME NEW S, NEW n \in Nat, NEW s \in [1 .. n + 1 -> S],
           NEW q \in [1 .. n -> S], \A k \in 1 .. n : q[k] = s[k + 1]
    PROVE  s # <<>> /\ Head(s) = s[1] /\ q = Tail(s)
<1>1. s \in Seq(S) /\ Len(s) = n + 1 /\ q \in Seq(S) /\ Len(q) = n
  BY SeqOf
<1>2. s # <<>> /\ Head(s) = s[1]
  BY <1>1
<1> DEFINE a == Tail(s)
<1>3. /\ a \in Seq(S) /\ Len(a) = n
      /\ \A k \in 1 .. n : a[k] = s[k + 1]
  BY <1>1, <1>2, HeadTailProperties
<1> HIDE DEF a
<1>4. q = a
  BY <1>1, <1>3, SeqEqual
<1> QED
  BY <1>2, <1>4 DEF a

\* The thread that runs decides which slot is the oldest of each mailbox.
Front(r) ==
    IF pc[running] = "rmoved" /\ running = r THEN Before(head[r]) ELSE head[r]

FrontOldest ==
    \A r \in Slots :
        /\ Oldest(r) = Front(r) /\ Oldest(r) \in Index
        /\ Waiting(r) \in [1 .. count[r] -> Messages \cup {Nothing}]

LEMMA OldestSlot == FifoInv => FrontOldest
<1> SUFFICES ASSUME FifoInv, NEW r \in Slots
             PROVE  /\ Oldest(r) = Front(r) /\ Oldest(r) \in Index
                    /\ Waiting(r) \in [1 .. count[r] -> Messages \cup {Nothing}]
  BY DEF FrontOldest
<1>1. TypeOK /\ LockedRuns /\ InHand
  BY DEF FifoInv, RingInv
<1>2. (\E t \in Slots : pc[t] = "rmoved" /\ mb[t] = r)
          <=> pc[running] = "rmoved" /\ running = r
  BY <1>1 DEF TypeOK, LockedRuns, Locked, InHand
<1>3. Oldest(r) = Front(r)
  BY <1>2 DEF Oldest, Front, Before
<1>4. Oldest(r) \in Index
  BY <1>1, <1>3, BeforeSlot DEF TypeOK, Front
<1>5. ASSUME NEW k \in 1 .. count[r]
      PROVE  (Oldest(r) + k - 1) % Capacity \in Index
  <2>1. k - 1 \in 0 .. Capacity /\ Oldest(r) + k - 1 = Oldest(r) + (k - 1)
    BY <1>1, <1>4, IpcConstants DEF TypeOK, Index
  <2>2. (Oldest(r) + (k - 1)) % Capacity \in Index
    BY <1>4, <2>1, SlotIndex
  <2> QED
    BY <2>1, <2>2
<1>6. Waiting(r) \in [1 .. count[r] -> Messages \cup {Nothing}]
  BY <1>1, <1>5 DEF Waiting, TypeOK
<1> QED
  BY <1>3, <1>4, <1>6

\* Where the same slots are counted from the same oldest one, the same messages
\* wait.
LEMMA SameWaiting ==
    ASSUME NEW r \in Slots, Oldest(r)' = Oldest(r), count'[r] = count[r],
           \A k \in 1 .. count[r] :
               messages'[r][(Oldest(r) + k - 1) % Capacity]
                   = messages[r][(Oldest(r) + k - 1) % Capacity]
    PROVE  Waiting(r)' = Waiting(r)
BY DEF Waiting
LEMMA FifoRefined == FifoInv /\ [Next]_vars => [Fifo!Next]_(Fifo!mailboxVars)
<1> SUFFICES ASSUME FifoInv, [Next]_vars PROVE [Fifo!Next]_(Fifo!mailboxVars)
  OBVIOUS
<1> DEFINE Queue == [r \in Slots |-> Waiting(r)]
<1> USE IpcConstants
<1>0. FifoInv'
  BY FifoStep
<1>a. TypeOK /\ LockedRuns /\ RoomLeft /\ RingShape /\ InHand
  BY DEF FifoInv, RingInv
<1>b. \A r \in Slots : /\ Oldest(r) = Front(r) /\ Oldest(r) \in Index
                       /\ Waiting(r) \in [1 .. count[r] -> Messages \cup {Nothing}]
  BY OldestSlot DEF FrontOldest
<1>c. \A r \in Slots :
          /\ Oldest(r)' = Front(r)'
          /\ Waiting(r)' \in [1 .. count'[r] -> Messages \cup {Nothing}]
  <2>1. FrontOldest'
    BY <1>0, OldestSlot, PTL
  <2> QED
    BY <2>1 DEF FrontOldest
\* Steps that leave every mailbox and its oldest message as they are.
<1>d. ASSUME UNCHANGED <<messages, count, got>>,
             \A r \in Slots : Front(r)' = Front(r)
      PROVE  UNCHANGED Fifo!mailboxVars
  <2>1. \A r \in Slots : Waiting(r)' = Waiting(r)
    BY <1>b, <1>c, <1>d, SameWaiting
  <2> QED
    BY <1>d, <2>1 DEF Fifo!mailboxVars
<1>1. ASSUME NEW t \in Slots,
             \/ \E r \in Receivers, m \in Messages : SendFind(t, r, m)
             \/ SendCli(t) \/ SendFull(t) \/ SendTail(t) \/ SendSti(t)
             \/ ReceiveFind(t) \/ ReceiveCli(t) \/ ReceiveEmpty(t)
             \/ ReceiveCopy(t) \/ ReceiveSti(t)
      PROVE  UNCHANGED Fifo!mailboxVars
  <2>1. /\ UNCHANGED <<messages, count, got, head, running>> /\ running = t
        /\ pc[t] # "rmoved"
        /\ \E w \in PCs \ {"rmoved"} : pc' = [pc EXCEPT ![t] = w]
    BY <1>1 DEF SendFind, SendCli, SendFull, SendTail, SendSti, ReceiveFind,
                ReceiveCli, ReceiveEmpty, ReceiveCopy, ReceiveSti, GoTo, rings,
                PCs
  <2>2. pc'[t] # "rmoved"
    BY <1>a, <2>1 DEF TypeOK
  <2> QED
    BY <1>d, <2>1, <2>2 DEF Front
<1>2. ASSUME NEW t \in Slots, SendStore(t) PROVE UNCHANGED Fifo!mailboxVars
  <2> DEFINE b == mb[t]
  <2>1. /\ t = running /\ pc[t] = "locked" /\ pc' = [pc EXCEPT ![t] = "stored"]
        /\ count[b] < Capacity
        /\ messages' = [messages EXCEPT ![b][tail[b]] = msg[t]]
        /\ UNCHANGED <<head, count, running, got>>
    BY <1>2 DEF SendStore, GoTo
  <2>2. pc'[t] = "stored" /\ b \in Slots
    BY <1>a, <2>1 DEF TypeOK
  <2>3. \A r \in Slots : Oldest(r) = head[r] /\ Oldest(r)' = head[r]
    BY <1>b, <1>c, <2>1, <2>2 DEF Front
  <2>4. /\ head[b] \in Index /\ count[b] \in 0 .. Capacity - 1
        /\ tail[b] = (head[b] + count[b]) % Capacity
    <3>1. Drift(b) = 0 /\ head[b] \in Index /\ count[b] \in 0 .. Capacity - 1
      BY <1>a, <2>1, <2>2 DEF Drift, TypeOK
    <3>2. head[b] + count[b] + Drift(b) = head[b] + count[b]
      BY <3>1 DEF Index
    <3> QED
      BY <1>a, <2>2, <3>1, <3>2 DEF RingShape
  <2>5. ASSUME NEW k \in 1 .. count[b]
        PROVE  (head[b] + k - 1) % Capacity # tail[b]
    <3>1. k - 1 \in 0 .. count[b] - 1 /\ head[b] + k - 1 = head[b] + (k - 1)
      BY <2>4 DEF Index
    <3> QED
      BY <2>4, <3>1, SlotApart
  <2>6. ASSUME NEW r \in Slots PROVE Waiting(r)' = Waiting(r)
    <3>1. ASSUME NEW k \in 1 .. count[r]
          PROVE  messages'[r][(head[r] + k - 1) % Capacity]
                     = messages[r][(head[r] + k - 1) % Capacity]
      <4>1. CASE r = b
        <5>1. (head[r] + k - 1) % Capacity # tail[b]
          BY <2>5, <4>1
        <5> HIDE DEF b
        <5> QED
          BY <1>a, <2>1, <2>2, <4>1, <5>1 DEF TypeOK
      <4>2. CASE r # b
        BY <1>a, <2>1, <4>2 DEF TypeOK
      <4> QED
        BY <4>1, <4>2
    <3> QED
      BY <2>1, <2>3, <3>1, SameWaiting
  <2> QED
    BY <2>1, <2>6 DEF Fifo!mailboxVars
<1>3. ASSUME NEW t \in Slots, SendCount(t)
      PROVE  Fifo!Accept(mb[t], msg[t]) /\ mb[t] \in Slots /\ msg[t] \in Messages
  <2>0. PICK b \in Slots : b = mb[t]
    BY <1>a DEF TypeOK
  <2>1. /\ t = running /\ pc[t] = "moved" /\ pc' = [pc EXCEPT ![t] = "counted"]
        /\ count' = [count EXCEPT ![b] = @ + 1]
        /\ UNCHANGED <<messages, head, running, got>>
    BY <1>3, <2>0 DEF SendCount, GoTo
  <2>2. /\ pc'[t] = "counted" /\ msg[t] \in Messages
        /\ head[b] \in Index /\ count[b] \in 0 .. Capacity - 1
        /\ count'[b] = count[b] + 1
        /\ messages[b][(head[b] + count[b]) % Capacity] = msg[t]
    BY <1>a, <2>0, <2>1 DEF TypeOK, InHand, RoomLeft
  <2>3. \A r \in Slots : Oldest(r) = head[r] /\ Oldest(r)' = head[r]
    BY <1>b, <1>c, <2>1, <2>2 DEF Front
  <2>4. ASSUME NEW r \in Slots, r # b PROVE Waiting(r)' = Waiting(r)
    BY <1>a, <2>1, <2>3, <2>4, SameWaiting DEF TypeOK
  <2>5. Waiting(b)' = Append(Waiting(b), msg[t])
    <3> DEFINE s == Waiting(b)
               q == Waiting(b)'
               n == count[b]
               S == Messages \cup {Nothing}
    <3>1. n \in Nat /\ s \in [1 .. n -> S] /\ q \in [1 .. n + 1 -> S]
      BY <1>b, <1>c, <2>2
    <3> DEFINE At(k) == messages[b][(head[b] + k - 1) % Capacity]
    <3>0. s = [k \in 1 .. n |-> At(k)] /\ q = [k \in 1 .. n + 1 |-> At(k)]
      BY <2>1, <2>2, <2>3 DEF Waiting
    <3> HIDE DEF s, q
    <3>2. \A k \in 1 .. n : q[k] = s[k]
      BY <3>0, <3>1
    <3>3. q[n + 1] = At(n + 1)
      BY <3>0, <3>1
    <3>4. head[b] + (n + 1) - 1 = head[b] + n
      BY <2>2 DEF Index
    <3>5. q[n + 1] = msg[t]
      BY <2>2, <3>3, <3>4
    <3> HIDE DEF s, q, n, S
    <3>6. q = Append(s, q[n + 1])
      BY <3>1, <3>2, IsAppend
    <3> QED
      BY <3>5, <3>6 DEF s, q
  <2>6. Queue' = [Queue EXCEPT ![b] = Append(Queue[b], msg[t])]
    BY <2>2, <2>4, <2>5
  <2>7. Len(Queue[b]) = count[b]
    <3>1. count[b] \in Nat /\ Waiting(b) \in [1 .. count[b] -> Messages \cup {Nothing}]
      BY <1>b, <2>2
    <3>2. Len(Waiting(b)) = count[b]
      BY <3>1, SeqOf
    <3> QED
      BY <2>2, <3>2
  <2> QED
    BY <2>0, <2>1, <2>2, <2>6, <2>7 DEF Fifo!Accept
<1>4. ASSUME NEW t \in Slots, ReceiveHead(t) PROVE UNCHANGED Fifo!mailboxVars
  <2>1. /\ t = running /\ pc[t] = "copied" /\ pc' = [pc EXCEPT ![t] = "rmoved"]
        /\ head' = [head EXCEPT ![mb[t]] = Following(@)]
        /\ UNCHANGED <<messages, count, running, got>>
    BY <1>4 DEF ReceiveHead, GoTo
  <2>2. pc'[t] = "rmoved" /\ mb[t] = t /\ head[t] \in Index
    BY <1>a, <2>1 DEF TypeOK, InHand
  <2>3. head'[t] = Following(head[t]) /\ \A r \in Slots : r # t => head'[r] = head[r]
    BY <1>a, <2>1, <2>2 DEF TypeOK
  <2>4. Before(head[t])' = head[t]
    BY <2>2, <2>3, BeforeSlot DEF Before
  <2>5. \A r \in Slots : Front(r)' = Front(r)
    BY <2>1, <2>2, <2>3, <2>4 DEF Front
  <2> QED
    BY <1>d, <2>1, <2>5
<1>5. ASSUME NEW t \in Slots, ReceiveCount(t) PROVE Fifo!Deliver(t)
  <2>1. /\ t = running /\ pc[t] = "rmoved" /\ pc' = [pc EXCEPT ![t] = "rcounted"]
        /\ count' = [count EXCEPT ![mb[t]] = @ - 1]
        /\ got' = [got EXCEPT ![t] = msg[t]]
        /\ UNCHANGED <<messages, head, running>>
    BY <1>5 DEF ReceiveCount, GoTo
  <2>2. /\ pc'[t] = "rcounted" /\ mb[t] = t
        /\ head[t] \in Index /\ count[t] \in 1 .. Capacity
        /\ count'[t] = count[t] - 1
        /\ msg[t] = messages[t][Before(head[t])]
    BY <1>a, <2>1 DEF TypeOK, InHand, RoomLeft
  <2>3. /\ Oldest(t) = Before(head[t])
        /\ \A r \in Slots : Oldest(r)' = head[r]
        /\ \A r \in Slots : r # t => Oldest(r) = head[r]
    BY <1>b, <1>c, <2>1, <2>2 DEF Front
  <2>4. ASSUME NEW r \in Slots, r # t PROVE Waiting(r)' = Waiting(r)
    BY <1>a, <2>1, <2>2, <2>3, <2>4, SameWaiting DEF TypeOK
  <2>5. /\ Waiting(t) # <<>> /\ Head(Waiting(t)) = msg[t]
        /\ Waiting(t)' = Tail(Waiting(t))
    <3> DEFINE s == Waiting(t)
               q == Waiting(t)'
               n == count'[t]
               S == Messages \cup {Nothing}
    <3>1. /\ n \in Nat /\ n < Capacity /\ count[t] = n + 1
          /\ s \in [1 .. n + 1 -> S] /\ q \in [1 .. n -> S]
      BY <1>b, <1>c, <2>2, IpcConstants
    <3>2. ASSUME NEW k \in 1 .. n PROVE q[k] = s[k + 1]
      <4>1. /\ q[k] = messages[t][(head[t] + k - 1) % Capacity]
            /\ s[k + 1] = messages[t][(Before(head[t]) + (k + 1) - 1) % Capacity]
        BY <2>1, <2>2, <2>3, <3>1 DEF Waiting
      <4>2. Before(head[t]) \in Index
        BY <2>2, BeforeSlot
      <4>3. /\ k - 1 \in 0 .. Capacity - 1
            /\ head[t] + k - 1 = head[t] + (k - 1)
            /\ Before(head[t]) + (k + 1) - 1 = Before(head[t]) + ((k - 1) + 1)
        BY <2>2, <3>1, <4>2, IpcConstants DEF Index
      <4>4. (Before(head[t]) + ((k - 1) + 1)) % Capacity
                = (head[t] + (k - 1)) % Capacity
        BY <2>2, <4>3, BeforeSlot
      <4> QED
        BY <4>1, <4>3, <4>4
    <3>3. s[1] = msg[t]
      <4>1. s[1] = messages[t][(Before(head[t]) + 1 - 1) % Capacity]
        <5>1. s = [k \in 1 .. count[t] |->
                      messages[t][(Before(head[t]) + k - 1) % Capacity]]
          BY <2>3 DEF Waiting
        <5>2. 1 \in 1 .. count[t]
          BY <2>2
        <5> HIDE DEF s
        <5> QED
          BY <5>1, <5>2
      <4>2. Before(head[t]) \in Index /\ Before(head[t]) % Capacity = Before(head[t])
        <5>1. Before(head[t]) \in Index
          BY <2>2, BeforeSlot
        <5>2. \A i \in Index : i % Capacity = i
          BY ModCapacity DEF Index
        <5> QED
          BY <5>1, <5>2
      <4>3. Before(head[t]) + 1 - 1 = Before(head[t])
        BY <4>2 DEF Index
      <4> QED
        BY <2>2, <4>1, <4>2, <4>3
    <3> HIDE DEF s, q, n, S
    <3>4. s # <<>> /\ Head(s) = s[1] /\ q = Tail(s)
      BY <3>1, <3>2, IsTail
    <3> QED
      BY <3>3, <3>4 DEF s, q
  <2>6. /\ Queue[t] # <<>>
        /\ got' = [got EXCEPT ![t] = Head(Queue[t])]
        /\ Queue' = [Queue EXCEPT ![t] = Tail(Queue[t])]
    BY <2>1, <2>4, <2>5
  <2> QED
    BY <2>6 DEF Fifo!Deliver
<1>6. ASSUME NEW t \in Slots, SwitchIn(t) PROVE UNCHANGED Fifo!mailboxVars
  <2>1. /\ UNCHANGED <<messages, count, got, head, pc>> /\ running' = t
        /\ iflag \/ pc[running] = "idle"
    BY <1>6 DEF SwitchIn, rings
  <2>2. pc[running] # "rmoved" /\ pc[t] # "rmoved"
    BY <1>a, <2>1 DEF LockedRuns, Locked, TypeOK
  <2> QED
    BY <1>d, <2>1, <2>2 DEF Front
<1>7. CASE UNCHANGED vars
  <2>1. UNCHANGED <<messages, count, got, head, pc, running>>
    BY <1>7 DEF vars
  <2> QED
    BY <1>d, <2>1 DEF Front, Before
<1> QED
  BY <1>1, <1>2, <1>3, <1>4, <1>5, <1>6, <1>7
  DEF Next, Send, Receive, Fifo!Next

\* The rings implement the bounded FIFO of Mailbox, whatever the interleaving:
\* an accepted message is delivered once, unchanged and in order.
THEOREM RingsImplementMailbox == Spec => ImplementsMailbox
<1>1. Init => Fifo!Init
  <2> SUFFICES ASSUME Init PROVE Fifo!Init
    OBVIOUS
  <2>1. \A r \in Slots : Waiting(r) = <<>>
    BY DEF Init, Waiting
  <2> QED
    BY <2>1 DEF Init, Fifo!Init
<1> QED
  BY FifoInit, FifoStep, FifoRefined, <1>1, PTL
  DEF Spec, ImplementsMailbox, Fifo!Spec
=============================================================================
