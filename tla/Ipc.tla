-------------------------------- MODULE Ipc --------------------------------
(***************************************************************************)
(* The mailboxes of src/kernel/ipc.c under preemption: a ring of messages  *)
(* for every thread slot, filled by ipc_send and emptied by ipc_receive.   *)
(*                                                                         *)
(* Both functions look the receiver up, clear the interrupt flag, work on  *)
(* the ring one assignment at a time, and set the flag again.  Nothing in  *)
(* the model makes that atomic: the timer may give the CPU to any other    *)
(* thread whenever the flag is set, between any two assignments.           *)
(***************************************************************************)
EXTENDS Integers, FiniteSets

CONSTANTS
    Slots,        \* the thread slots, each with a mailbox
    Receivers,    \* threads that call ipc_receive on their own id
    Senders,      \* threads that call ipc_send (kernel.c: the worker)
    Capacity,     \* IPC_MAX_MESSAGES
    Wrap,         \* the counters are unsigned: they wrap at Wrap (2^32)
    Messages,     \* the contents a message can have
    Nothing       \* not a message

ASSUME IpcConstants ==
    /\ IsFiniteSet(Slots) /\ Receivers \subseteq Slots /\ Senders \subseteq Slots
    /\ Receivers \cap Senders = {}
    /\ Capacity \in Nat \ {0} /\ Wrap \in Nat \ {0}
    /\ Nothing \notin Messages

Index == 0 .. Capacity - 1

VARIABLES
    messages,     \* mailboxes[r].messages
    head, tail,   \* mailboxes[r].head, .tail
    count,        \* mailboxes[r].count
    sent, recv,   \* ipc_total_sent, ipc_total_recv
    running,      \* the thread on the CPU
    iflag,        \* the interrupt flag
    pc,           \* where each thread is
    mb,           \* the local mb of each thread: a slot
    msg,          \* the message each thread sends or has received
    got           \* history: what the last complete ipc_receive returned

vars == <<messages, head, tail, count, sent, recv, running, iflag, pc, mb, msg,
          got>>
rings == <<messages, head, tail, count>>

PCs == {"idle", "found", "locked", "stored", "moved", "counted",
        "rfound", "rlocked", "copied", "rmoved", "rcounted"}

Init ==
    /\ messages = [r \in Slots |-> [i \in Index |-> Nothing]]
    /\ head = [r \in Slots |-> 0]
    /\ tail = [r \in Slots |-> 0]
    /\ count = [r \in Slots |-> 0]
    /\ sent = 0 /\ recv = 0
    /\ running \in Slots
    /\ iflag \in BOOLEAN
    /\ pc = [t \in Slots |-> "idle"]
    /\ mb = [t \in Slots |-> t]
    /\ msg = [t \in Slots |-> Nothing]
    /\ got = [t \in Slots |-> Nothing]

GoTo(t, from, to) ==
    /\ running = t /\ pc[t] = from
    /\ pc' = [pc EXCEPT ![t] = to]

Following(i) == (i + 1) % Capacity

-----------------------------------------------------------------------------
(* ipc_send, called by worker_thread with a fresh message.                 *)

\* The worker's next message and the lookup of the receiver's slot.  When no
\* thread has the id, ipc_send returns -1 here and nothing has changed.
SendFind(t, r, m) ==
    /\ t \in Senders
    /\ GoTo(t, "idle", "found")
    /\ mb' = [mb EXCEPT ![t] = r]
    /\ msg' = [msg EXCEPT ![t] = m]
    /\ UNCHANGED <<rings, sent, recv, running, iflag, got>>

\* Variant: ipc_send without its cli.
SendCliForgotten(t) ==
    /\ GoTo(t, "found", "locked")
    /\ UNCHANGED <<rings, sent, recv, running, iflag, mb, msg, got>>

SendCli(t) ==
    /\ GoTo(t, "found", "locked")
    /\ iflag' = FALSE
    /\ UNCHANGED <<rings, sent, recv, running, mb, msg, got>>

\* Variant: a message refused by a full mailbox is counted as sent.
SendFullCounted(t) ==
    /\ GoTo(t, "locked", "idle")
    /\ count[mb[t]] >= Capacity
    /\ sent' = (sent + 1) % Wrap
    /\ iflag' = TRUE
    /\ UNCHANGED <<rings, recv, running, mb, msg, got>>

\* The mailbox is full: sti, -1.  The worker ignores it, the message is gone.
SendFull(t) ==
    /\ GoTo(t, "locked", "idle")
    /\ count[mb[t]] >= Capacity
    /\ iflag' = TRUE
    /\ UNCHANGED <<rings, sent, recv, running, mb, msg, got>>

\* Variant: count > IPC_MAX_MESSAGES instead of >= refuses a message too late.
SendStoreLate(t) ==
    /\ GoTo(t, "locked", "stored")
    /\ count[mb[t]] <= Capacity
    /\ messages' = [messages EXCEPT ![mb[t]][tail[mb[t]]] = msg[t]]
    /\ UNCHANGED <<head, tail, count, sent, recv, running, iflag, mb, msg, got>>

SendStore(t) ==
    /\ GoTo(t, "locked", "stored")
    /\ count[mb[t]] < Capacity
    /\ messages' = [messages EXCEPT ![mb[t]][tail[mb[t]]] = msg[t]]
    /\ UNCHANGED <<head, tail, count, sent, recv, running, iflag, mb, msg, got>>

SendTail(t) ==
    /\ GoTo(t, "stored", "moved")
    /\ tail' = [tail EXCEPT ![mb[t]] = Following(@)]
    /\ UNCHANGED <<messages, head, count, sent, recv, running, iflag, mb, msg, got>>

SendCount(t) ==
    /\ GoTo(t, "moved", "counted")
    /\ count' = [count EXCEPT ![mb[t]] = @ + 1]
    /\ UNCHANGED <<messages, head, tail, sent, recv, running, iflag, mb, msg, got>>

SendSti(t) ==
    /\ GoTo(t, "counted", "idle")
    /\ sent' = (sent + 1) % Wrap
    /\ iflag' = TRUE
    /\ UNCHANGED <<rings, recv, running, mb, msg, got>>

-----------------------------------------------------------------------------
(* ipc_receive, called by receiver_thread with its own id.                 *)

ReceiveFind(t) ==
    /\ t \in Receivers
    /\ GoTo(t, "idle", "rfound")
    /\ mb' = [mb EXCEPT ![t] = t]
    /\ UNCHANGED <<rings, sent, recv, running, iflag, msg, got>>

ReceiveCli(t) ==
    /\ GoTo(t, "rfound", "rlocked")
    /\ iflag' = FALSE
    /\ UNCHANGED <<rings, sent, recv, running, mb, msg, got>>

ReceiveEmpty(t) ==
    /\ GoTo(t, "rlocked", "idle")
    /\ count[mb[t]] = 0
    /\ iflag' = TRUE
    /\ UNCHANGED <<rings, sent, recv, running, mb, msg, got>>

ReceiveCopy(t) ==
    /\ GoTo(t, "rlocked", "copied")
    /\ count[mb[t]] # 0
    /\ msg' = [msg EXCEPT ![t] = messages[mb[t]][head[mb[t]]]]
    /\ UNCHANGED <<rings, sent, recv, running, iflag, mb, got>>

\* Variant: the receiver counts down but leaves head where it is.
ReceiveHeadStays(t) ==
    /\ GoTo(t, "copied", "rmoved")
    /\ UNCHANGED <<rings, sent, recv, running, iflag, mb, msg, got>>

ReceiveHead(t) ==
    /\ GoTo(t, "copied", "rmoved")
    /\ head' = [head EXCEPT ![mb[t]] = Following(@)]
    /\ UNCHANGED <<messages, tail, count, sent, recv, running, iflag, mb, msg, got>>

\* Variant: the receiver resets the mailbox instead of counting one message.
ReceiveCountAll(t) ==
    /\ GoTo(t, "rmoved", "rcounted")
    /\ count' = [count EXCEPT ![mb[t]] = 0]
    /\ got' = [got EXCEPT ![t] = msg[t]]
    /\ UNCHANGED <<messages, head, tail, sent, recv, running, iflag, mb, msg>>

ReceiveCount(t) ==
    /\ GoTo(t, "rmoved", "rcounted")
    /\ count' = [count EXCEPT ![mb[t]] = @ - 1]
    /\ got' = [got EXCEPT ![t] = msg[t]]
    /\ UNCHANGED <<messages, head, tail, sent, recv, running, iflag, mb, msg>>

ReceiveSti(t) ==
    /\ GoTo(t, "rcounted", "idle")
    /\ recv' = (recv + 1) % Wrap
    /\ iflag' = TRUE
    /\ UNCHANGED <<rings, sent, running, mb, msg, got>>

-----------------------------------------------------------------------------
(* The scheduler, as ipc.c sees it (module Scheduler has its own model).   *)

\* The timer preempts the running thread if the flag is set; between two calls
\* the thread may also yield.  The thread that goes on has the flag set, from
\* its own interrupt frame, or as the switch leaves it.
SwitchIn(t) ==
    /\ running # t
    /\ iflag \/ pc[running] = "idle"
    /\ running' = t
    /\ iflag' \in BOOLEAN
    /\ UNCHANGED <<rings, sent, recv, pc, mb, msg, got>>

Send(t) ==
    \/ \E r \in Receivers, m \in Messages : SendFind(t, r, m)
    \/ SendCli(t) \/ SendFull(t) \/ SendStore(t)
    \/ SendTail(t) \/ SendCount(t) \/ SendSti(t)

Receive(t) ==
    \/ ReceiveFind(t) \/ ReceiveCli(t) \/ ReceiveEmpty(t) \/ ReceiveCopy(t)
    \/ ReceiveHead(t) \/ ReceiveCount(t) \/ ReceiveSti(t)

Next == \E t \in Slots : Send(t) \/ Receive(t) \/ SwitchIn(t)

Spec == Init /\ [][Next]_vars

\* Every thread gets the CPU again and again (Scheduler!StarvationFree), and
\* goes on in its code when it has it.
FairSpec ==
    /\ Spec
    /\ \A t \in Slots : SF_vars(SwitchIn(t)) /\ SF_vars(Send(t) \/ Receive(t))

-----------------------------------------------------------------------------
(* Properties.                                                             *)

TypeOK ==
    /\ messages \in [Slots -> [Index -> Messages \cup {Nothing}]]
    /\ head \in [Slots -> Index] /\ tail \in [Slots -> Index]
    /\ count \in [Slots -> 0 .. Capacity]
    /\ sent \in 0 .. Wrap - 1 /\ recv \in 0 .. Wrap - 1
    /\ running \in Slots /\ iflag \in BOOLEAN
    /\ pc \in [Slots -> PCs]
    /\ mb \in [Slots -> Slots]
    /\ msg \in [Slots -> Messages \cup {Nothing}]
    /\ got \in [Slots -> Messages \cup {Nothing}]

\* Whenever an interrupt can be taken, every ring is whole: head, tail and
\* count agree.  ipc_send may then find it in the middle of no other call.
RingsWhole ==
    iflag => \A r \in Slots : tail[r] = (head[r] + count[r]) % Capacity

\* The messages waiting, by mailbox and place.
Held == {p \in Slots \X (1 .. Capacity) : p[2] <= count[p[1]]}

\* What the dashboard reads in the timer interrupt adds up: messages sent, less
\* messages received, are the messages waiting (also after the counters wrap).
StatsAddUp == iflag => (sent - recv) % Wrap = Cardinality(Held) % Wrap

\* The waiting messages of a mailbox, oldest first.  A receiver that has moved
\* head but not yet counted down still has its message in front.
Oldest(r) ==
    IF \E t \in Slots : pc[t] = "rmoved" /\ mb[t] = r
    THEN (head[r] + Capacity - 1) % Capacity
    ELSE head[r]

Waiting(r) ==
    [k \in 1 .. count[r] |-> messages[r][(Oldest(r) + k - 1) % Capacity]]

\* The rings implement the bounded FIFO of module Mailbox: no message is lost
\* once accepted, delivered twice, delivered out of order, or made up.
Fifo == INSTANCE Mailbox WITH
            queue <- [r \in Slots |-> Waiting(r)],
            delivered <- got

ImplementsMailbox == Fifo!Spec

\* A waiting message does not wait for ever: the receiver moves on from it.
EveryMessageMoves ==
    \A r \in Receivers : \A h \in Index :
        (count[r] > 0 /\ head[r] = h) ~> (head[r] # h \/ count[r] = 0)
=============================================================================
