------------------------------ MODULE Mailbox ------------------------------
(* What ipc.c promises: one bounded FIFO for every thread.  A message that *)
(* was accepted is delivered once, after everything accepted before it.    *)
EXTENDS Naturals, Sequences

CONSTANTS Slots,      \* the owners of mailboxes
          Messages,   \* what can be sent
          Capacity,   \* the most a mailbox holds
          Nothing     \* not a message

VARIABLES queue,      \* the accepted messages of each mailbox, oldest first
          delivered   \* the message each owner received last

mailboxVars == <<queue, delivered>>

Init ==
    /\ queue = [r \in Slots |-> <<>>]
    /\ delivered = [r \in Slots |-> Nothing]

Accept(r, m) ==
    /\ Len(queue[r]) < Capacity
    /\ queue' = [queue EXCEPT ![r] = Append(@, m)]
    /\ UNCHANGED delivered

Deliver(r) ==
    /\ queue[r] # <<>>
    /\ delivered' = [delivered EXCEPT ![r] = Head(queue[r])]
    /\ queue' = [queue EXCEPT ![r] = Tail(@)]

Next == \E r \in Slots : Deliver(r) \/ \E m \in Messages : Accept(r, m)

Spec == Init /\ [][Next]_mailboxVars
=============================================================================
