------------------------------- MODULE KHeap -------------------------------
(***************************************************************************)
(* The kernel heap of src/kernel/memory.c: a list of blocks in address     *)
(* order, split by kmalloc (first fit), merged by kfree, and grown by one  *)
(* page at a time from the page allocator.                                 *)
(*                                                                         *)
(* A word is four bytes, the unit kmalloc rounds to; addresses and sizes   *)
(* are in words, counted from heap_start.  A header field at address h is  *)
(* size[h], free[h] and next[h].  Fields outside the list are kept at zero *)
(* so that states with the same list are the same state: no call reads     *)
(* them unless another one merged the block away under it.                 *)
(*                                                                         *)
(* Neither function turns interrupts off: one iteration of a loop, one     *)
(* split and the final mark are steps of a thread, and another thread may  *)
(* call in between.  What the heap promises, it promises as long as no two *)
(* calls overlap: `overlap' records that they did.                         *)
(***************************************************************************)
EXTENDS Integers, FiniteSets

CONSTANTS
    Threads,      \* the threads that use the heap
    Requests,     \* the sizes they ask for, in bytes
    Header,       \* HEADER_SIZE in words
    PageSize,     \* PAGE_SIZE in words
    FirstSize,    \* the words of the pages kheap_init takes (1500 of them)
    Limit,        \* the end of memory: the pages pmm_alloc_page gives end here
    MaxBuffers,   \* bound: buffers in use at once
    Null          \* no block

ASSUME HeapConstants ==
    /\ Requests \subseteq Nat \ {0}
    /\ Header \in Nat \ {0} /\ PageSize \in Nat /\ PageSize > Header
    /\ FirstSize \in Nat /\ FirstSize > Header
    /\ Limit \in Nat /\ FirstSize <= Limit
    /\ MaxBuffers \in Nat
    /\ Null \notin Nat

Addr == 0 .. Limit - 1

VARIABLES
    size, free, next,  \* the fields of a block_header_t at an address
    page,              \* the page pmm_alloc_page gives next: first fit, none freed
    op,                \* where each thread is in kmalloc or kfree
    curr,              \* its local curr (last, when it grows the heap)
    req,               \* the bytes it asked kmalloc for
    buffers,           \* history: <<thread, address, bytes>> handed out
    heads,             \* history: the addresses of the headers in the list
    owned,             \* history: the words of the pages the heap has got
    overlap            \* history: two calls were under way at once

vars == <<size, free, next, page, op, curr, req, buffers, heads, owned, overlap>>

Ops == {"idle", "look", "split", "take", "coalesce"}

\* kheap_init: one free block over the first pages.
Init ==
    /\ size = [a \in Addr |-> IF a = 0 THEN FirstSize - Header ELSE 0]
    /\ free = [a \in Addr |-> a = 0]
    /\ next = [a \in Addr |-> Null]
    /\ page = FirstSize
    /\ op = [t \in Threads |-> "idle"]
    /\ curr = [t \in Threads |-> 0]
    /\ req = [t \in Threads |-> 0]
    /\ buffers = {}
    /\ heads = {0}
    /\ owned = 0 .. FirstSize - 1
    /\ overlap = FALSE

-----------------------------------------------------------------------------
(* Blocks.                                                                 *)

\* kmalloc rounds a request up to four bytes.
Words(bytes) == (bytes + 3) \div 4

\* The address behind a block.
End(h) == h + Header + size[h]

Fits(h, n) == free[h] /\ size[h] >= n

\* Two free blocks, next to each other in the list and in memory.
Mergeable(h) == /\ free[h] /\ next[h] # Null
                /\ free[next[h]] /\ End(h) = next[h]

Need(t) == Words(req[t])

\* A call of thread t begins; it finds the heap at rest if no other is inside.
Begin(t) == overlap' = (overlap \/ \E u \in Threads \ {t} : op[u] # "idle")

\* The call of t returns; its locals are gone.
Return(t) ==
    /\ op' = [op EXCEPT ![t] = "idle"]
    /\ curr' = [curr EXCEPT ![t] = 0]
    /\ req' = [req EXCEPT ![t] = 0]

-----------------------------------------------------------------------------
(* kmalloc.                                                                *)

Malloc(t, bytes) ==
    /\ op[t] = "idle"
    /\ Cardinality(buffers) < MaxBuffers
    /\ op' = [op EXCEPT ![t] = "look"]
    /\ curr' = [curr EXCEPT ![t] = 0]
    /\ req' = [req EXCEPT ![t] = bytes]
    /\ Begin(t)
    /\ UNCHANGED <<size, free, next, page, buffers, heads, owned>>

\* Variant: the walk does not look at the size of a free block.
FindAnyFree(t) ==
    /\ op[t] = "look" /\ free[curr[t]]
    /\ op' = [op EXCEPT ![t] = IF size[curr[t]] >= Need(t) + Header + 1
                               THEN "split" ELSE "take"]
    /\ UNCHANGED <<size, free, next, page, curr, req, buffers, heads, owned,
                   overlap>>

\* The first block that fits: split it if the rest can be a block of its own.
Find(t) ==
    /\ op[t] = "look" /\ Fits(curr[t], Need(t))
    /\ op' = [op EXCEPT ![t] = IF size[curr[t]] >= Need(t) + Header + 1
                               THEN "split" ELSE "take"]
    /\ UNCHANGED <<size, free, next, page, curr, req, buffers, heads, owned,
                   overlap>>

Pass(t) ==
    /\ op[t] = "look" /\ ~ Fits(curr[t], Need(t)) /\ next[curr[t]] # Null
    /\ curr' = [curr EXCEPT ![t] = next[@]]
    /\ UNCHANGED <<size, free, next, page, op, req, buffers, heads, owned,
                   overlap>>

\* Variant: the header of the new block is not taken off its size.
SplitHeaderForgotten(t) ==
    LET h == curr[t]
        rest == h + Header + Need(t)
    IN  /\ op[t] = "split"
        /\ size' = [size EXCEPT ![rest] = size[h] - Need(t), ![h] = Need(t)]
        /\ free' = [free EXCEPT ![rest] = TRUE]
        /\ next' = [next EXCEPT ![rest] = next[h], ![h] = rest]
        /\ heads' = heads \cup {rest}
        /\ op' = [op EXCEPT ![t] = "take"]
        /\ UNCHANGED <<page, curr, req, buffers, owned, overlap>>

Split(t) ==
    LET h == curr[t]
        rest == h + Header + Need(t)
    IN  /\ op[t] = "split"
        /\ size' = [size EXCEPT ![rest] = size[h] - Need(t) - Header,
                                ![h] = Need(t)]
        /\ free' = [free EXCEPT ![rest] = TRUE]
        /\ next' = [next EXCEPT ![rest] = next[h], ![h] = rest]
        /\ heads' = heads \cup {rest}
        /\ op' = [op EXCEPT ![t] = "take"]
        /\ UNCHANGED <<page, curr, req, buffers, owned, overlap>>

Take(t) ==
    /\ op[t] = "take"
    /\ free' = [free EXCEPT ![curr[t]] = FALSE]
    /\ buffers' = buffers \cup {<<t, curr[t] + Header, req[t]>>}
    /\ Return(t)
    /\ UNCHANGED <<size, next, page, heads, owned, overlap>>

\* Variant: the walk stops at the first block that does not fit.
NothingFitsHere(t) == op[t] = "look" /\ ~ Fits(curr[t], Need(t))

\* The end of the list: nothing fits, and curr is its last block.
NothingFits(t) ==
    op[t] = "look" /\ ~ Fits(curr[t], Need(t)) /\ next[curr[t]] = Null

\* Variant: a page is given out although it reaches over the end of memory.
NewPageLate(t) ==
    /\ NothingFits(t)
    /\ page <= Limit
    /\ page' = page + PageSize
    /\ owned' = owned \cup page .. page + PageSize - 1
    /\ curr' = [curr EXCEPT ![t] = 0]
    /\ UNCHANGED <<op, req, buffers, overlap>>

\* A page from pmm_alloc_page; kmalloc starts over with it.
NewPage(t) ==
    /\ NothingFits(t)
    /\ page + PageSize <= Limit
    /\ page' = page + PageSize
    /\ owned' = owned \cup page .. page + PageSize - 1
    /\ curr' = [curr EXCEPT ![t] = 0]
    /\ UNCHANGED <<op, req, buffers, overlap>>

\* The page continues the last block, which is free.
GrowLast(t) ==
    /\ NewPage(t)
    /\ free[curr[t]] /\ End(curr[t]) = page
    /\ size' = [size EXCEPT ![curr[t]] = @ + PageSize]
    /\ UNCHANGED <<free, next, heads>>

\* The page becomes a block of its own at the end of the list.
GrowNew(t) ==
    /\ NewPage(t)
    /\ ~ (free[curr[t]] /\ End(curr[t]) = page)
    /\ size' = [size EXCEPT ![page] = PageSize - Header]
    /\ free' = [free EXCEPT ![page] = TRUE]
    /\ next' = [next EXCEPT ![page] = Null, ![curr[t]] = page]
    /\ heads' = heads \cup {page}

\* Variant: kmalloc tries again although it got no page.
FailRetries(t) ==
    /\ NothingFits(t)
    /\ page + PageSize > Limit
    /\ curr' = [curr EXCEPT ![t] = 0]
    /\ UNCHANGED <<size, free, next, page, op, req, buffers, heads, owned, overlap>>

\* No page is left: 0.
Fail(t) ==
    /\ NothingFits(t)
    /\ page + PageSize > Limit
    /\ Return(t)
    /\ UNCHANGED <<size, free, next, page, buffers, heads, owned, overlap>>

-----------------------------------------------------------------------------
(* kfree.                                                                  *)

Free(t, b) ==
    /\ op[t] = "idle" /\ b[1] = t
    /\ free' = [free EXCEPT ![b[2] - Header] = TRUE]
    /\ buffers' = buffers \ {b}
    /\ op' = [op EXCEPT ![t] = "coalesce"]
    /\ curr' = [curr EXCEPT ![t] = 0]
    /\ Begin(t)
    /\ UNCHANGED <<size, next, page, req, heads, owned>>

Merge(t) ==
    LET h == curr[t]
        gone == next[h]
    IN  /\ op[t] = "coalesce" /\ Mergeable(h)
        /\ size' = [size EXCEPT ![h] = @ + Header + size[gone], ![gone] = 0]
        /\ next' = [next EXCEPT ![h] = next[gone], ![gone] = Null]
        /\ free' = [free EXCEPT ![gone] = FALSE]
        /\ heads' = heads \ {gone}
        /\ UNCHANGED <<page, op, curr, req, buffers, owned, overlap>>

\* Variant: the walk goes on behind two blocks it has merged or compared.
OnwardTwice(t) ==
    /\ op[t] = "coalesce" /\ ~ Mergeable(curr[t]) /\ next[curr[t]] # Null
    /\ curr' = [curr EXCEPT ![t] = IF next[next[@]] = Null THEN next[@]
                                   ELSE next[next[@]]]
    /\ UNCHANGED <<size, free, next, page, op, req, buffers, heads, owned,
                   overlap>>

Onward(t) ==
    /\ op[t] = "coalesce" /\ ~ Mergeable(curr[t]) /\ next[curr[t]] # Null
    /\ curr' = [curr EXCEPT ![t] = next[@]]
    /\ UNCHANGED <<size, free, next, page, op, req, buffers, heads, owned,
                   overlap>>

Done(t) ==
    /\ op[t] = "coalesce" /\ next[curr[t]] = Null
    /\ Return(t)
    /\ UNCHANGED <<size, free, next, page, buffers, heads, owned, overlap>>

-----------------------------------------------------------------------------

\* A page for a stack, a page table or a demand-mapped page comes between.
OtherPage ==
    /\ page + PageSize <= Limit
    /\ page' = page + PageSize
    /\ UNCHANGED <<size, free, next, op, curr, req, buffers, heads, owned, overlap>>

\* Bound: the calls that overlap run to their end, and no others begin.
Call(t) ==
    /\ ~ overlap
    /\ (\E bytes \in Requests : Malloc(t, bytes)) \/ (\E b \in buffers : Free(t, b))

\* The words of a buffer: what its owner may write.
Payload(b) == b[2] .. b[2] + Words(b[3]) - 1

\* What overlapping calls can do: a buffer given twice, a size below zero (a
\* huge one, in the code), a walk that stands on a block merged away.  The model
\* ends there.
Damaged ==
    \/ \E b, c \in buffers : b # c /\ Payload(b) \cap Payload(c) # {}
    \/ \E h \in heads : size[h] < 0
    \/ \E t \in Threads : op[t] # "idle" /\ curr[t] \notin heads

Step(t) ==
    /\ ~ Damaged
    /\ \/ Find(t) \/ Pass(t) \/ Split(t) \/ Take(t)
       \/ GrowLast(t) \/ GrowNew(t) \/ Fail(t)
       \/ Merge(t) \/ Onward(t) \/ Done(t)

\* Behaviour after an overlap need not go on.
Beyond == overlap /\ UNCHANGED vars

Next == OtherPage \/ Beyond \/ \E t \in Threads : Call(t) \/ Step(t)

Spec == Init /\ [][Next]_vars

\* A thread inside kmalloc or kfree gets the CPU again and goes on.
FairSpec == Spec /\ \A t \in Threads : WF_vars(Step(t))
-----------------------------------------------------------------------------
(* Properties.                                                             *)

TypeOK ==
    /\ size \in [Addr -> Int] /\ free \in [Addr -> BOOLEAN]
    /\ next \in [Addr -> Addr \cup {Null}]
    /\ page \in FirstSize .. Limit
    /\ op \in [Threads -> Ops] /\ curr \in [Threads -> Addr]
    /\ req \in [Threads -> Requests \cup {0}]
    /\ buffers \subseteq Threads \X Addr \X Requests
    /\ heads \subseteq Addr /\ owned \subseteq Addr
    /\ overlap \in BOOLEAN

\* The list runs through its blocks in address order and ends.
Listed ==
    \A h \in heads :
        IF next[h] = Null THEN \A g \in heads : g <= h
        ELSE /\ next[h] \in heads /\ next[h] > h
             /\ \A g \in heads : g <= h \/ g >= next[h]

Covers(h, w) == h <= w /\ w < End(h)

\* The blocks tile the pages of the heap: no word of them is lost, none is in
\* two blocks, and no block reaches into a page that belongs to someone else.
Tiled ==
    /\ Listed
    /\ \A w \in Addr : w \in owned <=> \E h \in heads : Covers(h, w)
    /\ \A g, h \in heads : g < h => End(g) <= h

HeapTiled == ~ overlap => Tiled

\* Every buffer handed out is the body of a block in use and large enough, and
\* a block in use is somebody's buffer or about to be.  With HeapTiled: no
\* two buffers share a word, and no buffer covers a header.
BuffersOwnBlocks ==
    ~ overlap =>
        /\ \A b \in buffers : LET h == b[2] - Header
                              IN  /\ h \in heads /\ ~ free[h]
                                  /\ size[h] >= Words(b[3])
        /\ \A h \in heads : ~ free[h] =>
                \E b \in buffers : b[2] = h + Header
        /\ \A b, c \in buffers : b # c => b[2] # c[2]

\* "Coalesce adjacent free blocks": between calls, no two free blocks lie next
\* to each other, although kfree only looks at each pair once.
Coalesced ==
    ~ overlap /\ (\A t \in Threads : op[t] = "idle") =>
        \A h \in heads : ~ Mergeable(h)

\* A page is only taken when no block at all could meet the request.
GrowsOnlyWhenFull ==
    [][owned' # owned /\ ~ overlap =>
        \E t \in Threads : \A h \in heads : ~ Fits(h, Need(t))]_vars

\* kmalloc and kfree return: a request for more than there is takes page after
\* page, until it is met or none is left.
EveryCallReturns ==
    \A t \in Threads : op[t] # "idle" ~> op[t] = "idle" \/ overlap

\* No two buffers in use share a word: the property without a condition.
BuffersPrivate ==
    \A b, c \in buffers : b # c => Payload(b) \cap Payload(c) = {}
=============================================================================
