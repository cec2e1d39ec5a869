----------------------------- MODULE UserMemory -----------------------------
(***************************************************************************)
(* Memory of the user program: the page allocator of memory.c, the page    *)
(* tables and the fault handler of paging.c, and sys_brk of syscall.c.     *)
(*                                                                         *)
(* A page and a frame are numbers; addresses are in units of which a page  *)
(* has PageSize.  Pages below Ident are mapped to the frames of the same   *)
(* number, once and for all; the directory covers the others with tables   *)
(* of PerTable entries taken from the allocator.                           *)
(*                                                                         *)
(* The kernel reaches every frame through the page of the same number: a   *)
(* table, or a page of the heap, at Ident or above is reached through what *)
(* is mapped there, if anything is.  The handler runs with interrupts off, *)
(* but its own accesses may fault: `faults' is the stack of the handlers   *)
(* under way.  Kernel threads allocate with interrupts on, so the user     *)
(* program may fault while one of them has found a frame and not marked it *)
(* yet; `overlap' records that this happened.                              *)
(***************************************************************************)
EXTENDS Integers, Sequences, FiniteSets

CONSTANTS
    PageSize,     \* units in a page
    PerTable,     \* PAGES_PER_TAB
    Ident,        \* pages mapped to themselves (16 MB)
    Booted,       \* frames taken when boot ends: 1024, the heap, the stacks
    BrkStart,     \* first page of user_brk_start
    BrkEnd,       \* first page beyond the limit of sys_brk (64 MB)
    Frames,       \* total_blocks
    Breaks,       \* bound: the breaks the program asks for
    Touched,      \* bound: the addresses it reads and writes
    None          \* no page, no frame, an absent entry

ASSUME UserMemoryConstants ==
    /\ PageSize \in Nat \ {0} /\ PerTable \in Nat \ {0}
    /\ Ident \in Nat /\ BrkStart \in Nat /\ BrkEnd \in Nat
    /\ Ident <= BrkStart /\ BrkStart < BrkEnd
    /\ Booted \in Nat /\ Frames \in Nat /\ Booted <= Ident /\ Booted <= Frames
    /\ Breaks \subseteq Nat
    /\ \A a \in Touched : a \in Nat /\ Ident * PageSize <= a /\ a < BrkEnd * PageSize
    /\ None \notin Int

Frame == 0 .. Frames - 1
Page == 0 .. (IF BrkEnd > Frames THEN BrkEnd ELSE Frames) - 1
Slot == 0 .. PerTable - 1
DirIndex == {p \div PerTable : p \in Page}

VARIABLES
    bitmap,    \* the frames whose bit of memory_bitmap is set
    count,     \* used_blocks
    directory, \* page_directory above the identity map: the frame of the table
    content,   \* what each frame holds when read as a page table
    brk,       \* user_brk_current
    access,    \* the address the user program is reading or writing
    faults,    \* the page fault handlers under way, the latest last
    kernel,    \* a thread that grows the heap: where it is, and its frame
    heap,      \* history: the frames the heap has grown by
    halted,    \* cli; hlt
    highest,   \* history: the highest break ever set
    overlap,   \* history: a frame was given inside another call
    stray      \* history: the kernel reached a frame through a user mapping

allocator == <<bitmap, count>>
tables == <<directory, content>>
program == <<brk, access, highest>>
grower == <<kernel, heap>>
history == <<overlap, stray>>
vars == <<allocator, tables, program, faults, grower, halted, history>>

Idle == [at |-> "idle", frame |-> None]
Empty == [s \in Slot |-> None]

\* pmm_init, kheap_init and paging_init are over; memory reads as zero.
Init ==
    /\ bitmap = 0 .. Booted - 1
    /\ count = Booted
    /\ directory = [d \in DirIndex |-> None]
    /\ content = [f \in Frame |-> Empty]
    /\ brk = BrkStart * PageSize
    /\ access = None
    /\ faults = <<>>
    /\ kernel = Idle
    /\ heap = {}
    /\ halted = FALSE
    /\ highest = BrkStart * PageSize
    /\ overlap = FALSE
    /\ stray = FALSE

-----------------------------------------------------------------------------
(* The allocator.                                                          *)

\* Variant: the search runs one block past the end.
FreeFramesPastEnd == (0 .. Frames) \ bitmap
\* What pmm_alloc_page may give: nothing once used_blocks has reached the total.
FreeFrames == IF count >= Frames THEN {} ELSE Frame \ bitmap

\* The first clear bit.
FirstFree == CHOOSE f \in FreeFrames : \A g \in FreeFrames : f <= g

\* Variant: the bit is set, the counter forgotten when it is the last frame.
MarkUncounted(f) ==
    /\ bitmap' = bitmap \cup {f}
    /\ count' = IF f = Frames - 1 THEN count ELSE count + 1

Mark(f) ==
    /\ bitmap' = bitmap \cup {f}
    /\ count' = count + 1

-----------------------------------------------------------------------------
(* Translation by the processor.                                           *)

PageOf(a) == a \div PageSize

\* The frame page p is mapped to: an entry of a table found by its real address.
Translate(p) ==
    LET table == directory[p \div PerTable]
    IN  IF p < Ident THEN p
        ELSE IF table = None THEN None ELSE content[table][p % PerTable]

Mapped(p) == Translate(p) # None

\* The user pages that are mapped.
UserPages == {p \in Page : p >= Ident /\ Mapped(p)}

-----------------------------------------------------------------------------
(* The user program.                                                       *)

Running == ~ halted /\ faults = <<>>

\* sys_brk: an invalid break changes nothing; a lower one unmaps nothing.
SysBrk(b) ==
    /\ Running /\ access = None
    /\ b >= BrkStart * PageSize /\ b <= BrkEnd * PageSize /\ b # brk
    /\ brk' = b
    /\ highest' = IF b > highest THEN b ELSE highest
    /\ UNCHANGED <<access, faults, halted, allocator, tables, grower, history>>

\* The processor enters the handler with the address in cr2.
FaultAt(a) == faults' = Append(faults,
    [addr |-> a, page |-> PageOf(a), at |-> "enter", data |-> None, table |-> None])

\* An access to a page that is not mapped; a mapped one changes nothing here.
Access(a) ==
    /\ Running /\ access = None /\ ~ Mapped(PageOf(a))
    /\ access' = a
    /\ FaultAt(a)
    /\ UNCHANGED <<brk, halted, highest, allocator, tables, grower, history>>

\* The handler has returned: the instruction is tried again, and goes on ...
Resume ==
    /\ Running /\ access # None /\ Mapped(PageOf(access))
    /\ access' = None
    /\ UNCHANGED <<brk, faults, halted, highest, allocator, tables, grower, history>>

\* ... or faults again.
Retry ==
    /\ Running /\ access # None /\ ~ Mapped(PageOf(access))
    /\ FaultAt(access)
    /\ UNCHANGED <<halted, allocator, tables, program, grower, history>>

-----------------------------------------------------------------------------
(* paging_fault_handler.                                                   *)

Top == faults[Len(faults)]
Handling(at) == ~ halted /\ faults # <<>> /\ Top.at = at
Step(r) == faults' = [faults EXCEPT ![Len(faults)] = r]
Leave == faults' = SubSeq(faults, 1, Len(faults) - 1)

\* Variant: the first page of the heap is taken to be outside.
ServesNotFirst(a) == a > BrkStart * PageSize /\ a < brk
\* Variant: the break itself is taken to be inside.
ServesTheBreak(a) == a >= BrkStart * PageSize /\ a <= brk
Serves(a) == a >= BrkStart * PageSize /\ a < brk

\* The handler allocates while a thread is inside pmm_alloc_page.
Overlaps == overlap' = (overlap \/ kernel.at = "take")

\* An address that is not the program's: the handler reports it and halts.
Refuse ==
    /\ Handling("enter") /\ ~ Serves(Top.addr)
    /\ halted' = TRUE
    /\ UNCHANGED <<faults, allocator, tables, program, grower, history>>

\* Variant: the handler returns when no frame is left.
ExhaustedReturns ==
    /\ Handling("enter") /\ Serves(Top.addr) /\ FreeFrames = {}
    /\ Leave
    /\ UNCHANGED <<halted, allocator, tables, program, grower, history>>

\* No frame for the data: halt.
Exhausted ==
    /\ Handling("enter") /\ Serves(Top.addr) /\ FreeFrames = {}
    /\ halted' = TRUE
    /\ UNCHANGED <<faults, allocator, tables, program, grower, history>>

\* The frame for the data comes first, whether or not it can be mapped.
TakeData ==
    /\ Handling("enter") /\ Serves(Top.addr) /\ FreeFrames # {}
    /\ Mark(FirstFree)
    /\ Step([Top EXCEPT !.at = "map", !.data = FirstFree])
    /\ Overlaps
    /\ UNCHANGED <<halted, stray, tables, program, grower>>

\* page_map: the directory has no table for the page.
TableMissing(p) == directory[p \div PerTable] = None

\* page_map with no frame for the table prints and returns; so does the handler.
NoTable ==
    /\ Handling("map") /\ TableMissing(Top.page) /\ FreeFrames = {}
    /\ Leave
    /\ UNCHANGED <<halted, allocator, tables, program, grower, history>>

TakeTable ==
    /\ Handling("map") /\ TableMissing(Top.page) /\ FreeFrames # {}
    /\ Mark(FirstFree)
    /\ Step([Top EXCEPT !.at = "zero", !.table = FirstFree])
    /\ Overlaps
    /\ UNCHANGED <<halted, stray, tables, program, grower>>

\* A write to a frame through the page of its number.
Reaches(f) == Mapped(f) /\ stray' = (stray \/ Translate(f) # f)

\* The new table is cleared, then put into the directory.
ZeroTable ==
    /\ Handling("zero") /\ Reaches(Top.table)
    /\ content' = [content EXCEPT ![Translate(Top.table)] = Empty]
    /\ directory' = [directory EXCEPT ![Top.page \div PerTable] = Top.table]
    /\ Step([Top EXCEPT !.at = "write"])
    /\ UNCHANGED <<halted, overlap, allocator, program, grower>>

TablePresent ==
    /\ Handling("map") /\ ~ TableMissing(Top.page)
    /\ Step([Top EXCEPT !.at = "write"])
    /\ UNCHANGED <<halted, allocator, tables, program, grower, history>>

\* The entry of the page; the handler returns.
WriteEntry ==
    LET table == directory[Top.page \div PerTable]
    IN  /\ Handling("write") /\ Reaches(table)
        /\ content' = [content EXCEPT
             ![Translate(table)][Top.page % PerTable] = Top.data]
        /\ Leave
        /\ UNCHANGED <<directory, halted, overlap, allocator, program, grower>>

\* The frame the handler is about to write.
Target == IF Top.at = "zero" THEN Top.table ELSE directory[Top.page \div PerTable]

\* The table lies beyond what is mapped: the handler faults itself.
NestedFault ==
    /\ Handling("zero") \/ Handling("write")
    /\ ~ Mapped(Target)
    /\ FaultAt(Target * PageSize)
    /\ UNCHANGED <<halted, allocator, tables, program, grower, history>>

-----------------------------------------------------------------------------
(* A kernel thread in kmalloc that grows the heap by a page.               *)

\* pmm_alloc_page finds a clear bit.
GrowFind ==
    /\ Running /\ kernel.at = "idle" /\ FreeFrames # {}
    /\ kernel' = [at |-> "take", frame |-> FirstFree]
    /\ UNCHANGED <<faults, heap, halted, allocator, tables, program, history>>

\* It sets the bit, whoever took the frame since.
GrowTake ==
    /\ Running /\ kernel.at = "take"
    /\ Mark(kernel.frame)
    /\ heap' = heap \cup {kernel.frame}
    /\ kernel' = [kernel EXCEPT !.at = "header"]
    /\ UNCHANGED <<faults, halted, tables, program, history>>

\* kmalloc writes the header of the new block into the page.
GrowHeader ==
    /\ Running /\ kernel.at = "header" /\ Reaches(kernel.frame)
    /\ kernel' = Idle
    /\ UNCHANGED <<faults, heap, halted, overlap, allocator, tables, program>>

GrowFault ==
    /\ Running /\ kernel.at = "header" /\ ~ Mapped(kernel.frame)
    /\ FaultAt(kernel.frame * PageSize)
    /\ UNCHANGED <<halted, allocator, tables, program, grower, history>>

-----------------------------------------------------------------------------

Handler == \/ Refuse \/ Exhausted \/ TakeData
           \/ NoTable \/ TakeTable \/ ZeroTable \/ TablePresent \/ WriteEntry
           \/ NestedFault

Grow == GrowFind \/ GrowTake \/ GrowHeader \/ GrowFault

Next == \/ \E b \in Breaks : SysBrk(b)
        \/ \E a \in Touched : Access(a)
        \/ Resume \/ Retry
        \/ Handler
        \/ Grow

Spec == Init /\ [][Next]_vars

\* The handler runs to its end; the scheduler comes back to the program.
FairSpec == Spec /\ WF_vars(Handler) /\ WF_vars(Resume \/ Retry)

-----------------------------------------------------------------------------
(* Properties.                                                             *)

Addr == 0 .. (IF BrkEnd > Frames THEN BrkEnd ELSE Frames) * PageSize
HandlerRecord == [addr : Addr, page : Page,
                  at : {"enter", "map", "zero", "write"},
                  data : Frame \cup {None}, table : Frame \cup {None}]

\* Every variable has its type; the search of the allocator stays in the bitmap.
TypeOK ==
    /\ bitmap \subseteq Frame /\ count \in 0 .. Frames + 1
    /\ directory \in [DirIndex -> Frame \cup {None}]
    /\ content \in [Frame -> [Slot -> Frame \cup {None}]]
    /\ brk \in BrkStart * PageSize .. BrkEnd * PageSize
    /\ access \in Addr \cup {None}
    /\ faults \in Seq(HandlerRecord)
    /\ kernel \in [at : {"idle", "take", "header"}, frame : Frame \cup {None}]
    /\ heap \subseteq Frame
    /\ highest \in BrkStart * PageSize .. BrkEnd * PageSize
    /\ halted \in BOOLEAN /\ overlap \in BOOLEAN /\ stray \in BOOLEAN

\* The users of frames: the kernel at boot and its heap, the tables in the
\* directory, the pages of the program, and what the handlers have in hand.
Tables == {directory[d] : d \in {e \in DirIndex : directory[e] # None}}
UserFrames == {Translate(p) : p \in UserPages}
InHand == {faults[i].data : i \in 1 .. Len(faults)}
          \cup {faults[i].table : i \in {j \in 1 .. Len(faults) : faults[j].at = "zero"}}

\* The frames marked in the bitmap are those in use, each with one user, and
\* used_blocks counts them: none is given twice and none is lost, while no
\* allocation overlapped another, no table lay beyond the identity map, and
\* frames were left (page_map drops the frame of the data when it gets no table).
FramesAccounted ==
    ~ overlap /\ ~ stray =>
        /\ count = Cardinality(bitmap)
        /\ bitmap # Frame =>
             /\ bitmap = (0 .. Booted - 1) \cup heap \cup Tables \cup UserFrames
                          \cup (InHand \ {None})
             /\ Cardinality(bitmap) =
                    Booted + Cardinality(heap) + Cardinality(Tables)
                    + Cardinality(UserPages) + Cardinality(InHand \ {None})

\* A page of the program keeps its frame for good, whatever the break does, and a
\* page is mapped only when it was inside a break the program had set.
MappingsStand ==
    [][/\ \A p \in UserPages : Translate(p)' = Translate(p)
       /\ \A p \in UserPages' \ UserPages :
             p >= BrkStart /\ p * PageSize < highest]_vars

\* The machine halts under the program only if the program left its break, or
\* memory ran out, or a frame the kernel had to write lies beyond the identity map.
HaltedForAReason ==
    halted => \/ access # None /\ (access < BrkStart * PageSize \/ access >= brk)
              \/ FreeFrames = {}
              \/ \E f \in Tables \cup heap \cup InHand : f # None /\ f >= Ident

\* An access of the program ends, or the machine halts: a fault that cannot be
\* served does not come back for ever.
AccessEnds == (access # None) ~> (access = None \/ halted)
=============================================================================
