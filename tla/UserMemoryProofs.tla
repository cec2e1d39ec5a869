-------------------------- MODULE UserMemoryProofs --------------------------
(* Proofs about UserMemory, for any sizes of pages, tables and memory and  *)
(* any bounds of the program.                                              *)
EXTENDS UserMemory, FiniteSetTheorems, WellFoundedInduction, SequenceTheorems,
        TLAPS

-----------------------------------------------------------------------------
(* The invariant.                                                          *)

\* The directory's entry for a page: its table, or None.
TableOf(p) == directory[p \div PerTable]

\* The tables that handlers have taken and not yet put into the directory, and
\* the frames they have taken for data and not yet mapped.
HandTables == {faults[i].table : i \in {j \in 1 .. Len(faults) : faults[j].at = "zero"}}
HandData == {faults[i].data : i \in 1 .. Len(faults)} \ {None}

\* used_blocks passes the total at most once, by a thread that found its frame
\* before the last one was given away.
CountFits == count <= Frames \/ (count = Frames + 1 /\ kernel.at # "take")

\* A thread that grows the heap has a frame in hand; nobody has taken it in
\* between, unless an allocation overlapped.
GrowerKnown ==
    /\ kernel.at # "idle" => kernel.frame \in Frame
    /\ kernel.at = "header" => kernel.frame \in heap
    /\ kernel.at = "take" /\ ~ overlap => kernel.frame \notin bitmap

\* The first handler serves the program, or a thread whose new page of the heap
\* lies beyond the identity map.
FirstCause ==
    /\ access # None => access \in Touched
    /\ faults # <<>> => \/ access # None /\ faults[1].addr = access
                        \/ kernel.at = "header" /\ kernel.frame >= Ident
    /\ brk <= highest

\* The frame a handler writes next.
TargetOf(r) == IF r.at = "zero" THEN r.table ELSE TableOf(r.page)

\* No table, or one that the kernel cannot reach by its number.
FarOrNone(f) == f = None \/ f >= Ident

\* What a handler under way knows: its page is not mapped; once it has a frame
\* its address was inside the break; the table it zeroes takes the place of no
\* table the kernel can reach.
HandlerKnows(r) ==
    /\ r.page = PageOf(r.addr) /\ r.page >= Ident /\ ~ Mapped(r.page)
    /\ r.at = "enter" => r.data = None
    /\ r.at # "enter" => /\ r.data \in Frame
                         /\ BrkStart * PageSize <= r.addr /\ r.addr < highest
    /\ r.at = "zero" => /\ r.table \in Frame
                        /\ TableOf(r.page) # None =>
                               r.table >= Ident /\ TableOf(r.page) >= Ident
    /\ r.at = "write" => TableOf(r.page) # None

\* A handler that was interrupted by its own fault waits for a frame beyond the
\* identity map.
HandlerWaits(r) ==
    /\ r.at \in {"zero", "write"} /\ TargetOf(r) >= Ident
    /\ FarOrNone(TableOf(r.page))

HandlersKnow ==
    \A i \in 1 .. Len(faults) :
        /\ HandlerKnows(faults[i])
        /\ i < Len(faults) => HandlerWaits(faults[i])
        /\ i > 1 /\ faults[i].at = "zero" => faults[i].table >= Ident

\* Every table and every frame of data is marked, and none is both.
FramesApart ==
    /\ Tables \cup HandTables \subseteq bitmap
    /\ UserFrames \cup HandData \subseteq bitmap
    /\ (Tables \cup HandTables) \cap (UserFrames \cup HandData) = {}
    /\ \A d, e \in DirIndex : directory[d] # None /\ directory[d] = directory[e] => d = e
    /\ Tables \cap HandTables = {} /\ UserFrames \cap HandData = {}
    /\ \A i, j \in 1 .. Len(faults) : i # j =>
          /\ faults[i].data # None => faults[i].data # faults[j].data
          /\ faults[i].at = "zero" /\ faults[j].at = "zero" =>
                faults[i].table # faults[j].table

\* A table beyond the identity map is never written: what the kernel writes in
\* its place goes to the frame its page is mapped to.
FarTablesBlank ==
    \A f \in Frame :
        f \notin bitmap \/ (f \in Tables \cup HandTables /\ f >= Ident) =>
            content[f] = Empty

\* The search gives frames beyond the identity map only after all others.
NearFirst ==
    (\E f \in Tables \cup HandTables : f >= Ident) =>
        \A f \in Frame : f < Ident => f \in bitmap

MemoryInv ==
    /\ TypeOK /\ CountFits /\ GrowerKnown /\ FirstCause /\ HandlersKnow
    /\ FramesApart /\ FarTablesBlank /\ NearFirst
-----------------------------------------------------------------------------
(* Numbers.                                                                *)

\* A set of naturals that is not empty has a least element.
LEMMA LeastElement ==
    ASSUME NEW S \in SUBSET Nat, S # {}
    PROVE  \E m \in S : \A n \in S : m <= n
<1> DEFINE Below(n) == 0 .. n - 1
           T == {Below(n) : n \in S}
<1>1. \A n \in S : Below(n) \in FiniteSubsetsOf(Nat)
  <2> SUFFICES ASSUME NEW n \in S PROVE Below(n) \in FiniteSubsetsOf(Nat)
    OBVIOUS
  <2>1. n - 1 \in Int /\ Below(n) \in SUBSET Nat
    OBVIOUS
  <2>2. IsFiniteSet(Below(n))
    BY <2>1, FS_Interval
  <2> HIDE DEF Below
  <2> QED
    BY <2>1, <2>2, Zenon DEF FiniteSubsetsOf
<1>2. T \subseteq FiniteSubsetsOf(Nat) /\ T # {}
  <2> HIDE DEF Below
  <2> QED
    BY <1>1
<1>3. PICK x \in T : \A y \in T : <<y, x>> \notin StrictSubsetOrdering(Nat)
  BY <1>2, FS_StrictSubsetOrderingWellFounded, WFMin, Zenon
<1>4. PICK m \in S : x = Below(m)
  OBVIOUS
<1>5. ASSUME NEW n \in S PROVE m <= n
  <2> SUFFICES ASSUME n < m PROVE FALSE
    OBVIOUS
  <2>1. Below(n) \subseteq Below(m) /\ n \in Below(m) /\ n \notin Below(n)
    OBVIOUS
  <2>2. <<Below(n), Below(m)>> \in StrictSubsetOrdering(Nat)
    BY <2>1 DEF StrictSubsetOrdering
  <2> QED
    BY <1>3, <1>4, <2>2
<1> QED
  BY <1>5

LEMMA Division ==
    ASSUME NEW n \in Nat \ {0}, NEW a \in Nat
    PROVE  /\ a \div n \in Nat /\ a % n \in 0 .. n - 1
           /\ a = n * (a \div n) + (a % n)
<1> DEFINE q == a \div n
           m == a % n
<1>1. q \in Int /\ m \in 0 .. n - 1 /\ a = n * q + m
  OBVIOUS
<1> HIDE DEF q, m
<1>2. ~ (q <= -1)
  <2> SUFFICES ASSUME q <= -1 PROVE FALSE
    OBVIOUS
  <2>1. n * q <= n * (-1)
    BY <1>1
  <2> QED
    BY <1>1, <2>1
<1> QED
  BY <1>1, <1>2 DEF q, m

\* Multiplication keeps the order.
LEMMA TimesOrder ==
    ASSUME NEW n \in Nat \ {0}, NEW a \in Nat, NEW b \in Nat, a < b
    PROVE  n * a + n <= n * b
<1>1. PICK c \in Nat : b = a + 1 + c
  <2>1. b - a - 1 \in Nat /\ b = a + 1 + (b - a - 1)
    OBVIOUS
  <2> QED
    BY <2>1
<1>2. n * b = n * a + n + n * c /\ n * c >= 0 /\ n * a \in Nat
  BY <1>1
<1> QED
  BY <1>2

\* The page of an address: the last page that starts at it or before.
LEMMA PageBounds ==
    ASSUME NEW a \in Nat, NEW n \in Nat
    PROVE  /\ PageOf(a) \in Nat /\ PageOf(a) * PageSize <= a
           /\ n * PageSize <= a => n <= PageOf(a)
           /\ a < n * PageSize => PageOf(a) < n
<1> DEFINE q == a \div PageSize
           m == a % PageSize
<1>1. PageSize \in Nat \ {0}
  BY UserMemoryConstants
<1>2. q \in Nat /\ m \in 0 .. PageSize - 1 /\ a = PageSize * q + m
  BY <1>1, Division
<1> HIDE DEF q, m
<1>3. q * PageSize = PageSize * q /\ n * PageSize = PageSize * n
  BY <1>1, <1>2
<1>4. q < n => PageSize * q + PageSize <= PageSize * n
  BY <1>1, <1>2, TimesOrder
<1>5. n < q => PageSize * n + PageSize <= PageSize * q
  BY <1>1, <1>2, TimesOrder
<1>6. PageSize * q \in Nat /\ PageSize * n \in Nat
  BY <1>1, <1>2
<1>7. q * PageSize <= a
  BY <1>1, <1>2, <1>3, <1>6
<1>8. n * PageSize <= a => n <= q
  <2> SUFFICES ASSUME q < n PROVE ~ (n * PageSize <= a)
    BY <1>2
  <2> QED
    BY <1>1, <1>2, <1>3, <1>4, <1>6
<1>9. a < n * PageSize => q < n
  <2> SUFFICES ASSUME n <= q PROVE ~ (a < n * PageSize)
    BY <1>2
  <2>1. n = q \/ n < q
    BY <1>2
  <2> QED
    BY <1>1, <1>2, <1>3, <1>5, <1>6, <2>1
<1> QED
  BY <1>2, <1>7, <1>8, <1>9 DEF q, PageOf

\* The kernel writes a frame at the address its number times the page size.
LEMMA PageOfFrame ==
    ASSUME NEW f \in Nat
    PROVE  f * PageSize \in Nat /\ PageOf(f * PageSize) = f
<1>1. PageSize \in Nat \ {0} /\ f * PageSize \in Nat /\ f + 1 \in Nat
  BY UserMemoryConstants
<1>2. f * PageSize < (f + 1) * PageSize
  <2>1. (f + 1) * PageSize = f * PageSize + PageSize
    BY <1>1
  <2> QED
    BY <1>1, <2>1
<1>3. f <= PageOf(f * PageSize) /\ PageOf(f * PageSize) \in Nat
  BY <1>1, PageBounds
<1>4. PageOf(f * PageSize) < f + 1
  BY <1>1, <1>2, PageBounds
<1> QED
  BY <1>1, <1>3, <1>4

\* A page is known by its place in the directory and its place in the table.
LEMMA PagePlace ==
    ASSUME NEW p \in Page, NEW q \in Page
    PROVE  /\ p \div PerTable \in DirIndex /\ p % PerTable \in Slot
           /\ p \div PerTable = q \div PerTable /\ p % PerTable = q % PerTable
                 => p = q
<1>1. PerTable \in Nat \ {0} /\ p \in Nat /\ q \in Nat
  BY UserMemoryConstants DEF Page
<1>2. /\ p % PerTable \in 0 .. PerTable - 1
      /\ p = PerTable * (p \div PerTable) + (p % PerTable)
      /\ q = PerTable * (q \div PerTable) + (q % PerTable)
  BY <1>1, Division
<1>3. p \div PerTable \in DirIndex
  BY DEF DirIndex
<1>4. p % PerTable \in Slot
  BY <1>2 DEF Slot
<1>5. p \div PerTable = q \div PerTable /\ p % PerTable = q % PerTable => p = q
  BY <1>2, Zenon
<1> QED
  BY <1>3, <1>4, <1>5
-----------------------------------------------------------------------------
(* The allocator and the translation.                                      *)

\* pmm_alloc_page gives a frame that is not marked, and no smaller one is left.
LEMMA FirstFreeIs ==
    ASSUME FreeFrames # {}
    PROVE  /\ FirstFree \in Frame /\ FirstFree \notin bitmap /\ ~ (count >= Frames)
           /\ \A g \in Frame : g < FirstFree => g \in bitmap
<1>1. ~ (count >= Frames) /\ FreeFrames = Frame \ bitmap
  BY DEF FreeFrames
<1>2. FreeFrames \in SUBSET Nat
  BY <1>1, UserMemoryConstants DEF Frame
<1>3. \E f \in FreeFrames : \A g \in FreeFrames : f <= g
  BY <1>2, LeastElement
<1>4. FirstFree \in FreeFrames /\ \A g \in FreeFrames : FirstFree <= g
  BY <1>3, Zenon DEF FirstFree
<1>5. \A g \in Frame : g < FirstFree => g \in bitmap
  <2> SUFFICES ASSUME NEW g \in Frame, g < FirstFree, g \notin bitmap PROVE FALSE
    OBVIOUS
  <2>1. FirstFree <= g /\ g \in Nat /\ FirstFree \in Nat
    BY <1>1, <1>2, <1>4
  <2> QED
    BY <2>1
<1> QED
  BY <1>1, <1>4, <1>5

LEMMA FrameIsPage == \A f \in Frame : f \in Page /\ f \in Nat /\ f # None
BY UserMemoryConstants DEF Frame, Page

\* Below the identity map every page is its own frame; above it a page has the
\* frame its table gives it.
LEMMA TranslateIs ==
    ASSUME TypeOK, NEW p \in Page
    PROVE  /\ p < Ident => Translate(p) = p /\ Mapped(p)
           /\ ~ (p < Ident) =>
                /\ Translate(p) \in Frame \cup {None}
                /\ TableOf(p) \in Frame \cup {None}
                /\ TableOf(p) = None => Translate(p) = None
                /\ TableOf(p) # None =>
                      TableOf(p) \in Tables /\ Translate(p) = content[TableOf(p)][p % PerTable]
<1>1. p \in Nat /\ p # None
  BY UserMemoryConstants DEF Page
<1>2. p \div PerTable \in DirIndex /\ p % PerTable \in Slot
  BY PagePlace
<1>3. TableOf(p) \in Frame \cup {None}
  BY <1>2 DEF TypeOK, TableOf
<1>4. TableOf(p) # None => TableOf(p) \in Tables
  BY <1>2 DEF TableOf, Tables
<1>5. CASE p < Ident
  BY <1>1, <1>5 DEF Translate, Mapped
<1>6. CASE ~ (p < Ident)
  <2>1. Translate(p) = IF TableOf(p) = None THEN None
                       ELSE content[TableOf(p)][p % PerTable]
    BY <1>6 DEF Translate, TableOf
  <2>2. TableOf(p) \in Frame => content[TableOf(p)][p % PerTable] \in Frame \cup {None}
    BY <1>2 DEF TypeOK
  <2> QED
    BY <1>3, <1>4, <1>6, <2>1, <2>2
<1> QED
  BY <1>5, <1>6

\* A frame the kernel cannot reach lies beyond the identity map.
LEMMA UnreachedIsFar ==
    TypeOK => \A f \in Frame : ~ Mapped(f) => f >= Ident
<1> SUFFICES ASSUME TypeOK, NEW f \in Frame, ~ Mapped(f) PROVE f >= Ident
  OBVIOUS
<1>1. f \in Page /\ f \in Nat /\ Ident \in Nat
  BY FrameIsPage, UserMemoryConstants
<1>2. ~ (f < Ident)
  BY <1>1, TranslateIs
<1> QED
  BY <1>1, <1>2

\* What the kernel writes when it writes to frame f: f itself, or the frame of
\* the page of the program with that number.
LEMMA WrittenFrame ==
    ASSUME TypeOK, NEW f \in Frame, Mapped(f)
    PROVE  /\ Translate(f) \in Frame
           /\ f < Ident => Translate(f) = f
           /\ f >= Ident => Translate(f) \in UserFrames
<1>1. f \in Page /\ f \in Nat /\ Ident \in Nat
  BY FrameIsPage, UserMemoryConstants
<1>2. Translate(f) # None
  BY DEF Mapped
<1>3. CASE f < Ident
  BY <1>1, <1>3, TranslateIs
<1>4. CASE ~ (f < Ident)
  <2>1. Translate(f) \in Frame
    BY <1>1, <1>2, <1>4, TranslateIs
  <2>2. f \in UserPages
    BY <1>1, <1>4 DEF UserPages
  <2> QED
    BY <1>1, <1>4, <2>1, <2>2 DEF UserFrames
<1> QED
  BY <1>3, <1>4

\* A page whose table is missing or blank is not mapped.
LEMMA BlankUnmapped ==
    ASSUME TypeOK, NEW p \in Page, p >= Ident,
           TableOf(p) = None \/ content[TableOf(p)] = Empty
    PROVE  ~ Mapped(p)
<1>1. p % PerTable \in Slot /\ p \in Nat /\ Ident \in Nat
  BY PagePlace, UserMemoryConstants DEF Page
<1>2. ~ (p < Ident)
  BY <1>1
<1>3. Empty[p % PerTable] = None
  BY <1>1 DEF Empty
<1> QED
  BY <1>2, <1>3, TranslateIs DEF Mapped

-----------------------------------------------------------------------------
(* The handlers.                                                           *)

LEMMA FaultsAre ==
    ASSUME TypeOK
    PROVE  /\ Len(faults) \in Nat
           /\ faults = <<>> <=> Len(faults) = 0
           /\ \A i \in 1 .. Len(faults) : faults[i] \in HandlerRecord
           /\ faults # <<>> =>
                 /\ Top \in HandlerRecord /\ Top = faults[Len(faults)]
                 /\ Len(faults) \in 1 .. Len(faults)
<1>1. faults \in Seq(HandlerRecord)
  BY DEF TypeOK
<1>2. /\ Len(faults) \in Nat
      /\ \A i \in 1 .. Len(faults) : faults[i] \in HandlerRecord
      /\ faults = <<>> <=> Len(faults) = 0
  BY <1>1
<1> QED
  BY <1>2 DEF Top

\* The three ways the stack of handlers changes.
LEMMA FaultPushed ==
    ASSUME TypeOK, NEW r \in HandlerRecord, faults' = Append(faults, r)
    PROVE  /\ faults' \in Seq(HandlerRecord) /\ Len(faults') = Len(faults) + 1
           /\ \A i \in 1 .. Len(faults) : faults'[i] = faults[i]
           /\ faults'[Len(faults) + 1] = r
BY AppendProperties DEF TypeOK

LEMMA FaultStepped ==
    ASSUME TypeOK, faults # <<>>, NEW r \in HandlerRecord, Step(r)
    PROVE  /\ faults' \in Seq(HandlerRecord) /\ Len(faults') = Len(faults)
           /\ \A i \in 1 .. Len(faults) :
                  faults'[i] = IF i = Len(faults) THEN r ELSE faults[i]
<1>1. Len(faults) \in 1 .. Len(faults) /\ faults \in Seq(HandlerRecord)
  BY FaultsAre DEF TypeOK
<1> QED
  BY <1>1, ExceptSeq DEF Step

LEMMA FaultLeft ==
    ASSUME TypeOK, faults # <<>>, Leave
    PROVE  /\ faults' \in Seq(HandlerRecord) /\ Len(faults') = Len(faults) - 1
           /\ \A i \in 1 .. Len(faults) - 1 : faults'[i] = faults[i]
<1>1. Len(faults) \in Nat \ {0} /\ faults \in Seq(HandlerRecord)
  BY FaultsAre DEF TypeOK
<1> DEFINE n == Len(faults) - 1
<1>2. n \in Nat /\ faults' = SubSeq(faults, 1, n)
  BY <1>1 DEF Leave
<1>3. \A i \in 1 .. n : faults[i] \in HandlerRecord
  BY <1>1
<1> HIDE DEF n
<1>4. /\ faults' \in Seq(HandlerRecord) /\ Len(faults') = IF 1 <= n THEN n - 1 + 1 ELSE 0
      /\ \A i \in 1 .. n - 1 + 1 : faults'[i] = faults[1 + i - 1]
  BY <1>2, <1>3, SubSeqProperties
<1>5. Len(faults') = n /\ \A i \in 1 .. n : faults'[i] = faults[i]
  BY <1>2, <1>4
<1> QED
  BY <1>4, <1>5 DEF n
LEMMA TopKnows ==
    ASSUME MemoryInv, faults # <<>>
    PROVE  /\ Top \in HandlerRecord /\ Top = faults[Len(faults)]
           /\ Len(faults) \in 1 .. Len(faults) /\ Len(faults) \in Nat
           /\ HandlerKnows(Top)
           /\ Top.page \div PerTable \in DirIndex /\ Top.page % PerTable \in Slot
           /\ Top.data # None => Top.data \in HandData
           /\ Top.at = "zero" => Top.table \in HandTables
<1>1. /\ Top \in HandlerRecord /\ Top = faults[Len(faults)]
      /\ Len(faults) \in 1 .. Len(faults) /\ Len(faults) \in Nat
  BY FaultsAre DEF MemoryInv
<1>2. HandlerKnows(Top)
  BY <1>1 DEF MemoryInv, HandlersKnow
<1>3. Top.page \in Page
  BY <1>1 DEF HandlerRecord
<1>4. Top.page \div PerTable \in DirIndex /\ Top.page % PerTable \in Slot
  BY <1>3, PagePlace
<1>5. Top.data # None => Top.data \in HandData
  BY <1>1 DEF HandData
<1>6. Top.at = "zero" => Top.table \in HandTables
  BY <1>1 DEF HandTables
<1> QED
  BY <1>1, <1>2, <1>4, <1>5, <1>6

\* What the zeroing of a new table does, wherever the table lies: it goes into
\* an entry of the directory that maps nothing, and it is blank.
LEMMA ZeroFacts ==
    ASSUME MemoryInv, ZeroTable,
           NEW r, r = Top, NEW d, d = r.page \div PerTable, NEW g, g = Translate(r.table)
    PROVE  /\ faults # <<>> /\ r.at = "zero" /\ r \in HandlerRecord /\ d \in DirIndex
           /\ r.table \in Frame /\ r.table \in HandTables /\ r.table \in bitmap
           /\ g \in Frame /\ g \notin Tables
           /\ \/ r.table < Ident /\ g = r.table
              \/ r.table >= Ident /\ g \in UserFrames /\ g # r.table
           /\ directory[d] # None => /\ directory[d] >= Ident /\ r.table >= Ident
                                     /\ content[directory[d]] = Empty
           /\ content' = [content EXCEPT ![g] = Empty]
           /\ directory' = [directory EXCEPT ![d] = r.table]
           /\ Step([r EXCEPT !.at = "write"]) /\ content'[r.table] = Empty
           /\ stray' = (stray \/ g # r.table)
           /\ UNCHANGED <<halted, overlap, allocator, program, grower>>
<1>1. /\ faults # <<>> /\ r.at = "zero" /\ Mapped(r.table)
      /\ content' = [content EXCEPT ![g] = Empty]
      /\ directory' = [directory EXCEPT ![d] = r.table]
      /\ Step([r EXCEPT !.at = "write"])
      /\ stray' = (stray \/ g # r.table)
      /\ UNCHANGED <<halted, overlap, allocator, program, grower>>
  BY DEF ZeroTable, Handling, Reaches
<1>2. /\ r \in HandlerRecord /\ HandlerKnows(r) /\ d \in DirIndex
      /\ r.table \in HandTables
  BY <1>1, TopKnows
<1>a. TypeOK /\ FramesApart /\ FarTablesBlank
  BY DEF MemoryInv
<1>3. r.table \in Frame /\ Ident \in Nat /\ r.table \in Nat
  BY <1>1, <1>2, FrameIsPage, UserMemoryConstants DEF HandlerKnows
<1>4. /\ g \in Frame /\ (r.table < Ident => g = r.table)
      /\ r.table >= Ident => g \in UserFrames
  BY <1>1, <1>3, <1>a, WrittenFrame
<1>5. r.table \notin Tables /\ r.table \notin UserFrames /\ r.table \in bitmap
  BY <1>2, <1>a DEF FramesApart
<1>6. /\ g \notin Tables
      /\ \/ r.table < Ident /\ g = r.table
         \/ r.table >= Ident /\ g \in UserFrames /\ g # r.table
  BY <1>3, <1>4, <1>5, <1>a DEF FramesApart
<1>7. directory[d] # None => /\ directory[d] >= Ident /\ r.table >= Ident
                             /\ content[directory[d]] = Empty
  <2> SUFFICES ASSUME directory[d] # None
               PROVE  /\ directory[d] >= Ident /\ r.table >= Ident
                      /\ content[directory[d]] = Empty
    OBVIOUS
  <2>1. r.table >= Ident /\ directory[d] >= Ident
    BY <1>1, <1>2 DEF HandlerKnows, TableOf
  <2>2. directory[d] \in Tables /\ directory[d] \in Frame
    BY <1>2, <1>a DEF Tables, TypeOK
  <2> QED
    BY <2>1, <2>2, <1>a DEF FarTablesBlank
<1>8. content'[r.table] = Empty
  <2>1. CASE g = r.table
    BY <1>1, <1>4, <1>a, <2>1 DEF TypeOK
  <2>2. CASE r.table >= Ident /\ g # r.table
    <3>1. content[r.table] = Empty
      BY <1>2, <1>3, <1>a, <2>2 DEF FarTablesBlank
    <3> QED
      BY <1>1, <1>3, <1>a, <2>2, <3>1 DEF TypeOK
  <2> QED
    BY <1>6, <2>1, <2>2
<1> QED
  BY <1>1, <1>2, <1>3, <1>4, <1>5, <1>6, <1>7, <1>8

\* What the writing of the entry does: it goes into the table of the page, or,
\* if that lies beyond the identity map, into a frame of data.
LEMMA WriteFacts ==
    ASSUME MemoryInv, WriteEntry,
           NEW r, r = Top, NEW t, t = TableOf(r.page), NEW g, g = Translate(t)
    PROVE  /\ faults # <<>> /\ r.at = "write" /\ r \in HandlerRecord
           /\ HandlerKnows(r) /\ r.page \in Page /\ r.data \in HandData
           /\ r.data \in Frame
           /\ t \in Frame /\ t \in Tables /\ g \in Frame
           /\ \/ t < Ident /\ g = t
              \/ t >= Ident /\ g \in UserFrames /\ g \notin Tables
           /\ content' = [content EXCEPT ![g][r.page % PerTable] = r.data]
           /\ Leave
           /\ stray' = (stray \/ g # t)
           /\ UNCHANGED <<directory, halted, overlap, allocator, program, grower>>
<1>1. /\ faults # <<>> /\ r.at = "write" /\ Mapped(t)
      /\ content' = [content EXCEPT ![g][r.page % PerTable] = r.data]
      /\ Leave /\ stray' = (stray \/ g # t)
      /\ UNCHANGED <<directory, halted, overlap, allocator, program, grower>>
  BY DEF WriteEntry, Handling, Reaches, TableOf
<1>2. /\ r \in HandlerRecord /\ HandlerKnows(r)
      /\ r.page \div PerTable \in DirIndex
      /\ r.data # None => r.data \in HandData
  BY <1>1, TopKnows
<1>a. TypeOK /\ FramesApart
  BY DEF MemoryInv
<1>3. r.data \in Frame /\ t # None
  BY <1>1, <1>2 DEF HandlerKnows
<1>4. t \in Frame /\ t \in Tables /\ Ident \in Nat /\ t \in Nat /\ r.data # None
  <2>1. t \in Frame /\ t \in Tables
    BY <1>2, <1>3, <1>a DEF Tables, TypeOK, TableOf
  <2> QED
    BY <1>3, <2>1, FrameIsPage, UserMemoryConstants
<1>5. /\ g \in Frame /\ (t < Ident => g = t)
      /\ t >= Ident => g \in UserFrames
  BY <1>1, <1>4, <1>a, WrittenFrame
<1>6. g \in UserFrames => g \notin Tables
  BY <1>a DEF FramesApart
<1> QED
  BY <1>1, <1>2, <1>3, <1>4, <1>5, <1>6 DEF HandlerRecord
-----------------------------------------------------------------------------
(* The mapping of the program's pages.                                     *)

\* A write to a frame that is no table maps nothing and unmaps nothing.
LEMMA FarWriteMapsNothing ==
    ASSUME TypeOK, UNCHANGED directory, NEW g, g \notin Tables,
           \A f \in Frame : f # g => content'[f] = content[f],
           NEW p \in Page
    PROVE  Translate(p)' = Translate(p)
<1>1. TableOf(p) # None => TableOf(p) \in Tables /\ TableOf(p) \in Frame
  BY PagePlace DEF Tables, TableOf, TypeOK
<1>2. TableOf(p) # None => content'[TableOf(p)] = content[TableOf(p)]
  BY <1>1
<1> QED
  BY <1>2 DEF Translate, TableOf

\* Putting a new table into the directory maps nothing and unmaps nothing.
LEMMA ZeroMapsNothing ==
    ASSUME MemoryInv, ZeroTable, NEW p \in Page
    PROVE  Translate(p)' = Translate(p)
<1> DEFINE r == Top
           d == r.page \div PerTable
           g == Translate(r.table)
<1>1. /\ d \in DirIndex /\ r.table \in Frame /\ g \in Frame /\ g \notin Tables
      /\ directory[d] # None => content[directory[d]] = Empty
      /\ content' = [content EXCEPT ![g] = Empty]
      /\ directory' = [directory EXCEPT ![d] = r.table]
      /\ content'[r.table] = Empty
  BY ZeroFacts
<1>a. TypeOK
  BY DEF MemoryInv
<1>2. p \div PerTable \in DirIndex /\ p % PerTable \in Slot
  BY PagePlace
<1>3. r.table # None
  BY <1>1, FrameIsPage
<1> HIDE DEF r, d, g
<1>4. CASE p < Ident
  BY <1>4 DEF Translate
<1>5. CASE ~ (p < Ident) /\ p \div PerTable = d
  <2>1. directory'[d] = r.table /\ Translate(p)' = content'[r.table][p % PerTable]
    BY <1>1, <1>3, <1>5, <1>a DEF Translate, TypeOK
  <2>2. Empty[p % PerTable] = None
    BY <1>2 DEF Empty
  <2>3. Translate(p) = None
    BY <1>1, <1>5, <2>2 DEF Translate
  <2> QED
    BY <1>1, <2>1, <2>2, <2>3
<1>6. CASE ~ (p < Ident) /\ p \div PerTable # d
  <2>1. directory'[p \div PerTable] = directory[p \div PerTable]
    BY <1>1, <1>2, <1>6, <1>a DEF TypeOK
  <2>2. directory[p \div PerTable] # None =>
            /\ directory[p \div PerTable] \in Tables
            /\ directory[p \div PerTable] \in Frame
    BY <1>2, <1>a DEF Tables, TypeOK
  <2>3. directory[p \div PerTable] # None =>
            content'[directory[p \div PerTable]] = content[directory[p \div PerTable]]
    BY <1>1, <1>a, <2>2 DEF TypeOK
  <2> QED
    BY <2>1, <2>3 DEF Translate
<1> QED
  BY <1>4, <1>5, <1>6

\* Writing the entry maps the page of the handler, if its table is within reach,
\* and no other.
LEMMA WriteMapsThePage ==
    ASSUME MemoryInv, WriteEntry, NEW p \in Page
    PROVE  Translate(p)' = IF p = Top.page /\ TableOf(p) < Ident THEN Top.data
                           ELSE Translate(p)
<1> DEFINE r == Top
           t == TableOf(r.page)
           g == Translate(t)
<1>1. /\ HandlerKnows(r) /\ r.page \in Page /\ r.data \in Frame
      /\ t \in Frame /\ t \in Tables /\ g \in Frame
      /\ \/ t < Ident /\ g = t
         \/ t >= Ident /\ g \in UserFrames /\ g \notin Tables
      /\ content' = [content EXCEPT ![g][r.page % PerTable] = r.data]
      /\ UNCHANGED directory
  BY WriteFacts
<1>a. TypeOK
  BY DEF MemoryInv
<1>b. \A d, e \in DirIndex : directory[d] # None /\ directory[d] = directory[e] => d = e
  BY DEF MemoryInv, FramesApart
<1>2. /\ p \div PerTable \in DirIndex /\ p % PerTable \in Slot
      /\ r.page \div PerTable \in DirIndex /\ r.page % PerTable \in Slot
      /\ p \div PerTable = r.page \div PerTable /\ p % PerTable = r.page % PerTable
            => p = r.page
  BY <1>1, PagePlace
<1>3. t \in Nat /\ Ident \in Nat /\ r.page \in Nat /\ t # None /\ r.page >= Ident
  BY <1>1, FrameIsPage, UserMemoryConstants DEF Page, HandlerKnows
<1> HIDE DEF r, g
<1>4. \A f \in Frame : f # g => content'[f] = content[f]
  BY <1>1, <1>a DEF TypeOK
<1>5. CASE t >= Ident
  <2>1. g \notin Tables
    BY <1>1, <1>3, <1>5
  <2>2. Translate(p)' = Translate(p)
    BY <1>1, <1>4, <1>a, <2>1, FarWriteMapsNothing
  <2>3. ~ (t < Ident)
    BY <1>3, <1>5
  <2> QED
    BY <2>2, <2>3 DEF r
<1>6. CASE t < Ident
  <2>1. g = t
    BY <1>1, <1>3, <1>6
  <2>2. content'[t] = [content[t] EXCEPT ![r.page % PerTable] = r.data]
    BY <1>1, <1>a, <2>1 DEF TypeOK
  <2>3. CASE p = r.page
    <3>1. ~ (p < Ident) /\ TableOf(p) = t /\ directory'[p \div PerTable] = t
      BY <1>1, <1>3, <2>3 DEF TableOf
    <3>2. Translate(p)' = content'[t][p % PerTable]
      BY <1>3, <3>1 DEF Translate
    <3>3. content'[t][p % PerTable] = r.data
      BY <1>1, <1>2, <1>a, <2>2, <2>3 DEF TypeOK
    <3> QED
      BY <1>6, <2>3, <3>1, <3>2, <3>3 DEF r
  <2>4. CASE p # r.page
    <3> DEFINE u == TableOf(p)
    <3>1. u # None => content'[u][p % PerTable] = content[u][p % PerTable]
      <4> SUFFICES ASSUME u # None
                   PROVE  content'[u][p % PerTable] = content[u][p % PerTable]
        OBVIOUS
      <4>1. u \in Frame
        BY <1>2, <1>a DEF TypeOK, TableOf
      <4>2. CASE u = t
        <5>1. p \div PerTable = r.page \div PerTable
          BY <1>2, <1>b, <1>3, <4>2 DEF TableOf
        <5>2. p % PerTable # r.page % PerTable
          BY <1>2, <2>4, <5>1
        <5> QED
          BY <1>1, <1>2, <1>a, <2>2, <4>2, <5>2 DEF TypeOK
      <4>3. CASE u # t
        BY <1>4, <2>1, <4>1, <4>3
      <4> QED
        BY <4>2, <4>3
    <3>2. Translate(p)' = Translate(p)
      BY <1>1, <3>1 DEF Translate, TableOf
    <3> QED
      BY <2>4, <3>2 DEF r
  <2> QED
    BY <2>3, <2>4
<1> QED
  BY <1>3, <1>5, <1>6
-----------------------------------------------------------------------------
(* The types.                                                              *)

LEMMA FaultRecord ==
    ASSUME NEW a \in Addr, NEW p \in Page, p = PageOf(a)
    PROVE  [addr |-> a, page |-> PageOf(a), at |-> "enter", data |-> None,
            table |-> None] \in HandlerRecord
BY DEF HandlerRecord

\* The addresses the kernel and the program fault on.
LEMMA FrameAddress ==
    ASSUME NEW f \in Frame
    PROVE  f * PageSize \in Addr /\ PageOf(f * PageSize) = f /\ f \in Page
<1> DEFINE m == IF BrkEnd > Frames THEN BrkEnd ELSE Frames
<1>1. f \in Nat /\ f \in Page /\ f \in 0 .. m - 1
  BY FrameIsPage DEF Page
<1>2. PageSize \in Nat \ {0} /\ m \in Nat
  BY UserMemoryConstants
<1>3. f * PageSize \in Nat /\ PageOf(f * PageSize) = f
  BY <1>1, PageOfFrame
<1> HIDE DEF m
<1>4. PageSize * f + PageSize <= PageSize * m
  BY <1>1, <1>2, TimesOrder
<1>5. f * PageSize = PageSize * f /\ m * PageSize = PageSize * m
  BY <1>1, <1>2
<1>6. f * PageSize \in 0 .. m * PageSize
  BY <1>2, <1>3, <1>4, <1>5
<1> QED
  BY <1>1, <1>3, <1>6 DEF Addr, m

LEMMA TouchedAddress ==
    ASSUME NEW a \in Touched
    PROVE  a \in Addr /\ PageOf(a) \in Page /\ PageOf(a) >= Ident /\ a # None
<1> DEFINE m == IF BrkEnd > Frames THEN BrkEnd ELSE Frames
<1>1. /\ a \in Nat /\ Ident * PageSize <= a /\ a < BrkEnd * PageSize
      /\ Ident \in Nat /\ BrkEnd \in Nat /\ PageSize \in Nat \ {0} /\ None \notin Int
  BY UserMemoryConstants
<1>2. m \in Nat /\ (BrkEnd < m \/ BrkEnd = m)
  BY UserMemoryConstants
<1> HIDE DEF m
<1>3. PageOf(a) \in Nat /\ Ident <= PageOf(a) /\ PageOf(a) < BrkEnd
  BY <1>1, PageBounds
<1>4. PageOf(a) \in 0 .. m - 1
  BY <1>1, <1>2, <1>3
<1>5. BrkEnd < m => PageSize * BrkEnd + PageSize <= PageSize * m
  BY <1>1, <1>2, TimesOrder
<1>6. BrkEnd * PageSize = PageSize * BrkEnd /\ m * PageSize = PageSize * m
  BY <1>1, <1>2
<1>7. a < m * PageSize /\ m * PageSize \in Nat
  BY <1>1, <1>2, <1>5, <1>6
<1> QED
  BY <1>1, <1>3, <1>4, <1>7 DEF Addr, Page, m

\* Every fault: an address whose page is not mapped, and the handler that was
\* interrupted, if any, waits for a frame beyond the identity map.
LEMMA FaultFacts ==
    ASSUME MemoryInv,
           \/ \E a \in Touched : Access(a)
           \/ Retry \/ NestedFault \/ GrowFault
    PROVE  \E a \in Addr :
              /\ FaultAt(a) /\ PageOf(a) \in Page /\ PageOf(a) >= Ident
              /\ ~ Mapped(PageOf(a))
              /\ UNCHANGED <<allocator, tables, brk, highest, halted, grower, history>>
              /\ faults # <<>> => HandlerWaits(Top) /\ UNCHANGED access
              /\ faults = <<>> =>
                    \/ access' \in Touched /\ access' = a
                    \/ kernel.at = "header" /\ kernel.frame >= Ident /\ UNCHANGED access
<1>a. TypeOK /\ FirstCause
  BY DEF MemoryInv
<1>1. ASSUME NEW a \in Touched, Access(a)
      PROVE  /\ FaultAt(a) /\ faults = <<>> /\ ~ Mapped(PageOf(a)) /\ access' = a
             /\ UNCHANGED <<allocator, tables, brk, highest, halted, grower, history>>
  BY <1>1 DEF Access, Running
<1>2. CASE \E a \in Touched : Access(a)
  BY <1>1, <1>2, TouchedAddress
<1>3. CASE Retry
  <2>1. /\ FaultAt(access) /\ access \in Touched /\ faults = <<>>
        /\ ~ Mapped(PageOf(access))
        /\ UNCHANGED <<allocator, tables, program, halted, grower, history>>
    BY <1>3, <1>a DEF Retry, Running, FirstCause
  <2> QED
    BY <2>1, TouchedAddress DEF program
<1>4. CASE NestedFault
  <2> DEFINE r == Top
             f == Target
  <2>1. /\ faults # <<>> /\ r.at \in {"zero", "write"} /\ ~ Mapped(f)
        /\ FaultAt(f * PageSize) /\ f = TargetOf(r)
        /\ UNCHANGED <<allocator, tables, program, halted, grower, history>>
    BY <1>4 DEF NestedFault, Handling, Target, TargetOf, TableOf
  <2>2. HandlerKnows(r) /\ r \in HandlerRecord /\ r.page \div PerTable \in DirIndex
    BY <2>1, TopKnows
  <2>3. f \in Frame
    BY <2>1, <2>2, <1>a DEF HandlerKnows, TargetOf, TableOf, TypeOK
  <2>4. f >= Ident
    BY <2>1, <2>3, <1>a, UnreachedIsFar
  <2> HIDE DEF r, f
  <2>5. HandlerWaits(r)
    BY <2>1, <2>2, <2>4 DEF HandlerWaits, FarOrNone, HandlerKnows, TargetOf
  <2>6. f * PageSize \in Addr /\ PageOf(f * PageSize) = f /\ f \in Page
    BY <2>3, FrameAddress
  <2> QED
    BY <2>1, <2>4, <2>5, <2>6 DEF r, program
<1>5. CASE GrowFault
  <2> DEFINE f == kernel.frame
  <2>1. /\ faults = <<>> /\ kernel.at = "header" /\ ~ Mapped(f)
        /\ FaultAt(f * PageSize)
        /\ UNCHANGED <<allocator, tables, program, halted, grower, history>>
    BY <1>5 DEF GrowFault, Running
  <2>2. f \in Frame
    BY <2>1 DEF MemoryInv, GrowerKnown
  <2>3. f >= Ident
    BY <2>1, <2>2, <1>a, UnreachedIsFar
  <2>4. f * PageSize \in Addr /\ PageOf(f * PageSize) = f /\ f \in Page
    BY <2>2, FrameAddress
  <2> QED
    BY <2>1, <2>3, <2>4 DEF program
<1> QED
  BY <1>2, <1>3, <1>4, <1>5
\* The steps by what they do to the handlers and the tables.
Quiet == \/ \E b \in Breaks : SysBrk(b)
         \/ Resume \/ Refuse \/ Exhausted \/ GrowFind \/ GrowHeader
         \/ UNCHANGED vars

Fault == \/ \E a \in Touched : Access(a)
         \/ Retry \/ NestedFault \/ GrowFault

LEMMA NextIs ==
    [Next]_vars => \/ Quiet \/ Fault \/ TakeData \/ TakeTable \/ NoTable
                   \/ ZeroTable \/ TablePresent \/ WriteEntry \/ GrowTake
BY DEF Next, Handler, Grow, Quiet, Fault

LEMMA QuietFacts ==
    ASSUME MemoryInv, Quiet
    PROVE  /\ UNCHANGED <<allocator, tables, faults, heap, overlap>>
           /\ highest' >= highest /\ brk' <= highest'
           /\ brk' \in BrkStart * PageSize .. BrkEnd * PageSize
           /\ highest' \in BrkStart * PageSize .. BrkEnd * PageSize
           /\ access' \in {access, None}
           /\ faults # <<>> => UNCHANGED <<kernel, brk, access>>
           /\ \/ UNCHANGED kernel \/ kernel' = Idle
              \/ /\ kernel' = [at |-> "take", frame |-> FirstFree]
                 /\ FreeFrames # {}
           /\ halted' \in BOOLEAN /\ stray' \in BOOLEAN
<1>a. TypeOK /\ brk <= highest
  BY DEF MemoryInv, FirstCause
<1>b. BrkStart * PageSize \in Nat /\ BrkEnd * PageSize \in Nat
  BY UserMemoryConstants
<1>1. ASSUME NEW b \in Breaks, SysBrk(b)
      PROVE  /\ UNCHANGED <<allocator, tables, faults, heap, overlap, access,
                            kernel, halted, stray>>
             /\ faults = <<>>
             /\ highest' >= highest /\ brk' <= highest'
             /\ brk' \in BrkStart * PageSize .. BrkEnd * PageSize
             /\ highest' \in BrkStart * PageSize .. BrkEnd * PageSize
  <2>1. /\ brk' = b /\ highest' = (IF b > highest THEN b ELSE highest)
        /\ b >= BrkStart * PageSize /\ b <= BrkEnd * PageSize /\ b \in Nat
        /\ UNCHANGED <<allocator, tables, faults, heap, overlap, access, kernel,
                       halted, stray>>
        /\ faults = <<>>
    BY <1>1, UserMemoryConstants DEF SysBrk, Running, grower, history
  <2>2. highest \in BrkStart * PageSize .. BrkEnd * PageSize
    BY <1>a DEF TypeOK
  <2> QED
    BY <1>b, <2>1, <2>2
<1>2. CASE \E b \in Breaks : SysBrk(b)
  BY <1>1, <1>2, <1>a DEF TypeOK
<1>3. CASE Resume \/ Refuse \/ Exhausted \/ UNCHANGED vars
  <2>1. /\ UNCHANGED <<allocator, tables, faults, heap, overlap, kernel, brk, highest,
                       stray>>
        /\ access' \in {access, None} /\ (faults # <<>> => access' = access)
        /\ halted' \in {halted, TRUE}
    BY <1>3 DEF Resume, Refuse, Exhausted, Running, grower, history, program, vars
  <2>2. halted' \in BOOLEAN /\ stray' \in BOOLEAN
    BY <1>a, <2>1 DEF TypeOK
  <2>3. /\ highest' >= highest /\ brk' <= highest'
        /\ brk' \in BrkStart * PageSize .. BrkEnd * PageSize
        /\ highest' \in BrkStart * PageSize .. BrkEnd * PageSize
    BY <1>a, <1>b, <2>1 DEF TypeOK
  <2> QED
    BY <2>1, <2>2, <2>3
<1>4. CASE GrowFind \/ GrowHeader
  <2>1. /\ UNCHANGED <<allocator, tables, faults, heap, overlap, brk, highest, access,
                       halted>>
        /\ stray' \in BOOLEAN /\ faults = <<>>
        /\ \/ kernel' = Idle
           \/ /\ kernel' = [at |-> "take", frame |-> FirstFree]
              /\ FreeFrames # {}
    BY <1>4, <1>a DEF GrowFind, GrowHeader, Running, Reaches, history, program, TypeOK
  <2> QED
    BY <1>a, <1>b, <2>1 DEF TypeOK
<1> QED
  BY <1>2, <1>3, <1>4 DEF Quiet

\* A frame taken by a handler: the first free one, counted and marked.
LEMMA TakeFacts ==
    ASSUME MemoryInv, TakeData \/ TakeTable, NEW r, r = Top, NEW f, f = FirstFree
    PROVE  /\ faults # <<>> /\ r \in HandlerRecord /\ HandlerKnows(r)
           /\ r = faults[Len(faults)]
           /\ f \in Frame /\ f \notin bitmap /\ f # None
           /\ count \in 0 .. Frames - 1
           /\ \A g \in Frame : g < f => g \in bitmap
           /\ bitmap' = bitmap \cup {f} /\ count' = count + 1
           /\ \/ /\ r.at = "enter" /\ r.data = None
                 /\ BrkStart * PageSize <= r.addr /\ r.addr < brk
                 /\ Step([r EXCEPT !.at = "map", !.data = f])
              \/ /\ r.at = "map" /\ TableOf(r.page) = None
                 /\ Step([r EXCEPT !.at = "zero", !.table = f])
           /\ overlap' = (overlap \/ kernel.at = "take")
           /\ UNCHANGED <<tables, program, grower, halted, stray>>
<1>1. /\ faults # <<>> /\ FreeFrames # {}
      /\ bitmap' = bitmap \cup {f} /\ count' = count + 1
      /\ \/ /\ r.at = "enter"
            /\ BrkStart * PageSize <= r.addr /\ r.addr < brk
            /\ Step([r EXCEPT !.at = "map", !.data = f])
         \/ /\ r.at = "map" /\ TableOf(r.page) = None
            /\ Step([r EXCEPT !.at = "zero", !.table = f])
      /\ overlap' = (overlap \/ kernel.at = "take")
      /\ UNCHANGED <<tables, program, grower, halted, stray>>
  <2>1. r.addr >= BrkStart * PageSize => BrkStart * PageSize <= r.addr
    OBVIOUS
  <2> QED
    BY <2>1 DEF TakeData, TakeTable, Handling, Mark, Overlaps, Serves, TableMissing, TableOf
<1>2. r \in HandlerRecord /\ HandlerKnows(r) /\ r = faults[Len(faults)]
  BY <1>1, TopKnows
<1>3. /\ f \in Frame /\ f \notin bitmap /\ ~ (count >= Frames)
      /\ \A g \in Frame : g < f => g \in bitmap
  BY <1>1, FirstFreeIs
<1>4. count \in 0 .. Frames - 1
  BY <1>3, UserMemoryConstants DEF MemoryInv, TypeOK
<1>5. r.at = "enter" => r.data = None
  BY <1>2 DEF HandlerKnows
<1> QED
  BY <1>1, <1>2, <1>3, <1>4, <1>5, FrameIsPage

LEMMA MemoryTypes == MemoryInv /\ [Next]_vars => TypeOK'
<1> SUFFICES ASSUME MemoryInv, [Next]_vars PROVE TypeOK'
  OBVIOUS
<1>a. TypeOK /\ CountFits /\ GrowerKnown
  BY DEF MemoryInv
<1>1. CASE Quiet
  <2>1. /\ UNCHANGED <<allocator, tables, faults, heap, overlap>>
        /\ brk' \in BrkStart * PageSize .. BrkEnd * PageSize
        /\ highest' \in BrkStart * PageSize .. BrkEnd * PageSize
        /\ access' \in {access, None}
        /\ \/ UNCHANGED kernel \/ kernel' = Idle
           \/ kernel' = [at |-> "take", frame |-> FirstFree] /\ FreeFrames # {}
        /\ halted' \in BOOLEAN /\ stray' \in BOOLEAN
    BY <1>1, QuietFacts
  <2>2. kernel' \in [at : {"idle", "take", "header"}, frame : Frame \cup {None}]
    BY <1>a, <2>1, FirstFreeIs DEF TypeOK, Idle
  <2> QED
    BY <1>a, <2>1, <2>2 DEF TypeOK, allocator, tables
<1>2. CASE Fault
  <2>1. PICK a \in Addr :
            /\ FaultAt(a) /\ PageOf(a) \in Page
            /\ UNCHANGED <<allocator, tables, brk, highest, halted, grower, history>>
            /\ access' \in Touched \/ UNCHANGED access
    BY <1>2, FaultFacts DEF Fault
  <2>2. faults' \in Seq(HandlerRecord)
    BY <1>a, <2>1, FaultRecord, FaultPushed DEF FaultAt
  <2>3. access' \in Addr \cup {None}
    BY <1>a, <2>1, TouchedAddress DEF TypeOK
  <2> QED
    BY <1>a, <2>1, <2>2, <2>3 DEF TypeOK, allocator, tables, grower, history
<1>3. CASE TakeData \/ TakeTable
  <2> DEFINE r == Top
             f == FirstFree
  <2>1. /\ faults # <<>> /\ r \in HandlerRecord /\ f \in Frame /\ f # None
        /\ count \in 0 .. Frames - 1
        /\ bitmap' = bitmap \cup {f} /\ count' = count + 1
        /\ \/ Step([r EXCEPT !.at = "map", !.data = f])
           \/ Step([r EXCEPT !.at = "zero", !.table = f])
        /\ overlap' = (overlap \/ kernel.at = "take")
        /\ UNCHANGED <<tables, program, grower, halted, stray>>
    BY <1>3, TakeFacts
  <2> HIDE DEF r, f
  <2>2. faults' \in Seq(HandlerRecord)
    <3>1. /\ [r EXCEPT !.at = "map", !.data = f] \in HandlerRecord
          /\ [r EXCEPT !.at = "zero", !.table = f] \in HandlerRecord
      BY <2>1 DEF HandlerRecord
    <3> QED
      BY <1>a, <2>1, <3>1, FaultStepped
  <2>3. count' \in 0 .. Frames + 1 /\ bitmap' \subseteq Frame
    BY <1>a, <2>1, UserMemoryConstants DEF TypeOK
  <2>4. overlap' \in BOOLEAN
    BY <1>a, <2>1 DEF TypeOK
  <2> QED
    BY <1>a, <2>1, <2>2, <2>3, <2>4 DEF TypeOK, tables, program, grower
<1>4. CASE NoTable
  <2>1. /\ faults # <<>> /\ Leave
        /\ UNCHANGED <<halted, allocator, tables, program, grower, history>>
    BY <1>4 DEF NoTable, Handling
  <2>2. faults' \in Seq(HandlerRecord)
    BY <1>a, <2>1, FaultLeft
  <2> QED
    BY <1>a, <2>1, <2>2 DEF TypeOK, allocator, tables, program, grower, history
<1>5. CASE ZeroTable
  <2> DEFINE r == Top
             d == r.page \div PerTable
             g == Translate(r.table)
  <2>1. /\ faults # <<>> /\ r \in HandlerRecord /\ d \in DirIndex
        /\ r.table \in Frame /\ g \in Frame
        /\ content' = [content EXCEPT ![g] = Empty]
        /\ directory' = [directory EXCEPT ![d] = r.table]
        /\ Step([r EXCEPT !.at = "write"])
        /\ stray' = (stray \/ g # r.table)
        /\ UNCHANGED <<halted, overlap, allocator, program, grower>>
    BY <1>5, ZeroFacts
  <2> HIDE DEF r, d, g
  <2>2. faults' \in Seq(HandlerRecord)
    <3>1. [r EXCEPT !.at = "write"] \in HandlerRecord
      BY <2>1 DEF HandlerRecord
    <3> QED
      BY <1>a, <2>1, <3>1, FaultStepped
  <2>3. content' \in [Frame -> [Slot -> Frame \cup {None}]]
    BY <1>a, <2>1 DEF TypeOK, Empty
  <2>4. directory' \in [DirIndex -> Frame \cup {None}]
    BY <1>a, <2>1 DEF TypeOK
  <2> QED
    BY <1>a, <2>1, <2>2, <2>3, <2>4 DEF TypeOK, allocator, program, grower
<1>6. CASE TablePresent
  <2>1. /\ faults # <<>> /\ Step([Top EXCEPT !.at = "write"])
        /\ UNCHANGED <<halted, allocator, tables, program, grower, history>>
    BY <1>6 DEF TablePresent, Handling
  <2>2. Top \in HandlerRecord
    BY <2>1, TopKnows
  <2>3. [Top EXCEPT !.at = "write"] \in HandlerRecord
    BY <2>2 DEF HandlerRecord
  <2>4. faults' \in Seq(HandlerRecord)
    BY <1>a, <2>1, <2>3, FaultStepped
  <2> QED
    BY <1>a, <2>1, <2>4 DEF TypeOK, allocator, tables, program, grower, history
<1>7. CASE WriteEntry
  <2> DEFINE r == Top
             t == TableOf(r.page)
             g == Translate(t)
  <2>1. /\ faults # <<>> /\ r.page \in Page /\ r.data \in Frame /\ g \in Frame
        /\ content' = [content EXCEPT ![g][r.page % PerTable] = r.data]
        /\ Leave /\ stray' = (stray \/ g # t)
        /\ UNCHANGED <<directory, halted, overlap, allocator, program, grower>>
    BY <1>7, WriteFacts
  <2> HIDE DEF r, t, g
  <2>2. faults' \in Seq(HandlerRecord)
    BY <1>a, <2>1, FaultLeft
  <2>3. r.page % PerTable \in Slot
    BY <2>1, PagePlace
  <2>4. content' \in [Frame -> [Slot -> Frame \cup {None}]]
    BY <1>a, <2>1, <2>3 DEF TypeOK
  <2> QED
    BY <1>a, <2>1, <2>2, <2>4 DEF TypeOK, allocator, program, grower
<1>8. CASE GrowTake
  <2>1. /\ kernel.at = "take" /\ bitmap' = bitmap \cup {kernel.frame}
        /\ count' = count + 1 /\ heap' = heap \cup {kernel.frame}
        /\ kernel' = [kernel EXCEPT !.at = "header"]
        /\ UNCHANGED <<faults, halted, tables, program, history>>
    BY <1>8 DEF GrowTake, Mark
  <2>2. kernel.frame \in Frame /\ count' \in 0 .. Frames + 1
    BY <1>a, <2>1, UserMemoryConstants DEF GrowerKnown, CountFits, TypeOK
  <2>3. kernel' \in [at : {"idle", "take", "header"}, frame : Frame \cup {None}]
    BY <1>a, <2>1 DEF TypeOK
  <2> QED
    BY <1>a, <2>1, <2>2, <2>3 DEF TypeOK, tables, program, history
<1> QED
  BY <1>1, <1>2, <1>3, <1>4, <1>5, <1>6, <1>7, <1>8, NextIs
-----------------------------------------------------------------------------
(* The frames in use, step by step.                                        *)

LEMMA SameUsers ==
    ASSUME \A p \in Page : Translate(p)' = Translate(p)
    PROVE  UserPages' = UserPages /\ UserFrames' = UserFrames
<1>1. \A p \in Page : Mapped(p)' <=> Mapped(p)
  BY DEF Mapped
<1>2. UserPages' = UserPages
  BY <1>1 DEF UserPages
<1>3. UserPages \subseteq Page
  BY DEF UserPages
<1>4. UserFrames' = UserFrames
  BY <1>2, <1>3 DEF UserFrames
<1> QED
  BY <1>2, <1>4

LEMMA SameTables ==
    ASSUME UNCHANGED tables
    PROVE  /\ Tables' = Tables /\ UserPages' = UserPages /\ UserFrames' = UserFrames
           /\ \A p \in Page : Translate(p)' = Translate(p) /\ TableOf(p)' = TableOf(p)
<1>1. \A p \in Page : Translate(p)' = Translate(p) /\ TableOf(p)' = TableOf(p)
  BY DEF tables, Translate, TableOf
<1> QED
  BY <1>1, SameUsers DEF tables, Tables

\* The pages and frames of the program change only when an entry is written.
LEMMA UsersStep ==
    ASSUME MemoryInv, [Next]_vars
    PROVE  IF WriteEntry /\ TableOf(Top.page) < Ident
           THEN /\ UserPages' = UserPages \cup {Top.page}
                /\ UserFrames' = UserFrames \cup {Top.data}
           ELSE /\ UserPages' = UserPages /\ UserFrames' = UserFrames
                /\ \A p \in Page : Translate(p)' = Translate(p)
<1>1. CASE WriteEntry
  <2> DEFINE q == Top.page
             f == Top.data
  <2>1. /\ q \in Page /\ HandlerKnows(Top) /\ f \in Frame
    BY <1>1, WriteFacts
  <2>2. q \notin UserPages /\ q >= Ident /\ f # None
    BY <2>1, FrameIsPage DEF HandlerKnows, UserPages
  <2>3. \A p \in Page : Translate(p)' = IF p = q /\ TableOf(p) < Ident THEN f
                                        ELSE Translate(p)
    BY <1>1, WriteMapsThePage
  <2> HIDE DEF q, f
  <2>4. CASE TableOf(q) < Ident
    <3>1. \A p \in Page : Translate(p)' = IF p = q THEN f ELSE Translate(p)
      BY <2>3, <2>4
    <3>2. \A p \in Page : Mapped(p)' <=> (p = q \/ Mapped(p))
      BY <2>2, <3>1 DEF Mapped
    <3>3. UserPages' = UserPages \cup {q}
      BY <2>1, <2>2, <3>2 DEF UserPages
    <3>4. UserPages \subseteq Page
      BY DEF UserPages
    <3>5. UserFrames' = {Translate(p)' : p \in UserPages'}
      BY DEF UserFrames
    <3>6. UserFrames' = UserFrames \cup {f}
      BY <2>1, <2>2, <3>1, <3>3, <3>4, <3>5 DEF UserFrames
    <3> QED
      BY <1>1, <2>4, <3>3, <3>6 DEF q, f
  <2>5. CASE ~ (TableOf(q) < Ident)
    <3>1. \A p \in Page : Translate(p)' = Translate(p)
      BY <2>3, <2>5
    <3> QED
      BY <2>5, <3>1, SameUsers DEF q
  <2> QED
    BY <2>4, <2>5
<1>2. CASE ~ WriteEntry
  <2>1. \A p \in Page : Translate(p)' = Translate(p)
    <3>1. CASE ZeroTable
      BY <3>1, ZeroMapsNothing
    <3>2. CASE Quiet
      BY <3>2, QuietFacts, SameTables
    <3>3. CASE Fault
      BY <3>3, FaultFacts, SameTables DEF Fault
    <3>4. CASE TakeData \/ TakeTable \/ NoTable \/ TablePresent \/ GrowTake
      BY <3>4, SameTables DEF TakeData, TakeTable, NoTable, TablePresent, GrowTake
    <3> QED
      BY <1>2, <3>1, <3>2, <3>3, <3>4, NextIs
  <2> QED
    BY <1>2, <2>1, SameUsers
<1> QED
  BY <1>1, <1>2

\* What a new handler, a step of the latest and its end do to the frames in hand.
LEMMA HandPushed ==
    ASSUME TypeOK, NEW r \in HandlerRecord, r.at = "enter", r.data = None,
           faults' = Append(faults, r)
    PROVE  HandTables' = HandTables /\ HandData' = HandData
<1> DEFINE n == Len(faults)
<1>1. /\ n \in Nat /\ Len(faults') = n + 1 /\ faults'[n + 1] = r
      /\ \A i \in 1 .. n : faults'[i] = faults[i]
  BY FaultPushed, FaultsAre
<1> HIDE DEF n
<1>2. 1 .. n + 1 = (1 .. n) \cup {n + 1}
  BY <1>1
<1>3. \A i \in 1 .. n : i \in 1 .. n + 1
  BY <1>1
<1>4. HandTables = {faults[i].table : i \in {j \in 1 .. n : faults[j].at = "zero"}}
  BY DEF HandTables, n
<1>5. HandTables' = {faults'[i].table : i \in {j \in 1 .. n + 1 : faults'[j].at = "zero"}}
  BY <1>1 DEF HandTables
<1>6. HandTables' = HandTables
  <2>1. {j \in 1 .. n + 1 : faults'[j].at = "zero"} = {j \in 1 .. n : faults[j].at = "zero"}
    BY <1>1, <1>2
  <2> QED
    BY <1>1, <1>4, <1>5, <2>1
<1>7. HandData = {faults[i].data : i \in 1 .. n} \ {None}
  BY DEF HandData, n
<1>8. HandData' = {faults'[i].data : i \in 1 .. n + 1} \ {None}
  BY <1>1 DEF HandData
<1>9. HandData' = HandData
  BY <1>1, <1>2, <1>7, <1>8
<1> QED
  BY <1>6, <1>9

LEMMA HandStepped ==
    ASSUME TypeOK, faults # <<>>, NEW r \in HandlerRecord, Step(r)
    PROVE  /\ r.data = Top.data => HandData' = HandData
           /\ Top.data = None /\ r.data # None => HandData' = HandData \cup {r.data}
           /\ Top.at # "zero" /\ r.at # "zero" => HandTables' = HandTables
           /\ Top.at # "zero" /\ r.at = "zero" => HandTables' = HandTables \cup {r.table}
<1> DEFINE n == Len(faults)
<1>1. /\ n \in Nat \ {0} /\ n \in 1 .. n /\ Len(faults') = n /\ faults[n] = Top
      /\ faults'[n] = r
      /\ \A i \in 1 .. n : faults'[i] = IF i = n THEN r ELSE faults[i]
  BY FaultStepped, FaultsAre
<1> HIDE DEF n
<1>2. /\ HandTables = {faults[i].table : i \in {j \in 1 .. n : faults[j].at = "zero"}}
      /\ HandData = {faults[i].data : i \in 1 .. n} \ {None}
  BY DEF HandTables, HandData, n
<1>3. /\ HandTables' = {faults'[i].table : i \in {j \in 1 .. n : faults'[j].at = "zero"}}
      /\ HandData' = {faults'[i].data : i \in 1 .. n} \ {None}
  BY <1>1 DEF HandTables, HandData
<1>4. ASSUME r.data = Top.data PROVE HandData' = HandData
  <2>1. \A i \in 1 .. n : faults'[i].data = faults[i].data
    BY <1>1, <1>4
  <2> QED
    BY <1>2, <1>3, <2>1
<1>5. ASSUME Top.data = None, r.data # None PROVE HandData' = HandData \cup {r.data}
  BY <1>1, <1>2, <1>3, <1>5
<1>6. ASSUME Top.at # "zero", r.at # "zero" PROVE HandTables' = HandTables
  <2>1. {j \in 1 .. n : faults'[j].at = "zero"} = {j \in 1 .. n : faults[j].at = "zero"}
    BY <1>1, <1>6
  <2>2. \A i \in {j \in 1 .. n : faults[j].at = "zero"} : faults'[i].table = faults[i].table
    BY <1>1, <1>6
  <2> QED
    BY <1>2, <1>3, <2>1, <2>2
<1>7. ASSUME Top.at # "zero", r.at = "zero" PROVE HandTables' = HandTables \cup {r.table}
  <2>1. {j \in 1 .. n : faults'[j].at = "zero"}
            = {j \in 1 .. n : faults[j].at = "zero"} \cup {n}
    BY <1>1, <1>7
  <2>2. \A i \in {j \in 1 .. n : faults[j].at = "zero"} : faults'[i].table = faults[i].table
    BY <1>1, <1>7
  <2> QED
    BY <1>1, <1>2, <1>3, <2>1, <2>2
<1> QED
  BY <1>4, <1>5, <1>6, <1>7
LEMMA HandZeroed ==
    ASSUME TypeOK, FramesApart, faults # <<>>, Top.at = "zero",
           NEW r \in HandlerRecord, r.at # "zero", Step(r)
    PROVE  HandTables' = HandTables \ {Top.table}
<1> DEFINE n == Len(faults)
<1>1. /\ n \in Nat \ {0} /\ n \in 1 .. n /\ Len(faults') = n /\ faults[n] = Top
      /\ \A i \in 1 .. n : faults'[i] = IF i = n THEN r ELSE faults[i]
      /\ \A i, j \in 1 .. n :
            i # j /\ faults[i].at = "zero" /\ faults[j].at = "zero" =>
                faults[i].table # faults[j].table
  BY FaultStepped, FaultsAre DEF FramesApart
<1> HIDE DEF n
<1>2. HandTables = {faults[i].table : i \in {j \in 1 .. n : faults[j].at = "zero"}}
  BY DEF HandTables, n
<1>3. HandTables' = {faults'[i].table : i \in {j \in 1 .. n : faults'[j].at = "zero"}}
  BY <1>1 DEF HandTables
<1>4. {j \in 1 .. n : faults'[j].at = "zero"}
          = {j \in 1 .. n : faults[j].at = "zero"} \ {n}
  BY <1>1
<1>5. \A i \in {j \in 1 .. n : faults[j].at = "zero"} \ {n} :
          faults'[i].table = faults[i].table /\ faults[i].table # Top.table
  BY <1>1
<1> QED
  BY <1>1, <1>2, <1>3, <1>4, <1>5

LEMMA HandLeft ==
    ASSUME TypeOK, FramesApart, faults # <<>>, Top.at # "zero", Leave
    PROVE  HandTables' = HandTables /\ HandData' = HandData \ {Top.data}
<1> DEFINE n == Len(faults)
<1>1. /\ n \in Nat \ {0} /\ n \in 1 .. n /\ Len(faults') = n - 1 /\ faults[n] = Top
      /\ \A i \in 1 .. n - 1 : faults'[i] = faults[i]
      /\ \A i, j \in 1 .. n :
            i # j /\ faults[i].data # None => faults[i].data # faults[j].data
  BY FaultLeft, FaultsAre DEF FramesApart
<1> HIDE DEF n
<1>2. 1 .. n = (1 .. n - 1) \cup {n} /\ n \notin 1 .. n - 1
  BY <1>1
<1>3. HandTables = {faults[i].table : i \in {j \in 1 .. n : faults[j].at = "zero"}}
  BY DEF HandTables, n
<1>4. HandTables' = {faults'[i].table : i \in {j \in 1 .. n - 1 : faults'[j].at = "zero"}}
  BY <1>1 DEF HandTables
<1>5. {j \in 1 .. n - 1 : faults'[j].at = "zero"} = {j \in 1 .. n : faults[j].at = "zero"}
  BY <1>1, <1>2
<1>6. HandTables' = HandTables
  BY <1>1, <1>2, <1>3, <1>4, <1>5
<1>7. HandData = {faults[i].data : i \in 1 .. n} \ {None}
  BY DEF HandData, n
<1>8. HandData' = {faults[i].data : i \in 1 .. n - 1} \ {None}
  BY <1>1 DEF HandData
<1>9. ASSUME NEW i \in 1 .. n - 1, faults[i].data # None
      PROVE  faults[i].data # Top.data
  BY <1>1, <1>2, <1>9
<1>10. HandData' = HandData \ {Top.data}
  BY <1>1, <1>2, <1>7, <1>8, <1>9
<1> QED
  BY <1>6, <1>10

\* A handler that interrupted another takes its tables from beyond the identity
\* map: the frame the other waits for is one, and no nearer one is left.
LEMMA NestedIsFar ==
    ASSUME MemoryInv, Len(faults) > 1, FreeFrames # {}
    PROVE  FirstFree >= Ident
<1>a. TypeOK /\ HandlersKnow /\ NearFirst
  BY DEF MemoryInv
<1> DEFINE w == faults[1]
<1>1. Len(faults) \in Nat /\ 1 \in 1 .. Len(faults) /\ 1 < Len(faults)
  BY <1>a, FaultsAre
<1>2. HandlerWaits(w) /\ HandlerKnows(w) /\ w \in HandlerRecord
  BY <1>1, <1>a, FaultsAre DEF HandlersKnow
<1>3. w.page \div PerTable \in DirIndex
  BY <1>2, PagePlace DEF HandlerRecord
<1>4. TargetOf(w) \in Tables \cup HandTables /\ TargetOf(w) >= Ident
  <2>1. CASE w.at = "zero"
    BY <1>1, <1>2, <2>1 DEF HandlerWaits, TargetOf, HandTables
  <2>2. CASE w.at = "write"
    <3>1. TableOf(w.page) # None /\ TargetOf(w) = TableOf(w.page)
      BY <1>2, <2>2 DEF HandlerKnows, TargetOf
    <3>2. TableOf(w.page) \in Tables
      BY <1>3, <3>1 DEF TableOf, Tables
    <3> QED
      BY <1>2, <3>1, <3>2 DEF HandlerWaits
  <2> QED
    BY <1>2, <2>1, <2>2 DEF HandlerWaits
<1>5. \A f \in Frame : f < Ident => f \in bitmap
  BY <1>4, <1>a DEF NearFirst
<1>6. FirstFree \in Frame /\ FirstFree \notin bitmap
  BY FirstFreeIs
<1>7. FirstFree \in Nat /\ Ident \in Nat
  BY <1>6, FrameIsPage, UserMemoryConstants
<1> QED
  BY <1>5, <1>6, <1>7

-----------------------------------------------------------------------------
(* Each part of the invariant is kept.                                     *)

LEMMA CountStep == MemoryInv /\ [Next]_vars => CountFits'
<1> SUFFICES ASSUME MemoryInv, [Next]_vars PROVE CountFits'
  OBVIOUS
<1>a. TypeOK /\ CountFits /\ Frames \in Nat /\ count \in Nat
  BY UserMemoryConstants DEF MemoryInv, TypeOK
<1>1. CASE Quiet
  <2>1. /\ count' = count
        /\ \/ UNCHANGED kernel \/ kernel' = Idle
           \/ FreeFrames # {}
    BY <1>1, QuietFacts DEF allocator
  <2>2. FreeFrames # {} => ~ (count >= Frames)
    BY FirstFreeIs
  <2> QED
    BY <1>a, <2>1, <2>2 DEF CountFits, Idle
<1>2. CASE Fault
  <2>1. UNCHANGED <<count, kernel>>
    BY <1>2, FaultFacts DEF Fault, allocator, grower
  <2> QED
    BY <1>a, <2>1 DEF CountFits
<1>3. CASE TakeData \/ TakeTable
  <2>1. count \in 0 .. Frames - 1 /\ count' = count + 1
    BY <1>3, TakeFacts
  <2> QED
    BY <1>a, <2>1 DEF CountFits
<1>4. CASE NoTable \/ ZeroTable \/ TablePresent \/ WriteEntry
  <2>1. UNCHANGED <<count, kernel>>
    BY <1>4 DEF NoTable, ZeroTable, TablePresent, WriteEntry, allocator, grower
  <2> QED
    BY <1>a, <2>1 DEF CountFits
<1>5. CASE GrowTake
  <2>1. /\ kernel.at = "take" /\ count' = count + 1
        /\ kernel' = [kernel EXCEPT !.at = "header"]
    BY <1>5 DEF GrowTake, Mark
  <2>2. kernel'.at = "header"
    BY <1>a, <2>1 DEF TypeOK
  <2> QED
    BY <1>a, <2>1, <2>2 DEF CountFits
<1> QED
  BY <1>1, <1>2, <1>3, <1>4, <1>5, NextIs

LEMMA GrowerStep == MemoryInv /\ [Next]_vars => GrowerKnown'
<1> SUFFICES ASSUME MemoryInv, [Next]_vars PROVE GrowerKnown'
  OBVIOUS
<1>a. TypeOK /\ GrowerKnown
  BY DEF MemoryInv
<1>1. CASE Quiet
  <2>1. /\ UNCHANGED <<bitmap, heap, overlap>>
        /\ \/ UNCHANGED kernel \/ kernel' = Idle
           \/ kernel' = [at |-> "take", frame |-> FirstFree] /\ FreeFrames # {}
    BY <1>1, QuietFacts DEF allocator
  <2>2. FreeFrames # {} => FirstFree \in Frame /\ FirstFree \notin bitmap
    BY FirstFreeIs
  <2> QED
    BY <1>a, <2>1, <2>2 DEF GrowerKnown, Idle
<1>2. CASE Fault
  <2>1. UNCHANGED <<bitmap, kernel, heap, overlap>>
    BY <1>2, FaultFacts DEF Fault, allocator, grower, history
  <2> QED
    BY <1>a, <2>1 DEF GrowerKnown
<1>3. CASE TakeData \/ TakeTable
  <2>1. UNCHANGED <<kernel, heap>> /\ overlap' = (overlap \/ kernel.at = "take")
    BY <1>3, TakeFacts DEF grower
  <2> QED
    BY <1>a, <2>1 DEF GrowerKnown
<1>4. CASE NoTable \/ ZeroTable \/ TablePresent \/ WriteEntry
  <2>1. UNCHANGED <<bitmap, kernel, heap, overlap>>
    BY <1>4 DEF NoTable, ZeroTable, TablePresent, WriteEntry, allocator, grower, history
  <2> QED
    BY <1>a, <2>1 DEF GrowerKnown
<1>5. CASE GrowTake
  <2>1. /\ kernel.at = "take" /\ heap' = heap \cup {kernel.frame}
        /\ kernel' = [kernel EXCEPT !.at = "header"]
    BY <1>5 DEF GrowTake
  <2>2. kernel'.at = "header" /\ kernel'.frame = kernel.frame
    BY <1>a, <2>1 DEF TypeOK
  <2> QED
    BY <1>a, <2>1, <2>2 DEF GrowerKnown
<1> QED
  BY <1>1, <1>2, <1>3, <1>4, <1>5, NextIs

LEMMA CauseStep == MemoryInv /\ [Next]_vars => FirstCause'
<1> SUFFICES ASSUME MemoryInv, [Next]_vars PROVE FirstCause'
  OBVIOUS
<1>a. TypeOK /\ FirstCause
  BY DEF MemoryInv
<1>b. \A a \in Touched : a # None
  BY TouchedAddress
<1>c. faults # <<>> => 1 \in 1 .. Len(faults) /\ Len(faults) \in Nat
  BY <1>a, FaultsAre
<1>1. CASE Quiet
  <2>1. /\ UNCHANGED faults /\ access' \in {access, None} /\ brk' <= highest'
        /\ faults # <<>> => UNCHANGED <<kernel, access>>
    BY <1>1, QuietFacts
  <2> QED
    BY <1>a, <2>1 DEF FirstCause
<1>2. CASE Fault
  <2>1. PICK a \in Addr :
              /\ FaultAt(a) /\ PageOf(a) \in Page
              /\ UNCHANGED <<brk, highest, kernel>>
              /\ faults # <<>> => UNCHANGED access
              /\ faults = <<>> =>
                    \/ access' \in Touched /\ access' = a
                    \/ kernel.at = "header" /\ kernel.frame >= Ident /\ UNCHANGED access
    BY <1>2, FaultFacts DEF Fault, grower
  <2> DEFINE r == [addr |-> a, page |-> PageOf(a), at |-> "enter", data |-> None,
                   table |-> None]
  <2>2. r \in HandlerRecord /\ faults' = Append(faults, r) /\ r.addr = a
    BY <2>1, FaultRecord DEF FaultAt
  <2> HIDE DEF r
  <2>3. /\ faults # <<>> => faults'[1] = faults[1]
        /\ faults = <<>> => faults'[1] = r
    BY <1>a, <1>c, <2>2, FaultPushed, FaultsAre
  <2> QED
    BY <1>a, <1>b, <2>1, <2>2, <2>3 DEF FirstCause
<1>3. CASE TakeData \/ TakeTable \/ ZeroTable \/ TablePresent
  <2>1. faults # <<>> /\ UNCHANGED <<brk, highest, access, kernel>>
    BY <1>3 DEF TakeData, TakeTable, ZeroTable, TablePresent, Handling, program, grower
  <2>2. PICK r \in HandlerRecord : Step(r) /\ r.addr = Top.addr
    <3>1. Top \in HandlerRecord
      BY <2>1, TopKnows
    <3>2. CASE TakeData \/ TakeTable
      <4>1. FirstFree \in Frame
        BY <3>2, TakeFacts
      <4> DEFINE q == [Top EXCEPT !.at = "map", !.data = FirstFree]
                 z == [Top EXCEPT !.at = "zero", !.table = FirstFree]
      <4>2. /\ q \in HandlerRecord /\ q.addr = Top.addr
            /\ z \in HandlerRecord /\ z.addr = Top.addr
        BY <3>1, <4>1 DEF HandlerRecord
      <4>3. Step(q) \/ Step(z)
        BY <3>2, TakeFacts
      <4> HIDE DEF q, z
      <4> QED
        BY <4>2, <4>3
    <3>3. CASE ZeroTable \/ TablePresent
      <4> DEFINE q == [Top EXCEPT !.at = "write"]
      <4>1. q \in HandlerRecord /\ q.addr = Top.addr
        BY <3>1 DEF HandlerRecord
      <4>2. Step(q)
        BY <3>3 DEF ZeroTable, TablePresent
      <4> HIDE DEF q
      <4> QED
        BY <4>1, <4>2
    <3> QED
      BY <1>3, <3>2, <3>3
  <2>3. faults' # <<>> /\ faults'[1].addr = faults[1].addr
    BY <1>a, <1>c, <2>1, <2>2, FaultStepped, FaultsAre DEF Top
  <2> QED
    BY <1>a, <2>1, <2>3 DEF FirstCause
<1>4. CASE NoTable \/ WriteEntry
  <2>1. faults # <<>> /\ Leave /\ UNCHANGED <<brk, highest, access, kernel>>
    BY <1>4 DEF NoTable, WriteEntry, Handling, program, grower
  <2>2. faults' # <<>> => faults'[1] = faults[1]
    BY <1>a, <1>c, <2>1, FaultLeft
  <2> QED
    BY <1>a, <2>1, <2>2 DEF FirstCause
<1>5. CASE GrowTake
  <2>1. faults = <<>> /\ UNCHANGED <<faults, brk, highest, access>>
    BY <1>5 DEF GrowTake, Running, program
  <2> QED
    BY <1>a, <2>1 DEF FirstCause
<1> QED
  BY <1>1, <1>2, <1>3, <1>4, <1>5, NextIs
\* The handlers keep what they know if each of them does.
LEMMA AllKnow ==
    ASSUME \A i \in 1 .. Len(faults') : \E r \in HandlerRecord :
               /\ r = faults'[i] /\ HandlerKnows(r)'
               /\ i < Len(faults') => HandlerWaits(r)'
               /\ i > 1 /\ r.at = "zero" => r.table >= Ident
    PROVE  HandlersKnow'
BY DEF HandlersKnow, HandlerKnows, HandlerWaits, TargetOf, TableOf, FarOrNone,
       Mapped, Translate

\* A handler knows what it knew while the tables stay and the break that was
\* highest is not lowered.
LEMMA KnowsSame ==
    ASSUME TypeOK, TypeOK', NEW r \in HandlerRecord, HandlerKnows(r),
           UNCHANGED tables, highest' >= highest
    PROVE  HandlerKnows(r)' /\ (HandlerWaits(r) => HandlerWaits(r)')
<1>1. r.page \in Page /\ r.addr \in Addr
  BY DEF HandlerRecord
<1>2. (Mapped(r.page)' <=> Mapped(r.page)) /\ TableOf(r.page)' = TableOf(r.page)
  BY <1>1, SameTables DEF Mapped
<1>3. r.addr < highest => r.addr < highest'
  <2>1. r.addr \in Int /\ highest \in Int /\ highest' \in Int
    BY <1>1, UserMemoryConstants DEF Addr, TypeOK
  <2> QED
    BY <2>1
<1> QED
  BY <1>2, <1>3 DEF HandlerKnows, HandlerWaits, TargetOf

LEMMA HandlersStep == MemoryInv /\ [Next]_vars => HandlersKnow'
<1> SUFFICES ASSUME MemoryInv, [Next]_vars PROVE HandlersKnow'
  OBVIOUS
<1> DEFINE n == Len(faults)
<1>a. TypeOK /\ TypeOK' /\ FirstCause
  BY MemoryTypes DEF MemoryInv
<1>b. \A i \in 1 .. n :
          /\ HandlerKnows(faults[i]) /\ (i < n => HandlerWaits(faults[i]))
          /\ i > 1 /\ faults[i].at = "zero" => faults[i].table >= Ident
  BY DEF MemoryInv, HandlersKnow
<1>c. /\ n \in Nat /\ (faults = <<>> <=> n = 0)
      /\ \A i \in 1 .. n : faults[i] \in HandlerRecord
      /\ faults # <<>> => Top \in HandlerRecord /\ Top = faults[n] /\ n \in 1 .. n
                          /\ HandlerKnows(Top)
  BY <1>a, <1>b, FaultsAre
<1>d. highest \in Int /\ highest' \in Int
  BY <1>a, UserMemoryConstants DEF TypeOK
<1> HIDE DEF n
<1>1. CASE Quiet
  <2>1. UNCHANGED <<tables, faults>> /\ highest' >= highest
    BY <1>1, QuietFacts
  <2>2. Len(faults') = n
    BY <2>1 DEF n
  <2> QED
    BY <1>a, <1>b, <1>c, <2>1, <2>2, KnowsSame, AllKnow
<1>2. CASE Fault
  <2>1. PICK a \in Addr :
              /\ FaultAt(a) /\ PageOf(a) \in Page /\ PageOf(a) >= Ident
              /\ ~ Mapped(PageOf(a)) /\ UNCHANGED <<tables, highest>>
              /\ faults # <<>> => HandlerWaits(Top)
    BY <1>2, FaultFacts DEF Fault
  <2> DEFINE q == [addr |-> a, page |-> PageOf(a), at |-> "enter", data |-> None,
                   table |-> None]
  <2>2. /\ q \in HandlerRecord /\ faults' = Append(faults, q) /\ q.at = "enter"
        /\ HandlerKnows(q)
    BY <2>1, FaultRecord DEF FaultAt, HandlerKnows
  <2> HIDE DEF q
  <2>3. /\ Len(faults') = n + 1 /\ faults'[n + 1] = q
        /\ \A i \in 1 .. n : faults'[i] = faults[i]
    BY <1>a, <2>2, FaultPushed DEF n
  <2>4. HandlerKnows(q)'
    BY <1>a, <1>d, <2>1, <2>2, KnowsSame
  <2>5. ASSUME NEW i \in 1 .. n
        PROVE  /\ faults[i] \in HandlerRecord /\ faults[i] = faults'[i]
               /\ HandlerKnows(faults[i]) /\ HandlerWaits(faults[i])
    BY <1>b, <1>c, <2>1, <2>3
  <2>6. ASSUME NEW i \in 1 .. n + 1
        PROVE  \E r \in HandlerRecord :
                   /\ r = faults'[i] /\ HandlerKnows(r)'
                   /\ i < n + 1 => HandlerWaits(r)'
                   /\ i > 1 /\ r.at = "zero" => r.table >= Ident
    <3>1. CASE i = n + 1
      BY <1>c, <2>2, <2>3, <2>4, <3>1
    <3>2. CASE i \in 1 .. n
      <4>1. PICK r \in HandlerRecord : r = faults[i]
        BY <1>c, <3>2
      <4>2. HandlerKnows(r)' /\ HandlerWaits(r)'
        BY <1>a, <1>d, <2>1, <2>5, <3>2, <4>1, KnowsSame
      <4> QED
        BY <1>b, <2>5, <3>2, <4>1, <4>2
    <3> QED
      BY <1>c, <3>1, <3>2
  <2> QED
    BY <2>3, <2>6, AllKnow
<1>3. CASE TakeData \/ TakeTable
  <2> DEFINE t == Top
             f == FirstFree
  <2>1. /\ faults # <<>> /\ t \in HandlerRecord /\ HandlerKnows(t)
        /\ f \in Frame /\ f # None
        /\ \/ /\ t.at = "enter" /\ t.data = None
              /\ BrkStart * PageSize <= t.addr /\ t.addr < brk
              /\ Step([t EXCEPT !.at = "map", !.data = f])
           \/ /\ t.at = "map" /\ TableOf(t.page) = None
              /\ Step([t EXCEPT !.at = "zero", !.table = f])
        /\ UNCHANGED <<tables, highest>>
    BY <1>3, TakeFacts DEF program
  <2>2. n > 1 => f >= Ident
    BY <1>3, NestedIsFar DEF n, TakeData, TakeTable
  <2>3. t.addr < brk => t.addr < highest
    <3>1. t.addr \in Int /\ brk \in Int /\ brk <= highest
      BY <1>a, <2>1, UserMemoryConstants DEF HandlerRecord, Addr, TypeOK, FirstCause
    <3> QED
      BY <1>d, <3>1
  <2> HIDE DEF t, f
  <2>4. PICK r \in HandlerRecord : /\ Step(r) /\ HandlerKnows(r)
                                   /\ n > 1 /\ r.at = "zero" => r.table >= Ident
    <3>1. CASE t.at = "enter"
      <4> DEFINE r == [t EXCEPT !.at = "map", !.data = f]
      <4>1. /\ r \in HandlerRecord /\ r.at = "map" /\ r.data = f /\ r.addr = t.addr
            /\ r.page = t.page
        BY <2>1 DEF HandlerRecord
      <4>2. Step(r) /\ t.addr < brk /\ BrkStart * PageSize <= t.addr
        BY <2>1, <3>1
      <4> HIDE DEF r
      <4>3. HandlerKnows(r)
        BY <2>1, <2>3, <4>1, <4>2 DEF HandlerKnows
      <4> QED
        BY <4>1, <4>2, <4>3
    <3>2. CASE t.at = "map"
      <4> DEFINE r == [t EXCEPT !.at = "zero", !.table = f]
      <4>1. /\ r \in HandlerRecord /\ r.at = "zero" /\ r.table = f /\ r.addr = t.addr
            /\ r.page = t.page /\ r.data = t.data
        BY <2>1 DEF HandlerRecord
      <4>2. Step(r) /\ TableOf(t.page) = None
        BY <2>1, <3>2
      <4> HIDE DEF r
      <4>3. HandlerKnows(r)
        BY <2>1, <3>2, <4>1, <4>2 DEF HandlerKnows
      <4> QED
        BY <2>2, <4>1, <4>2, <4>3
    <3> QED
      BY <2>1, <3>1, <3>2
  <2>5. /\ Len(faults') = n
        /\ \A i \in 1 .. n : faults'[i] = IF i = n THEN r ELSE faults[i]
    BY <1>a, <2>1, <2>4, FaultStepped DEF n
  <2>6. ASSUME NEW i \in 1 .. n
        PROVE  \E s \in HandlerRecord :
                   /\ s = faults'[i] /\ HandlerKnows(s)'
                   /\ i < n => HandlerWaits(s)'
                   /\ i > 1 /\ s.at = "zero" => s.table >= Ident
    <3>1. CASE i = n
      <4>1. HandlerKnows(r)'
        BY <1>a, <1>d, <2>1, <2>4, KnowsSame
      <4> QED
        BY <1>c, <2>4, <2>5, <3>1, <4>1
    <3>2. CASE i # n
      <4>1. PICK s \in HandlerRecord : s = faults[i]
        BY <1>c
      <4>2. i < n /\ HandlerKnows(s) /\ HandlerWaits(s)
        BY <1>b, <1>c, <3>2, <4>1
      <4>3. HandlerKnows(s)' /\ HandlerWaits(s)'
        BY <1>a, <1>d, <2>1, <4>1, <4>2, KnowsSame
      <4> QED
        BY <1>b, <2>5, <3>2, <4>1, <4>3
    <3> QED
      BY <3>1, <3>2
  <2> QED
    BY <2>5, <2>6, AllKnow
<1>4. CASE NoTable
  <2>1. faults # <<>> /\ Leave /\ UNCHANGED <<tables, highest>>
    BY <1>4 DEF NoTable, Handling, program
  <2>2. Len(faults') = n - 1 /\ \A i \in 1 .. n - 1 : faults'[i] = faults[i]
    BY <1>a, <2>1, FaultLeft DEF n
  <2>3. ASSUME NEW i \in 1 .. n - 1
        PROVE  \E s \in HandlerRecord :
                   /\ s = faults'[i] /\ HandlerKnows(s)'
                   /\ i < n - 1 => HandlerWaits(s)'
                   /\ i > 1 /\ s.at = "zero" => s.table >= Ident
    <3>1. i \in 1 .. n /\ i < n
      BY <1>c
    <3>2. PICK s \in HandlerRecord : s = faults[i]
      BY <1>c, <3>1
    <3>3. HandlerKnows(s)' /\ HandlerWaits(s)'
      BY <1>a, <1>b, <1>d, <2>1, <3>1, <3>2, KnowsSame
    <3> QED
      BY <1>b, <2>2, <3>1, <3>2, <3>3
  <2> QED
    BY <2>2, <2>3, AllKnow
<1>5. CASE ZeroTable
  <2> DEFINE t == Top
             d == t.page \div PerTable
  <2>1. /\ faults # <<>> /\ t.at = "zero" /\ t \in HandlerRecord /\ HandlerKnows(t)
        /\ d \in DirIndex /\ t.table \in Frame
        /\ directory[d] # None => t.table >= Ident
        /\ directory' = [directory EXCEPT ![d] = t.table]
        /\ Step([t EXCEPT !.at = "write"])
        /\ UNCHANGED highest
    BY <1>5, <1>c, ZeroFacts DEF program
  <2>a. t.table # None
    BY <2>1, FrameIsPage
  <2>b. n > 1 => t.table >= Ident
    BY <1>b, <1>c, <2>1
  <2> HIDE DEF t, d
  <2>2. \A p \in Page : (Mapped(p)' <=> Mapped(p))
    BY <1>5, ZeroMapsNothing DEF Mapped
  <2>3. ASSUME NEW p \in Page
        PROVE  /\ p \div PerTable = d => TableOf(p)' = t.table
               /\ p \div PerTable # d => TableOf(p)' = TableOf(p)
    BY <1>a, <2>1, <2>3, PagePlace DEF TableOf, TypeOK
  <2>4. PICK r \in HandlerRecord : Step(r) /\ HandlerKnows(r)' /\ r.at = "write"
    <3>1. PICK r \in HandlerRecord :
              /\ Step(r) /\ r.at = "write" /\ r.data = t.data
              /\ r.addr = t.addr /\ r.page = t.page /\ r.page \in Page
      <4> DEFINE q == [t EXCEPT !.at = "write"]
      <4>1. /\ q \in HandlerRecord /\ q.at = "write" /\ q.data = t.data
            /\ q.addr = t.addr /\ q.page = t.page /\ q.page \in Page
        BY <2>1 DEF HandlerRecord
      <4>2. Step(q)
        BY <2>1
      <4> HIDE DEF q
      <4> QED
        BY <4>1, <4>2
    <3>2. TableOf(r.page)' = t.table
      BY <2>3, <3>1 DEF d
    <3>3. ~ Mapped(r.page)'
      BY <2>1, <2>2, <3>1 DEF HandlerKnows
    <3>4. HandlerKnows(r)'
      BY <2>1, <2>a, <3>1, <3>2, <3>3 DEF HandlerKnows
    <3> QED
      BY <3>1, <3>4
  <2>5. /\ Len(faults') = n
        /\ \A i \in 1 .. n : faults'[i] = IF i = n THEN r ELSE faults[i]
    BY <1>a, <2>1, <2>4, FaultStepped DEF n
  <2>6. ASSUME NEW i \in 1 .. n
        PROVE  \E s \in HandlerRecord :
                   /\ s = faults'[i] /\ HandlerKnows(s)'
                   /\ i < n => HandlerWaits(s)'
                   /\ i > 1 /\ s.at = "zero" => s.table >= Ident
    <3>1. CASE i = n
      BY <1>c, <2>4, <2>5, <3>1
    <3>2. CASE i # n
      <4>1. PICK s \in HandlerRecord : s = faults[i]
        BY <1>c
      <4>2. i < n /\ n > 1 /\ HandlerKnows(s) /\ HandlerWaits(s) /\ s.page \in Page
        BY <1>b, <1>c, <3>2, <4>1 DEF HandlerRecord
      <4>3. \/ TableOf(s.page)' = TableOf(s.page)
            \/ TableOf(s.page)' = t.table /\ t.table # None /\ t.table >= Ident
        BY <2>3, <2>a, <2>b, <4>2
      <4>4. ~ Mapped(s.page)'
        BY <2>2, <4>2 DEF HandlerKnows
      <4>5. HandlerKnows(s)'
        BY <2>1, <4>2, <4>3, <4>4 DEF HandlerKnows, HandlerWaits, TargetOf
      <4>6. HandlerWaits(s)'
        BY <4>2, <4>3 DEF HandlerWaits, TargetOf, FarOrNone
      <4> QED
        BY <1>b, <2>5, <3>2, <4>1, <4>5, <4>6
    <3> QED
      BY <3>1, <3>2
  <2> QED
    BY <2>5, <2>6, AllKnow
<1>6. CASE TablePresent
  <2> DEFINE t == Top
  <2>1. /\ faults # <<>> /\ t.at = "map" /\ TableOf(t.page) # None
        /\ Step([t EXCEPT !.at = "write"]) /\ UNCHANGED <<tables, highest>>
    BY <1>6 DEF TablePresent, Handling, program, TableMissing, TableOf
  <2>2. t \in HandlerRecord /\ HandlerKnows(t)
    BY <1>c, <2>1
  <2> HIDE DEF t
  <2>4. PICK r \in HandlerRecord : Step(r) /\ HandlerKnows(r) /\ r.at = "write"
    <3> DEFINE r == [t EXCEPT !.at = "write"]
    <3>1. /\ r \in HandlerRecord /\ r.at = "write" /\ r.data = t.data
          /\ r.addr = t.addr /\ r.page = t.page
      BY <2>2 DEF HandlerRecord
    <3>2. Step(r)
      BY <2>1
    <3> HIDE DEF r
    <3>3. HandlerKnows(r)
      BY <2>1, <2>2, <3>1 DEF HandlerKnows
    <3> QED
      BY <3>1, <3>2, <3>3
  <2>5. /\ Len(faults') = n
        /\ \A i \in 1 .. n : faults'[i] = IF i = n THEN r ELSE faults[i]
    BY <1>a, <2>1, <2>4, FaultStepped DEF n
  <2>6. ASSUME NEW i \in 1 .. n
        PROVE  \E s \in HandlerRecord :
                   /\ s = faults'[i] /\ HandlerKnows(s)'
                   /\ i < n => HandlerWaits(s)'
                   /\ i > 1 /\ s.at = "zero" => s.table >= Ident
    <3>1. CASE i = n
      <4>1. HandlerKnows(r)'
        BY <1>a, <1>d, <2>1, <2>4, KnowsSame
      <4> QED
        BY <1>c, <2>4, <2>5, <3>1, <4>1
    <3>2. CASE i # n
      <4>1. PICK s \in HandlerRecord : s = faults[i]
        BY <1>c
      <4>2. i < n /\ HandlerKnows(s) /\ HandlerWaits(s)
        BY <1>b, <1>c, <3>2, <4>1
      <4>3. HandlerKnows(s)' /\ HandlerWaits(s)'
        BY <1>a, <1>d, <2>1, <4>1, <4>2, KnowsSame
      <4> QED
        BY <1>b, <2>5, <3>2, <4>1, <4>3
    <3> QED
      BY <3>1, <3>2
  <2> QED
    BY <2>5, <2>6, AllKnow
<1>7. CASE WriteEntry
  <2>1. /\ faults # <<>> /\ Leave /\ UNCHANGED <<directory, highest>>
        /\ Top.page \in Page /\ TableOf(Top.page) \in Frame
    BY <1>7, WriteFacts DEF program
  <2>2. Len(faults') = n - 1 /\ \A i \in 1 .. n - 1 : faults'[i] = faults[i]
    BY <1>a, <2>1, FaultLeft DEF n
  <2>3. ASSUME NEW i \in 1 .. n - 1
        PROVE  \E s \in HandlerRecord :
                   /\ s = faults'[i] /\ HandlerKnows(s)'
                   /\ i < n - 1 => HandlerWaits(s)'
                   /\ i > 1 /\ s.at = "zero" => s.table >= Ident
    <3>1. i \in 1 .. n /\ i < n
      BY <1>c
    <3>2. PICK s \in HandlerRecord : s = faults[i]
      BY <1>c, <3>1
    <3>3. HandlerKnows(s) /\ HandlerWaits(s) /\ s.page \in Page
      BY <1>b, <3>1, <3>2 DEF HandlerRecord
    <3>4. TableOf(s.page)' = TableOf(s.page)
      BY <2>1 DEF TableOf
    <3>5. ~ (s.page = Top.page /\ TableOf(s.page) < Ident)
      <4> SUFFICES ASSUME s.page = Top.page, TableOf(s.page) < Ident PROVE FALSE
        OBVIOUS
      <4>1. TableOf(s.page) \in Nat /\ TableOf(s.page) # None /\ Ident \in Nat
        BY <2>1, FrameIsPage, UserMemoryConstants
      <4> QED
        BY <3>3, <4>1 DEF HandlerWaits, FarOrNone
    <3>6. Translate(s.page)' = Translate(s.page)
      BY <1>7, <3>3, <3>5, WriteMapsThePage
    <3>7. HandlerKnows(s)' /\ HandlerWaits(s)'
      BY <2>1, <3>3, <3>4, <3>6 DEF HandlerKnows, HandlerWaits, TargetOf, Mapped
    <3> QED
      BY <1>b, <2>2, <3>1, <3>2, <3>7
  <2> QED
    BY <2>2, <2>3, AllKnow
<1>8. CASE GrowTake
  <2>1. UNCHANGED <<tables, faults, highest>> /\ n = 0
    BY <1>8, <1>c DEF GrowTake, Running, program
  <2>2. Len(faults') = 0
    BY <2>1 DEF n
  <2> QED
    BY <2>2, AllKnow
<1> QED
  BY <1>1, <1>2, <1>3, <1>4, <1>5, <1>6, <1>7, <1>8, NextIs
\* What each step does to the tables in the directory and in hand, and to the
\* frames of data in hand.
LEMMA TakeHands ==
    ASSUME MemoryInv, TakeData \/ TakeTable, NEW f, f = FirstFree
    PROVE  /\ Tables' = Tables /\ UserFrames' = UserFrames
           /\ f \in Frame /\ f \notin bitmap /\ f # None /\ bitmap' = bitmap \cup {f}
           /\ Len(faults') = Len(faults) /\ Len(faults) \in Nat
           /\ \/ /\ HandData' = HandData \cup {f} /\ HandTables' = HandTables
                 /\ \A i \in 1 .. Len(faults) :
                       /\ faults'[i].table = faults[i].table
                       /\ faults'[i].at = "zero" <=> faults[i].at = "zero"
                       /\ faults'[i].data = IF i = Len(faults) THEN f ELSE faults[i].data
              \/ /\ HandData' = HandData /\ HandTables' = HandTables \cup {f}
                 /\ \A i \in 1 .. Len(faults) :
                       /\ faults'[i].data = faults[i].data
                       /\ i # Len(faults) => faults'[i] = faults[i]
                       /\ i = Len(faults) => faults'[i].at = "zero" /\ faults'[i].table = f
<1> DEFINE t == Top
           n == Len(faults)
<1>a. TypeOK
  BY DEF MemoryInv
<1>1. /\ faults # <<>> /\ t \in HandlerRecord /\ t = faults[n]
      /\ f \in Frame /\ f # None /\ f \notin bitmap /\ bitmap' = bitmap \cup {f}
      /\ \/ /\ t.at = "enter" /\ t.data = None
            /\ Step([t EXCEPT !.at = "map", !.data = f])
         \/ /\ t.at = "map"
            /\ Step([t EXCEPT !.at = "zero", !.table = f])
      /\ UNCHANGED tables
  BY TakeFacts
<1>2. Tables' = Tables /\ UserFrames' = UserFrames
  BY <1>1, SameTables
<1>3. n \in Nat
  BY <1>a, FaultsAre
<1>4. CASE t.at = "enter"
  <2> DEFINE r == [t EXCEPT !.at = "map", !.data = f]
  <2>1. /\ r \in HandlerRecord /\ r.at = "map" /\ r.data = f /\ r.table = t.table
    BY <1>1 DEF HandlerRecord
  <2>2. Step(r) /\ t.data = None
    BY <1>1, <1>4
  <2> HIDE DEF r
  <2>3. HandData' = HandData \cup {f} /\ HandTables' = HandTables
    BY <1>a, <1>1, <1>4, <2>1, <2>2, HandStepped
  <2>4. /\ Len(faults') = n
        /\ \A i \in 1 .. n : faults'[i] = IF i = n THEN r ELSE faults[i]
    BY <1>a, <1>1, <2>1, <2>2, FaultStepped
  <2> QED
    BY <1>1, <1>2, <1>3, <1>4, <2>1, <2>3, <2>4
<1>5. CASE t.at = "map"
  <2> DEFINE r == [t EXCEPT !.at = "zero", !.table = f]
  <2>1. /\ r \in HandlerRecord /\ r.at = "zero" /\ r.table = f /\ r.data = t.data
    BY <1>1 DEF HandlerRecord
  <2>2. Step(r)
    BY <1>1, <1>5
  <2> HIDE DEF r
  <2>3. HandData' = HandData /\ HandTables' = HandTables \cup {f}
    BY <1>a, <1>1, <1>5, <2>1, <2>2, HandStepped
  <2>4. /\ Len(faults') = n
        /\ \A i \in 1 .. n : faults'[i] = IF i = n THEN r ELSE faults[i]
    BY <1>a, <1>1, <2>1, <2>2, FaultStepped
  <2> QED
    BY <1>1, <1>2, <1>3, <1>5, <2>1, <2>3, <2>4
<1> QED
  BY <1>1, <1>4, <1>5

LEMMA ZeroHands ==
    ASSUME MemoryInv, ZeroTable, NEW f, f = Top.table
    PROVE  /\ f \in Frame /\ f \in HandTables /\ f \in bitmap /\ bitmap' = bitmap
           /\ \E d \in DirIndex :
                 /\ directory' = [directory EXCEPT ![d] = f]
                 /\ directory[d] # None => f >= Ident
                 /\ Tables' = (Tables \ {directory[d]}) \cup {f}
           /\ UserFrames' = UserFrames /\ UserPages' = UserPages
           /\ HandTables' = HandTables \ {f} /\ HandData' = HandData
           /\ Len(faults') = Len(faults) /\ Len(faults) \in Nat
           /\ \A i \in 1 .. Len(faults) :
                 /\ faults'[i].data = faults[i].data
                 /\ faults'[i].at = "zero" =>
                       faults'[i].table = faults[i].table /\ faults[i].at = "zero"
<1> DEFINE t == Top
           n == Len(faults)
           d == t.page \div PerTable
<1>a. TypeOK /\ FramesApart
  BY DEF MemoryInv
<1>b. \A c, e \in DirIndex : directory[c] # None /\ directory[c] = directory[e] => c = e
  BY <1>a DEF FramesApart
<1>1. /\ faults # <<>> /\ t.at = "zero" /\ t \in HandlerRecord
      /\ d \in DirIndex /\ f \in Frame /\ f \in HandTables /\ f \in bitmap
      /\ directory[d] # None => f >= Ident
      /\ directory' = [directory EXCEPT ![d] = f]
      /\ Step([t EXCEPT !.at = "write"])
      /\ UNCHANGED allocator
  BY ZeroFacts
<1>2. n \in Nat /\ t = faults[n] /\ f # None
  BY <1>a, <1>1, FaultsAre, FrameIsPage
<1>3. UserFrames' = UserFrames /\ UserPages' = UserPages
  BY ZeroMapsNothing, SameUsers
<1>4. Tables' = (Tables \ {directory[d]}) \cup {f}
  <2> HIDE DEF d, t
  <2>1. \A e \in DirIndex : directory'[e] = IF e = d THEN f ELSE directory[e]
    BY <1>1, <1>a DEF TypeOK
  <2>2. {e \in DirIndex : directory'[e] # None}
            = {e \in DirIndex : directory[e] # None} \cup {d}
    BY <1>1, <1>2, <2>1
  <2>3. \A e \in {c \in DirIndex : directory[c] # None} \ {d} : directory[e] # directory[d]
    BY <1>1, <1>b
  <2>4. Tables' = {directory'[e] : e \in {c \in DirIndex : directory[c] # None} \cup {d}}
    BY <2>2 DEF Tables
  <2> QED
    BY <1>1, <2>1, <2>3, <2>4 DEF Tables
<1>5. /\ HandTables' = HandTables \ {f} /\ HandData' = HandData
      /\ Len(faults') = n
      /\ \A i \in 1 .. n :
            /\ faults'[i].data = faults[i].data
            /\ faults'[i].at = "zero" =>
                  faults'[i].table = faults[i].table /\ faults[i].at = "zero"
  <2> DEFINE r == [t EXCEPT !.at = "write"]
  <2>1. r \in HandlerRecord /\ r.at = "write" /\ r.data = t.data
    BY <1>1 DEF HandlerRecord
  <2>2. Step(r)
    BY <1>1
  <2> HIDE DEF r
  <2>3. /\ Len(faults') = n
        /\ \A i \in 1 .. n : faults'[i] = IF i = n THEN r ELSE faults[i]
    BY <1>a, <1>1, <2>1, <2>2, FaultStepped
  <2>4. HandTables' = HandTables \ {f}
    BY <1>a, <1>1, <2>1, <2>2, HandZeroed
  <2>5. HandData' = HandData
    BY <1>a, <1>1, <2>1, <2>2, HandStepped
  <2> QED
    BY <1>2, <2>1, <2>3, <2>4, <2>5
<1> QED
  BY <1>1, <1>2, <1>3, <1>4, <1>5 DEF allocator

LEMMA LeaveHands ==
    ASSUME MemoryInv, NoTable \/ WriteEntry
    PROVE  /\ Tables' = Tables /\ bitmap' = bitmap /\ faults # <<>>
           /\ HandTables' = HandTables /\ HandData' = HandData \ {Top.data}
           /\ Len(faults') = Len(faults) - 1 /\ Len(faults) \in Nat
           /\ \A i \in 1 .. Len(faults) - 1 : faults'[i] = faults[i]
<1>a. TypeOK /\ FramesApart
  BY DEF MemoryInv
<1>1. /\ faults # <<>> /\ Top.at # "zero" /\ Leave /\ UNCHANGED <<directory, bitmap>>
  BY DEF NoTable, WriteEntry, Handling, tables, allocator
<1>2. Tables' = Tables
  BY <1>1 DEF Tables
<1> QED
  BY <1>a, <1>1, <1>2, HandLeft, FaultLeft, FaultsAre

LEMMA OtherHands ==
    ASSUME MemoryInv, Quiet \/ Fault \/ TablePresent \/ GrowTake
    PROVE  /\ UNCHANGED <<directory, content>> /\ bitmap \subseteq bitmap'
           /\ Tables' = Tables /\ UserFrames' = UserFrames /\ UserPages' = UserPages
           /\ HandTables' = HandTables /\ HandData' = HandData
           /\ Len(faults) \in Nat
           /\ \A i \in 1 .. Len(faults') :
                 \/ /\ i \in 1 .. Len(faults)
                    /\ faults'[i].data = faults[i].data
                    /\ faults'[i].at = "zero" =>
                          faults'[i].table = faults[i].table /\ faults[i].at = "zero"
                 \/ /\ i = Len(faults) + 1 /\ Len(faults') = Len(faults) + 1
                    /\ faults'[i].data = None /\ faults'[i].at # "zero"
<1>a. TypeOK
  BY DEF MemoryInv
<1>b. Len(faults) \in Nat
  BY <1>a, FaultsAre
<1>1. CASE Quiet \/ GrowTake
  <2>1. UNCHANGED <<tables, faults>> /\ bitmap \subseteq bitmap'
    BY <1>1, QuietFacts DEF GrowTake, Mark, allocator
  <2>2. HandTables' = HandTables /\ HandData' = HandData
    BY <2>1 DEF HandTables, HandData
  <2> QED
    BY <1>b, <2>1, <2>2, SameTables DEF tables
<1>2. CASE Fault
  <2>1. PICK a \in Addr :
              /\ FaultAt(a) /\ PageOf(a) \in Page /\ UNCHANGED <<tables, allocator>>
    BY <1>2, FaultFacts DEF Fault
  <2> DEFINE q == [addr |-> a, page |-> PageOf(a), at |-> "enter", data |-> None,
                   table |-> None]
             n == Len(faults)
  <2>2. /\ q \in HandlerRecord /\ faults' = Append(faults, q) /\ q.at = "enter"
        /\ q.data = None
    BY <2>1, FaultRecord DEF FaultAt
  <2> HIDE DEF q
  <2>3. /\ Len(faults') = n + 1 /\ faults'[n + 1] = q
        /\ \A i \in 1 .. n : faults'[i] = faults[i]
    BY <1>a, <2>2, FaultPushed
  <2>4. HandTables' = HandTables /\ HandData' = HandData
    BY <1>a, <2>2, HandPushed
  <2>5. \A i \in 1 .. n + 1 : i \in 1 .. n \/ i = n + 1
    BY <1>b
  <2> QED
    BY <1>b, <2>1, <2>2, <2>3, <2>4, <2>5, SameTables DEF tables, allocator
<1>3. CASE TablePresent
  <2> DEFINE t == Top
             r == [t EXCEPT !.at = "write"]
             n == Len(faults)
  <2>1. /\ faults # <<>> /\ t.at = "map" /\ Step(r) /\ UNCHANGED <<tables, allocator>>
    BY <1>3 DEF TablePresent, Handling
  <2>2. t \in HandlerRecord /\ t = faults[n]
    BY <2>1, TopKnows
  <2>3. r \in HandlerRecord /\ r.at = "write" /\ r.data = t.data
    BY <2>2 DEF HandlerRecord
  <2> HIDE DEF r
  <2>4. HandTables' = HandTables /\ HandData' = HandData
    BY <1>a, <2>1, <2>3, HandStepped
  <2>5. /\ Len(faults') = n
        /\ \A i \in 1 .. n : faults'[i] = IF i = n THEN r ELSE faults[i]
    BY <1>a, <2>1, <2>3, FaultStepped
  <2> QED
    BY <1>b, <2>1, <2>2, <2>3, <2>4, <2>5, SameTables DEF tables, allocator
<1> QED
  BY <1>1, <1>2, <1>3
LEMMA ApartStep == MemoryInv /\ [Next]_vars => FramesApart'
<1> SUFFICES ASSUME MemoryInv, [Next]_vars PROVE FramesApart'
  OBVIOUS
<1>a. TypeOK /\ FramesApart
  BY DEF MemoryInv
<1>b. /\ Tables \cup HandTables \subseteq bitmap
      /\ UserFrames \cup HandData \subseteq bitmap
      /\ (Tables \cup HandTables) \cap (UserFrames \cup HandData) = {}
      /\ \A d, e \in DirIndex : directory[d] # None /\ directory[d] = directory[e] => d = e
      /\ Tables \cap HandTables = {} /\ UserFrames \cap HandData = {}
      /\ \A i, j \in 1 .. Len(faults) : i # j =>
            /\ faults[i].data # None => faults[i].data # faults[j].data
            /\ faults[i].at = "zero" /\ faults[j].at = "zero" =>
                  faults[i].table # faults[j].table
  BY <1>a DEF FramesApart
<1>c. /\ \A i \in 1 .. Len(faults) : faults[i].data # None => faults[i].data \in bitmap
      /\ \A i \in 1 .. Len(faults) : faults[i].at = "zero" => faults[i].table \in bitmap
  BY <1>b DEF HandData, HandTables
<1>1. CASE Quiet \/ Fault \/ TablePresent \/ GrowTake
  <2>1. /\ directory' = directory /\ bitmap \subseteq bitmap'
        /\ Tables' = Tables /\ UserFrames' = UserFrames
        /\ HandTables' = HandTables /\ HandData' = HandData
        /\ Len(faults) \in Nat
        /\ \A i \in 1 .. Len(faults') :
              \/ /\ i \in 1 .. Len(faults)
                 /\ faults'[i].data = faults[i].data
                 /\ faults'[i].at = "zero" =>
                       faults'[i].table = faults[i].table /\ faults[i].at = "zero"
              \/ /\ i = Len(faults) + 1
                 /\ faults'[i].data = None /\ faults'[i].at # "zero"
    BY <1>1, OtherHands
  <2>2. \A i, j \in 1 .. Len(faults') : i # j =>
            /\ faults'[i].data # None => faults'[i].data # faults'[j].data
            /\ faults'[i].at = "zero" /\ faults'[j].at = "zero" =>
                  faults'[i].table # faults'[j].table
    BY <1>b, <2>1
  <2> QED
    BY <1>b, <2>1, <2>2 DEF FramesApart
<1>2. CASE TakeData \/ TakeTable
  <2> DEFINE f == FirstFree
             n == Len(faults)
  <2>1. /\ Tables' = Tables /\ UserFrames' = UserFrames
        /\ f \in Frame /\ f \notin bitmap /\ f # None /\ bitmap' = bitmap \cup {f}
        /\ Len(faults') = n
        /\ \/ /\ HandData' = HandData \cup {f} /\ HandTables' = HandTables
              /\ \A i \in 1 .. n :
                    /\ faults'[i].table = faults[i].table
                    /\ faults'[i].at = "zero" <=> faults[i].at = "zero"
                    /\ faults'[i].data = IF i = n THEN f ELSE faults[i].data
           \/ /\ HandData' = HandData /\ HandTables' = HandTables \cup {f}
              /\ \A i \in 1 .. n :
                    /\ faults'[i].data = faults[i].data
                    /\ i # n => faults'[i] = faults[i]
                    /\ i = n => faults'[i].at = "zero" /\ faults'[i].table = f
    BY <1>2, TakeHands
  <2>2. directory' = directory
    BY <1>2 DEF TakeData, TakeTable, tables
  <2> HIDE DEF f, n
  <2>3. \A i, j \in 1 .. n : i # j =>
            /\ faults'[i].data # None => faults'[i].data # faults'[j].data
            /\ faults'[i].at = "zero" /\ faults'[j].at = "zero" =>
                  faults'[i].table # faults'[j].table
    BY <1>b, <1>c, <2>1 DEF n
  <2>4. /\ (Tables \cup HandTables)' \cap (UserFrames \cup HandData)' = {}
        /\ Tables' \cap HandTables' = {} /\ UserFrames' \cap HandData' = {}
        /\ (Tables \cup HandTables)' \subseteq bitmap'
        /\ (UserFrames \cup HandData)' \subseteq bitmap'
    BY <1>b, <2>1
  <2> QED
    BY <1>b, <2>1, <2>2, <2>3, <2>4 DEF FramesApart
<1>3. CASE ZeroTable
  <2> DEFINE f == Top.table
             n == Len(faults)
  <2>1. /\ f \in Frame /\ f \in HandTables /\ f \in bitmap /\ bitmap' = bitmap
        /\ UserFrames' = UserFrames
        /\ HandTables' = HandTables \ {f} /\ HandData' = HandData
        /\ Len(faults') = n
        /\ \A i \in 1 .. n :
              /\ faults'[i].data = faults[i].data
              /\ faults'[i].at = "zero" =>
                    faults'[i].table = faults[i].table /\ faults[i].at = "zero"
    BY <1>3, ZeroHands
  <2>2. PICK d \in DirIndex : /\ directory' = [directory EXCEPT ![d] = f]
                              /\ Tables' = (Tables \ {directory[d]}) \cup {f}
    BY <1>3, ZeroHands
  <2> HIDE DEF f, n
  <2>3. f \notin Tables /\ f # None
    BY <1>b, <2>1, FrameIsPage
  <2>4. \A e \in DirIndex : directory'[e] = IF e = d THEN f ELSE directory[e]
    BY <1>a, <2>2 DEF TypeOK
  <2>5. \A e \in DirIndex : directory[e] # f
    BY <2>3 DEF Tables
  <2>6. \A c, e \in DirIndex : directory'[c] # None /\ directory'[c] = directory'[e] => c = e
    BY <1>b, <2>4, <2>5
  <2>7. \A i, j \in 1 .. n : i # j =>
            /\ faults'[i].data # None => faults'[i].data # faults'[j].data
            /\ faults'[i].at = "zero" /\ faults'[j].at = "zero" =>
                  faults'[i].table # faults'[j].table
    BY <1>b, <2>1 DEF n
  <2>8. /\ (Tables \cup HandTables)' \cap (UserFrames \cup HandData)' = {}
        /\ Tables' \cap HandTables' = {} /\ UserFrames' \cap HandData' = {}
        /\ (Tables \cup HandTables)' \subseteq bitmap'
        /\ (UserFrames \cup HandData)' \subseteq bitmap'
    BY <1>b, <2>1, <2>2
  <2> QED
    BY <2>1, <2>6, <2>7, <2>8 DEF FramesApart
<1>4. CASE NoTable \/ WriteEntry
  <2> DEFINE n == Len(faults)
             f == Top.data
  <2>1. /\ Tables' = Tables /\ bitmap' = bitmap /\ directory' = directory
        /\ HandTables' = HandTables /\ HandData' = HandData \ {f}
        /\ Len(faults') = n - 1 /\ n \in Nat
        /\ \A i \in 1 .. n - 1 : faults'[i] = faults[i]
    BY <1>4, LeaveHands DEF NoTable, WriteEntry, tables
  <2>2. UserFrames' = UserFrames \/ UserFrames' = UserFrames \cup {f}
    BY UsersStep
  <2>3. UserFrames' = UserFrames \/ f \in HandData
    BY <2>2, <1>4, WriteFacts, SameTables DEF NoTable
  <2> HIDE DEF n, f
  <2>4. \A i, j \in 1 .. n - 1 : i # j =>
            /\ faults'[i].data # None => faults'[i].data # faults'[j].data
            /\ faults'[i].at = "zero" /\ faults'[j].at = "zero" =>
                  faults'[i].table # faults'[j].table
    <3>1. \A i \in 1 .. n - 1 : i \in 1 .. n
      BY <2>1
    <3> QED
      BY <1>b, <2>1, <3>1 DEF n
  <2>5. /\ (Tables \cup HandTables)' \cap (UserFrames \cup HandData)' = {}
        /\ Tables' \cap HandTables' = {} /\ UserFrames' \cap HandData' = {}
        /\ (Tables \cup HandTables)' \subseteq bitmap'
        /\ (UserFrames \cup HandData)' \subseteq bitmap'
    BY <1>b, <2>1, <2>2, <2>3
  <2> QED
    BY <1>b, <2>1, <2>4, <2>5 DEF FramesApart
<1> QED
  BY <1>1, <1>2, <1>3, <1>4, NextIs

LEMMA BlankStep == MemoryInv /\ [Next]_vars => FarTablesBlank'
<1> SUFFICES ASSUME MemoryInv, [Next]_vars PROVE FarTablesBlank'
  OBVIOUS
<1>a. TypeOK /\ FramesApart /\ FarTablesBlank
  BY DEF MemoryInv
<1>b. \A f \in Frame : f \notin bitmap \/ (f \in Tables \cup HandTables /\ f >= Ident) =>
            content[f] = Empty
  BY <1>a DEF FarTablesBlank
<1>1. CASE Quiet \/ Fault \/ TablePresent \/ GrowTake
  <2>1. /\ content' = content /\ bitmap \subseteq bitmap'
        /\ Tables' = Tables /\ HandTables' = HandTables
    BY <1>1, OtherHands
  <2> QED
    BY <1>b, <2>1 DEF FarTablesBlank
<1>2. CASE TakeData \/ TakeTable
  <2>1. /\ Tables' = Tables /\ FirstFree \notin bitmap /\ bitmap' = bitmap \cup {FirstFree}
        /\ HandTables' \subseteq HandTables \cup {FirstFree}
        /\ content' = content
    BY <1>2, TakeHands DEF TakeData, TakeTable, tables
  <2> QED
    BY <1>b, <2>1 DEF FarTablesBlank
<1>3. CASE ZeroTable
  <2>1. Tables' \cup HandTables' \subseteq Tables \cup HandTables /\ bitmap' = bitmap
    BY <1>3, ZeroHands
  <2>2. \A f \in Frame : content[f] = Empty => content'[f] = Empty
    BY <1>3, <1>a, ZeroFacts DEF TypeOK
  <2> QED
    BY <1>b, <2>1, <2>2 DEF FarTablesBlank
<1>4. CASE NoTable
  <2>1. content' = content /\ bitmap' = bitmap /\ Tables' = Tables /\ HandTables' = HandTables
    BY <1>4, LeaveHands DEF NoTable, tables
  <2> QED
    BY <1>b, <2>1 DEF FarTablesBlank
<1>5. CASE WriteEntry
  <2> DEFINE t == TableOf(Top.page)
             g == Translate(t)
  <2>1. /\ t \in Frame /\ t \in Tables /\ g \in Frame
        /\ \/ t < Ident /\ g = t
           \/ t >= Ident /\ g \in UserFrames /\ g \notin Tables
        /\ content' = [content EXCEPT ![g][Top.page % PerTable] = Top.data]
    BY <1>5, WriteFacts
  <2>2. bitmap' = bitmap /\ Tables' = Tables /\ HandTables' = HandTables
    BY <1>5, LeaveHands
  <2> HIDE DEF t, g
  <2>3. \A f \in Frame : f # g => content'[f] = content[f]
    BY <1>a, <2>1 DEF TypeOK
  <2>4. g \in bitmap /\ ~ (g \in Tables \cup HandTables /\ g >= Ident)
    <3>1. t \in Nat /\ Ident \in Nat
      BY <2>1, FrameIsPage, UserMemoryConstants
    <3> QED
      BY <1>a, <2>1, <3>1 DEF FramesApart
  <2> QED
    BY <1>b, <2>2, <2>3, <2>4 DEF FarTablesBlank
<1> QED
  BY <1>1, <1>2, <1>3, <1>4, <1>5, NextIs

LEMMA NearStep == MemoryInv /\ [Next]_vars => NearFirst'
<1> SUFFICES ASSUME MemoryInv, [Next]_vars PROVE NearFirst'
  OBVIOUS
<1>a. NearFirst
  BY DEF MemoryInv
<1>1. CASE TakeData \/ TakeTable
  <2> DEFINE f == FirstFree
  <2>1. /\ Tables' = Tables /\ bitmap' = bitmap \cup {f} /\ f \in Frame
        /\ HandTables' \subseteq HandTables \cup {f}
    BY <1>1, TakeHands
  <2>2. \A g \in Frame : g < f => g \in bitmap
    BY <1>1, TakeFacts
  <2>3. f >= Ident => \A g \in Frame : g < Ident => g < f
    BY <2>1, FrameIsPage, UserMemoryConstants
  <2> HIDE DEF f
  <2> QED
    BY <1>a, <2>1, <2>2, <2>3 DEF NearFirst
<1>2. CASE ~ (TakeData \/ TakeTable)
  <2>1. Tables' \cup HandTables' \subseteq Tables \cup HandTables /\ bitmap \subseteq bitmap'
    <3>1. CASE Quiet \/ Fault \/ TablePresent \/ GrowTake
      BY <3>1, OtherHands
    <3>2. CASE ZeroTable
      BY <3>2, ZeroHands
    <3>3. CASE NoTable \/ WriteEntry
      BY <3>3, LeaveHands
    <3> QED
      BY <1>2, <3>1, <3>2, <3>3, NextIs
  <2> QED
    BY <1>a, <2>1 DEF NearFirst
<1> QED
  BY <1>1, <1>2

LEMMA MemoryStep == MemoryInv /\ [Next]_vars => MemoryInv'
BY MemoryTypes, CountStep, GrowerStep, CauseStep, HandlersStep, ApartStep, BlankStep,
   NearStep DEF MemoryInv

LEMMA MemoryInit == Init => MemoryInv
<1> SUFFICES ASSUME Init PROVE MemoryInv
  OBVIOUS
<1>1. /\ PageSize \in Nat \ {0} /\ BrkStart \in Nat /\ BrkEnd \in Nat /\ BrkStart < BrkEnd
      /\ Booted \in Nat /\ Frames \in Nat /\ Booted <= Frames
  BY UserMemoryConstants
<1>2. BrkStart * PageSize \in BrkStart * PageSize .. BrkEnd * PageSize
  <2>1. PageSize * BrkStart + PageSize <= PageSize * BrkEnd
    BY <1>1, TimesOrder
  <2>2. /\ BrkStart * PageSize = PageSize * BrkStart /\ BrkEnd * PageSize = PageSize * BrkEnd
        /\ PageSize * BrkStart \in Nat /\ PageSize * BrkEnd \in Nat
    BY <1>1
  <2> QED
    BY <1>1, <2>1, <2>2
<1>3. faults = <<>> /\ Len(faults) = 0 /\ <<>> \in Seq(HandlerRecord)
  BY DEF Init
<1>4. TypeOK
  <2>1. bitmap \subseteq Frame /\ count \in 0 .. Frames + 1
    BY <1>1 DEF Init, Frame
  <2>2. /\ directory \in [DirIndex -> Frame \cup {None}]
        /\ content \in [Frame -> [Slot -> Frame \cup {None}]]
        /\ kernel \in [at : {"idle", "take", "header"}, frame : Frame \cup {None}]
    BY DEF Init, Empty, Idle
  <2> QED
    BY <1>2, <1>3, <2>1, <2>2 DEF Init, TypeOK
<1>5. CountFits /\ GrowerKnown /\ FirstCause
  BY <1>1, <1>2 DEF Init, CountFits, GrowerKnown, FirstCause, Idle
<1>6. HandlersKnow
  BY <1>3 DEF HandlersKnow
<1>7. Tables = {} /\ HandTables = {} /\ HandData = {}
  BY <1>3 DEF Init, Tables, HandTables, HandData
<1>8. UserFrames = {}
  <2>1. \A p \in Page : p >= Ident => ~ Mapped(p)
    <3> SUFFICES ASSUME NEW p \in Page, p >= Ident PROVE ~ Mapped(p)
      OBVIOUS
    <3>1. TableOf(p) = None
      BY PagePlace DEF Init, TableOf
    <3> QED
      BY <1>4, <3>1, BlankUnmapped
  <2> QED
    BY <2>1 DEF UserFrames, UserPages
<1>9. FramesApart
  BY <1>3, <1>7, <1>8 DEF FramesApart, Init
<1>10. FarTablesBlank /\ NearFirst
  BY <1>7 DEF FarTablesBlank, NearFirst, Init
<1> QED
  BY <1>4, <1>5, <1>6, <1>9, <1>10 DEF MemoryInv
-----------------------------------------------------------------------------
(* What holds for every value of the constants.                            *)

\* The types of every variable: the stack of handlers, the tables and the frames
\* they hold, a count of used_blocks that passes the total by one at most.
THEOREM UserMemoryTypeCorrect == Spec => []TypeOK
<1>1. MemoryInv => TypeOK
  BY DEF MemoryInv
<1> QED
  BY <1>1, MemoryInit, MemoryStep, PTL DEF Spec

\* The entry the handler writes is for the page of its address, which lay inside
\* a break when the handler took the frame.
LEMMA MappingsStep ==
    ASSUME MemoryInv, [Next]_vars
    PROVE  /\ \A p \in UserPages : Translate(p)' = Translate(p)
           /\ \A p \in UserPages' \ UserPages :
                 p >= BrkStart /\ p * PageSize < highest
<1>a. UserPages \subseteq Page
  BY DEF UserPages
<1>1. CASE WriteEntry /\ TableOf(Top.page) < Ident
  <2> DEFINE q == Top.page
             a == Top.addr
  <2>1. /\ q \in Page /\ HandlerKnows(Top) /\ Top \in HandlerRecord /\ Top.at = "write"
    BY <1>1, WriteFacts
  <2>2. /\ q = PageOf(a) /\ q \notin UserPages /\ a \in Addr
        /\ BrkStart * PageSize <= a /\ a < highest
    BY <2>1 DEF HandlerKnows, UserPages, HandlerRecord
  <2>3. UserPages' = UserPages \cup {q}
    BY <1>1, UsersStep
  <2>4. \A p \in Page : p # q => Translate(p)' = Translate(p)
    BY <1>1, WriteMapsThePage
  <2> HIDE DEF q, a
  <2>5. /\ a \in Nat /\ PageSize \in Nat \ {0} /\ BrkStart \in Nat /\ BrkEnd \in Nat
    BY <2>2, UserMemoryConstants DEF Addr
  <2>6. highest \in Nat
    <3>1. highest \in BrkStart * PageSize .. BrkEnd * PageSize
      BY DEF MemoryInv, TypeOK
    <3> QED
      BY <2>5, <3>1
  <2>7. q >= BrkStart /\ q * PageSize <= a /\ q * PageSize \in Nat
    BY <2>2, <2>5, PageBounds
  <2>8. q * PageSize < highest
    BY <2>2, <2>5, <2>6, <2>7
  <2> QED
    BY <1>a, <2>2, <2>3, <2>4, <2>7, <2>8
<1>2. CASE ~ (WriteEntry /\ TableOf(Top.page) < Ident)
  <2>1. UserPages' = UserPages /\ \A p \in Page : Translate(p)' = Translate(p)
    BY <1>2, UsersStep
  <2> QED
    BY <1>a, <2>1
<1> QED
  BY <1>1, <1>2

\* A page of the program keeps its frame whatever the break does, and a page is
\* mapped only when it was inside a break that was set (paging_fault_handler).
THEOREM MappingsKept == Spec => MappingsStand
<1>1. MemoryInv /\ [Next]_vars =>
        [/\ \A p \in UserPages : Translate(p)' = Translate(p)
         /\ \A p \in UserPages' \ UserPages :
               p >= BrkStart /\ p * PageSize < highest]_vars
  BY MappingsStep
<1> QED
  BY <1>1, MemoryInit, MemoryStep, PTL DEF Spec, MappingsStand

\* The handler halts the machine for the address that brought it in: that of the
\* program, that of a page of the heap, or that of a table another handler waits for.
LEMMA HaltStep ==
    ASSUME MemoryInv, HaltedForAReason, [Next]_vars
    PROVE  HaltedForAReason'
<1>1. CASE halted \/ UNCHANGED vars
  <2>1. UNCHANGED vars
    BY <1>1 DEF Next, Handler, Grow, Quiet, Fault, Running, Handling,
       SysBrk, Access, Resume, Retry, Refuse, Exhausted, TakeData, NoTable, TakeTable,
       ZeroTable, TablePresent, WriteEntry, NestedFault,
       GrowFind, GrowTake, GrowHeader, GrowFault
  <2>2. /\ Tables' = Tables /\ FreeFrames' = FreeFrames /\ InHand' = InHand
    BY <2>1 DEF vars, allocator, tables, Tables, FreeFrames, InHand
  <2> QED
    BY <2>1, <2>2 DEF vars, program, grower, HaltedForAReason
<1>2. CASE ~ halted /\ Exhausted
  <2>1. FreeFrames' = FreeFrames /\ FreeFrames = {}
    BY <1>2 DEF Exhausted, allocator, FreeFrames
  <2> QED
    BY <2>1 DEF HaltedForAReason
<1>3. CASE ~ halted /\ Refuse
  <2>1. /\ faults # <<>> /\ Top.at = "enter" /\ ~ Serves(Top.addr)
        /\ UNCHANGED <<faults, allocator, tables, program, grower>>
    BY <1>3 DEF Refuse, Handling
  <2>2. /\ Tables' = Tables /\ InHand' = InHand
        /\ UNCHANGED <<access, brk, heap>>
    BY <2>1 DEF tables, program, grower, Tables, InHand
  <2>3. Len(faults) \in Nat /\ Len(faults) \in 1 .. Len(faults) /\ Top = faults[Len(faults)]
    BY <2>1, TopKnows
  <2>4. CASE Len(faults) = 1
    <3>1. \/ access # None /\ Top.addr = access /\ access \in Touched
          \/ kernel.at = "header" /\ kernel.frame >= Ident
      BY <2>1, <2>3, <2>4 DEF MemoryInv, FirstCause
    <3>2. CASE access # None /\ Top.addr = access /\ access \in Touched
      <4>1. /\ access \in Nat /\ brk \in BrkStart * PageSize .. BrkEnd * PageSize
            /\ BrkStart * PageSize \in Nat /\ BrkEnd * PageSize \in Nat
        BY <3>2, UserMemoryConstants DEF MemoryInv, TypeOK
      <4>2. access < BrkStart * PageSize \/ access >= brk
        BY <2>1, <3>2, <4>1 DEF Serves
      <4> QED
        BY <2>2, <3>2, <4>2 DEF HaltedForAReason
    <3>3. CASE kernel.at = "header" /\ kernel.frame >= Ident
      <4>1. kernel.frame \in heap /\ kernel.frame # None
        BY <3>3, FrameIsPage DEF MemoryInv, GrowerKnown
      <4> QED
        BY <2>2, <3>3, <4>1 DEF HaltedForAReason
    <3> QED
      BY <3>1, <3>2, <3>3
  <2>5. CASE Len(faults) # 1
    <3> DEFINE n == Len(faults)
    <3>0. n \in Nat /\ n \in 1 .. n /\ n # 1
      BY <2>3, <2>5
    <3> HIDE DEF n
    <3>1. PICK i \in 1 .. n : i = n - 1
      BY <3>0
    <3> USE DEF n
    <3>2. /\ faults[i].at \in {"zero", "write"} /\ TargetOf(faults[i]) >= Ident
          /\ HandlerKnows(faults[i]) /\ faults[i] \in HandlerRecord
      BY <2>3, <3>1, FaultsAre DEF MemoryInv, HandlersKnow, HandlerWaits
    <3>3. faults[i].page \div PerTable \in DirIndex
      BY <3>2, PagePlace DEF HandlerRecord
    <3>4. TargetOf(faults[i]) \in Tables \cup InHand /\ TargetOf(faults[i]) # None
      <4>1. CASE faults[i].at = "zero"
        BY <3>2, <4>1, FrameIsPage DEF TargetOf, InHand, HandlerKnows
      <4>2. CASE faults[i].at = "write"
        BY <3>2, <3>3, <4>2 DEF TargetOf, TableOf, Tables, HandlerKnows
      <4> QED
        BY <3>2, <4>1, <4>2
    <3> HIDE DEF TargetOf
    <3> QED
      BY <2>2, <3>2, <3>4 DEF HaltedForAReason
  <2> QED
    BY <2>4, <2>5
<1>4. CASE ~ halted /\ ~ Exhausted /\ ~ Refuse /\ Next
  <2>1. ~ halted'
    BY <1>4 DEF Next, Handler, Grow,
       SysBrk, Access, Resume, Retry, TakeData, NoTable, TakeTable,
       ZeroTable, TablePresent, WriteEntry, NestedFault,
       GrowFind, GrowTake, GrowHeader, GrowFault
  <2> QED
    BY <2>1 DEF HaltedForAReason
<1> QED
  BY <1>1, <1>2, <1>3, <1>4

\* The machine halts only for an access outside the break, for want of frames, or
\* for a frame in use that lies beyond the identity map (paging_fault_handler).
THEOREM HaltsForAReason == Spec => []HaltedForAReason
<1>1. Init => HaltedForAReason
  BY DEF Init, HaltedForAReason
<1>2. MemoryInv /\ HaltedForAReason /\ [Next]_vars => HaltedForAReason'
  BY HaltStep
<1> QED
  BY <1>1, <1>2, MemoryInit, MemoryStep, PTL DEF Spec
-----------------------------------------------------------------------------
(* The accounts of the allocator.                                          *)

\* What the handlers have in hand, what is in use, and how much that is.
Hand == HandData \cup HandTables
InUse == (0 .. Booted - 1) \cup heap \cup Tables \cup UserFrames \cup Hand
Used == Booted + Cardinality(heap) + Cardinality(Tables) + Cardinality(UserPages)
        + Cardinality(Hand)

Accounts ==
    ~ overlap /\ ~ stray =>
        /\ count = Cardinality(bitmap)
        /\ bitmap # Frame => bitmap = InUse /\ Cardinality(bitmap) = Used

LEMMA AccountsAre == MemoryInv => (FramesAccounted <=> Accounts)
<1> SUFFICES ASSUME MemoryInv PROVE FramesAccounted <=> Accounts
  OBVIOUS
<1>1. None \notin HandTables
  <2>1. HandTables \subseteq bitmap /\ bitmap \subseteq Frame
    BY DEF MemoryInv, FramesApart, TypeOK
  <2> QED
    BY <2>1, FrameIsPage
<1>2. InHand \ {None} = Hand
  BY <1>1 DEF InHand, Hand, HandData, HandTables
<1> QED
  BY <1>2 DEF FramesAccounted, Accounts, InUse, Used

\* The sets that are counted are finite.
LEMMA CountedFinite ==
    ASSUME TypeOK, FramesApart
    PROVE  /\ IsFiniteSet(Frame) /\ IsFiniteSet(bitmap) /\ IsFiniteSet(heap)
           /\ IsFiniteSet(Tables) /\ IsFiniteSet(UserPages) /\ IsFiniteSet(Hand)
           /\ Cardinality(Frame) = Frames
           /\ Cardinality(bitmap) \in Nat /\ Cardinality(heap) \in Nat
           /\ Cardinality(Tables) \in Nat /\ Cardinality(UserPages) \in Nat
           /\ Cardinality(Hand) \in Nat
<1> DEFINE m == IF BrkEnd > Frames THEN BrkEnd ELSE Frames
<1>1. Frames \in Nat /\ m \in Nat
  BY UserMemoryConstants
<1> HIDE DEF m
<1>2. IsFiniteSet(Frame) /\ Cardinality(Frame) = Frames
  BY <1>1, FS_Interval DEF Frame
<1>3. IsFiniteSet(Page)
  <2>1. IsFiniteSet(0 .. m - 1)
    BY <1>1, FS_Interval
  <2> QED
    BY <2>1 DEF Page, m
<1>4. /\ bitmap \in SUBSET Frame /\ heap \in SUBSET Frame /\ Tables \in SUBSET Frame
      /\ Hand \in SUBSET Frame /\ UserPages \in SUBSET Page
  BY DEF TypeOK, FramesApart, Hand, UserPages
<1>5. IsFiniteSet(bitmap) /\ IsFiniteSet(heap) /\ IsFiniteSet(Tables) /\ IsFiniteSet(Hand)
  BY <1>2, <1>4, FS_Subset
<1>6. IsFiniteSet(UserPages)
  BY <1>3, <1>4, FS_Subset
<1> QED
  BY <1>2, <1>5, <1>6, FS_CardinalityType

\* An allocation that overlapped another, and a frame reached through a mapping of
\* the program, are never forgotten.
LEMMA HistoryGrows ==
    ASSUME MemoryInv, [Next]_vars
    PROVE  (overlap => overlap') /\ (stray => stray')
<1>1. CASE TakeData \/ TakeTable
  BY <1>1, TakeFacts
<1>2. CASE ZeroTable
  BY <1>2, ZeroFacts
<1>3. CASE WriteEntry
  BY <1>3, WriteFacts
<1>4. CASE GrowHeader
  BY <1>4 DEF GrowHeader, Reaches
<1>5. CASE ~ (TakeData \/ TakeTable \/ ZeroTable \/ WriteEntry \/ GrowHeader)
  BY <1>5 DEF Next, vars, Handler, Grow, SysBrk, Access, Resume, Retry, Refuse, Exhausted,
     NoTable, TablePresent, NestedFault, GrowFind, GrowTake, GrowFault, history
<1> QED
  BY <1>1, <1>2, <1>3, <1>4, <1>5

\* A frame that was free is taken by one user.
LEMMA OneMore ==
    ASSUME MemoryInv, Accounts, NEW f \in Frame, f \notin bitmap,
           ~ overlap, ~ stray, bitmap' = bitmap \cup {f}, count' = count + 1
    PROVE  /\ count' = Cardinality(bitmap') /\ bitmap = InUse
           /\ Cardinality(bitmap) = Used
           /\ Cardinality(bitmap') = Used + 1
           /\ f \notin heap /\ f \notin Hand
<1>1. bitmap # Frame
  OBVIOUS
<1>2. count = Cardinality(bitmap) /\ bitmap = InUse /\ Cardinality(bitmap) = Used
  BY <1>1 DEF Accounts
<1>3. IsFiniteSet(bitmap)
  BY CountedFinite DEF MemoryInv
<1>4. Cardinality(bitmap') = Cardinality(bitmap) + 1
  BY <1>3, FS_AddElement
<1> QED
  BY <1>2, <1>4 DEF InUse

LEMMA AccountsStep == MemoryInv /\ Accounts /\ [Next]_vars => Accounts'
<1> SUFFICES ASSUME MemoryInv, Accounts, [Next]_vars, ~ overlap', ~ stray'
             PROVE  /\ count' = Cardinality(bitmap')
                    /\ bitmap' # Frame =>
                          bitmap' = InUse' /\ Cardinality(bitmap') = Used'
  BY DEF Accounts
<1>a. ~ overlap /\ ~ stray
  BY HistoryGrows
<1>b. /\ count = Cardinality(bitmap)
      /\ bitmap # Frame => bitmap = InUse /\ Cardinality(bitmap) = Used
  BY <1>a DEF Accounts
<1>c. /\ IsFiniteSet(heap) /\ IsFiniteSet(Tables) /\ IsFiniteSet(UserPages)
      /\ IsFiniteSet(Hand) /\ IsFiniteSet(Frame) /\ Cardinality(Frame) = Frames
      /\ Cardinality(bitmap) \in Nat /\ Cardinality(heap) \in Nat
      /\ Cardinality(Tables) \in Nat /\ Cardinality(UserPages) \in Nat
      /\ Cardinality(Hand) \in Nat /\ Booted \in Nat
  BY CountedFinite, UserMemoryConstants DEF MemoryInv
<1>1. CASE Quiet \/ Fault \/ TablePresent
  <2>1. UNCHANGED <<bitmap, count, heap>>
    <3>1. CASE Quiet
      BY <3>1, QuietFacts DEF allocator
    <3>2. CASE Fault
      BY <3>2, FaultFacts DEF Fault, allocator, grower
    <3>3. CASE TablePresent
      BY <3>3 DEF TablePresent, allocator, grower
    <3> QED
      BY <1>1, <3>1, <3>2, <3>3
  <2>2. Tables' = Tables /\ UserFrames' = UserFrames /\ UserPages' = UserPages /\ Hand' = Hand
    BY <1>1, OtherHands DEF Hand
  <2>3. InUse' = InUse /\ Used' = Used
    BY <2>1, <2>2 DEF InUse, Used
  <2> QED
    BY <1>b, <2>1, <2>3
<1>2. CASE TakeData \/ TakeTable
  <2> DEFINE f == FirstFree
  <2>1. /\ f \in Frame /\ f \notin bitmap /\ bitmap' = bitmap \cup {f}
        /\ count' = count + 1 /\ heap' = heap
    BY <1>2, TakeFacts DEF grower
  <2>2. /\ Tables' = Tables /\ UserFrames' = UserFrames /\ UserPages' = UserPages
        /\ Hand' = Hand \cup {f}
    <3>1. UserPages' = UserPages
      BY <1>2, SameTables DEF TakeData, TakeTable
    <3> QED
      BY <1>2, <3>1, TakeHands DEF Hand
  <2> HIDE DEF f
  <2>3. /\ count' = Cardinality(bitmap') /\ bitmap = InUse
        /\ Cardinality(bitmap') = Used + 1 /\ f \notin Hand
    BY <1>a, <2>1, OneMore
  <2>4. Cardinality(Hand') = Cardinality(Hand) + 1
    BY <1>c, <2>2, <2>3, FS_AddElement
  <2>5. Used' = Used + 1
    BY <1>c, <2>1, <2>2, <2>4 DEF Used
  <2>6. InUse' = InUse \cup {f}
    BY <2>1, <2>2 DEF InUse
  <2> QED
    BY <2>1, <2>3, <2>5, <2>6
<1>3. CASE GrowTake
  <2> DEFINE f == kernel.frame
  <2>1. /\ kernel.at = "take" /\ bitmap' = bitmap \cup {f} /\ count' = count + 1
        /\ heap' = heap \cup {f}
    BY <1>3 DEF GrowTake, Mark
  <2>2. f \in Frame /\ f \notin bitmap
    BY <1>a, <2>1 DEF MemoryInv, GrowerKnown
  <2>3. Tables' = Tables /\ UserFrames' = UserFrames /\ UserPages' = UserPages /\ Hand' = Hand
    BY <1>3, OtherHands DEF Hand
  <2> HIDE DEF f
  <2>4. /\ count' = Cardinality(bitmap') /\ bitmap = InUse
        /\ Cardinality(bitmap') = Used + 1 /\ f \notin heap
    BY <1>a, <2>1, <2>2, OneMore
  <2>5. Cardinality(heap') = Cardinality(heap) + 1
    BY <1>c, <2>1, <2>4, FS_AddElement
  <2>6. Used' = Used + 1
    BY <1>c, <2>3, <2>5 DEF Used
  <2>7. InUse' = InUse \cup {f}
    BY <2>1, <2>3 DEF InUse
  <2> QED
    BY <2>1, <2>4, <2>6, <2>7
<1>4. CASE NoTable
  <2>1. FreeFrames = {} /\ UNCHANGED <<bitmap, count>>
    BY <1>4 DEF NoTable, allocator
  <2>2. bitmap \in SUBSET Frame /\ Frames \in Nat
    BY UserMemoryConstants DEF MemoryInv, TypeOK
  <2>3. bitmap = Frame
    <3>1. CASE count >= Frames
      <4>1. Cardinality(bitmap) <= Cardinality(Frame)
        BY <1>c, <2>2, FS_Subset
      <4>2. Cardinality(Frame) = Cardinality(bitmap)
        BY <1>b, <1>c, <2>2, <3>1, <4>1
      <4> QED
        BY <1>c, <2>2, <4>2, FS_Subset
    <3>2. CASE ~ (count >= Frames)
      BY <2>1, <2>2, <3>2 DEF FreeFrames
    <3> QED
      BY <3>1, <3>2
  <2> QED
    BY <1>b, <2>1, <2>3
<1>5. CASE ZeroTable
  <2> DEFINE f == Top.table
  <2>1. /\ f \in HandTables /\ UserFrames' = UserFrames /\ UserPages' = UserPages
        /\ HandTables' = HandTables \ {f} /\ HandData' = HandData /\ f \in Frame
    BY <1>5, ZeroHands
  <2>2. UNCHANGED <<bitmap, count, heap>> /\ f < Ident
    BY <1>5, ZeroFacts DEF allocator, grower
  <2>3. Tables' = Tables \cup {f}
    <3>1. PICK d \in DirIndex : /\ directory[d] # None => f >= Ident
                                /\ Tables' = (Tables \ {directory[d]}) \cup {f}
      BY <1>5, ZeroHands
    <3>2. directory[d] = None
      BY <2>1, <2>2, <3>1, FrameIsPage, UserMemoryConstants
    <3>3. None \notin Tables
      BY DEF Tables
    <3> QED
      BY <3>1, <3>2, <3>3
  <2>4. f \notin Tables /\ f \notin HandData
    BY <2>1 DEF MemoryInv, FramesApart
  <2> HIDE DEF f
  <2>5. Hand' = Hand \ {f} /\ f \in Hand
    BY <2>1, <2>4 DEF Hand
  <2>6. /\ Cardinality(Tables') = Cardinality(Tables) + 1
        /\ Cardinality(Hand') = Cardinality(Hand) - 1
    BY <1>c, <2>3, <2>4, <2>5, FS_AddElement, FS_RemoveElement
  <2>7. Used' = Used
    BY <1>c, <2>1, <2>2, <2>6 DEF Used
  <2>8. InUse' = InUse
    BY <2>1, <2>2, <2>3, <2>5 DEF InUse
  <2> QED
    BY <1>b, <2>2, <2>7, <2>8
<1>6. CASE WriteEntry
  <2> DEFINE f == Top.data
             q == Top.page
  <2>1. /\ f \in HandData /\ f \in Frame /\ HandlerKnows(Top)
        /\ UNCHANGED <<bitmap, count, heap>> /\ TableOf(q) < Ident
    <3>1. /\ TableOf(q) < Ident \/ stray'
      BY <1>6, WriteFacts
    <3> QED
      BY <1>6, <3>1, WriteFacts DEF allocator, grower
  <2>2. UserPages' = UserPages \cup {q} /\ UserFrames' = UserFrames \cup {f}
    BY <1>6, <2>1, UsersStep
  <2>3. /\ Tables' = Tables /\ HandTables' = HandTables /\ HandData' = HandData \ {f}
    BY <1>6, LeaveHands
  <2>4. q \notin UserPages /\ f \notin HandTables
    BY <2>1 DEF HandlerKnows, UserPages, MemoryInv, FramesApart
  <2> HIDE DEF f, q
  <2>5. Hand' = Hand \ {f} /\ f \in Hand
    BY <2>1, <2>3, <2>4 DEF Hand
  <2>6. /\ Cardinality(UserPages') = Cardinality(UserPages) + 1
        /\ Cardinality(Hand') = Cardinality(Hand) - 1
    BY <1>c, <2>2, <2>4, <2>5, FS_AddElement, FS_RemoveElement
  <2>7. Used' = Used
    BY <1>c, <2>1, <2>3, <2>6 DEF Used
  <2>8. InUse' = InUse
    BY <2>1, <2>2, <2>3, <2>5 DEF InUse
  <2> QED
    BY <1>b, <2>1, <2>7, <2>8
<1> QED
  BY <1>1, <1>2, <1>3, <1>4, <1>5, <1>6, NextIs

LEMMA AccountsInit == Init => Accounts
<1> SUFFICES ASSUME Init PROVE Accounts
  OBVIOUS
<1>1. faults = <<>> /\ Len(faults) = 0
  BY DEF Init
<1>2. Tables = {} /\ Hand = {}
  BY <1>1 DEF Init, Tables, Hand, HandTables, HandData
<1>3. UserPages = {} /\ UserFrames = {}
  <2>1. TypeOK
    BY MemoryInit DEF MemoryInv
  <2>2. \A p \in Page : p >= Ident => ~ Mapped(p)
    <3> SUFFICES ASSUME NEW p \in Page, p >= Ident PROVE ~ Mapped(p)
      OBVIOUS
    <3>1. TableOf(p) = None
      BY PagePlace DEF Init, TableOf
    <3> QED
      BY <2>1, <3>1, BlankUnmapped
  <2> QED
    BY <2>2 DEF UserPages, UserFrames
<1>4. Cardinality(0 .. Booted - 1) = Booted /\ Booted \in Nat
  BY UserMemoryConstants, FS_Interval
<1> QED
  BY <1>2, <1>3, <1>4, FS_EmptySet DEF Init, Accounts, InUse, Used

\* Every frame that pmm.c has marked has one user, and used_blocks counts them: no
\* frame is given twice and none is lost, while no allocation overlapped another,
\* no table lay beyond the identity map, and frames were left.
THEOREM FramesAreAccounted == Spec => []FramesAccounted
<1>1. MemoryInv /\ Accounts => FramesAccounted
  BY AccountsAre
<1> QED
  BY <1>1, MemoryInit, MemoryStep, AccountsInit, AccountsStep, PTL DEF Spec
=============================================================================
