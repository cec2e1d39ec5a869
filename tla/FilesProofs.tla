---------------------------- MODULE FilesProofs ----------------------------
(***************************************************************************)
(* What is proved of Files, for any disk, any pool of nodes, any sizes of  *)
(* sectors, clusters and reads, and any paths.                             *)
(***************************************************************************)
EXTENDS Files, SequenceTheorems, FiniteSetTheorems, WellFoundedInduction, TLAPS

-----------------------------------------------------------------------------
(* Numbers.                                                                *)

LEMMA Division ==
    ASSUME NEW b \in Nat \ {0}, NEW a \in Nat
    PROVE  /\ a \div b \in Nat /\ a % b \in 0 .. b - 1
           /\ a = (a \div b) * b + (a % b)
<1>1. a % b \in 0 .. b - 1
  OBVIOUS
<1>2. a = (a \div b) * b + (a % b)
  OBVIOUS
<1>3. a \div b \in Nat
  OBVIOUS
<1> QED
  BY <1>1, <1>2, <1>3

LEMMA FewerTimes ==
    ASSUME NEW a \in Nat, NEW b \in Nat, NEW c \in Nat \ {0}, a * c < b * c
    PROVE  a < b
OBVIOUS

LEMMA Times ==
    ASSUME NEW a \in Nat, NEW b \in Nat, NEW c \in Nat, a <= b
    PROVE  a * c \in Nat /\ a * c <= b * c /\ (a + 1) * c = a * c + c
OBVIOUS

\* A quotient and a remainder are what they are.
LEMMA Divided ==
    ASSUME NEW b \in Nat \ {0}, NEW q \in Nat, NEW r \in 0 .. b - 1
    PROVE  (q * b + r) \div b = q /\ (q * b + r) % b = r
<1> PICK a \in Nat : a = q * b + r
  BY Times
<1> PICK p \in Nat, s \in 0 .. b - 1 : p = a \div b /\ s = a % b
  BY Division
<1>1. p * b + s = q * b + r
  BY Division
<1>2. ~ (p < q)
  <2> SUFFICES ASSUME p + 1 <= q PROVE FALSE
    OBVIOUS
  <2>1. (p + 1) * b = p * b + b /\ (p + 1) * b <= q * b
    BY Times
  <2> QED
    BY <1>1, <2>1, Times
<1>3. ~ (q < p)
  <2> SUFFICES ASSUME q + 1 <= p PROVE FALSE
    OBVIOUS
  <2>1. (q + 1) * b = q * b + b /\ (q + 1) * b <= p * b
    BY Times
  <2> QED
    BY <1>1, <2>1, Times
<1> QED
  BY <1>1, <1>2, <1>3, Times

\* A set of naturals that is not empty has a least element.
LEMMA LeastElement ==
    ASSUME NEW S \in SUBSET Nat, S # {}
    PROVE  \E m \in S : \A n \in S : m <= n
<1> DEFINE Below(n) == 0 .. n - 1
           T == {Below(n) : n \in S}
<1>1. \A n \in S : Below(n) \in FiniteSubsetsOf(Nat)
  <2> SUFFICES ASSUME NEW n \in S PROVE Below(n) \in FiniteSubsetsOf(Nat)
    OBVIOUS
  <2>1. n - 1 \in Int /\ Below(n) \in SUBSET Nat
    OBVIOUS
  <2>2. IsFiniteSet(Below(n))
    BY <2>1, FS_Interval
  <2> HIDE DEF Below
  <2> QED
    BY <2>1, <2>2, Zenon DEF FiniteSubsetsOf
<1>2. T \subseteq FiniteSubsetsOf(Nat) /\ T # {}
  <2> HIDE DEF Below
  <2> QED
    BY <1>1
<1>3. PICK x \in T : \A y \in T : <<y, x>> \notin StrictSubsetOrdering(Nat)
  BY <1>2, FS_StrictSubsetOrderingWellFounded, WFMin, Zenon
<1>4. PICK m \in S : x = Below(m)
  OBVIOUS
<1>5. ASSUME NEW n \in S PROVE m <= n
  <2> SUFFICES ASSUME n < m PROVE FALSE
    OBVIOUS
  <2>1. Below(n) \subseteq Below(m) /\ n \in Below(m) /\ n \notin Below(n)
    OBVIOUS
  <2>2. <<Below(n), Below(m)>> \in StrictSubsetOrdering(Nat)
    BY <2>1 DEF StrictSubsetOrdering
  <2> QED
    BY <1>3, <1>4, <2>2
<1> QED
  BY <1>5

LEMMA MinIs ==
    ASSUME NEW S \in SUBSET Nat, S # {}
    PROVE  Min(S) \in S /\ \A n \in S : Min(S) <= n
<1>1. \E m \in S : \A n \in S : m <= n
  BY LeastElement
<1> QED
  BY <1>1 DEF Min

-----------------------------------------------------------------------------
(* The helpers of the model.                                               *)

LEMMA Sizes ==
    /\ ClusterBytes \in Nat \ {0} /\ SectorBytes \in Nat \ {0} /\ PerCluster \in Nat \ {0}
    /\ FatWords \in Nat \ {0} /\ Mask \in Nat \ {0} /\ MAX_FAT32_NODES \in Nat \ {0}
    /\ EndOfChain \in Nat /\ None \notin Nat
<1>1. /\ PerCluster \in Nat \ {0} /\ SectorBytes \in Nat \ {0} /\ FatWords \in Nat \ {0}
      /\ Mask \in Nat /\ EndOfChain \in 2 .. Mask - 1 /\ None \notin Nat
      /\ MAX_FAT32_NODES \in Nat \ {0}
  BY FilesConstants, Zenon
<1>2. EndOfChain \in Nat /\ Mask \in Nat \ {0}
  BY <1>1
<1>3. PerCluster * SectorBytes \in Nat \ {0}
  BY <1>1
<1> QED
  BY <1>1, <1>2, <1>3 DEF ClusterBytes

LEMMA NamesAre ==
    /\ RamList \in Seq(Names \X Seq(Byte)) /\ MAX_RAMFS_FILES \in Nat
    /\ "/" \notin Names /\ Shell # User /\ None \notin Nat
    /\ Commands \subseteq {"ls", "cat", "exec"} \X Seq(Names \cup {"/"})
    /\ UserPath \in Seq(Names \cup {"/"}) /\ MaxCommands \in Nat
BY FilesConstants, Zenon

\* (The backend for arithmetic cannot read the empty string.)
LEMMA NamedAre == "" \in Names /\ "root" \in Names /\ "disk" \in Names
BY FilesConstants, Zenon

LEMMA RootNamed == "root" \in Names /\ "disk" \in Names
BY NamedAre, Zenon

LEMMA PlacesAre ==
    /\ FatStart \in Nat /\ DataStart \in Nat /\ RootCluster \in Nat
    /\ Chunk \in Nat \ {0} /\ Magic \in Byte
BY FilesConstants, Zenon

\* A function on 1 .. n is a sequence.
LEMMA SeqIs ==
    ASSUME NEW S, NEW n \in Nat, NEW f \in [1 .. n -> S]
    PROVE  f \in Seq(S) /\ Len(f) = n
<1>1. f \in Seq(S)
  BY SeqDef
<1> QED
  BY <1>1, LenProperties

LEMMA SmallerIs ==
    ASSUME NEW a \in Int, NEW b \in Int
    PROVE  /\ Smaller(a, b) \in {a, b} /\ Smaller(a, b) <= a /\ Smaller(a, b) <= b
BY DEF Smaller

\* A part of a sequence.
LEMMA Cut ==
    ASSUME NEW S, NEW s \in Seq(S), NEW a \in Nat, NEW b \in Int, b <= Len(s)
    PROVE  /\ SubSeq(s, a + 1, b) \in Seq(S)
           /\ Len(SubSeq(s, a + 1, b)) = IF a < b THEN b - a ELSE 0
           /\ \A i \in 1 .. b - a : SubSeq(s, a + 1, b)[i] = s[a + i]
<1> PICK m : m = a + 1
  OBVIOUS
<1>1. m \in Int /\ Len(s) \in Nat
  OBVIOUS
<1>2. \A i \in m .. b : i \in 1 .. Len(s)
  OBVIOUS
<1>3. \A i \in m .. b : s[i] \in S
  BY <1>2, ElementOfSeq
<1>4. /\ SubSeq(s, m, b) \in Seq(S)
      /\ Len(SubSeq(s, m, b)) = IF m <= b THEN b - m + 1 ELSE 0
      /\ \A i \in 1 .. b - m + 1 : SubSeq(s, m, b)[i] = s[m + i - 1]
  BY <1>1, <1>3, SubSeqProperties
<1>5. b - m + 1 = b - a /\ (m <= b <=> a < b)
  OBVIOUS
<1>6. \A i \in 1 .. b - a : m + i - 1 = a + i
  OBVIOUS
<1> QED
  BY <1>4, <1>5, <1>6

LEMMA StrippedIs ==
    ASSUME NEW S, NEW s \in Seq(S)
    PROVE  \/ Stripped(s) = <<>> /\ \A i \in 1 .. Len(s) : s[i] = "/"
           \/ \E i \in 1 .. Len(s) : /\ Stripped(s) = SubSeq(s, i, Len(s))
                                     /\ s[i] # "/" /\ \A j \in 1 .. i - 1 : s[j] = "/"
<1>0. DOMAIN s = 1 .. Len(s) /\ Len(s) \in Nat
  OBVIOUS
<1> DEFINE names == {i \in DOMAIN s : s[i] # "/"}
<1>1. CASE names = {}
  BY <1>1 DEF Stripped
<1>2. CASE names # {}
  <2>1. names \in SUBSET Nat
    OBVIOUS
  <2>2. Min(names) \in names /\ \A n \in names : Min(names) <= n
    BY <1>2, <2>1, MinIs
  <2>3. Stripped(s) = SubSeq(s, Min(names), Len(s))
    BY <1>2 DEF Stripped
  <2> PICK m : m = Min(names)
    OBVIOUS
  <2>4. m \in 1 .. Len(s) /\ s[m] # "/"
    BY <1>0, <2>2
  <2>5. ASSUME NEW j \in 1 .. m - 1 PROVE s[j] = "/"
    <3>1. j \in 1 .. Len(s) /\ ~ (m <= j)
      BY <1>0, <2>4
    <3> QED
      BY <1>0, <2>2, <3>1
  <2> QED
    BY <2>3, <2>4, <2>5
<1> QED
  BY <1>1, <1>2

\* The RAM files: a file of the list, or the mount.
LEMMA RamFilesAre ==
    /\ RamFiles \in Seq(RamNode \cup DiskNode) /\ Len(RamFiles) <= Len(RamList) + 1
    /\ \A i \in DOMAIN RamFiles :
         \/ /\ i <= Len(RamList) /\ RamFiles[i] \in RamNode /\ ~ RamFiles[i].dir
            /\ RamFiles[i].size = Len(RamFiles[i].bytes)
         \/ i > Len(RamList) /\ RamFiles[i] = Directory("disk", RootCluster)
<1>1. Len(RamList) \in Nat /\ MAX_RAMFS_FILES \in Nat
  BY NamesAre, LenProperties, Zenon
<1> PICK m \in Nat : m = Smaller(Len(RamList) + 1, MAX_RAMFS_FILES)
  BY <1>1 DEF Smaller
<1>2. DOMAIN RamFiles = 1 .. m /\ m <= Len(RamList) + 1
  BY <1>1 DEF RamFiles, Smaller
<1>3. ASSUME NEW i \in 1 .. m, i <= Len(RamList)
      PROVE  /\ RamFiles[i] \in RamNode /\ ~ RamFiles[i].dir
             /\ RamFiles[i].size = Len(RamFiles[i].bytes)
  <2>1. RamFiles[i] = File(RamList[i])
    BY <1>1, <1>3 DEF RamFiles
  <2>2. RamList[i] \in Names \X Seq(Byte)
    <3>1. i \in 1 .. Len(RamList)
      BY <1>1, <1>3
    <3> QED
      BY <3>1, NamesAre, ElementOfSeq, Zenon
  <2>3. RamList[i][1] \in Names /\ RamList[i][2] \in Seq(Byte) /\ Len(RamList[i][2]) \in Nat
    BY <2>2
  <2> QED
    BY <2>1, <2>3 DEF File, RamNode
<1>4. ASSUME NEW i \in 1 .. m, i > Len(RamList)
      PROVE  RamFiles[i] = Directory("disk", RootCluster) /\ RamFiles[i] \in DiskNode
  <2>1. RamFiles[i] = Directory("disk", RootCluster)
    BY <1>1, <1>4 DEF RamFiles
  <2>2. Directory("disk", RootCluster) \in DiskNode
    BY RootNamed, PlacesAre DEF Directory, DiskNode
  <2> QED
    BY <2>1, <2>2
<1>5. RamFiles = [i \in 1 .. m |-> RamFiles[i]]
  BY <1>2 DEF RamFiles
<1>6. \A i \in 1 .. m : RamFiles[i] \in RamNode \cup DiskNode
  BY <1>1, <1>3, <1>4
<1>7. RamFiles \in Seq(RamNode \cup DiskNode) /\ Len(RamFiles) = m
  <2>1. RamFiles \in [1 .. m -> RamNode \cup DiskNode]
    BY <1>5, <1>6
  <2> QED
    BY <2>1, SeqIs
<1> QED
  BY <1>1, <1>2, <1>3, <1>4, <1>7

LEMMA RamChildIs ==
    ASSUME NEW name
    PROVE  \/ RamChild(name) = 0 /\ \A i \in DOMAIN RamFiles : RamFiles[i].name # name
           \/ /\ RamChild(name) \in DOMAIN RamFiles \cap (Nat \ {0})
              /\ RamFiles[RamChild(name)].name = name
              /\ \A j \in 1 .. RamChild(name) - 1 : RamFiles[j].name # name
<1> DEFINE same == {i \in DOMAIN RamFiles : RamFiles[i].name = name}
<1>0. DOMAIN RamFiles = 1 .. Len(RamFiles) /\ Len(RamFiles) \in Nat
  BY RamFilesAre
<1>1. CASE same = {}
  BY <1>1 DEF RamChild
<1>2. CASE same # {}
  <2>1. same \in SUBSET Nat
    BY <1>0
  <2>2. Min(same) \in same /\ \A n \in same : Min(same) <= n
    BY <1>2, <2>1, MinIs
  <2> PICK m : m = Min(same)
    OBVIOUS
  <2>3. RamChild(name) = m
    BY <1>2 DEF RamChild
  <2>4. /\ m \in 1 .. Len(RamFiles) /\ RamFiles[m].name = name
        /\ \A j \in 1 .. m - 1 : j \in DOMAIN RamFiles /\ ~ (m <= j)
    BY <1>0, <2>2
  <2>5. \A j \in 1 .. m - 1 : RamFiles[j].name # name
    BY <2>2, <2>4
  <2> QED
    BY <1>0, <2>3, <2>4, <2>5
<1> QED
  BY <1>1, <1>2

-----------------------------------------------------------------------------
(* Types.                                                                  *)

\* A directory the disk holds, by its node: a slot of the pool, or the mount.
OnDisk(p) == p \in Places /\ (p[1] = "fat" \/ (p[1] = "ram" /\ p[2] > Len(RamList)))

\* What a thread is doing, and what its innermost call is, go together.
Flow(c, i) ==
    /\ c.do # "none" => c.path \in Paths
    /\ c.at # "done" => c.do # "none"
    /\ c.at \in {"walk", "done"} => i = NoIo
    /\ c.at = "find" => i \in DirCalls /\ c.rest # <<>> /\ OnDisk(c.node)
    /\ c.at = "list" => c.do = "ls" /\ (i = NoIo \/ (i \in DirCalls /\ OnDisk(c.node)))
    /\ c.at = "read" => c.do = "cat"
    /\ c.at \in {"header", "segment"} => c.do = "exec"
    /\ c.at \in {"read", "header", "segment"} => i \in {NoIo} \cup ReadCalls \cup BufferCalls
    /\ i \in DirCalls => InUse(i.my.cluster)
    /\ i \in ReadCalls /\ i.then = "skip" => i.my.skip > 0
    /\ i \in ReadCalls /\ i.then = "bytes" =>
         InUse(i.my.cluster) /\ \E k \in 0 .. PerCluster - 1 : Len(i.my.buf) = k * SectorBytes

FlowInv == \A t \in Threads : Flow(cmd[t], io[t])
TypeInv == TypeOK /\ FlowInv

\* The command of t becomes c, its innermost call i.
Moves(t, c, i) == /\ io' = [io EXCEPT ![t] = i]
                  /\ With(t, c) \/ WithNode(t, c)

\* The node at a place, in a pool.
NodeAt(pool, n) == CASE n[1] = "root" -> Directory("root", None)
                     [] n[1] = "ram"  -> RamFiles[n[2]]
                     [] n[1] = "fat"  -> pool[n[2]]

LEMMA NodesAt == \A n : Node(n) = NodeAt(nodes, n) /\ Node(n)' = NodeAt(nodes', n)
BY DEF Node, NodeAt

LEMMA PathsAre == \A path \in Paths : path \in Seq(Names \cup {"/"})
BY NamesAre DEF Paths

LEMMA CommandsAre ==
    ASSUME NEW c \in Commands
    PROVE  c[1] \in {"ls", "cat", "exec"} /\ c[2] \in Paths
BY NamesAre DEF Paths

\* The kinds of places are told apart by their first part.
LEMMA PlaceIs ==
    ASSUME NEW p \in Places
    PROVE  \/ p = Root /\ p[1] = "root"
           \/ p[1] = "ram" /\ p[2] \in DOMAIN RamFiles /\ p # Root
           \/ p[1] = "fat" /\ p[2] \in 0 .. MAX_FAT32_NODES - 1 /\ p # Root
BY DEF Places, Root

LEMMA MountIs ==
    /\ Directory("disk", RootCluster) \in DiskNode
    /\ Directory("root", None) \in RamNode /\ Directory("root", None).dir
BY RootNamed, PlacesAre DEF Directory, DiskNode, RamNode

LEMMA NodeType ==
    ASSUME NEW pool \in [0 .. MAX_FAT32_NODES - 1 -> DiskNode], NEW p \in Places
    PROVE  /\ NodeAt(pool, p) \in DiskNode \cup RamNode
           /\ OnDisk(p) => NodeAt(pool, p) \in DiskNode
           /\ p # Root /\ NodeAt(pool, p).dir => OnDisk(p)
<1>0. Len(RamList) \in Nat
  BY NamesAre, LenProperties, Zenon
<1>1. CASE p = Root /\ p[1] = "root"
  BY <1>1, MountIs DEF NodeAt, OnDisk
<1>2. CASE p[1] = "ram" /\ p[2] \in DOMAIN RamFiles /\ p # Root
  <2>1. NodeAt(pool, p) = RamFiles[p[2]]
    BY <1>2 DEF NodeAt
  <2>2. CASE p[2] <= Len(RamList) /\ RamFiles[p[2]] \in RamNode /\ ~ RamFiles[p[2]].dir
    BY <1>0, <1>2, <2>1, <2>2, RamFilesAre DEF OnDisk
  <2>3. CASE p[2] > Len(RamList) /\ RamFiles[p[2]] = Directory("disk", RootCluster)
    BY <1>2, <2>1, <2>3, MountIs DEF OnDisk
  <2> QED
    BY <1>2, <2>2, <2>3, RamFilesAre
<1>3. CASE p[1] = "fat" /\ p[2] \in 0 .. MAX_FAT32_NODES - 1 /\ p # Root
  <2>1. NodeAt(pool, p) = pool[p[2]]
    BY <1>3 DEF NodeAt
  <2> QED
    BY <1>3, <2>1 DEF OnDisk
<1> QED
  BY <1>1, <1>2, <1>3, PlaceIs

\* The calls are told apart by where they are and what they are for.
LEMMA CallsAre ==
    ASSUME NEW i \in Io
    PROVE  /\ i = NoIo <=> i.at = "none"
           /\ i \in BufferCalls <=> i.at = "buffer"
           /\ i \in DirCalls <=> i.at \in {"address", "command", "data"}
                                 /\ i.then \in {"entries", "next_entries"}
           /\ i \in ReadCalls <=> i.at \in {"address", "command", "data"}
                                  /\ i.then \in {"skip", "bytes", "next_bytes"}
BY DEF Io, NoIo, DirCalls, ReadCalls, BufferCalls

LEMMA NoCallIs == NoIo \in Io /\ NoIo \notin ReadCalls /\ NoIo \notin DirCalls /\ NoIo \notin BufferCalls
BY DEF Io, NoIo, DirCalls, ReadCalls, BufferCalls

\* A command with new values in some fields.
LEMMA Edited ==
    ASSUME NEW c \in Cmd,
           NEW at \in {"walk", "find", "list", "read", "header", "segment", "done"},
           NEW rest \in Seq(Names \cup {"/"}), NEW node \in Places, NEW from \in Nat
    PROVE  /\ [c EXCEPT !.at = at, !.node = node, !.rest = rest, !.from = from] \in Cmd
           /\ [c EXCEPT !.at = at, !.node = node, !.rest = rest] \in Cmd
           /\ [c EXCEPT !.at = at, !.rest = rest] \in Cmd
<1>1. [c EXCEPT !.at = at, !.node = node, !.rest = rest, !.from = from] \in Cmd
  BY DEF Cmd
<1>2. [c EXCEPT !.at = at, !.node = node, !.rest = rest] \in Cmd
  BY DEF Cmd
<1>3. [c EXCEPT !.at = at, !.rest = rest] \in Cmd
  BY DEF Cmd
<1> QED
  BY <1>1, <1>2, <1>3

LEMMA NothingIs == <<>> \in Seq(Names \cup {"/"}) /\ Root \in Places
BY EmptySeq, Zenon DEF Places

LEMMA DoneType ==
    ASSUME NEW c \in Cmd, c.do # "none", c.path \in Paths,
           NEW r \in {"ok", "missing", "wrong_kind"}
    PROVE  Done(c, r) \in Cmd /\ Flow(Done(c, r), NoIo)
<1>1. Done(c, r) \in Cmd
  <2> PICK none : none = <<>>
    OBVIOUS
  <2> PICK root : root = Root
    OBVIOUS
  <2>1. Done(c, r) = [c EXCEPT !.at = "done", !.result = r, !.rest = none, !.node = root,
                               !.from = 0]
    BY Zenon DEF Done
  <2>2. none \in Seq(Names \cup {"/"}) /\ root \in Places
    BY NothingIs, Zenon
  <2>3. "done" \in {"walk", "find", "list", "read", "header", "segment", "done"}
        /\ r \in {"ok", "missing", "wrong_kind", None} /\ 0 \in Nat
    OBVIOUS
  <2> QED
    BY <2>1, <2>2, <2>3 DEF Cmd
<1>2. Done(c, r).at = "done" /\ Done(c, r).path = c.path /\ Done(c, r).do = c.do
  BY DEF Done, Cmd
<1> QED
  BY <1>1, <1>2, NoCallIs DEF Flow

LEMMA FoundType ==
    ASSUME NEW c \in Cmd, c.do # "none", c.path \in Paths, NEW n \in Places, NEW node
    PROVE  Found(c, n, node) \in Cmd /\ Flow(Found(c, n, node), NoIo)
<1> PICK rest : rest = <<>>
  OBVIOUS
<1>0. rest \in Seq(Names \cup {"/"})
  BY NothingIs
<1> DEFINE d(at) == [c EXCEPT !.at = at, !.node = n, !.rest = rest, !.from = 0]
<1>1. ASSUME NEW at \in {"list", "read", "header"} PROVE d(at) \in Cmd
  BY <1>0, <1>1, Edited
<1>2. ASSUME NEW at \in {"list", "read", "header"}
      PROVE  d(at).at = at /\ d(at).path = c.path /\ d(at).do = c.do
  BY <1>2 DEF Cmd
<1>3. CASE Found(c, n, node) = d("list") /\ c.do = "ls"
  BY <1>1, <1>2, <1>3, NoCallIs DEF Flow
<1>4. CASE Found(c, n, node) = d("read") /\ c.do = "cat"
  BY <1>1, <1>2, <1>4, NoCallIs DEF Flow
<1>5. CASE Found(c, n, node) = d("header") /\ c.do = "exec"
  BY <1>1, <1>2, <1>5, NoCallIs DEF Flow
<1>6. CASE Found(c, n, node) = Done(c, "wrong_kind")
  BY <1>6, DoneType
<1>7. c.do \in {"ls", "cat", "exec"}
  BY DEF Cmd
<1> QED
  BY <1>3, <1>4, <1>5, <1>6, <1>7 DEF Found

LEMMA ChildType ==
    ASSUME NEW c \in Cmd, c.do # "none", c.path \in Paths, NEW n \in Places, NEW node,
           NEW rest \in Seq(Names \cup {"/"})
    PROVE  Child(c, n, node, rest) \in Cmd /\ Flow(Child(c, n, node, rest), NoIo)
<1>1. CASE rest = <<>>
  BY <1>1, FoundType DEF Child
<1>2. CASE rest # <<>>
  <2>1. Tail(rest) \in Seq(Names \cup {"/"})
    BY <1>2, HeadTailProperties
  <2> PICK tail : tail = Tail(rest)
    OBVIOUS
  <2> PICK d : d = [c EXCEPT !.at = "walk", !.node = n, !.rest = tail]
    OBVIOUS
  <2>2. Child(c, n, node, rest) = d
    BY <1>2 DEF Child
  <2>3. d \in Cmd /\ d.at = "walk" /\ d.do = c.do /\ d.path = c.path
    BY <2>1 DEF Cmd
  <2> QED
    BY <2>2, <2>3, NoCallIs DEF Flow
<1> QED
  BY <1>1, <1>2

LEMMA CountType ==
    ASSUME NEW c \in Cmd
    PROVE  /\ Count(c) \in Cmd
           /\ \E k \in {c.taken, c.taken + 1} : Count(c) = [c EXCEPT !.taken = k]
           /\ Count(c).do = c.do /\ Count(c).at = c.at /\ Count(c).path = c.path
           /\ Count(c).rest = c.rest /\ Count(c).node = c.node
           /\ \A i : Flow(Count(c), i) <=> Flow(c, i)
<1>1. Count(c) \in Cmd /\ \E k \in {c.taken, c.taken + 1} : Count(c) = [c EXCEPT !.taken = k]
  <2>1. CASE Count(c) = c
    <3>1. c = [c EXCEPT !.taken = c.taken]
      BY DEF Cmd
    <3> QED
      BY <2>1, <3>1
  <2>2. CASE c.taken < MAX_FAT32_NODES /\ Count(c) = [c EXCEPT !.taken = @ + 1]
    <3> PICK k : k = c.taken + 1
      OBVIOUS
    <3>1. k \in 0 .. MAX_FAT32_NODES
      BY <2>2, Sizes DEF Cmd
    <3>2. [c EXCEPT !.taken = k] \in Cmd
      BY <3>1 DEF Cmd
    <3> QED
      BY <2>2, <3>2
  <2> QED
    BY <2>1, <2>2 DEF Count
<1>2. Count(c).do = c.do /\ Count(c).at = c.at /\ Count(c).path = c.path
      /\ Count(c).rest = c.rest /\ Count(c).node = c.node
  BY DEF Count, Cmd
<1> QED
  BY <1>1, <1>2 DEF Flow

\* What Asks and NeedsBuffer leave in io.
Call(sector, then, my) == [at |-> "address", lba |-> sector, then |-> then, my |-> my]
Waits(my) == [at |-> "buffer", lba |-> None, then |-> None, my |-> my]

LEMMA CallType ==
    /\ \A sector \in Nat, then \in {"entries", "next_entries"}, my \in DirLocals :
         Call(sector, then, my) \in DirCalls
    /\ \A sector \in Nat, then \in {"skip", "bytes", "next_bytes"}, my \in ReadLocals :
         Call(sector, then, my) \in ReadCalls
    /\ \A my \in ReadLocals : Waits(my) \in BufferCalls
    /\ DirCalls \cup ReadCalls \cup BufferCalls \subseteq Io
<1>1. \A sector \in Nat, then \in {"entries", "next_entries"}, my \in DirLocals :
         Call(sector, then, my) \in DirCalls
  BY DEF Call, DirCalls
<1>2. \A sector \in Nat, then \in {"skip", "bytes", "next_bytes"}, my \in ReadLocals :
         Call(sector, then, my) \in ReadCalls
  BY DEF Call, ReadCalls
<1>3. \A my \in ReadLocals : Waits(my) \in BufferCalls
  BY DEF Waits, BufferCalls
<1>4. DirCalls \cup ReadCalls \cup BufferCalls \subseteq Io
  BY DEF Io
<1> QED
  BY <1>1, <1>2, <1>3, <1>4

LEMMA CallFields ==
    \A sector, then, my : /\ Call(sector, then, my).at = "address"
                          /\ Call(sector, then, my).lba = sector
                          /\ Call(sector, then, my).then = then
                          /\ Call(sector, then, my).my = my
                          /\ Waits(my).at = "buffer" /\ Waits(my).my = my
                          /\ Waits(my).then = None
BY DEF Call, Waits

LEMMA SectorType ==
    ASSUME NEW c \in Nat, NEW s \in Nat
    PROVE  InUse(c) => SectorOf(c, s) \in Nat /\ FatSector(c) \in Nat
<1>1. c >= 2 => (c - 2) * PerCluster \in Nat
  BY Sizes
<1>2. c \div FatWords \in Nat
  BY Sizes, Division
<1> QED
  BY <1>1, <1>2, PlacesAre DEF SectorOf, FatSector, InUse

LEMMA FatSectorType == ASSUME NEW c \in Nat PROVE FatSector(c) \in Nat
<1>1. c \div FatWords \in Nat
  BY Sizes, Division
<1> QED
  BY <1>1, PlacesAre DEF FatSector

\* A word of the table, when its sector has come.
LEMMA FatWordType == ASSUME NEW c \in Nat, data \in DOMAIN Disk PROVE FatWord(c) \in Nat
<1>1. c % FatWords \in 0 .. FatWords - 1
  BY Sizes, Division
<1>2. Disk[data].fat \in [0 .. FatWords - 1 -> Nat]
  BY DiskConstants
<1>3. Disk[data].fat[c % FatWords] \in Nat
  BY <1>1, <1>2
<1> QED
  BY <1>3, Sizes, Division DEF FatWord

\* A command that goes on, with a call that fits, keeps the types of all.
LEMMA MovesType ==
    ASSUME TypeInv, NEW t \in Threads, NEW c \in Cmd, NEW i \in Io, Flow(c, i), Moves(t, c, i)
    PROVE  cmd' \in [Threads -> Cmd] /\ io' \in [Threads -> Io] /\ FlowInv'
<1>1. cmd \in [Threads -> Cmd] /\ io \in [Threads -> Io] /\ \A u \in Threads : Flow(cmd[u], io[u])
  BY DEF TypeInv, TypeOK, FlowInv
<1>2. io' = [io EXCEPT ![t] = i]
  BY DEF Moves
<1>3. CASE cmd' = [cmd EXCEPT ![t] = c]
  <2>1. cmd' \in [Threads -> Cmd] /\ io' \in [Threads -> Io]
    BY <1>1, <1>2, <1>3
  <2>2. \A u \in Threads : Flow(cmd'[u], io'[u])
    BY <1>1, <1>2, <1>3
  <2> QED
    BY <2>1, <2>2 DEF FlowInv
<1>4. CASE cmd' = [u \in Threads |-> IF u = t THEN c ELSE Count(cmd[u])]
  <2>1. \A u \in Threads : Count(cmd[u]) \in Cmd /\ Flow(Count(cmd[u]), io[u])
    BY <1>1, CountType
  <2>2. cmd' \in [Threads -> Cmd] /\ io' \in [Threads -> Io]
    BY <1>1, <1>2, <1>4, <2>1
  <2>3. \A u \in Threads : Flow(cmd'[u], io'[u])
    BY <1>1, <1>2, <1>4, <2>1
  <2> QED
    BY <2>2, <2>3 DEF FlowInv
<1> QED
  BY <1>3, <1>4 DEF Moves, With, WithNode

\* A command that stays what it is.
LEMMA Stays ==
    ASSUME TypeInv, NEW t \in Threads, NEW i, cmd' = cmd, io' = [io EXCEPT ![t] = i]
    PROVE  Moves(t, cmd[t], i)
<1>1. cmd = [cmd EXCEPT ![t] = cmd[t]]
  BY DEF TypeInv, TypeOK
<1> QED
  BY <1>1 DEF Moves, With

LEMMA OneFurther ==
    ASSUME NEW c \in Cmd, NEW i \in Io, i.at \in {"address", "command"}, Flow(c, i),
           NEW at \in {"command", "data"}
    PROVE  /\ i.lba \in Nat /\ [i EXCEPT !.at = at] \in Io /\ Flow(c, [i EXCEPT !.at = at])
           /\ i \in DirCalls => [i EXCEPT !.at = at] \in DirCalls
           /\ i \in ReadCalls => [i EXCEPT !.at = at] \in ReadCalls
<1> PICK j : j = [i EXCEPT !.at = at]
  OBVIOUS
<1>1. i # NoIo /\ i \notin BufferCalls
  BY CallsAre
<1>2. CASE i \in DirCalls
  <2>1. j \in DirCalls /\ i.lba \in Nat /\ j # NoIo /\ j.my = i.my
    BY <1>2, NoCallIs DEF DirCalls
  <2>2. j \notin ReadCalls
    BY <2>1 DEF DirCalls, ReadCalls
  <2>3. i \notin ReadCalls
    BY <1>2 DEF DirCalls, ReadCalls
  <2> QED
    BY <1>1, <1>2, <2>1, <2>2, <2>3, CallType DEF Flow
<1>3. CASE i \in ReadCalls
  <2>1. j \in ReadCalls /\ i.lba \in Nat /\ j.then = i.then /\ j.my = i.my
    BY <1>3 DEF ReadCalls
  <2>2. j \notin DirCalls /\ i \notin DirCalls
    BY <1>3, <2>1 DEF DirCalls, ReadCalls
  <2>3. j # NoIo
    BY <2>1, NoCallIs
  <2> QED
    BY <1>1, <1>3, <2>1, <2>2, <2>3, CallType DEF Flow
<1> QED
  BY <1>1, <1>2, <1>3 DEF Io

LEMMA AddressType == ASSUME TypeInv, NEW t \in Threads, Address(t) PROVE TypeInv'
<1>1. cmd[t] \in Cmd /\ io[t] \in Io /\ Flow(cmd[t], io[t]) /\ io[t].at = "address"
  BY DEF TypeInv, TypeOK, FlowInv, Address
<1> PICK i : i = [io[t] EXCEPT !.at = "command"]
  OBVIOUS
<1>2. i \in Io /\ Flow(cmd[t], i) /\ io[t].lba \in Nat
  BY <1>1, OneFurther
<1>3. io' = [io EXCEPT ![t] = i] /\ cmd' = cmd
  BY DEF Address
<1>4. cmd' \in [Threads -> Cmd] /\ io' \in [Threads -> Io] /\ FlowInv'
  BY <1>1, <1>2, <1>3, Stays, MovesType
<1>5. /\ lba' \in Nat /\ overlap' \in BOOLEAN
      /\ UNCHANGED <<nodes, next_node, data, given, starved>>
  BY <1>2 DEF Address, TypeInv, TypeOK
<1> QED
  BY <1>4, <1>5 DEF TypeInv, TypeOK

LEMMA CommandType == ASSUME TypeInv, NEW t \in Threads, Command(t) PROVE TypeInv'
<1>1. cmd[t] \in Cmd /\ io[t] \in Io /\ Flow(cmd[t], io[t]) /\ io[t].at = "command"
  BY DEF TypeInv, TypeOK, FlowInv, Command
<1> PICK i : i = [io[t] EXCEPT !.at = "data"]
  OBVIOUS
<1>2. i \in Io /\ Flow(cmd[t], i)
  BY <1>1, OneFurther
<1>3. io' = [io EXCEPT ![t] = i] /\ cmd' = cmd
  BY DEF Command
<1>4. cmd' \in [Threads -> Cmd] /\ io' \in [Threads -> Io] /\ FlowInv'
  BY <1>1, <1>2, <1>3, Stays, MovesType
<1>5. /\ data' \in {None} \cup DOMAIN Disk
      /\ UNCHANGED <<nodes, next_node, lba, given, overlap, starved>>
  BY DEF Command
<1> QED
  BY <1>4, <1>5 DEF TypeInv, TypeOK

\* A thread goes on, perhaps with a node of the pool.
LEMMA GoesOn ==
    ASSUME TypeInv, NEW t \in Threads, NEW c \in Cmd, NEW i \in Io, Flow(c, i),
           Moves(t, c, i), nodes' \in [0 .. MAX_FAT32_NODES - 1 -> DiskNode],
           next_node' \in 0 .. MAX_FAT32_NODES - 1, UNCHANGED given,
           lba' \in {None} \cup Nat, data' \in {None} \cup DOMAIN Disk,
           overlap' \in BOOLEAN, starved' \in BOOLEAN
    PROVE  TypeInv'
<1>1. cmd' \in [Threads -> Cmd] /\ io' \in [Threads -> Io] /\ FlowInv'
  BY MovesType
<1> QED
  BY <1>1 DEF TypeInv, TypeOK

\* Going on: a command and a call that fit, and a pool.
Goes(t) == /\ \E c \in Cmd, i \in Io : Flow(c, i) /\ Moves(t, c, i)
           /\ nodes' \in [0 .. MAX_FAT32_NODES - 1 -> DiskNode]
           /\ next_node' \in 0 .. MAX_FAT32_NODES - 1

LEMMA SamePool ==
    ASSUME TypeInv, UNCHANGED <<nodes, next_node>>
    PROVE  /\ nodes' \in [0 .. MAX_FAT32_NODES - 1 -> DiskNode]
           /\ next_node' \in 0 .. MAX_FAT32_NODES - 1
BY DEF TypeInv, TypeOK

LEMMA NoEntryGoes ==
    ASSUME TypeInv, NEW t \in Threads, cmd[t].at # "done", NoEntry(t)
    PROVE  Goes(t)
<1>1. cmd[t] \in Cmd /\ cmd[t].do # "none" /\ cmd[t].path \in Paths
  BY DEF TypeInv, TypeOK, FlowInv, Flow
<1> PICK r : r = IF cmd[t].at = "find" THEN "missing" ELSE "ok"
  OBVIOUS
<1>2. Done(cmd[t], r) \in Cmd /\ Flow(Done(cmd[t], r), NoIo)
  BY <1>1, DoneType
<1>3. Moves(t, Done(cmd[t], r), NoIo) /\ UNCHANGED <<nodes, next_node>>
  BY DEF NoEntry, NoCall, Moves
<1> QED
  BY <1>2, <1>3, NoCallIs, SamePool DEF Goes

\* The next call of a walk over a directory.
LEMMA DirGoes ==
    ASSUME TypeInv, NEW t \in Threads, cmd[t].at \in {"find", "list"},
           cmd[t].at = "list" => OnDisk(cmd[t].node), NEW i \in DirCalls, InUse(i.my.cluster),
           io' = [io EXCEPT ![t] = i], UNCHANGED <<nodes, next_node, cmd>>
    PROVE  Goes(t)
<1>1. Flow(cmd[t], io[t]) /\ cmd[t] \in Cmd
  BY DEF TypeInv, TypeOK, FlowInv
<1>2. i \notin ReadCalls /\ i \in Io
  BY CallType DEF DirCalls, ReadCalls
<1>3. Flow(cmd[t], i)
  BY <1>1, <1>2 DEF Flow
<1> QED
  BY <1>1, <1>2, <1>3, Stays, SamePool DEF Goes

LEMMA ReadDirCall ==
    ASSUME NEW c \in Nat, InUse(c), NEW index \in Nat
    PROVE  Call(SectorOf(c, 0), "entries", [cluster |-> c, sector |-> 0, seen |-> 0,
                                            index |-> index]) \in DirCalls
<1>1. SectorOf(c, 0) \in Nat
  BY SectorType
<1>2. [cluster |-> c, sector |-> 0, seen |-> 0, index |-> index] \in DirLocals
  BY Sizes DEF DirLocals
<1> QED
  BY <1>1, <1>2, CallType

LEMMA ReadNodeGoes ==
    ASSUME TypeInv, NEW t \in Threads, cmd[t].at \in {"find", "list"}, OnDisk(cmd[t].node),
           NEW index \in Nat, ReadNode(t, cmd[t].node, index)
    PROVE  Goes(t)
<1>1. cmd[t].node \in Places /\ nodes \in [0 .. MAX_FAT32_NODES - 1 -> DiskNode]
  BY DEF TypeInv, TypeOK, OnDisk
<1>2. Node(cmd[t].node).cluster \in Nat
  BY <1>1, NodeType, NodesAt DEF DiskNode
<1> PICK cluster : cluster = Node(cmd[t].node).cluster
  OBVIOUS
<1>3. CASE InUse(cluster)
  <2> PICK i : i = Call(SectorOf(cluster, 0), "entries",
                        [cluster |-> cluster, sector |-> 0, seen |-> 0, index |-> index])
    OBVIOUS
  <2>1. i \in DirCalls /\ InUse(i.my.cluster)
    BY <1>2, <1>3, ReadDirCall, CallFields
  <2>2. io' = [io EXCEPT ![t] = i] /\ UNCHANGED <<nodes, next_node, cmd>>
    BY <1>3 DEF ReadNode, ReadDir, Asks, Call
  <2> QED
    BY <2>1, <2>2, DirGoes
<1>4. CASE ~ InUse(cluster)
  BY <1>4, NoEntryGoes DEF ReadNode
<1> QED
  BY <1>3, <1>4

LEMMA TakeNodeType ==
    ASSUME TypeInv, NEW e \in Entry, TakeNode(e)
    PROVE  /\ nodes' \in [0 .. MAX_FAT32_NODES - 1 -> DiskNode]
           /\ next_node' \in 0 .. MAX_FAT32_NODES - 1
           /\ <<"fat", next_node>> \in Places /\ NodeOf(e) \in DiskNode
<1>1. /\ nodes \in [0 .. MAX_FAT32_NODES - 1 -> DiskNode]
      /\ next_node \in 0 .. MAX_FAT32_NODES - 1
  BY DEF TypeInv, TypeOK
<1>2. NodeOf(e) \in DiskNode
  BY DEF NodeOf, DiskNode, Entry
<1>3. nodes' \in [0 .. MAX_FAT32_NODES - 1 -> DiskNode]
  BY <1>1, <1>2 DEF TakeNode
<1>4. next_node' \in 0 .. MAX_FAT32_NODES - 1
  BY <1>1, Sizes, Division DEF TakeNode
<1>5. <<"fat", next_node>> \in Places
  BY <1>1 DEF Places
<1> QED
  BY <1>2, <1>3, <1>4, <1>5

\* A name more, for ls.
LEMMA NameType ==
    ASSUME NEW c \in Cmd, NEW name \in Names
    PROVE  LET d == [c EXCEPT !.names = Append(@, name), !.from = @ + 1]
           IN  d \in Cmd /\ d.at = c.at /\ d.do = c.do /\ d.path = c.path /\ d.node = c.node
               /\ d.rest = c.rest
<1> PICK names, from : names = Append(c.names, name) /\ from = c.from + 1
  OBVIOUS
<1>1. names \in Seq(Names) /\ from \in Nat
  BY DEF Cmd
<1>2. [c EXCEPT !.names = names, !.from = from] \in Cmd
  BY <1>1 DEF Cmd
<1> QED
  BY <1>2 DEF Cmd

LEMMA GotEntryGoes ==
    ASSUME TypeInv, NEW t \in Threads, io[t] \in DirCalls, NEW e \in Entry, GotEntry(t, e)
    PROVE  Goes(t)
<1> PICK c : c = cmd[t]
  OBVIOUS
<1>1. /\ c \in Cmd /\ c.at \in {"find", "list"} /\ c.do # "none" /\ c.path \in Paths
      /\ OnDisk(c.node) /\ Flow(c, io[t]) /\ (c.at = "find" => c.rest # <<>>)
  <2>1. c \in Cmd /\ Flow(c, io[t]) /\ io[t] \notin ReadCalls \cup BufferCalls /\ io[t] # NoIo
    BY NoCallIs DEF TypeInv, TypeOK, FlowInv, DirCalls, ReadCalls, BufferCalls
  <2>2. c.at \in {"walk", "find", "list", "read", "header", "segment", "done"}
    BY <2>1 DEF Cmd
  <2> QED
    BY <2>1, <2>2 DEF Flow
<1>2. CASE c.at = "find" /\ e.name = Head(c.rest)
  <2>1. TakeNode(e) /\ NoCall(t)
        /\ WithNode(t, Child(Count(c), <<"fat", next_node>>, NodeOf(e), Tail(c.rest)))
    BY <1>2 DEF GotEntry
  <2> PICK n : n = <<"fat", next_node>>
    OBVIOUS
  <2>2. Count(c) \in Cmd /\ Count(c).do = c.do /\ Count(c).path = c.path
    BY <1>1, CountType
  <2>3. Tail(c.rest) \in Seq(Names \cup {"/"})
    <3>1. c.rest \in Seq(Names \cup {"/"}) /\ c.rest # <<>>
      BY <1>1, <1>2 DEF Cmd
    <3> QED
      BY <3>1, HeadTailProperties
  <2> PICK d, rest : rest = Tail(c.rest) /\ d = Child(Count(c), n, NodeOf(e), rest)
    OBVIOUS
  <2>4. d \in Cmd /\ Flow(d, NoIo)
    BY <1>1, <2>1, <2>2, <2>3, TakeNodeType, ChildType
  <2>5. Moves(t, d, NoIo)
    BY <2>1 DEF Moves, NoCall
  <2> QED
    BY <2>1, <2>4, <2>5, NoCallIs, TakeNodeType DEF Goes
<1>3. CASE c.at = "find" /\ e.name # Head(c.rest)
  <2>1. ReadNode(t, c.node, io[t].my.index + 1)
    BY <1>3 DEF GotEntry
  <2>2. io[t].my.index + 1 \in Nat
    BY DEF DirCalls, DirLocals
  <2> QED
    BY <1>1, <2>1, <2>2, ReadNodeGoes
<1>4. CASE c.at = "list"
  <2> PICK d : d = [c EXCEPT !.names = Append(@, e.name), !.from = @ + 1]
    OBVIOUS
  <2>1. TakeNode(e) /\ NoCall(t) /\ WithNode(t, Count(d))
    BY <1>4 DEF GotEntry
  <2>2. d \in Cmd /\ d.at = c.at /\ d.do = c.do /\ d.path = c.path /\ d.node = c.node
    <3>1. e.name \in Names
      BY DEF Entry
    <3> QED
      BY <1>1, <3>1, NameType
  <2>3. Count(d) \in Cmd /\ (Flow(Count(d), NoIo) <=> Flow(d, NoIo))
    BY <2>2, CountType
  <2>4. Flow(d, NoIo)
    BY <1>1, <1>4, <2>2, NoCallIs DEF Flow
  <2>5. Moves(t, Count(d), NoIo)
    BY <2>1 DEF Moves, NoCall
  <2> QED
    BY <2>1, <2>3, <2>4, <2>5, NoCallIs, TakeNodeType DEF Goes
<1> QED
  BY <1>1, <1>2, <1>3, <1>4

LEMMA LiveCount ==
    ASSUME NEW entries \in Seq(Entry)
    PROVE  IsFiniteSet(LiveIn(entries)) /\ Cardinality(LiveIn(entries)) \in Nat
<1>1. LiveIn(entries) \subseteq 1 .. Len(entries)
  BY DEF LiveIn
<1>2. IsFiniteSet(1 .. Len(entries))
  BY FS_Interval, LenProperties
<1> QED
  BY <1>1, <1>2, FS_Subset, FS_CardinalityType

LEMMA ArrivesType ==
    ASSUME TypeInv, NEW t \in Threads, NEW then, Arrives(t, then)
    PROVE  /\ data \in DOMAIN Disk /\ data' = None /\ io[t] \in Io /\ cmd[t] \in Cmd
           /\ Flow(cmd[t], io[t]) /\ io[t].then = then /\ UNCHANGED <<lba, given, overlap>>
           /\ then \in {"entries", "next_entries"} => io[t] \in DirCalls
           /\ then \in {"skip", "bytes", "next_bytes"} => io[t] \in ReadCalls
<1>1. io[t] \in Io /\ io[t].at = "data" /\ io[t].then = then
  BY DEF TypeInv, TypeOK, Arrives
<1>2. /\ data \in DOMAIN Disk /\ data' = None /\ cmd[t] \in Cmd
      /\ Flow(cmd[t], io[t]) /\ UNCHANGED <<lba, given, overlap>>
  BY DEF TypeInv, TypeOK, FlowInv, Arrives
<1> QED
  BY <1>1, <1>2, CallsAre

\* What a thread does with the data of the drive.
LEMMA GoesWithData ==
    ASSUME TypeInv, NEW t \in Threads, Goes(t), data' = None, starved' \in BOOLEAN,
           UNCHANGED <<lba, given, overlap>>
    PROVE  TypeInv'
<1>1. lba' \in {None} \cup Nat /\ overlap' \in BOOLEAN
  BY DEF TypeInv, TypeOK
<1> QED
  BY <1>1, GoesOn DEF Goes

\* A thread in a walk over a directory.
LEMMA InDirectory ==
    ASSUME NEW c \in Cmd, NEW i \in DirCalls, Flow(c, i)
    PROVE  /\ c.at \in {"find", "list"} /\ c.do # "none" /\ c.path \in Paths
           /\ OnDisk(c.node) /\ (c.at = "find" => c.rest # <<>>) /\ InUse(i.my.cluster)
<1>1. i \notin ReadCalls \cup BufferCalls /\ i # NoIo
  BY NoCallIs DEF DirCalls, ReadCalls, BufferCalls
<1>2. c.at \in {"walk", "find", "list", "read", "header", "segment", "done"}
  BY DEF Cmd
<1> QED
  BY <1>1, <1>2 DEF Flow

LEMMA DirLocalsEdited ==
    ASSUME NEW my \in DirLocals, NEW s \in 0 .. PerCluster - 1, NEW seen \in Nat,
           NEW c \in Nat
    PROVE  /\ [my EXCEPT !.sector = s, !.seen = seen] \in DirLocals
           /\ [my EXCEPT !.seen = seen] \in DirLocals
           /\ [my EXCEPT !.cluster = c, !.sector = s] \in DirLocals
BY DEF DirLocals

\* The calls for the next sector, and for the next cluster.
LEMMA NextDirCall ==
    ASSUME NEW my \in DirLocals, InUse(my.cluster), NEW seen \in Nat
    PROVE  /\ my.sector + 1 < PerCluster =>
                Call(SectorOf(my.cluster, my.sector + 1), "entries",
                     [my EXCEPT !.sector = my.sector + 1, !.seen = seen]) \in DirCalls
           /\ Call(FatSector(my.cluster), "next_entries", [my EXCEPT !.seen = seen])
                \in DirCalls
<1>1. my.cluster \in Nat /\ my.sector \in 0 .. PerCluster - 1 /\ my.sector + 1 \in Nat
  BY Sizes DEF DirLocals
<1>2. SectorOf(my.cluster, my.sector + 1) \in Nat /\ FatSector(my.cluster) \in Nat
  BY <1>1, SectorType, FatSectorType
<1>3. [my EXCEPT !.seen = seen] \in DirLocals
  BY <1>1, DirLocalsEdited
<1>4. ASSUME my.sector + 1 < PerCluster
      PROVE  [my EXCEPT !.sector = my.sector + 1, !.seen = seen] \in DirLocals
  <2> PICK s : s = my.sector + 1
    OBVIOUS
  <2>1. s \in 0 .. PerCluster - 1
    BY <1>1, <1>4, Sizes
  <2> QED
    BY <2>1, DirLocalsEdited
<1>5. Call(FatSector(my.cluster), "next_entries", [my EXCEPT !.seen = seen]) \in DirCalls
  BY <1>2, <1>3, CallType
<1>6. ASSUME my.sector + 1 < PerCluster
      PROVE  Call(SectorOf(my.cluster, my.sector + 1), "entries",
                  [my EXCEPT !.sector = my.sector + 1, !.seen = seen]) \in DirCalls
  BY <1>2, <1>4, <1>6, CallType
<1> QED
  BY <1>5, <1>6

LEMMA NumberedIn ==
    ASSUME NEW entries \in Seq(Entry), NEW seen, NEW index,
           NEW i \in Numbered(entries, seen, index)
    PROVE  i \in 1 .. Len(entries)
<1>1. i \in DOMAIN entries
  BY Zenon DEF Numbered, LiveIn
<1> QED
  BY <1>1

LEMMA EntriesType == ASSUME TypeInv, NEW t \in Threads, Entries(t) PROVE TypeInv'
<1> PICK my, entries, here, seen :
        /\ my = io[t].my /\ entries = Disk[data].entries
        /\ here = Numbered(entries, my.seen, my.index)
        /\ seen = my.seen + Cardinality(LiveIn(entries))
  OBVIOUS
<1>1. /\ data \in DOMAIN Disk /\ data' = None /\ io[t] \in DirCalls /\ cmd[t] \in Cmd
      /\ Flow(cmd[t], io[t]) /\ UNCHANGED <<lba, given, overlap>>
  BY ArrivesType DEF Entries
<1>2. starved' \in BOOLEAN
  BY DEF Entries, TypeInv, TypeOK
<1>3. entries \in Seq(Entry) /\ seen \in Nat /\ my \in DirLocals
  <2>1. entries \in Seq(Entry) /\ my \in DirLocals
    <3>1. entries \in Seq(Entry)
      BY <1>1, DiskConstants
    <3>2. my \in DirLocals
      BY <1>1 DEF DirCalls
    <3> QED
      BY <3>1, <3>2
  <2>2. my.seen \in Nat /\ Cardinality(LiveIn(entries)) \in Nat
    BY <2>1, LiveCount DEF DirLocals
  <2> QED
    BY <2>1, <2>2
<1>4. CASE here # {} /\ GotEntry(t, entries[CHOOSE i \in here : TRUE])
  <2> PICK i : i = CHOOSE j \in here : TRUE
    OBVIOUS
  <2>1. i \in here
    BY <1>4
  <2>2. i \in 1 .. Len(entries)
    BY <1>3, <2>1, NumberedIn
  <2>3. entries[i] \in Entry
    BY <1>3, <2>2, ElementOfSeq
  <2>4. Goes(t)
    BY <1>1, <1>4, <2>3, GotEntryGoes
  <2> QED
    BY <1>1, <1>2, <2>4, GoesWithData
<1>5. CASE NoEntry(t)
  <2>1. cmd[t].at # "done"
    BY <1>1, InDirectory
  <2> QED
    BY <1>1, <1>2, <1>5, <2>1, NoEntryGoes, GoesWithData
<1>6. CASE /\ my.sector + 1 < PerCluster
           /\ Asks(t, SectorOf(my.cluster, my.sector + 1), "entries",
                   [my EXCEPT !.sector = @ + 1, !.seen = seen])
           /\ UNCHANGED <<nodes, next_node, cmd>>
  <2> PICK d, i : /\ d = [my EXCEPT !.sector = my.sector + 1, !.seen = seen]
                  /\ i = Call(SectorOf(my.cluster, my.sector + 1), "entries", d)
    OBVIOUS
  <2>1. d.cluster = my.cluster
    BY <1>3 DEF DirLocals
  <2>2. cmd[t].at \in {"find", "list"} /\ OnDisk(cmd[t].node) /\ InUse(my.cluster)
    BY <1>1, InDirectory
  <2>3. i \in DirCalls
    BY <1>3, <1>6, <2>2, NextDirCall, Zenon
  <2>5. i.my = d
    BY DEF Call
  <2>6. InUse(i.my.cluster)
    BY <2>1, <2>2, <2>5
  <2>4. io' = [io EXCEPT ![t] = i]
    BY <1>6 DEF Asks, Call
  <2>7. Goes(t)
    BY <1>6, <2>2, <2>3, <2>4, <2>6, DirGoes
  <2> QED
    BY <1>1, <1>2, <2>7, GoesWithData
<1>7. CASE /\ Asks(t, FatSector(my.cluster), "next_entries", [my EXCEPT !.seen = seen])
           /\ UNCHANGED <<nodes, next_node, cmd>>
  <2> PICK d, i : /\ d = [my EXCEPT !.seen = seen]
                  /\ i = Call(FatSector(my.cluster), "next_entries", d)
    OBVIOUS
  <2>1. d.cluster = my.cluster
    BY <1>3 DEF DirLocals
  <2>2. cmd[t].at \in {"find", "list"} /\ OnDisk(cmd[t].node) /\ InUse(my.cluster)
    BY <1>1, InDirectory
  <2>3. i \in DirCalls
    BY <1>3, <2>2, NextDirCall, Zenon
  <2>5. i.my = d
    BY DEF Call
  <2>6. InUse(i.my.cluster)
    BY <2>1, <2>2, <2>5
  <2>4. io' = [io EXCEPT ![t] = i]
    BY <1>7 DEF Asks, Call
  <2>7. Goes(t)
    BY <1>7, <2>2, <2>3, <2>4, <2>6, DirGoes
  <2> QED
    BY <1>1, <1>2, <2>7, GoesWithData
<1> QED
  BY <1>4, <1>5, <1>6, <1>7 DEF Entries

LEMMA NextEntriesType == ASSUME TypeInv, NEW t \in Threads, NextEntries(t) PROVE TypeInv'
<1> PICK my, c : my = io[t].my /\ c = FatWord(my.cluster)
  OBVIOUS
<1>1. /\ data \in DOMAIN Disk /\ data' = None /\ io[t] \in DirCalls /\ cmd[t] \in Cmd
      /\ Flow(cmd[t], io[t]) /\ UNCHANGED <<lba, given, overlap>>
  BY ArrivesType DEF NextEntries
<1>2. starved' \in BOOLEAN
  BY DEF NextEntries, TypeInv, TypeOK
<1>3. my \in DirLocals /\ my.cluster \in Nat
  BY <1>1 DEF DirCalls, DirLocals
<1>4. c \in Nat
  BY <1>1, <1>3, FatWordType
<1>5. cmd[t].at \in {"find", "list"} /\ OnDisk(cmd[t].node)
  BY <1>1, InDirectory
<1>6. CASE InUse(c)
  <2> PICK d, i : /\ d = [my EXCEPT !.cluster = c, !.sector = 0]
                  /\ i = Call(SectorOf(c, 0), "entries", d)
    OBVIOUS
  <2>1. io' = [io EXCEPT ![t] = i] /\ UNCHANGED <<nodes, next_node, cmd>>
    BY <1>6 DEF NextEntries, Asks, Call
  <2>2. d \in DirLocals /\ d.cluster = c
    <3>1. 0 \in 0 .. PerCluster - 1
      BY Sizes
    <3>2. d \in DirLocals
      BY <1>3, <1>4, <3>1, DirLocalsEdited, Zenon
    <3>3. d.cluster = c
      BY <1>3 DEF DirLocals
    <3> QED
      BY <3>2, <3>3
  <2>3. SectorOf(c, 0) \in Nat
    BY <1>4, <1>6, SectorType
  <2>4. i \in DirCalls /\ InUse(i.my.cluster)
    <3>1. i \in DirCalls
      BY <2>2, <2>3, CallType
    <3>2. i.my = d
      BY DEF Call
    <3> QED
      BY <1>6, <2>2, <3>1, <3>2
  <2>5. Goes(t)
    BY <1>5, <2>1, <2>4, DirGoes
  <2> QED
    BY <1>1, <1>2, <2>5, GoesWithData
<1>7. CASE ~ InUse(c)
  <2>1. NoEntry(t)
    BY <1>7 DEF NextEntries
  <2>2. Goes(t)
    BY <1>5, <2>1, NoEntryGoes
  <2> QED
    BY <1>1, <1>2, <2>2, GoesWithData
<1> QED
  BY <1>6, <1>7

\* What a thread does without the drive.
LEMMA GoesAlone ==
    ASSUME TypeInv, NEW t \in Threads, Goes(t), starved' \in BOOLEAN,
           UNCHANGED <<lba, data, given, overlap>>
    PROVE  TypeInv'
<1>1. lba' \in {None} \cup Nat /\ data' \in {None} \cup DOMAIN Disk /\ overlap' \in BOOLEAN
  BY DEF TypeInv, TypeOK
<1> QED
  BY <1>1, GoesOn DEF Goes

LEMMA WithGoes ==
    ASSUME TypeInv, NEW t \in Threads, NEW d \in Cmd, Flow(d, NoIo), With(t, d), NoCall(t),
           UNCHANGED <<nodes, next_node>>
    PROVE  Goes(t)
BY NoCallIs, SamePool DEF Goes, Moves, NoCall

\* A thread between two calls.
LEMMA Between ==
    ASSUME TypeInv, NEW t \in Threads
    PROVE  /\ cmd[t] \in Cmd /\ io[t] \in Io /\ Flow(cmd[t], io[t])
           /\ nodes \in [0 .. MAX_FAT32_NODES - 1 -> DiskNode]
           /\ cmd[t].node \in Places
           /\ cmd[t].at # "done" => cmd[t].do # "none" /\ cmd[t].path \in Paths
<1>1. cmd[t] \in Cmd /\ io[t] \in Io /\ Flow(cmd[t], io[t])
      /\ nodes \in [0 .. MAX_FAT32_NODES - 1 -> DiskNode]
  BY DEF TypeInv, TypeOK, FlowInv
<1> QED
  BY <1>1 DEF Flow, Cmd

LEMMA StrippedType ==
    ASSUME NEW S, NEW s \in Seq(S)
    PROVE  /\ Stripped(s) \in Seq(S)
           /\ Stripped(s) # <<>> => Head(Stripped(s)) \in S /\ Tail(Stripped(s)) \in Seq(S)
<1>1. Stripped(s) \in Seq(S)
  <2>1. CASE Stripped(s) = <<>>
    BY <2>1, EmptySeq
  <2>2. ASSUME NEW i \in 1 .. Len(s), Stripped(s) = SubSeq(s, i, Len(s))
        PROVE  Stripped(s) \in Seq(S)
    <3>1. \A j \in i .. Len(s) : s[j] \in S
      BY <2>2
    <3> QED
      BY <2>2, <3>1, SubSeqProperties
  <2> QED
    BY <2>1, <2>2, StrippedIs
<1> QED
  BY <1>1, HeadTailProperties

LEMMA WalkType == ASSUME TypeInv, NEW t \in Threads, Walk(t) PROVE TypeInv'
<1> PICK c, path, node, child :
       /\ c = cmd[t] /\ path = Stripped(c.rest) /\ node = Node(c.node)
       /\ child = RamChild(Head(path))
  OBVIOUS
<1>1. /\ c.at = "walk" /\ UNCHANGED <<nodes, next_node, lba, data, given, overlap, starved>>
  BY DEF Walk
<1>2. c \in Cmd /\ c.do # "none" /\ c.path \in Paths /\ c.node \in Places
  BY <1>1, Between
<1>3. path \in Seq(Names \cup {"/"}) /\ (path # <<>> => Tail(path) \in Seq(Names \cup {"/"}))
  <2>1. c.rest \in Seq(Names \cup {"/"})
    BY <1>2 DEF Cmd
  <2> QED
    BY <2>1, StrippedType
<1>4. starved' \in BOOLEAN
  BY <1>1 DEF TypeInv, TypeOK
<1>5. CASE NoCall(t) /\ \E d \in Cmd : Flow(d, NoIo) /\ With(t, d)
  <2>1. Goes(t)
    BY <1>1, <1>5, WithGoes
  <2> QED
    BY <1>1, <1>4, <2>1, GoesAlone
<1>6. Done(c, "missing") \in Cmd /\ Flow(Done(c, "missing"), NoIo)
  BY <1>2, DoneType
<1>7. Found(c, c.node, node) \in Cmd /\ Flow(Found(c, c.node, node), NoIo)
  BY <1>2, FoundType
<1>8. CASE With(t, Done(c, "missing")) /\ NoCall(t)
  BY <1>5, <1>6, <1>8
<1>9. CASE With(t, Found(c, c.node, node)) /\ NoCall(t)
  BY <1>5, <1>7, <1>9
<1>10. CASE /\ path # <<>> /\ child # 0 /\ NoCall(t)
            /\ With(t, Child(c, <<"ram", child>>, RamFiles[child], Tail(path)))
  <2> PICK n, rest, file : n = <<"ram", child>> /\ rest = Tail(path) /\ file = RamFiles[child]
    OBVIOUS
  <2>1. n \in Places
    BY <1>10, RamChildIs DEF Places
  <2>2. rest \in Seq(Names \cup {"/"})
    BY <1>3, <1>10
  <2>3. Child(c, n, file, rest) \in Cmd /\ Flow(Child(c, n, file, rest), NoIo)
    BY <1>2, <2>1, <2>2, ChildType
  <2> QED
    BY <1>5, <1>10, <2>3
<1>11. CASE /\ path # <<>> /\ c.node # Root /\ node.dir /\ InUse(node.cluster)
            /\ ReadDir(t, node.cluster, 0)
            /\ With(t, [c EXCEPT !.at = "find", !.rest = path])
  <2> PICK cluster, d, i :
        /\ cluster = node.cluster /\ d = [c EXCEPT !.at = "find", !.rest = path]
        /\ i = Call(SectorOf(cluster, 0), "entries",
                    [cluster |-> cluster, sector |-> 0, seen |-> 0, index |-> 0])
    OBVIOUS
  <2>1. OnDisk(c.node) /\ cluster \in Nat
    BY <1>2, <1>11, NodeType, NodesAt, Between DEF DiskNode
  <2>2. d \in Cmd
    BY <1>2, <1>3, Edited
  <2>3. d.at = "find" /\ d.rest = path /\ d.node = c.node /\ d.do = c.do /\ d.path = c.path
    BY <1>2 DEF Cmd
  <2>4. i \in DirCalls /\ i.my.cluster = cluster
    BY <1>11, <2>1, ReadDirCall DEF Call
  <2>5. Flow(d, i)
    <3>1. i \notin ReadCalls
      BY <2>4 DEF DirCalls, ReadCalls
    <3> QED
      BY <1>2, <1>11, <2>1, <2>3, <2>4, <3>1 DEF Flow
  <2>6. io' = [io EXCEPT ![t] = i]
    BY <1>11 DEF ReadDir, Asks, Call
  <2>7. Goes(t)
    BY <1>1, <1>11, <2>2, <2>4, <2>5, <2>6, CallType, SamePool DEF Goes, Moves
  <2> QED
    BY <1>1, <1>4, <2>7, GoesAlone
<1> QED
  BY <1>8, <1>9, <1>10, <1>11 DEF Walk

LEMMA ListType == ASSUME TypeInv, NEW t \in Threads, List(t) PROVE TypeInv'
<1> PICK c : c = cmd[t]
  OBVIOUS
<1>1. c.at = "list" /\ UNCHANGED <<lba, data, given, overlap, starved>>
  BY DEF List
<1>2. /\ c \in Cmd /\ c.do # "none" /\ c.path \in Paths /\ c.node \in Places /\ c.from \in Nat
      /\ Flow(c, io[t])
  BY <1>1, Between DEF Cmd
<1>3. starved' \in BOOLEAN
  BY <1>1 DEF TypeInv, TypeOK
<1>4. CASE c.node = Root /\ HasRamFile(c.from)
  <2> PICK name, d : /\ name = RamFiles[c.from + 1].name
                     /\ d = [c EXCEPT !.names = Append(@, name), !.from = @ + 1]
    OBVIOUS
  <2>1. NoCall(t) /\ With(t, d) /\ UNCHANGED <<nodes, next_node>>
    BY <1>4 DEF List
  <2>2. name \in Names
    <3>1. c.from + 1 \in 1 .. Len(RamFiles)
      BY <1>2, <1>4, RamFilesAre DEF HasRamFile
    <3>2. RamFiles[c.from + 1] \in RamNode \cup DiskNode
      BY <3>1, RamFilesAre
    <3> QED
      BY <3>2 DEF RamNode, DiskNode
  <2>3. d \in Cmd /\ d.at = c.at /\ d.do = c.do /\ d.path = c.path
    BY <1>2, <2>2, NameType
  <2>4. Flow(d, NoIo)
    BY <1>1, <1>2, <2>3, NoCallIs DEF Flow
  <2>5. Goes(t)
    BY <2>1, <2>3, <2>4, WithGoes
  <2> QED
    BY <1>1, <1>3, <2>5, GoesAlone
<1>5. CASE c.node = Root /\ ~ HasRamFile(c.from)
  <2>1. NoCall(t) /\ With(t, Done(c, "ok")) /\ UNCHANGED <<nodes, next_node>>
    BY <1>5 DEF List
  <2>2. Goes(t)
    BY <1>2, <2>1, DoneType, WithGoes
  <2> QED
    BY <1>1, <1>3, <2>2, GoesAlone
<1>6. CASE c.node # Root /\ Node(c.node).dir
  <2>1. ReadNode(t, c.node, c.from)
    BY <1>6 DEF List
  <2>2. OnDisk(c.node)
    BY <1>2, <1>6, NodeType, NodesAt, Between
  <2>3. Goes(t)
    BY <1>1, <1>2, <2>1, <2>2, ReadNodeGoes
  <2> QED
    BY <1>1, <1>3, <2>3, GoesAlone
<1>7. CASE c.node # Root /\ ~ Node(c.node).dir
  <2>1. NoEntry(t)
    BY <1>7 DEF List
  <2>2. Goes(t)
    BY <1>1, <2>1, NoEntryGoes
  <2> QED
    BY <1>1, <1>3, <2>2, GoesAlone
<1> QED
  BY <1>4, <1>5, <1>6, <1>7

\* A thread in a read.
LEMMA InRead ==
    ASSUME NEW c \in Cmd, NEW i \in ReadCalls \cup BufferCalls, Flow(c, i)
    PROVE  c.at \in {"read", "header", "segment"} /\ c.do # "none" /\ c.path \in Paths
<1>1. i \notin DirCalls /\ i # NoIo
  BY NoCallIs DEF DirCalls, ReadCalls, BufferCalls
<1>2. c.at \in {"walk", "find", "list", "read", "header", "segment", "done"}
  BY DEF Cmd
<1> QED
  BY <1>1, <1>2 DEF Flow

\* What a command may become when a read has returned.
After(c, got) ==
    CASE c.at = "read"    -> {Cat(c, got)}
      [] c.at = "header"  -> {IF h[1] = Magic THEN [c EXCEPT !.at = "segment", !.from = h[2]]
                              ELSE Done(c, "wrong_kind") : h \in Headers(got)}
      [] c.at = "segment" -> {Done([c EXCEPT !.out = got], "ok")}

LEMMA ReturnedAre ==
    ASSUME NEW t, NEW got, cmd[t].at \in {"read", "header", "segment"}, Returned(t, got)
    PROVE  NoCall(t) /\ \E d \in After(cmd[t], got) : With(t, d)
BY DEF Returned, After

LEMMA ByteIs == \A b \in Byte : b \in Nat /\ b \in Int
BY DEF Byte

LEMMA HeadersAre ==
    ASSUME NEW got \in Seq(Byte), NEW h \in Headers(got)
    PROVE  /\ h[1] \in Nat /\ h[2] \in Nat
           /\ \A i \in 1 .. 2 : i <= Len(got) => h[i] = got[i]
<1>1. Magic \in Nat
  BY PlacesAre DEF Byte
<1>2. PICK rest \in [1 .. 2 -> {0, Magic}] :
          h = [i \in 1 .. 2 |-> IF i <= Len(got) THEN got[i] ELSE rest[i]]
  BY DEF Headers
<1>3. ASSUME NEW i \in 1 .. 2, i <= Len(got) PROVE got[i] \in Nat
  <2>1. i \in 1 .. Len(got)
    BY <1>3
  <2>2. got[i] \in Byte
    BY <2>1
  <2> QED
    BY <2>2, ByteIs
<1> QED
  BY <1>1, <1>2, <1>3

LEMMA AfterType ==
    ASSUME NEW c \in Cmd, c.do # "none", c.path \in Paths,
           c.at = "read" => c.do = "cat", c.at \in {"header", "segment"} => c.do = "exec",
           c.at \in {"read", "header", "segment"}, NEW got \in Seq(Byte), NEW d \in After(c, got)
    PROVE  d \in Cmd /\ Flow(d, NoIo)
<1>1. CASE c.at = "read" /\ got = <<>>
  <2>1. d = Done(c, "ok")
    BY <1>1 DEF After, Cat
  <2> QED
    BY <2>1, DoneType
<1>2. CASE c.at = "read" /\ got # <<>>
  <2> PICK out, from : out = c.out \o got /\ from = c.from + Len(got)
    OBVIOUS
  <2>1. out \in Seq(Byte) /\ from \in Nat
    BY DEF Cmd
  <2>2. d = [c EXCEPT !.out = out, !.from = from]
    BY <1>2 DEF After, Cat
  <2>3. d \in Cmd
    BY <2>1, <2>2 DEF Cmd
  <2>4. d.at = c.at /\ d.do = c.do /\ d.path = c.path
    BY <2>2 DEF Cmd
  <2> QED
    BY <1>2, <2>3, <2>4, NoCallIs DEF Flow
<1>3. CASE c.at = "header"
  <2>1. PICK h \in Headers(got) : d = IF h[1] = Magic THEN [c EXCEPT !.at = "segment", !.from = h[2]]
                                      ELSE Done(c, "wrong_kind")
    BY <1>3 DEF After
  <2>2. CASE h[1] = Magic
    <3> PICK from : from = h[2]
      OBVIOUS
    <3>1. from \in Nat /\ d = [c EXCEPT !.at = "segment", !.from = from]
      BY <2>1, <2>2, HeadersAre
    <3>2. d \in Cmd
      BY <3>1 DEF Cmd
    <3>3. d.at = "segment" /\ d.do = c.do /\ d.path = c.path
      BY <3>1 DEF Cmd
    <3> QED
      BY <1>3, <3>2, <3>3, NoCallIs DEF Flow
  <2>3. CASE h[1] # Magic
    BY <2>1, <2>3, DoneType
  <2> QED
    BY <2>2, <2>3
<1>4. CASE c.at = "segment"
  <2> PICK e : e = [c EXCEPT !.out = got]
    OBVIOUS
  <2>1. e \in Cmd /\ e.do = c.do /\ e.path = c.path
    BY DEF Cmd
  <2>2. d = Done(e, "ok")
    BY <1>4 DEF After
  <2> QED
    BY <2>1, <2>2, DoneType
<1> QED
  BY <1>1, <1>2, <1>3, <1>4

LEMMA ReturnedGoes ==
    ASSUME TypeInv, NEW t \in Threads, cmd[t].at \in {"read", "header", "segment"},
           NEW got \in Seq(Byte), Returned(t, got), UNCHANGED <<nodes, next_node>>
    PROVE  Goes(t)
<1>1. PICK d \in After(cmd[t], got) : NoCall(t) /\ With(t, d)
  BY ReturnedAre
<1>2. cmd[t] \in Cmd /\ cmd[t].do # "none" /\ cmd[t].path \in Paths /\ Flow(cmd[t], io[t])
  BY Between
<1>3. d \in Cmd /\ Flow(d, NoIo)
  BY <1>2, AfterType DEF Flow
<1> QED
  BY <1>1, <1>3, WithGoes

\* The next call of a read.
LEMMA ReadGoes ==
    ASSUME TypeInv, NEW t \in Threads, cmd[t].at \in {"read", "header", "segment"},
           NEW i \in ReadCalls \cup BufferCalls,
           i \in ReadCalls /\ i.then = "skip" => i.my.skip > 0,
           i \in ReadCalls /\ i.then = "bytes" =>
             InUse(i.my.cluster) /\ \E k \in 0 .. PerCluster - 1 : Len(i.my.buf) = k * SectorBytes,
           io' = [io EXCEPT ![t] = i], UNCHANGED <<nodes, next_node, cmd>>
    PROVE  Goes(t)
<1>1. Flow(cmd[t], io[t]) /\ cmd[t] \in Cmd
  BY DEF TypeInv, TypeOK, FlowInv
<1>2. i \notin DirCalls /\ i \in Io
  BY CallType DEF DirCalls, ReadCalls, BufferCalls
<1>3. Flow(cmd[t], i)
  BY <1>1, <1>2 DEF Flow
<1> QED
  BY <1>1, <1>2, <1>3, Stays, SamePool DEF Goes

LEMMA ReadLocalsEdited ==
    ASSUME NEW my \in ReadLocals, NEW c \in Nat, NEW buf \in Seq(Byte), NEW got \in Seq(Byte),
           NEW skip \in Nat
    PROVE  /\ [my EXCEPT !.cluster = c] \in ReadLocals
           /\ [my EXCEPT !.buf = buf] \in ReadLocals
           /\ [my EXCEPT !.cluster = c, !.skip = skip] \in ReadLocals
           /\ [my EXCEPT !.got = got, !.offset = 0, !.buf = buf] \in ReadLocals
<1>1. 0 \in 0 .. ClusterBytes - 1
  BY Sizes
<1>2. [my EXCEPT !.cluster = c] \in ReadLocals
  BY DEF ReadLocals
<1>3. [my EXCEPT !.buf = buf] \in ReadLocals
  BY DEF ReadLocals
<1>4. [my EXCEPT !.cluster = c, !.skip = skip] \in ReadLocals
  BY DEF ReadLocals
<1>5. [my EXCEPT !.got = got, !.offset = 0, !.buf = buf] \in ReadLocals
  <2> PICK zero : zero = 0
    OBVIOUS
  <2>1. zero \in 0 .. ClusterBytes - 1
    BY <1>1
  <2>2. [my EXCEPT !.got = got, !.offset = zero, !.buf = buf] \in ReadLocals
    BY <2>1 DEF ReadLocals
  <2> QED
    BY <2>2
<1> QED
  BY <1>2, <1>3, <1>4, <1>5

LEMMA NodeSize ==
    ASSUME NEW pool \in [0 .. MAX_FAT32_NODES - 1 -> DiskNode], NEW p \in Places
    PROVE  LET n == NodeAt(pool, p)
           IN  /\ n.size \in Nat /\ n.dir \in BOOLEAN
               /\ n.cluster = None => n.bytes \in Seq(Byte)
                                      /\ (~ n.dir => n.size = Len(n.bytes))
               /\ n.cluster # None => n.cluster \in Nat
<1> PICK n : n = NodeAt(pool, p)
  OBVIOUS
<1>1. n \in DiskNode \cup RamNode
  BY NodeType
<1>2. CASE n \in DiskNode
  BY <1>2, Sizes DEF DiskNode
<1>3. CASE n \in RamNode
  <2>1. n.size \in Nat /\ n.dir \in BOOLEAN /\ n.cluster = None /\ n.bytes \in Seq(Byte)
    BY <1>3 DEF RamNode
  <2>2. ~ n.dir => n.size = Len(n.bytes)
    <3>1. CASE p = Root /\ p[1] = "root"
      BY <3>1, MountIs DEF NodeAt
    <3>2. CASE p[1] = "ram" /\ p[2] \in DOMAIN RamFiles
      <4>1. n = RamFiles[p[2]]
        BY <3>2 DEF NodeAt
      <4> QED
        BY <3>2, <4>1, RamFilesAre DEF Directory
    <3>3. CASE p[1] = "fat" /\ p[2] \in 0 .. MAX_FAT32_NODES - 1
      <4>1. n = pool[p[2]]
        BY <3>3 DEF NodeAt
      <4>2. n \in DiskNode
        BY <3>3, <4>1
      <4> QED
        BY <2>1, <4>2, Sizes DEF DiskNode
    <3> QED
      BY <3>1, <3>2, <3>3, PlaceIs
  <2> QED
    BY <2>1, <2>2
<1> QED
  BY <1>1, <1>2, <1>3

\* What a command asks a read for.
LEMMA RequestType ==
    ASSUME NEW c \in Cmd, c.at \in {"read", "header", "segment"}
    PROVE  Request(c)[1] \in Nat /\ Request(c)[2] \in Nat
<1>1. c.from \in Nat /\ Chunk \in Nat
  BY PlacesAre DEF Cmd
<1> QED
  BY <1>1 DEF Request

\* Read, given what it works with.
ReadWith(t, c, n, offset, want, skip, my) ==
    /\ c.at \in {"read", "header", "segment"}
    /\ \/ (n.dir \/ offset >= n.size) /\ Returned(t, <<>>)
       \/ /\ ~ n.dir /\ offset < n.size /\ n.cluster = None
          /\ Returned(t, RamRead(n, offset, want))
       \/ /\ ~ n.dir /\ offset < n.size /\ n.cluster # None
          /\ \/ skip = 0 /\ NeedsBuffer(t, my)
             \/ skip # 0 /\ Asks(t, FatSector(n.cluster), "skip", my)
          /\ UNCHANGED cmd

LEMMA ReadIs ==
    ASSUME NEW t, Read(t)
    PROVE  \E c, n, offset, want, skip, my :
              /\ c = cmd[t] /\ n = Node(c.node) /\ offset = Request(c)[1]
              /\ want = Smaller(Request(c)[2], n.size - offset)
              /\ skip = offset \div ClusterBytes
              /\ my = [cluster |-> n.cluster, skip |-> skip, want |-> want, got |-> <<>>,
                       buf |-> <<>>, offset |-> offset % ClusterBytes]
              /\ ReadWith(t, c, n, offset, want, skip, my)
<1> DEFINE c == cmd[t]
           n == Node(c.node)
           offset == Request(c)[1]
           want == Smaller(Request(c)[2], n.size - offset)
           skip == offset \div ClusterBytes
           my == [cluster |-> n.cluster, skip |-> skip, want |-> want, got |-> <<>>,
                  buf |-> <<>>, offset |-> offset % ClusterBytes]
<1>1. ReadWith(t, c, n, offset, want, skip, my)
  BY Zenon DEF Read, ReadWith
<1> QED
  BY <1>1, Zenon

LEMMA ReadType == ASSUME TypeInv, NEW t \in Threads, Read(t) PROVE TypeInv'
<1>0. PICK c, n, offset, want, skip, my :
       /\ c = cmd[t] /\ n = Node(c.node) /\ offset = Request(c)[1]
       /\ want = Smaller(Request(c)[2], n.size - offset)
       /\ skip = offset \div ClusterBytes
       /\ my = [cluster |-> n.cluster, skip |-> skip, want |-> want, got |-> <<>>,
                buf |-> <<>>, offset |-> offset % ClusterBytes]
       /\ ReadWith(t, c, n, offset, want, skip, my)
  BY ReadIs, Zenon
<1>9. /\ c = cmd[t] /\ n = Node(c.node) /\ offset = Request(c)[1]
      /\ want = Smaller(Request(c)[2], n.size - offset)
      /\ skip = offset \div ClusterBytes
      /\ my = [cluster |-> n.cluster, skip |-> skip, want |-> want, got |-> <<>>,
               buf |-> <<>>, offset |-> offset % ClusterBytes]
  BY <1>0, Zenon
<1>7. ReadWith(t, c, n, offset, want, skip, my)
  BY <1>0, Zenon
<1>1. /\ c.at \in {"read", "header", "segment"}
      /\ UNCHANGED <<nodes, next_node, lba, data, given, overlap, starved>>
  <2>1. c.at \in {"read", "header", "segment"}
    BY <1>7, Zenon DEF ReadWith
  <2>2. UNCHANGED <<nodes, next_node, lba, data, given, overlap, starved>>
    BY Zenon DEF Read
  <2> QED
    BY <2>1, <2>2
<1>2. /\ c \in Cmd /\ n.size \in Nat /\ n.dir \in BOOLEAN /\ offset \in Nat /\ Request(c)[2] \in Nat
      /\ n.cluster = None => n.bytes \in Seq(Byte) /\ (~ n.dir => n.size = Len(n.bytes))
      /\ n.cluster # None => n.cluster \in Nat
  BY <1>9, <1>1, Between, NodeSize, NodesAt, RequestType
<1>3. starved' \in BOOLEAN
  BY <1>1 DEF TypeInv, TypeOK
<1>4. CASE Returned(t, <<>>)
  <2> PICK got : got = <<>>
    OBVIOUS
  <2>0. Returned(t, got)
    BY <1>4
  <2>1. got \in Seq(Byte)
    BY EmptySeq
  <2>2. Goes(t)
    BY <1>9, <1>1, <2>0, <2>1, ReturnedGoes
  <2> QED
    BY <1>9, <1>1, <1>3, <2>2, GoesAlone
<1>5. CASE /\ ~ n.dir /\ offset < n.size /\ n.cluster = None
           /\ Returned(t, RamRead(n, offset, want))
  <2> PICK got : got = RamRead(n, offset, want)
    OBVIOUS
  <2>0. Returned(t, got)
    BY <1>5
  <2>1. got \in Seq(Byte)
    <3>1. want \in Int /\ offset + want <= n.size /\ n.size = Len(n.bytes)
      BY <1>9, <1>2, <1>5, SmallerIs
    <3> PICK bytes, last : bytes = n.bytes /\ last = offset + want
      OBVIOUS
    <3>2. bytes \in Seq(Byte) /\ last \in Int /\ last <= Len(bytes)
      BY <1>2, <1>5, <3>1
    <3>3. got = SubSeq(bytes, offset + 1, last)
      BY DEF RamRead
    <3>4. SubSeq(bytes, offset + 1, last) \in Seq(Byte)
      BY <1>2, <3>2, Cut
    <3> QED
      BY <3>3, <3>4
  <2>2. Goes(t)
    BY <1>9, <1>1, <2>0, <2>1, ReturnedGoes
  <2> QED
    BY <1>9, <1>1, <1>3, <2>2, GoesAlone
<1>6. CASE /\ ~ n.dir /\ offset < n.size /\ n.cluster # None
           /\ UNCHANGED cmd
           /\ \/ skip = 0 /\ io' = [io EXCEPT ![t] = Waits(my)]
              \/ /\ skip # 0
                 /\ io' = [io EXCEPT ![t] = Call(FatSector(n.cluster), "skip", my)]
  <2> PICK i : i = IF skip = 0 THEN Waits(my) ELSE Call(FatSector(n.cluster), "skip", my)
    OBVIOUS
  <2>1. my \in ReadLocals /\ my.skip = skip
    <3>1. want \in Nat
      BY <1>9, <1>2, <1>6, SmallerIs
    <3>2. skip \in Nat /\ offset % ClusterBytes \in 0 .. ClusterBytes - 1
      BY <1>9, <1>2, Sizes, Division
    <3> PICK none : none = <<>>
      OBVIOUS
    <3>3. none \in Seq(Byte)
      BY EmptySeq
    <3> QED
      BY <1>9, <1>2, <1>6, <3>1, <3>2, <3>3 DEF ReadLocals
  <2>2. /\ i \in ReadCalls \cup BufferCalls
        /\ i \in ReadCalls => i.then = "skip" /\ i.my.skip > 0
    <3>1. CASE skip = 0
      <4>1. i \in BufferCalls
        BY <1>9, <2>1, <3>1, CallType
      <4> QED
        BY <4>1 DEF ReadCalls, BufferCalls
    <3>2. CASE skip # 0
      <4>1. skip \in Nat
        BY <1>9, <1>2, Sizes, Division
      <4>2. FatSector(n.cluster) \in Nat /\ skip > 0
        <5>1. n.cluster \in Nat
          BY <1>9, <1>2, <1>6
        <5>2. skip > 0
          BY <3>2, <4>1
        <5> QED
          BY <5>1, <5>2, FatSectorType
      <4>3. i \in ReadCalls
        BY <2>1, <3>2, <4>2, CallType
      <4>4. i.then = "skip" /\ i.my = my
        BY <3>2 DEF Call
      <4> QED
        BY <2>1, <4>2, <4>3, <4>4
    <3> QED
      BY <3>1, <3>2
  <2>3. io' = [io EXCEPT ![t] = i]
    BY <1>6
  <2>4. Goes(t)
    BY <1>9, <1>1, <1>6, <2>2, <2>3, ReadGoes
  <2> QED
    BY <1>9, <1>1, <1>3, <2>4, GoesAlone
<1>10. \/ (n.dir \/ offset >= n.size) /\ Returned(t, <<>>)
       \/ /\ ~ n.dir /\ offset < n.size /\ n.cluster = None
          /\ Returned(t, RamRead(n, offset, want))
       \/ /\ ~ n.dir /\ offset < n.size /\ n.cluster # None
          /\ UNCHANGED cmd
          /\ \/ skip = 0 /\ io' = [io EXCEPT ![t] = Waits(my)]
             \/ /\ skip # 0
                /\ io' = [io EXCEPT ![t] = Call(FatSector(n.cluster), "skip", my)]
  BY <1>7, Zenon DEF ReadWith, NeedsBuffer, Waits, Asks, Call
<1> QED
  BY <1>4, <1>5, <1>6, <1>10, Zenon

LEMMA SkipType == ASSUME TypeInv, NEW t \in Threads, Skip(t) PROVE TypeInv'
<1> PICK old, c, my : /\ old = io[t].my /\ c = FatWord(old.cluster)
                      /\ my = [old EXCEPT !.cluster = c, !.skip = @ - 1]
  OBVIOUS
<1>1. /\ data \in DOMAIN Disk /\ data' = None /\ io[t] \in ReadCalls /\ cmd[t] \in Cmd
      /\ Flow(cmd[t], io[t]) /\ io[t].then = "skip" /\ UNCHANGED <<lba, given, overlap>>
  BY ArrivesType DEF Skip
<1>2. starved' \in BOOLEAN /\ UNCHANGED <<nodes, next_node>>
  BY DEF Skip, TypeInv, TypeOK
<1>3. cmd[t].at \in {"read", "header", "segment"}
  BY <1>1, InRead
<1>4. old \in ReadLocals /\ old.cluster \in Nat /\ old.skip \in Nat /\ old.skip > 0
  <2>1. old \in ReadLocals
    BY <1>1 DEF ReadCalls
  <2> QED
    BY <1>1, <2>1 DEF Flow, ReadLocals
<1>5. c \in Nat
  BY <1>1, <1>4, FatWordType
<1>6. my \in ReadLocals /\ my.skip \in Nat
  <2> PICK skip : skip = old.skip - 1
    OBVIOUS
  <2>1. skip \in Nat /\ my = [old EXCEPT !.cluster = c, !.skip = skip]
    BY <1>4
  <2>2. my \in ReadLocals
    BY <1>4, <1>5, <2>1 DEF ReadLocals
  <2> QED
    BY <2>2 DEF ReadLocals
<1>7. CASE ~ InUse(c)
  <2> PICK got : got = <<>>
    OBVIOUS
  <2>1. Returned(t, got) /\ got \in Seq(Byte)
    BY <1>7, EmptySeq DEF Skip
  <2>2. Goes(t)
    BY <1>2, <1>3, <2>1, ReturnedGoes
  <2> QED
    BY <1>1, <1>2, <2>2, GoesWithData
<1>8. CASE InUse(c)
  <2> PICK i : i = IF my.skip = 0 THEN Waits(my) ELSE Call(FatSector(c), "skip", my)
    OBVIOUS
  <2>1. io' = [io EXCEPT ![t] = i] /\ UNCHANGED cmd
    BY <1>8 DEF Skip, NeedsBuffer, Asks, Call, Waits
  <2>2. /\ i \in ReadCalls \cup BufferCalls
        /\ i \in ReadCalls => i.then = "skip" /\ i.my.skip > 0
    <3>1. CASE my.skip = 0
      <4>1. i \in BufferCalls
        BY <1>6, <3>1, CallType
      <4> QED
        BY <4>1 DEF ReadCalls, BufferCalls
    <3>2. CASE my.skip # 0
      <4>1. FatSector(c) \in Nat
        BY <1>5, FatSectorType
      <4>2. i \in ReadCalls
        BY <1>6, <3>2, <4>1, CallType
      <4>3. i.then = "skip" /\ i.my = my
        BY <3>2 DEF Call
      <4>4. my.skip > 0
        <5>1. PICK k \in Nat : k = my.skip
          BY <1>6, Zenon
        <5>2. k # 0
          BY <3>2, <5>1, Zenon
        <5>3. k > 0
          BY <5>2
        <5> QED
          BY <5>1, <5>3, Zenon
      <4> QED
        BY <4>2, <4>3, <4>4, Zenon
    <3> QED
      BY <3>1, <3>2
  <2>3. Goes(t)
    BY <1>2, <1>3, <2>1, <2>2, ReadGoes
  <2> QED
    BY <1>1, <1>2, <2>3, GoesWithData
<1> QED
  BY <1>7, <1>8

LEMMA NextClusterGoes ==
    ASSUME TypeInv, NEW t \in Threads, cmd[t].at \in {"read", "header", "segment"},
           NEW my \in ReadLocals, NextCluster(t, my), UNCHANGED <<nodes, next_node>>
    PROVE  Goes(t)
<1>1. CASE Len(my.got) < my.want /\ InUse(my.cluster)
  <2> PICK none : none = <<>>
    OBVIOUS
  <2> PICK d, i : d = [my EXCEPT !.buf = none] /\ i = Call(SectorOf(my.cluster, 0), "bytes", d)
    OBVIOUS
  <2>1. io' = [io EXCEPT ![t] = i] /\ UNCHANGED cmd
    BY <1>1 DEF NextCluster, Asks, Call
  <2>2. none \in Seq(Byte) /\ Len(none) = 0
    BY EmptySeq
  <2>3. d \in ReadLocals /\ d.cluster = my.cluster /\ Len(d.buf) = 0 /\ my.cluster \in Nat
    BY <2>2 DEF ReadLocals
  <2>4. SectorOf(my.cluster, 0) \in Nat
    BY <1>1, <2>3, SectorType
  <2>5. i \in ReadCalls
    BY <2>3, <2>4, CallType
  <2>6. i.then = "bytes" /\ i.my = d
    BY DEF Call
  <2>7. 0 \in 0 .. PerCluster - 1 /\ Len(i.my.buf) = 0 * SectorBytes
    <3>1. 0 \in 0 .. PerCluster - 1 /\ 0 * SectorBytes = 0
      BY Sizes
    <3>2. Len(i.my.buf) = 0
      BY <2>3, <2>6, Zenon
    <3> QED
      BY <3>1, <3>2
  <2>8. InUse(i.my.cluster)
    BY <1>1, <2>3, <2>6
  <2> QED
    BY <2>1, <2>5, <2>6, <2>7, <2>8, ReadGoes
<1>2. CASE Returned(t, my.got)
  <2>1. my.got \in Seq(Byte)
    BY DEF ReadLocals
  <2> QED
    BY <1>2, <2>1, ReturnedGoes
<1> QED
  BY <1>1, <1>2 DEF NextCluster

LEMMA BufferType == ASSUME TypeInv, NEW t \in Threads, Buffer(t) PROVE TypeInv'
<1>1. /\ UNCHANGED <<nodes, next_node, lba, data, given, overlap>>
      /\ starved' \in BOOLEAN
  BY DEF Buffer, TypeInv, TypeOK
<1>2. io[t] \in BufferCalls /\ cmd[t] \in Cmd /\ Flow(cmd[t], io[t])
  BY Between, CallsAre DEF Buffer
<1>3. io[t].my \in ReadLocals /\ cmd[t].at \in {"read", "header", "segment"}
  BY <1>2, InRead DEF BufferCalls
<1>4. CASE NextCluster(t, io[t].my)
  <2>1. Goes(t)
    BY <1>1, <1>3, <1>4, NextClusterGoes
  <2> QED
    BY <1>1, <2>1, GoesAlone
<1>5. CASE Returned(t, <<>>)
  <2> PICK got : got = <<>>
    OBVIOUS
  <2>1. got \in Seq(Byte)
    BY EmptySeq
  <2>2. Goes(t)
    BY <1>1, <1>3, <1>5, <2>1, ReturnedGoes
  <2> QED
    BY <1>1, <2>2, GoesAlone
<1> QED
  BY <1>4, <1>5, Zenon DEF Buffer

LEMMA NextBytesType == ASSUME TypeInv, NEW t \in Threads, NextBytes(t) PROVE TypeInv'
<1> PICK old, c, my : /\ old = io[t].my /\ c = FatWord(old.cluster)
                      /\ my = [old EXCEPT !.cluster = c]
  OBVIOUS
<1>1. /\ data \in DOMAIN Disk /\ data' = None /\ io[t] \in ReadCalls /\ cmd[t] \in Cmd
      /\ Flow(cmd[t], io[t]) /\ UNCHANGED <<lba, given, overlap>>
  BY ArrivesType DEF NextBytes
<1>2. starved' \in BOOLEAN /\ UNCHANGED <<nodes, next_node>>
  BY DEF NextBytes, TypeInv, TypeOK
<1>3. cmd[t].at \in {"read", "header", "segment"} /\ old \in ReadLocals
  BY <1>1, InRead DEF ReadCalls
<1>4. c \in Nat
  BY <1>1, <1>3, FatWordType DEF ReadLocals
<1>5. my \in ReadLocals
  BY <1>3, <1>4 DEF ReadLocals
<1>6. NextCluster(t, my)
  BY DEF NextBytes
<1>7. Goes(t)
  BY <1>2, <1>3, <1>5, <1>6, NextClusterGoes
<1> QED
  BY <1>1, <1>2, <1>7, GoesWithData

\* A sector more in the buffer of a cluster.
LEMMA OneSectorMore ==
    ASSUME NEW k \in 0 .. PerCluster - 1, NEW buf \in Seq(Byte), Len(buf) = k * SectorBytes,
           NEW bytes \in Seq(Byte), Len(bytes) = SectorBytes
    PROVE  /\ buf \o bytes \in Seq(Byte) /\ Len(buf \o bytes) = (k + 1) * SectorBytes
           /\ Len(buf \o bytes) \div SectorBytes = k + 1
           /\ (k + 1 = PerCluster) => Len(buf \o bytes) = ClusterBytes
<1>1. buf \o bytes \in Seq(Byte) /\ Len(buf \o bytes) = k * SectorBytes + SectorBytes
  BY ConcatProperties
<1>2. k \in Nat /\ k + 1 \in Nat /\ SectorBytes \in Nat \ {0}
  BY Sizes
<1>3. (k + 1) * SectorBytes = k * SectorBytes + SectorBytes
  BY <1>2, Times
<1>4. ((k + 1) * SectorBytes + 0) \div SectorBytes = k + 1
  BY <1>2, Divided
<1>5. (k + 1) * SectorBytes \in Nat
  BY <1>2, Times
<1> QED
  BY <1>1, <1>3, <1>4, <1>5 DEF ClusterBytes

\* The reader's part of a full buffer.
LEMMA CopiedType ==
    ASSUME NEW my \in ReadLocals, Len(my.buf) = ClusterBytes
    PROVE  Copied(my) \in ReadLocals
<1>1. PICK copy : copy = Smaller(ClusterBytes - my.offset, my.want - Len(my.got))
  OBVIOUS
<1>2. PICK last : last = my.offset + copy
  OBVIOUS
<1>3. PICK part, none : part = SubSeq(my.buf, my.offset + 1, last) /\ none = <<>>
  OBVIOUS
<1>4. PICK got : got = my.got \o part
  OBVIOUS
<1>5. /\ my.buf \in Seq(Byte) /\ my.got \in Seq(Byte) /\ my.want \in Nat
      /\ my.offset \in 0 .. ClusterBytes - 1 /\ my.cluster \in Nat
  BY DEF ReadLocals
<1>6. last \in Int /\ last <= Len(my.buf) /\ my.offset \in Nat
  <2>1. Len(my.got) \in Nat
    BY <1>5, LenProperties
  <2>2. my.offset \in Nat /\ ClusterBytes - my.offset \in Int /\ my.want - Len(my.got) \in Int
    BY <1>5, <2>1, Sizes
  <2>3. copy \in Int /\ copy <= ClusterBytes - my.offset
    BY <1>1, <2>2, SmallerIs
  <2> QED
    BY <1>2, <2>2, <2>3, Sizes
<1>7. part \in Seq(Byte)
  BY <1>3, <1>5, <1>6, Cut
<1>8. got \in Seq(Byte) /\ none \in Seq(Byte)
  BY <1>3, <1>4, <1>5, <1>7, ConcatProperties, EmptySeq
<1>9. [my EXCEPT !.got = got, !.offset = 0, !.buf = none] \in ReadLocals
  BY <1>8, ReadLocalsEdited, Zenon
<1>10. Copied(my) = [my EXCEPT !.got = got, !.offset = 0, !.buf = none]
  BY <1>1, <1>2, <1>3, <1>4, Zenon DEF Copied
<1> QED
  BY <1>9, <1>10

LEMMA BytesType == ASSUME TypeInv, NEW t \in Threads, Bytes(t) PROVE TypeInv'
<1>0. PICK old, buf, my, sector :
       /\ old = io[t].my /\ buf = old.buf \o Disk[data].bytes
       /\ my = [old EXCEPT !.buf = buf] /\ sector = Len(buf) \div SectorBytes
  OBVIOUS
<1>1. /\ data \in DOMAIN Disk /\ data' = None /\ io[t] \in ReadCalls /\ cmd[t] \in Cmd
      /\ Flow(cmd[t], io[t]) /\ io[t].then = "bytes" /\ UNCHANGED <<lba, given, overlap>>
  BY ArrivesType DEF Bytes
<1>2. starved' \in BOOLEAN /\ UNCHANGED <<nodes, next_node, cmd>>
  BY DEF Bytes, TypeInv, TypeOK
<1>3. /\ cmd[t].at \in {"read", "header", "segment"}
      /\ InUse(old.cluster) /\ \E k \in 0 .. PerCluster - 1 : Len(old.buf) = k * SectorBytes
  BY <1>0, <1>1, InRead DEF Flow
<1>4. PICK k \in 0 .. PerCluster - 1 : Len(old.buf) = k * SectorBytes
  BY <1>3
<1>5. /\ old \in ReadLocals /\ old.cluster \in Nat /\ old.buf \in Seq(Byte)
  BY <1>0, <1>1 DEF ReadCalls, ReadLocals
<1>6. /\ buf \in Seq(Byte) /\ Len(buf) = (k + 1) * SectorBytes /\ sector = k + 1
      /\ (sector = PerCluster => Len(buf) = ClusterBytes)
  <2>1. Disk[data].bytes \in Seq(Byte) /\ Len(Disk[data].bytes) = SectorBytes
    BY <1>1, DiskConstants
  <2> QED
    BY <1>0, <1>4, <1>5, <2>1, OneSectorMore
<1>7. my \in ReadLocals /\ my.cluster = old.cluster /\ my.buf = buf
  BY <1>0, <1>5, <1>6 DEF ReadLocals
<1>8. io' = [io EXCEPT ![t] = IF sector < PerCluster
                              THEN Call(SectorOf(my.cluster, sector), "bytes", my)
                              ELSE Call(FatSector(my.cluster), "next_bytes", Copied(my))]
  <2>1. my = [io[t].my EXCEPT !.buf = @ \o Disk[data].bytes]
    BY <1>0, Zenon
  <2>2. sector = Len(my.buf) \div SectorBytes
    BY <1>0, <1>7, Zenon
  <2>3. IF sector < PerCluster
        THEN Asks(t, SectorOf(my.cluster, sector), "bytes", my)
        ELSE Asks(t, FatSector(my.cluster), "next_bytes", Copied(my))
    BY <2>1, <2>2, Zenon DEF Bytes
  <2> QED
    BY <2>3, Zenon DEF Asks, Call
<1>9. CASE sector < PerCluster
  <2>0. PICK i : i = Call(SectorOf(my.cluster, sector), "bytes", my)
    OBVIOUS
  <2>1. io' = [io EXCEPT ![t] = i]
    BY <1>8, <1>9, <2>0, Zenon
  <2>2. sector \in Nat /\ k + 1 \in 0 .. PerCluster - 1
    BY <1>6, <1>9, Sizes
  <2>3. SectorOf(my.cluster, sector) \in Nat
    BY <1>3, <1>5, <1>7, <2>2, SectorType
  <2>4. i \in ReadCalls
    BY <1>7, <2>0, <2>3, CallType
  <2>5. i.then = "bytes" /\ i.my = my
    BY <2>0 DEF Call
  <2>6. InUse(i.my.cluster) /\ Len(i.my.buf) = (k + 1) * SectorBytes
    BY <1>3, <1>6, <1>7, <2>5, Zenon
  <2>7. Goes(t)
    BY <1>2, <1>3, <2>1, <2>2, <2>4, <2>5, <2>6, ReadGoes
  <2> QED
    BY <1>1, <1>2, <2>7, GoesWithData
<1>10. CASE ~ (sector < PerCluster)
  <2>0. PICK i : i = Call(FatSector(my.cluster), "next_bytes", Copied(my))
    OBVIOUS
  <2>1. io' = [io EXCEPT ![t] = i]
    BY <1>8, <1>10, <2>0, Zenon
  <2>2. sector = PerCluster
    BY <1>6, <1>10, Sizes
  <2>3. Len(my.buf) = ClusterBytes
    BY <1>6, <1>7, <2>2, Zenon
  <2>4. Copied(my) \in ReadLocals
    BY <1>7, <2>3, CopiedType
  <2>5. FatSector(my.cluster) \in Nat
    BY <1>5, <1>7, FatSectorType
  <2>6. i \in ReadCalls /\ i.then = "next_bytes"
    BY <2>0, <2>4, <2>5, CallType DEF Call
  <2>7. Goes(t)
    BY <1>2, <1>3, <2>1, <2>6, ReadGoes
  <2> QED
    BY <1>1, <1>2, <2>7, GoesWithData
<1> QED
  BY <1>9, <1>10

LEMMA BeginType ==
    ASSUME NEW do \in {"none", "ls", "cat", "exec"}, NEW path \in Seq(Names \cup {"/"})
    PROVE  /\ Begin(do, path) \in Cmd
           /\ do # "none" /\ path \in Paths => Flow(Begin(do, path), NoIo)
           /\ [Begin(do, path) EXCEPT !.at = "done"] \in Cmd
           /\ do = "none" => Flow([Begin(do, path) EXCEPT !.at = "done"], NoIo)
<1>1. PICK none, root : none = <<>> /\ root = Root
  OBVIOUS
<1>2. PICK b : b = [do |-> do, at |-> "walk", path |-> path, rest |-> path, node |-> root,
                    from |-> 0, names |-> none, out |-> none, result |-> None, taken |-> 0]
  OBVIOUS
<1>3. Begin(do, path) = b
  BY <1>1, <1>2, Zenon DEF Begin
<1>4. none \in Seq(Names) /\ none \in Seq(Byte) /\ root \in Places
  BY <1>1, NothingIs, EmptySeq, Zenon
<1>5. 0 \in 0 .. MAX_FAT32_NODES /\ 0 \in Nat
  BY Sizes
<1>6. b \in Cmd
  BY <1>2, <1>4, <1>5 DEF Cmd
<1>7. b.at = "walk" /\ b.do = do /\ b.path = path
  BY <1>2
<1>8. do # "none" /\ path \in Paths => Flow(b, NoIo)
  BY <1>7, NoCallIs DEF Flow
<1>9. PICK d : d = [b EXCEPT !.at = "done"]
  OBVIOUS
<1>10. d \in Cmd /\ d.at = "done" /\ d.do = do
  BY <1>6, <1>7, <1>9 DEF Cmd
<1>11. do = "none" => Flow(d, NoIo)
  BY <1>10, NoCallIs DEF Flow
<1> QED
  BY <1>3, <1>6, <1>8, <1>9, <1>10, <1>11, Zenon

LEMMA StartType ==
    ASSUME TypeInv, NEW e \in Commands, Start(e[1], e[2])
    PROVE  TypeInv'
<1>1. e[1] \in {"ls", "cat", "exec"} /\ e[2] \in Seq(Names \cup {"/"}) /\ e[2] \in Paths
  BY CommandsAre, PathsAre
<1>2. Begin(e[1], e[2]) \in Cmd /\ Flow(Begin(e[1], e[2]), NoIo)
  BY <1>1, BeginType
<1>3. /\ cmd' = [cmd EXCEPT ![Shell] = Begin(e[1], e[2])]
      /\ given < MaxCommands /\ given' = given + 1
      /\ UNCHANGED <<nodes, next_node, lba, data, io, overlap, starved>>
  BY DEF Start, With
<1>4. io[Shell] = NoIo
  <2>1. Flow(cmd[Shell], io[Shell]) /\ cmd[Shell].at = "done"
    BY DEF TypeInv, FlowInv, Start, Threads
  <2>2. io[Shell] \in Io
    BY DEF TypeInv, TypeOK, Threads
  <2> QED
    BY <2>1, <2>2 DEF Flow, Io
<1>5. io' = [io EXCEPT ![Shell] = NoIo]
  BY <1>3, <1>4 DEF TypeInv, TypeOK
<1>6. Moves(Shell, Begin(e[1], e[2]), NoIo)
  BY <1>3, <1>5 DEF Moves, With
<1>7. cmd' \in [Threads -> Cmd] /\ io' \in [Threads -> Io] /\ FlowInv'
  BY <1>2, <1>6, NoCallIs, MovesType DEF Threads
<1>8. given' \in 0 .. MaxCommands
  BY <1>3, NamesAre DEF TypeInv, TypeOK
<1> QED
  BY <1>3, <1>7, <1>8 DEF TypeInv, TypeOK

LEMMA InitType == Init => TypeInv
<1> SUFFICES ASSUME Init PROVE TypeInv
  OBVIOUS
<1>1. nodes \in [0 .. MAX_FAT32_NODES - 1 -> DiskNode]
  <2>1. PICK blank : blank = Directory("", 0)
    OBVIOUS
  <2>2. nodes = [i \in 0 .. MAX_FAT32_NODES - 1 |-> blank]
    BY <2>1, Zenon DEF Init
  <2>3. blank \in DiskNode
    <3>1. PICK name : name = ""
      OBVIOUS
    <3>2. name \in Names
      BY <3>1, NamedAre, Zenon
    <3>3. blank = Directory(name, 0)
      BY <2>1, <3>1, Zenon
    <3> QED
      BY <3>2, <3>3 DEF Directory, DiskNode
  <2> QED
    BY <2>2, <2>3
<1>2. /\ next_node = 0 /\ lba = None /\ data = None /\ io = [t \in Threads |-> NoIo]
      /\ given = 0 /\ overlap = FALSE /\ starved = FALSE
  BY Zenon DEF Init
<1>3. PICK b, d : /\ b = Begin("exec", UserPath)
                  /\ d = [Begin("none", <<>>) EXCEPT !.at = "done"]
  OBVIOUS
<1>4. cmd = [t \in Threads |-> IF t = User THEN b ELSE d]
  BY <1>3, Zenon DEF Init
<1>5. b \in Cmd /\ Flow(b, NoIo)
  <2>1. UserPath \in Seq(Names \cup {"/"}) /\ UserPath \in Paths
    BY PathsAre DEF Paths
  <2> QED
    BY <1>3, <2>1, BeginType
<1>6. d \in Cmd /\ Flow(d, NoIo)
  <2>1. PICK none : none = <<>>
    OBVIOUS
  <2>2. none \in Seq(Names \cup {"/"})
    BY <2>1, NothingIs
  <2> QED
    BY <1>3, <2>1, <2>2, BeginType
<1>7. cmd \in [Threads -> Cmd] /\ io \in [Threads -> Io] /\ FlowInv
  <2>1. cmd \in [Threads -> Cmd] /\ io \in [Threads -> Io]
    BY <1>2, <1>4, <1>5, <1>6, NoCallIs
  <2>2. \A t \in Threads : Flow(cmd[t], io[t])
    BY <1>2, <1>4, <1>5, <1>6
  <2> QED
    BY <2>1, <2>2 DEF FlowInv
<1>8. next_node \in 0 .. MAX_FAT32_NODES - 1 /\ given \in 0 .. MaxCommands
  BY <1>2, Sizes, NamesAre
<1> QED
  BY <1>1, <1>2, <1>7, <1>8 DEF TypeInv, TypeOK

LEMMA StepType == TypeInv /\ [Next]_vars => TypeInv'
<1> SUFFICES ASSUME TypeInv, [Next]_vars PROVE TypeInv'
  OBVIOUS
<1>1. CASE UNCHANGED vars
  BY <1>1 DEF vars, TypeInv, TypeOK, FlowInv
<1>2. CASE \E e \in Commands : Start(e[1], e[2])
  BY <1>2, StartType
<1>3. ASSUME NEW t \in Threads, Steps(t) PROVE TypeInv'
  BY <1>3, AddressType, CommandType, WalkType, EntriesType, NextEntriesType, ListType,
     ReadType, SkipType, BufferType, BytesType, NextBytesType DEF Steps
<1> QED
  BY <1>1, <1>2, <1>3 DEF Next

\* Every variable keeps its type, whoever uses drive and pool, whatever a sector holds:
\* in fat32.c and ata.c no index leaves its table and no slice its buffer.
THEOREM FilesTypeCorrect == Spec => []TypeOK
<1>1. TypeInv => TypeOK
  BY DEF TypeInv
<1> QED
  BY <1>1, InitType, StepType, PTL DEF Spec

-----------------------------------------------------------------------------
(* Drive and pool.                                                         *)

\* While the drive was never shared, one thread at most waits for it, for its own sector.
Driving == {t \in Threads : io[t].at \in {"command", "data"}}
DriveInv ==
    ~ overlap =>
      /\ \A t, u \in Driving : t = u
      /\ \A t \in Threads :
           /\ io[t].at = "command" => lba = io[t].lba
           /\ io[t].at = "data" => data \in {io[t].lba, None}

\* The pool goes round: a slot is given again after MAX_FAT32_NODES others.
Behind(c, slot) ==
    \E m \in 0 .. c.taken : next_node = (slot + 1 + m) % MAX_FAT32_NODES
PoolInv ==
    \A t \in Threads :
        LET c == cmd[t]
        IN  c.at # "done" /\ c.node[1] = "fat" /\ c.taken < MAX_FAT32_NODES
              => Behind(c, c.node[2])

\* A path vfs_finddir reads as it is meant.
GoodPath(path) ==
    /\ path # <<>>
    /\ (Len(path) > 1 /\ path[Len(path)] = "/") => path[Len(path) - 1] = "/"
Trusted(c) == /\ c.do # "none" /\ ~ overlap /\ ~ starved
              /\ c.taken < MAX_FAT32_NODES /\ GoodPath(c.path)

\* The whole path leads to a node, and to which.
Leads(path) == Len(Trail[path]) > Depth(path, Len(path))
Last(path) == Trail[path][Len(Trail[path])]

\* What a directory of the disk, and a file with bytes there, has in the tables.
GoodNode(n) ==
    /\ (n.dir /\ n.cluster # None) => (InUse(n.cluster) => n.cluster \in DOMAIN Children)
    /\ (~ n.dir /\ n.cluster # None /\ n.size > 0) =>
         /\ n.cluster \in DOMAIN Chain
         /\ n.size <= Len(Chain[n.cluster]) * ClusterBytes

Walking(path, rest, n) ==
    \E k \in 0 .. Len(path) - 1 :
        /\ rest = SubSeq(path, k + 1, Len(path)) /\ Depth(path, k) < Len(Trail[path])
        /\ n = Trail[path][Depth(path, k) + 1]

\* A walk over the directory of the cluster d.
InDir(d, then, sector, my) ==
    /\ d \in DOMAIN Children /\ my.seen <= my.index
    /\ \E m \in DOMAIN Chain[d] :
         /\ my.cluster = Chain[d][m]
         /\ then = "entries" => /\ <<m, my.sector>> \in DOMAIN Before[d]
                                /\ my.seen = Before[d][<<m, my.sector>>]
                                /\ sector = SectorOf(my.cluster, my.sector)
         /\ then = "next_entries" =>
              /\ sector = FatSector(my.cluster)
              /\ IF m < Len(Chain[d]) THEN /\ <<m + 1, 0>> \in DOMAIN Before[d]
                                           /\ my.seen = Before[d][<<m + 1, 0>>]
                                      ELSE my.seen = Len(Children[d])

Finding(path, rest, then, sector, my, n) ==
    \E p \in 1 .. Len(path) :
        /\ path[p] # "/" /\ rest = SubSeq(path, p, Len(path))
        /\ Depth(path, p) <= Len(Trail[path]) /\ n = Trail[path][Depth(path, p)]
        /\ n.dir /\ n.cluster # None /\ InUse(n.cluster) /\ InDir(n.cluster, then, sector, my)
        /\ \A j \in 1 .. my.index : j <= Len(Children[n.cluster]) => Children[n.cluster][j].name # path[p]

Listing(path, from, names, n) ==
    /\ Leads(path) /\ n = Last(path) /\ n.dir /\ from <= Len(NodesIn(n))
    /\ Len(names) = from /\ \A x \in 1 .. from : names[x] = NodesIn(n)[x].name

Reading(at, path, from, out, n) ==
    /\ Leads(path) /\ n = Last(path)
    /\ at = "read" => /\ ~ n.dir /\ from <= n.size /\ Len(out) = from
                      /\ \A x \in 1 .. from : out[x] = ContentOf(n)[x]
    /\ (at = "segment" /\ ~ n.dir /\ n.size > 0) =>
         ContentOf(n)[1] = Magic /\ (n.size >= 2 => from = ContentOf(n)[2])

\* The first bytes of a cluster.
Filled(c, buf) == \A x \in 1 .. Len(buf) : buf[x] = ClusterByte(c, x - 1)

\* A read of the file of node n.
InFile(n, offset, size, then, sector, my) ==
    LET want == Smaller(size, n.size - offset)
        chain == Chain[n.cluster]
        read == Len(my.got)
    IN  /\ ~ n.dir /\ n.cluster # None /\ offset < n.size /\ my.want = want /\ read <= want
        /\ \A x \in 1 .. read : my.got[x] = ContentOf(n)[offset + x]
        /\ \E m \in DOMAIN chain :
             /\ my.cluster = chain[m]
             /\ then = "skip" =>
                  /\ sector = FatSector(my.cluster) /\ read = 0
                  /\ offset \div ClusterBytes = m - 1 + my.skip
                  /\ my.offset = offset % ClusterBytes
             /\ then \in {"buffer", "bytes"} =>
                  offset + read = (m - 1) * ClusterBytes + my.offset
             /\ then = "bytes" =>
                  /\ read < want
                  /\ \E s \in 0 .. PerCluster - 1 :
                       /\ sector = SectorOf(my.cluster, s) /\ Len(my.buf) = s * SectorBytes
                       /\ Filled(my.cluster, my.buf)
             /\ then = "next_bytes" =>
                  /\ sector = FatSector(my.cluster) /\ my.offset = 0
                  /\ read = want \/ offset + read = m * ClusterBytes

\* The result of a command is what its path names.
Right(do, path, result, names, out) ==
    LET there == Holds(path)
    IN  IF do = "ls"
        THEN CASE there.kind = "none" -> result = "missing"
               [] there.kind = "file" -> result = "wrong_kind"
               [] there.kind = "directory" -> result = "ok" /\ names = there.content
        ELSE CASE there.kind = "none" -> result = "missing"
               [] there.kind = "directory" -> result = "wrong_kind" \/ do = "exec"
               [] there.kind = "file" /\ do = "cat" -> result = "ok" /\ out = there.content
               [] there.kind = "file" /\ do = "exec" ->
                    (result = "ok" /\ there.content # <<>>) =>
                      there.content[1] = Magic /\ out = Segment(there.content)

\* What a call is for.
Purpose(i) == IF i.at = "buffer" THEN "buffer" ELSE i.then

Progress(c, i, n) ==
    /\ c.at \in {"walk", "find"} => Len(c.names) = 0 /\ Len(c.out) = 0
    /\ c.at = "walk" => Walking(c.path, c.rest, n)
    /\ c.at = "find" => Finding(c.path, c.rest, i.then, i.lba, i.my, n)
    /\ c.at = "list" =>
         /\ Listing(c.path, c.from, c.names, n)
         /\ i.at # "none" => i.my.index = c.from /\ InDir(n.cluster, i.then, i.lba, i.my)
    /\ c.at \in {"read", "header", "segment"} =>
         /\ Reading(c.at, c.path, c.from, c.out, n)
         /\ i.at # "none" => InFile(n, Request(c)[1], Request(c)[2], Purpose(i), i.lba, i.my)
    /\ c.at = "done" => Right(c.do, c.path, c.result, c.names, c.out)
    /\ c.at # "done" => GoodNode(n)

ProgressInv == \A t \in Threads : Trusted(cmd[t]) => Progress(cmd[t], io[t], Node(cmd[t].node))

-----------------------------------------------------------------------------
(* Counting.                                                               *)

LEMMA GreatestElement ==
    ASSUME NEW n \in Nat, NEW S \in SUBSET (1 .. n), S # {}
    PROVE  \E m \in S : \A x \in S : x <= m
<1> DEFINE T == {n - x : x \in S}
<1>1. T \in SUBSET Nat /\ T # {}
  <2>1. \A x \in S : n - x \in Nat
    OBVIOUS
  <2>2. PICK x : x \in S
    OBVIOUS
  <2> QED
    BY <2>1, <2>2
<1>2. PICK k \in T : \A y \in T : k <= y
  BY <1>1, LeastElement
<1>3. PICK m \in S : k = n - m
  OBVIOUS
<1>4. ASSUME NEW x \in S PROVE x <= m
  <2>1. n - x \in T
    OBVIOUS
  <2>2. n - m <= n - x
    BY <1>2, <1>3, <2>1
  <2> QED
    BY <2>2
<1> QED
  BY <1>4

LEMMA FiniteIs ==
    ASSUME NEW n \in Nat, NEW S \in SUBSET (1 .. n)
    PROVE  IsFiniteSet(S) /\ Cardinality(S) \in Nat
<1>1. n \in Int /\ 1 \in Int
  OBVIOUS
<1>2. IsFiniteSet(1 .. n)
  BY <1>1, FS_Interval
<1>3. IsFiniteSet(S)
  BY <1>2, FS_Subset
<1> QED
  BY <1>3, FS_CardinalityType

\* The members of a set before one of them.
Under(S, i) == {j \in S : j < i}

LEMMA UnderIs ==
    ASSUME NEW n \in Nat, NEW S \in SUBSET (1 .. n), NEW i \in S
    PROVE  /\ IsFiniteSet(S) /\ Cardinality(S) \in Nat
           /\ Cardinality(Under(S, i)) \in Nat /\ Cardinality(Under(S, i)) + 1 <= Cardinality(S)
           /\ IsFiniteSet(Under(S, i)) /\ i \notin Under(S, i)
<1>1. IsFiniteSet(S)
  BY FiniteIs
<1>2. Under(S, i) \subseteq S \ {i} /\ i \notin Under(S, i)
  BY DEF Under
<1>3. IsFiniteSet(S \ {i}) /\ Cardinality(S \ {i}) = Cardinality(S) - 1
  BY <1>1, FS_RemoveElement
<1>4. IsFiniteSet(Under(S, i)) /\ Cardinality(Under(S, i)) <= Cardinality(S \ {i})
  BY <1>2, <1>3, FS_Subset
<1>5. Cardinality(S) \in Nat /\ Cardinality(Under(S, i)) \in Nat
  BY <1>1, <1>4, FS_CardinalityType
<1> QED
  <2>1. Cardinality(Under(S, i)) <= Cardinality(S) - 1
    BY <1>3, <1>4
  <2> QED
    BY <1>1, <1>2, <1>4, <1>5, <2>1

\* The last member of those before i.
LEMMA LastUnder ==
    ASSUME NEW n \in Nat, NEW S \in SUBSET (1 .. n), NEW i \in 1 .. n + 1, Under(S, i) # {}
    PROVE  \E m \in S : m < i /\ Cardinality(Under(S, m)) = Cardinality(Under(S, i)) - 1
<1>1. Under(S, i) \in SUBSET (1 .. n)
  BY DEF Under
<1>2. PICK m \in Under(S, i) : \A x \in Under(S, i) : x <= m
  BY <1>1, GreatestElement
<1>3. Under(S, m) = Under(S, i) \ {m}
  <2>1. ASSUME NEW j \in S PROVE j \in Under(S, m) <=> j \in Under(S, i) \ {m}
    BY <1>2 DEF Under
  <2> QED
    BY <2>1 DEF Under
<1>4. IsFiniteSet(Under(S, i))
  BY <1>1, FiniteIs
<1>5. Cardinality(Under(S, i) \ {m}) = Cardinality(Under(S, i)) - 1
  BY <1>4, FS_RemoveElement
<1> QED
  BY <1>2, <1>3, <1>5 DEF Under

\* A set of k numbers has a member behind r others, for each r < k.
LEMMA Ranked ==
    ASSUME NEW n \in Nat, NEW S \in SUBSET (1 .. n), NEW r \in Nat, r < Cardinality(S)
    PROVE  \E i \in S : Cardinality(Under(S, i)) = r
<1> DEFINE T == {i \in 1 .. n + 1 : Cardinality(Under(S, i)) > r}
<1>1. IsFiniteSet(S) /\ Cardinality(S) \in Nat
  BY FiniteIs
<1>2. Under(S, n + 1) = S
  <2>1. \A j \in S : j < n + 1
    OBVIOUS
  <2> QED
    BY <2>1 DEF Under
<1>3. n + 1 \in T /\ T \in SUBSET Nat
  <2>1. n + 1 \in 1 .. n + 1 /\ 1 .. n + 1 \subseteq Nat
    OBVIOUS
  <2> QED
    BY <1>1, <1>2, <2>1
<1>4. PICK k \in T : \A y \in T : k <= y
  <2>1. T # {} /\ T \in SUBSET Nat
    BY <1>3, Zenon
  <2> HIDE DEF T
  <2> QED
    BY <2>1, LeastElement
<1>5. Under(S, k) # {}
  BY <1>4, FS_EmptySet
<1>6. PICK m \in S : m < k /\ Cardinality(Under(S, m)) = Cardinality(Under(S, k)) - 1
  BY <1>4, <1>5, LastUnder
<1>7. Cardinality(Under(S, m)) \in Nat
  BY UnderIs
<1>8. m \notin T
  BY <1>4, <1>6
<1>9. ~ (Cardinality(Under(S, m)) > r)
  BY <1>8
<1>10. Cardinality(Under(S, k)) \in Int
  <2>1. Under(S, k) \subseteq S
    BY DEF Under
  <2>2. IsFiniteSet(Under(S, k))
    BY <1>1, <2>1, FS_Subset
  <2> QED
    BY <2>2, FS_CardinalityType
<1> QED
  BY <1>4, <1>6, <1>7, <1>9, <1>10

-----------------------------------------------------------------------------
(* What the disk holds.                                                    *)

LEMMA LiveIsHeld ==
    ASSUME NEW entries \in Seq(Entry)
    PROVE  /\ LiveIn(entries) = HeldIn(entries) /\ Len(entries) \in Nat
           /\ HeldIn(entries) \in SUBSET (1 .. Len(entries))
<1>1. DOMAIN entries = 1 .. Len(entries) /\ Len(entries) \in Nat
  OBVIOUS
<1>2. ASSUME NEW i \in 1 .. Len(entries) PROVE entries[i].kind \in {"entry", "deleted", "long_name", "end"}
  <2>1. entries[i] \in Entry
    BY ElementOfSeq
  <2> QED
    BY <2>1 DEF Entry
<1>3. ASSUME NEW i \in 1 .. Len(entries) PROVE i \in LiveIn(entries) <=> i \in HeldIn(entries)
  <2>1. i \in 1 .. i
    OBVIOUS
  <2>2. (\A j \in 1 .. i : entries[j].kind # "end") => entries[i].kind # "end"
    BY <2>1
  <2> QED
    BY <1>1, <1>2, <2>2 DEF LiveIn, HeldIn, Live
<1>4. LiveIn(entries) \subseteq 1 .. Len(entries) /\ HeldIn(entries) \subseteq 1 .. Len(entries)
  BY <1>1 DEF LiveIn, HeldIn
<1> QED
  BY <1>1, <1>3, <1>4

LEMMA ChainIs ==
    ASSUME NEW f \in DOMAIN Chain
    PROVE  /\ Chain[f] \in Seq(Nat) /\ Len(Chain[f]) \in Nat \ {0} /\ Chain[f][1] = f
           /\ \A m \in 1 .. Len(Chain[f]) :
                LET c == Chain[f][m]
                IN  /\ c \in Nat /\ InUse(c) /\ FatSector(c) \in DOMAIN Disk
                    /\ \A s \in 0 .. PerCluster - 1 : SectorOf(c, s) \in DOMAIN Disk
                    /\ m < Len(Chain[f]) => FatEntry(c) = Chain[f][m + 1]
                    /\ ~ (m < Len(Chain[f])) => ~ InUse(FatEntry(c))
<1>1. IsChain(Chain[f]) /\ Chain[f][1] = f
  BY VolumeConstants
<1>2. Chain[f] \in Seq(Nat) /\ Chain[f] # <<>>
  BY <1>1 DEF IsChain
<1>3. DOMAIN Chain[f] = 1 .. Len(Chain[f]) /\ Len(Chain[f]) \in Nat \ {0}
  BY <1>2
<1>4. ASSUME NEW m \in 1 .. Len(Chain[f]) PROVE Chain[f][m] \in Nat
  BY <1>2, ElementOfSeq
<1> QED
  BY <1>1, <1>2, <1>3, <1>4 DEF IsChain

LEMMA DirectoryIs ==
    ASSUME NEW d \in DOMAIN Children
    PROVE  /\ d \in DOMAIN Chain /\ Children[d] \in Seq(Entry) /\ Len(Children[d]) \in Nat
           /\ IsDirectory(Chain[d], Children[d], Before[d])
           /\ <<1, 0>> \in DOMAIN Before[d] /\ Before[d][<<1, 0>>] = 0
<1>1. d \in DOMAIN Chain /\ IsDirectory(Chain[d], Children[d], Before[d])
  BY VolumeConstants
<1>2. Children[d] \in Seq(Entry) /\ <<1, 0>> \in DOMAIN Before[d] /\ Before[d][<<1, 0>>] = 0
  BY <1>1 DEF IsDirectory
<1> QED
  BY <1>1, <1>2, LenProperties

\* What stands in a sector of a directory: its entries, those it holds, and how many
\* stand before.
Standing(d, m, s, entries, held, seen) ==
    /\ m \in 1 .. Len(Chain[d]) /\ s \in 0 .. PerCluster - 1 /\ seen \in Nat
    /\ entries \in Seq(Entry) /\ seen + Cardinality(held) <= Len(Children[d])
    /\ \A i \in held : Children[d][seen + Cardinality(Under(held, i)) + 1] = entries[i]
    /\ Ended(entries) => seen + Cardinality(held) = Len(Children[d])
    /\ (~ Ended(entries) /\ s + 1 < PerCluster) =>
         <<m, s + 1>> \in DOMAIN Before[d] /\ Before[d][<<m, s + 1>>] = seen + Cardinality(held)
    /\ (~ Ended(entries) /\ ~ (s + 1 < PerCluster)) =>
         IF m < Len(Chain[d])
         THEN <<m + 1, 0>> \in DOMAIN Before[d] /\ Before[d][<<m + 1, 0>>] = seen + Cardinality(held)
         ELSE seen + Cardinality(held) = Len(Children[d])

LEMMA SectorIs ==
    ASSUME NEW d \in DOMAIN Children, NEW m, NEW s, <<m, s>> \in DOMAIN Before[d]
    PROVE  \E entries, held, seen :
             /\ entries = Disk[SectorOf(Chain[d][m], s)].entries /\ held = HeldIn(entries)
             /\ seen = Before[d][<<m, s>>] /\ Standing(d, m, s, entries, held, seen)
<1> DEFINE entries == Disk[SectorOf(Chain[d][m], s)].entries
           held == HeldIn(entries)
           seen == Before[d][<<m, s>>]
           after == seen + Cardinality(held)
           next == IF s + 1 < PerCluster THEN <<m, s + 1>> ELSE <<m + 1, 0>>
<1>1. IsDirectory(Chain[d], Children[d], Before[d]) /\ d \in DOMAIN Chain
  BY DirectoryIs
<1>2. /\ m \in DOMAIN Chain[d] /\ s \in 0 .. PerCluster - 1
      /\ seen \in Nat /\ after <= Len(Children[d])
      /\ \A i \in held : Children[d][seen + Cardinality({j \in held : j < i}) + 1] = entries[i]
      /\ IF Ended(entries) \/ next[1] > Len(Chain[d]) THEN after = Len(Children[d])
         ELSE next \in DOMAIN Before[d] /\ Before[d][next] = after
  <2>1. <<m, s>>[1] = m /\ <<m, s>>[2] = s
    OBVIOUS
  <2> QED
    BY <1>1, <2>1, Zenon DEF IsDirectory
<1>3. m \in 1 .. Len(Chain[d]) /\ Len(Chain[d]) \in Nat
  <2>1. m \in DOMAIN Chain[d]
    BY <1>2, Zenon
  <2>2. Chain[d] \in Seq(Nat) /\ Len(Chain[d]) \in Nat
    BY <1>1, ChainIs
  <2> QED
    BY <2>1, <2>2
<1>4. entries \in Seq(Entry)
  <2>1. SectorOf(Chain[d][m], s) \in DOMAIN Disk
    BY <1>1, <1>2, <1>3, ChainIs
  <2> QED
    BY <2>1, DiskConstants
<1>5. \A i \in held : Children[d][seen + Cardinality(Under(held, i)) + 1] = entries[i]
  BY <1>2, Zenon DEF Under
<1>6. ASSUME ~ Ended(entries), s + 1 < PerCluster
      PROVE  <<m, s + 1>> \in DOMAIN Before[d] /\ Before[d][<<m, s + 1>>] = after
  <2>1. next = <<m, s + 1>> /\ next[1] = m /\ next[2] = s + 1
    BY <1>6
  <2>2. ~ (next[1] > Len(Chain[d]))
    BY <1>3, <2>1
  <2> HIDE DEF next, entries, held, seen, after
  <2> QED
    BY <1>2, <1>6, <2>1, <2>2, Zenon
<1>7. ASSUME ~ Ended(entries), ~ (s + 1 < PerCluster)
      PROVE  IF m < Len(Chain[d])
             THEN <<m + 1, 0>> \in DOMAIN Before[d] /\ Before[d][<<m + 1, 0>>] = after
             ELSE after = Len(Children[d])
  <2>1. next = <<m + 1, 0>> /\ next[1] = m + 1 /\ next[2] = 0
    BY <1>7
  <2>2. next[1] > Len(Chain[d]) <=> ~ (m < Len(Chain[d]))
    BY <1>3, <2>1
  <2> HIDE DEF next, entries, held, seen, after
  <2> QED
    BY <1>2, <1>7, <2>1, <2>2, Zenon
<1>8. Ended(entries) => after = Len(Children[d])
  BY <1>2
<1>9. Standing(d, m, s, entries, held, seen)
  BY <1>2, <1>3, <1>4, <1>5, <1>6, <1>7, <1>8, Zenon DEF Standing
<1> QED
  BY <1>9, Zenon

\* The entry of a number, in a sector of a directory, is the child of that number, or
\* stands further behind.
Counted(d, m, s, index, entries, here, after) ==
    /\ \A i \in here : /\ index + 1 \in 1 .. Len(Children[d])
                       /\ Children[d][index + 1] = entries[i]
    /\ here = {} => after <= index
    /\ Ended(entries) => after = Len(Children[d])
    /\ (~ Ended(entries) /\ s + 1 < PerCluster) =>
         <<m, s + 1>> \in DOMAIN Before[d] /\ Before[d][<<m, s + 1>>] = after
    /\ (~ Ended(entries) /\ ~ (s + 1 < PerCluster)) =>
         IF m < Len(Chain[d])
         THEN <<m + 1, 0>> \in DOMAIN Before[d] /\ Before[d][<<m + 1, 0>>] = after
         ELSE after = Len(Children[d])

LEMMA EntryFound ==
    ASSUME NEW d \in DOMAIN Children, NEW m, NEW s, <<m, s>> \in DOMAIN Before[d],
           NEW index \in Nat, NEW seen, seen = Before[d][<<m, s>>], seen <= index,
           NEW entries, entries = Disk[SectorOf(Chain[d][m], s)].entries,
           NEW after, after = seen + Cardinality(LiveIn(entries)),
           NEW here, here = Numbered(entries, seen, index)
    PROVE  Counted(d, m, s, index, entries, here, after)
<1>0. PICK held : held = HeldIn(entries) /\ Standing(d, m, s, entries, held, seen)
  <2>1. PICK e, h, g : /\ e = Disk[SectorOf(Chain[d][m], s)].entries /\ h = HeldIn(e)
                       /\ g = Before[d][<<m, s>>] /\ Standing(d, m, s, e, h, g)
    BY SectorIs, Zenon
  <2>2. e = entries /\ g = seen
    BY <2>1
  <2> QED
    BY <2>1, <2>2, Zenon
<1>1. /\ seen \in Nat /\ entries \in Seq(Entry) /\ seen + Cardinality(held) <= Len(Children[d])
      /\ \A i \in held : Children[d][seen + Cardinality(Under(held, i)) + 1] = entries[i]
  BY <1>0, Zenon DEF Standing
<1>2. LiveIn(entries) = held /\ Len(entries) \in Nat /\ held \in SUBSET (1 .. Len(entries))
  BY <1>0, <1>1, LiveIsHeld
<1>3. here = {i \in held : seen + Cardinality(Under(held, i)) = index}
  BY <1>0, <1>2, Zenon DEF Numbered, Under
<1>4. Len(Children[d]) \in Nat
  BY DirectoryIs
<1>5. ASSUME NEW i \in here
      PROVE  index + 1 \in 1 .. Len(Children[d]) /\ Children[d][index + 1] = entries[i]
  <2>1. i \in held /\ seen + Cardinality(Under(held, i)) = index
    BY <1>3, Zenon
  <2>2. /\ Cardinality(held) \in Nat /\ Cardinality(Under(held, i)) \in Nat
        /\ Cardinality(Under(held, i)) + 1 <= Cardinality(held)
    BY <1>2, <2>1, UnderIs
  <2>3. index + 1 \in 1 .. Len(Children[d])
    BY <1>1, <1>4, <2>1, <2>2
  <2> QED
    BY <1>1, <2>1, <2>3
<1>6. Cardinality(held) \in Nat
  BY <1>2, FiniteIs
<1>7. ASSUME here = {} PROVE seen + Cardinality(held) <= index
  <2> SUFFICES ASSUME index < seen + Cardinality(held) PROVE FALSE
    BY <1>1, <1>6
  <2>0. seen \in Nat
    BY <1>1, Zenon
  <2> PICK r \in Nat : r = index - seen
    BY <2>0
  <2>1. r < Cardinality(held)
    BY <1>6, <2>0
  <2>2. PICK i \in held : Cardinality(Under(held, i)) = r
    <3>1. PICK l \in Nat : l = Len(entries)
      BY <1>2
    <3>2. held \in SUBSET (1 .. l)
      BY <1>2, <3>1, Zenon
    <3> QED
      BY <2>1, <3>2, Ranked
  <2>3. seen + r = index
    BY <2>0
  <2>4. i \in here
    BY <1>3, <2>2, <2>3, Zenon
  <2> QED
    BY <1>7, <2>4
<1>8. after = seen + Cardinality(held)
  BY <1>2
<1> QED
  BY <1>0, <1>5, <1>7, <1>8, Zenon DEF Standing, Counted

-----------------------------------------------------------------------------
(* Paths.                                                                  *)

\* The names among the first places of a path.
NameAt(path, k) == {p \in 1 .. k : path[p] # "/"}

LEMMA DepthIs ==
    ASSUME NEW path, NEW k \in Nat
    PROVE  /\ Depth(path, k) = Cardinality(NameAt(path, k)) /\ Depth(path, k) \in Nat
           /\ IsFiniteSet(NameAt(path, k)) /\ NameAt(path, k) \in SUBSET (1 .. k)
<1>1. NameAt(path, k) \in SUBSET (1 .. k)
  BY DEF NameAt
<1>2. IsFiniteSet(NameAt(path, k)) /\ Cardinality(NameAt(path, k)) \in Nat
  BY <1>1, FiniteIs
<1> QED
  BY <1>1, <1>2, Zenon DEF Depth, NameAt

LEMMA DepthMonotone ==
    ASSUME NEW path, NEW k \in Nat, NEW l \in Nat, k <= l
    PROVE  /\ Depth(path, k) \in Nat /\ Depth(path, l) \in Nat
           /\ Depth(path, k) <= Depth(path, l)
           /\ (\A p \in k + 1 .. l : path[p] = "/") => Depth(path, k) = Depth(path, l)
<1>1. NameAt(path, k) \subseteq NameAt(path, l)
  BY DEF NameAt
<1>2. Depth(path, k) <= Depth(path, l)
  BY <1>1, DepthIs, FS_Subset
<1>3. ASSUME \A p \in k + 1 .. l : path[p] = "/" PROVE NameAt(path, k) = NameAt(path, l)
  <2>1. ASSUME NEW p \in NameAt(path, l) PROVE p \in NameAt(path, k)
    <3>1. p \in 1 .. l /\ path[p] # "/"
      BY DEF NameAt
    <3>2. p \notin k + 1 .. l
      BY <1>3, <3>1
    <3>3. p \in 1 .. k
      BY <3>1, <3>2
    <3> QED
      BY <3>1, <3>3 DEF NameAt
  <2> QED
    BY <1>1, <2>1
<1> QED
  BY <1>2, <1>3, DepthIs

LEMMA DepthAtName ==
    ASSUME NEW path, NEW p \in Nat \ {0}, path[p] # "/"
    PROVE  Depth(path, p) = Depth(path, p - 1) + 1
<1>1. p - 1 \in Nat
  OBVIOUS
<1>2. NameAt(path, p) = NameAt(path, p - 1) \cup {p} /\ p \notin NameAt(path, p - 1)
  <2>1. ASSUME NEW j PROVE j \in 1 .. p <=> j \in 1 .. p - 1 \/ j = p
    OBVIOUS
  <2>2. p \notin 1 .. p - 1
    OBVIOUS
  <2> QED
    BY <2>1, <2>2 DEF NameAt
<1>3. Cardinality(NameAt(path, p - 1) \cup {p}) = Cardinality(NameAt(path, p - 1)) + 1
  <2>1. IsFiniteSet(NameAt(path, p - 1))
    BY <1>1, DepthIs
  <2> QED
    BY <1>2, <2>1, FS_AddElement
<1> QED
  BY <1>1, <1>2, <1>3, DepthIs

LEMMA DepthZero == ASSUME NEW path PROVE Depth(path, 0) = 0
<1>1. NameAt(path, 0) = {}
  BY DEF NameAt
<1> QED
  BY <1>1, DepthIs, FS_EmptySet

LEMMA PathIs ==
    ASSUME NEW path \in Paths
    PROVE  /\ path \in Seq(Names \cup {"/"}) /\ Len(path) \in Nat
           /\ Len(Trail[path]) \in Nat \ {0} /\ Trail[path][1] = Directory("root", None)
           /\ Depth(path, Len(path)) \in Nat
           /\ Len(Trail[path]) <= Depth(path, Len(path)) + 1
           /\ \A d \in 1 .. Len(Trail[path]) : Trail[path][d] \in DiskNode \cup RamNode
<1>1. Trail[path] \in Seq(DiskNode \cup RamNode) /\ IsTrail(path, Trail[path])
  BY PathConstants
<1>2. path \in Seq(Names \cup {"/"}) /\ Len(path) \in Nat
  BY PathsAre, LenProperties
<1>3. /\ Trail[path] # <<>> /\ Trail[path][1] = Directory("root", None)
      /\ Len(Trail[path]) <= Depth(path, Len(path)) + 1
  BY <1>1, Zenon DEF IsTrail
<1>4. Len(Trail[path]) \in Nat \ {0}
  BY <1>1, <1>3
<1>5. \A d \in 1 .. Len(Trail[path]) : Trail[path][d] \in DiskNode \cup RamNode
  BY <1>1, ElementOfSeq
<1> QED
  BY <1>2, <1>3, <1>4, <1>5, DepthIs

\* A name on the path: behind it stands a slash, and its child is the next of the trail.
LEMMA TrailAt ==
    ASSUME NEW path \in Paths, NEW p \in 1 .. Len(path), path[p] # "/", NEW d,
           d = Depth(path, p), d <= Len(Trail[path])
    PROVE  /\ d \in 1 .. Len(Trail[path]) /\ (p < Len(path) => path[p + 1] = "/")
           /\ d < Len(Trail[path]) => IsChild(Trail[path][d], path[p], Trail[path][d + 1])
           /\ ~ (d < Len(Trail[path])) => HasNone(Trail[path][d], path[p]) /\ ~ Leads(path)
<1>1. IsTrail(path, Trail[path]) /\ DOMAIN path = 1 .. Len(path)
  BY PathConstants, PathIs
<1>2. /\ (p < Len(path) => path[p + 1] = "/")
      /\ d < Len(Trail[path]) => IsChild(Trail[path][d], path[p], Trail[path][d + 1])
      /\ d = Len(Trail[path]) => HasNone(Trail[path][d], path[p])
  BY <1>1, Zenon DEF IsTrail
<1>3. p \in Nat \ {0} /\ p - 1 \in Nat /\ p <= Len(path) /\ Len(path) \in Nat /\ p \in Nat
  BY PathIs
<1>4. d = Depth(path, p - 1) + 1 /\ Depth(path, p - 1) \in Nat
  BY <1>3, DepthAtName, DepthIs
<1>5. Len(Trail[path]) \in Nat /\ d <= Depth(path, Len(path))
  BY <1>3, PathIs, DepthMonotone
<1>6. ASSUME ~ (d < Len(Trail[path])) PROVE d = Len(Trail[path]) /\ ~ Leads(path)
  BY <1>4, <1>5, <1>6, PathIs DEF Leads
<1> QED
  BY <1>2, <1>4, <1>5, <1>6

LEMMA RamNodesAre ==
    ASSUME NEW i \in DOMAIN RamFiles
    PROVE  RamFiles[i] \in DiskNode \cup RamNode /\ GoodNode(RamFiles[i])
<1>1. CASE RamFiles[i] \in RamNode /\ ~ RamFiles[i].dir
  BY <1>1 DEF RamNode, GoodNode
<1>2. CASE RamFiles[i] = Directory("disk", RootCluster)
  <2>1. Directory("disk", RootCluster).dir /\ Directory("disk", RootCluster).cluster = RootCluster
    BY DEF Directory
  <2>2. RootCluster \in DOMAIN Children
    BY VolumeConstants
  <2> QED
    BY <1>2, <2>1, <2>2, MountIs DEF GoodNode
<1> QED
  BY <1>1, <1>2, RamFilesAre

LEMMA EntryNodesAre ==
    ASSUME NEW d \in DOMAIN Children, NEW i \in 1 .. Len(Children[d])
    PROVE  /\ Children[d][i] \in Entry /\ NodeOf(Children[d][i]) \in DiskNode
           /\ GoodNode(NodeOf(Children[d][i]))
           /\ NodeOf(Children[d][i]).name = Children[d][i].name
<1>1. PICK e : e = Children[d][i]
  OBVIOUS
<1>2. DOMAIN Children[d] = 1 .. Len(Children[d]) /\ e \in Entry
  BY <1>1, DirectoryIs, ElementOfSeq
<1>3. IF e.dir THEN InUse(e.cluster) => e.cluster \in DOMAIN Children
      ELSE e.size > 0 => /\ e.cluster \in DOMAIN Chain
                         /\ e.size <= Len(Chain[e.cluster]) * ClusterBytes
  BY <1>1, <1>2, VolumeConstants, Zenon
<1>4. NodeOf(e) \in DiskNode
  BY <1>2 DEF NodeOf, DiskNode, Entry
<1>5. /\ NodeOf(e).dir = e.dir /\ NodeOf(e).cluster = e.cluster /\ NodeOf(e).size = e.size
      /\ NodeOf(e).name = e.name
  BY DEF NodeOf
<1>6. GoodNode(NodeOf(e))
  BY <1>3, <1>5, Zenon DEF GoodNode
<1> QED
  BY <1>1, <1>2, <1>4, <1>5, <1>6

\* The nodes in a directory: a sequence, of nodes the disk holds.
LEMMA NodesInAre ==
    ASSUME NEW n \in DiskNode \cup RamNode, n.dir, GoodNode(n)
    PROVE  /\ Len(NodesIn(n)) \in Nat /\ DOMAIN NodesIn(n) = 1 .. Len(NodesIn(n))
           /\ \A i \in 1 .. Len(NodesIn(n)) :
                NodesIn(n)[i] \in DiskNode \cup RamNode /\ GoodNode(NodesIn(n)[i])
           /\ n.cluster = None => NodesIn(n) = RamFiles
           /\ (n.cluster # None /\ ~ InUse(n.cluster)) => Len(NodesIn(n)) = 0
           /\ (n.cluster # None /\ InUse(n.cluster)) =>
                /\ n.cluster \in DOMAIN Children /\ Len(NodesIn(n)) = Len(Children[n.cluster])
                /\ \A i \in 1 .. Len(NodesIn(n)) :
                     NodesIn(n)[i] = NodeOf(Children[n.cluster][i])
<1>1. CASE n.cluster = None
  <2>1. NodesIn(n) = RamFiles
    BY <1>1 DEF NodesIn
  <2>2. DOMAIN RamFiles = 1 .. Len(RamFiles) /\ Len(RamFiles) \in Nat
    BY RamFilesAre
  <2> QED
    BY <1>1, <2>1, <2>2, RamNodesAre
<1>2. CASE n.cluster # None /\ ~ InUse(n.cluster)
  <2>1. NodesIn(n) = <<>>
    BY <1>2 DEF NodesIn
  <2>2. Len(<<>>) = 0 /\ DOMAIN <<>> = 1 .. 0
    OBVIOUS
  <2>3. \A i \in 1 .. 0 : FALSE
    OBVIOUS
  <2> QED
    BY <1>2, <2>1, <2>2, <2>3
<1>3. CASE n.cluster # None /\ InUse(n.cluster)
  <2>1. PICK d, children, k : d = n.cluster /\ children = Children[d] /\ k = Len(children)
    OBVIOUS
  <2>2. d \in DOMAIN Children
    BY <1>3, <2>1 DEF GoodNode
  <2>3. k \in Nat /\ DOMAIN children = 1 .. k
    BY <2>1, <2>2, DirectoryIs
  <2>4. NodesIn(n) = [i \in 1 .. k |-> NodeOf(children[i])]
    BY <1>3, <2>1, <2>3, Zenon DEF NodesIn
  <2>5. ASSUME NEW i \in 1 .. k
        PROVE  NodeOf(children[i]) \in DiskNode /\ GoodNode(NodeOf(children[i]))
    BY <2>1, <2>2, EntryNodesAre
  <2>6. PICK all : all = NodesIn(n)
    OBVIOUS
  <2>7. all \in [1 .. k -> DiskNode] /\ DOMAIN all = 1 .. k /\ \A i \in 1 .. k : all[i] = NodeOf(children[i])
    BY <2>4, <2>5, <2>6
  <2>8. Len(all) = k
    BY <2>3, <2>7, SeqIs
  <2> QED
    BY <1>3, <2>1, <2>2, <2>3, <2>5, <2>6, <2>7, <2>8
<1> QED
  BY <1>1, <1>2, <1>3

\* The first child of the name of a place on the path is the next node of the trail; if
\* there is none the path leads nowhere.
LEMMA TrailChild ==
    ASSUME NEW path \in Paths, NEW p \in 1 .. Len(path), path[p] # "/", NEW d,
           d = Depth(path, p), d <= Len(Trail[path]), NEW n, n = Trail[path][d], GoodNode(n)
    PROVE  /\ d \in 1 .. Len(Trail[path]) /\ n \in DiskNode \cup RamNode
           /\ \A i \in 1 .. Len(NodesIn(n)) :
                (n.dir /\ NodesIn(n)[i].name = path[p]
                 /\ \A j \in 1 .. i - 1 : NodesIn(n)[j].name # path[p])
                => /\ d < Len(Trail[path]) /\ Trail[path][d + 1] = NodesIn(n)[i]
                   /\ GoodNode(NodesIn(n)[i])
           /\ (n.dir => \A i \in 1 .. Len(NodesIn(n)) : NodesIn(n)[i].name # path[p])
                => ~ Leads(path)
<1>1. PICK all, k : all = NodesIn(n) /\ k = Len(all)
  OBVIOUS
<1>2. PICK name : name = path[p]
  OBVIOUS
<1>3. PICK next : next = Trail[path][d + 1]
  OBVIOUS
<1>4. /\ d < Len(Trail[path]) =>
           n.dir /\ \E i \in DOMAIN all : /\ all[i] = next /\ next.name = name
                                          /\ \A j \in 1 .. i - 1 : all[j].name # name
      /\ ~ (d < Len(Trail[path])) => 
           (n.dir => \A i \in DOMAIN all : all[i].name # name) /\ ~ Leads(path)
  BY <1>1, <1>2, <1>3, TrailAt, Zenon DEF IsChild, HasNone
<1>5. d \in 1 .. Len(Trail[path]) /\ n \in DiskNode \cup RamNode
  BY TrailAt, PathIs
<1>6. n.dir => /\ k \in Nat /\ DOMAIN all = 1 .. k
               /\ \A i \in 1 .. k : GoodNode(all[i])
  BY <1>1, <1>5, NodesInAre
<1>7. ASSUME NEW i \in 1 .. k, n.dir, all[i].name = name, \A j \in 1 .. i - 1 : all[j].name # name
      PROVE  d < Len(Trail[path]) /\ next = all[i] /\ GoodNode(all[i])
  <2>1. d < Len(Trail[path])
    BY <1>4, <1>6, <1>7
  <2>2. PICK m \in 1 .. k : /\ all[m] = next /\ next.name = name
                            /\ \A j \in 1 .. m - 1 : all[j].name # name
    BY <1>4, <1>6, <1>7, <2>1
  <2>3. k \in Nat /\ GoodNode(all[i])
    BY <1>6, <1>7
  <2>4. i \notin 1 .. m - 1 /\ m \notin 1 .. i - 1
    BY <1>7, <2>2
  <2>5. i = m
    BY <2>3, <2>4
  <2> QED
    BY <2>1, <2>2, <2>3, <2>5
<1>8. ASSUME n.dir => \A i \in 1 .. k : all[i].name # name
      PROVE  ~ Leads(path)
  <2>1. CASE d < Len(Trail[path])
    BY <1>4, <1>6, <1>8, <2>1
  <2>2. CASE ~ (d < Len(Trail[path]))
    BY <1>4, <2>2
  <2> QED
    BY <2>1, <2>2
<1> QED
  BY <1>1, <1>2, <1>3, <1>5, <1>7, <1>8

-----------------------------------------------------------------------------
(* Results.                                                                *)

\* The same, of the first child of a name.
FirstNamed(n, name, i) ==
    /\ i \in 1 .. Len(NodesIn(n)) /\ NodesIn(n)[i].name = name
    /\ \A j \in 1 .. i - 1 : NodesIn(n)[j].name # name

\* The trail has come to a name of its path, and goes on to a node.
At(path, p, d, n) ==
    /\ path \in Paths /\ p \in 1 .. Len(path) /\ path[p] # "/" /\ d = Depth(path, p)
    /\ d <= Len(Trail[path]) /\ n = Trail[path][d] /\ GoodNode(n) /\ n.dir
GoesTo(path, d, next) == d < Len(Trail[path]) /\ Trail[path][d + 1] = next /\ GoodNode(next)

LEMMA TrailFirst ==
    ASSUME NEW path, NEW p, NEW d, NEW n, At(path, p, d, n), NEW i, FirstNamed(n, path[p], i)
    PROVE  GoesTo(path, d, NodesIn(n)[i])
BY TrailChild DEF FirstNamed, At, GoesTo

LEMMA HoldsIs ==
    ASSUME NEW path \in Paths
    PROVE  /\ ~ Leads(path) => Holds(path).kind = "none"
           /\ (Leads(path) /\ Last(path).dir) =>
                Holds(path).kind = "directory" /\ Holds(path).content = NamesIn(Last(path))
           /\ (Leads(path) /\ ~ Last(path).dir) =>
                Holds(path).kind = "file" /\ Holds(path).content = ContentOf(Last(path))
<1>1. PICK last, names, content :
        /\ last = Last(path) /\ names = NamesIn(last) /\ content = ContentOf(last)
  OBVIOUS
<1>2. ~ Leads(path) <=> Len(Trail[path]) <= Depth(path, Len(path))
  BY PathIs DEF Leads
<1>3. CASE ~ Leads(path)
  <2>1. Holds(path) = [kind |-> "none", content |-> <<>>]
    BY <1>2, <1>3, Zenon DEF Holds, Leads
  <2> QED
    BY <1>3, <2>1
<1>4. CASE Leads(path) /\ last.dir
  <2>1. Holds(path) = [kind |-> "directory", content |-> names]
    BY <1>1, <1>2, <1>4, Zenon DEF Holds, Leads, Last
  <2> QED
    BY <1>1, <1>4, <2>1
<1>5. CASE Leads(path) /\ ~ last.dir
  <2>1. Holds(path) = [kind |-> "file", content |-> content]
    BY <1>1, <1>2, <1>5, Zenon DEF Holds, Leads, Last
  <2> QED
    BY <1>1, <1>5, <2>1
<1> QED
  BY <1>1, <1>3, <1>4, <1>5

\* When a result is right.
LEMMA RightIs ==
    ASSUME NEW path \in Paths, NEW do \in {"ls", "cat", "exec"}, NEW result, NEW names, NEW out
    PROVE  /\ (~ Leads(path) /\ result = "missing") => Right(do, path, result, names, out)
           /\ Leads(path) =>
                LET last == Last(path)
                IN  /\ (do = "ls" /\ ~ last.dir /\ result = "wrong_kind") =>
                         Right(do, path, result, names, out)
                    /\ (do = "ls" /\ last.dir /\ result = "ok" /\ names = NamesIn(last)) =>
                         Right(do, path, result, names, out)
                    /\ (do = "cat" /\ last.dir /\ result = "wrong_kind") =>
                         Right(do, path, result, names, out)
                    /\ (do = "cat" /\ ~ last.dir /\ result = "ok" /\ out = ContentOf(last)) =>
                         Right(do, path, result, names, out)
                    /\ (do = "exec" /\ last.dir) => Right(do, path, result, names, out)
                    /\ (do = "exec" /\ ~ last.dir
                        /\ ((result = "ok" /\ ContentOf(last) # <<>>) =>
                              ContentOf(last)[1] = Magic /\ out = Segment(ContentOf(last))))
                         => Right(do, path, result, names, out)
<1>1. PICK there : there = Holds(path)
  OBVIOUS
<1>2. PICK last : last = Last(path)
  OBVIOUS
<1>3. /\ "none" # "file" /\ "none" # "directory" /\ "file" # "directory"
      /\ "ls" # "cat" /\ "ls" # "exec" /\ "cat" # "exec"
  OBVIOUS
<1>4. CASE ~ Leads(path)
  <2>1. there.kind = "none"
    BY <1>1, <1>4, HoldsIs
  <2> QED
    BY <1>1, <1>3, <1>4, <2>1, Zenon DEF Right
<1>5. CASE Leads(path) /\ last.dir
  <2>1. there.kind = "directory" /\ there.content = NamesIn(last)
    BY <1>1, <1>2, <1>5, HoldsIs
  <2> QED
    BY <1>1, <1>2, <1>3, <1>5, <2>1, Zenon DEF Right
<1>6. CASE Leads(path) /\ ~ last.dir
  <2>1. there.kind = "file" /\ there.content = ContentOf(last)
    BY <1>1, <1>2, <1>6, HoldsIs
  <2> QED
    BY <1>1, <1>2, <1>3, <1>6, <2>1, Zenon DEF Right
<1> QED
  BY <1>4, <1>5, <1>6

-----------------------------------------------------------------------------
(* The end of a walk.                                                      *)

\* A command keeps what it was given, and what it counts.
Same(c, d) == d.do = c.do /\ d.path = c.path /\ d.taken = c.taken

LEMMA DoneFields ==
    ASSUME NEW c \in Cmd, NEW r
    PROVE  LET d == Done(c, r)
           IN  /\ Same(c, d) /\ d.at = "done" /\ d.names = c.names /\ d.out = c.out
               /\ d.result = r
<1>1. PICK none, root : none = <<>> /\ root = Root
  OBVIOUS
<1>2. PICK d : d = [c EXCEPT !.at = "done", !.result = r, !.rest = none, !.node = root, !.from = 0]
  OBVIOUS
<1>3. d = Done(c, r)
  BY <1>1, <1>2, Zenon DEF Done
<1>4. /\ d.do = c.do /\ d.path = c.path /\ d.taken = c.taken /\ d.at = "done"
      /\ d.names = c.names /\ d.out = c.out /\ d.result = r
  BY <1>2 DEF Cmd
<1> QED
  BY <1>3, <1>4 DEF Same

LEMMA DoneProgress ==
    ASSUME NEW c \in Cmd, NEW r, Right(c.do, c.path, r, c.names, c.out), NEW n
    PROVE  Progress(Done(c, r), NoIo, n)
<1>1. PICK d : d = Done(c, r)
  OBVIOUS
<1>2. /\ d.do = c.do /\ d.path = c.path /\ d.at = "done" /\ d.names = c.names
      /\ d.out = c.out /\ d.result = r
  BY <1>1, DoneFields DEF Same
<1>3. Progress(d, NoIo, n)
  BY <1>2 DEF Progress
<1> QED
  BY <1>1, <1>3

LEMMA FoundProgress ==
    ASSUME NEW c \in Cmd, c.do # "none", c.path \in Paths, Len(c.names) = 0, Len(c.out) = 0,
           NEW p \in Places, NEW n, Leads(c.path), n = Last(c.path), GoodNode(n)
    PROVE  /\ Progress(Found(c, p, n), NoIo, n) /\ Same(c, Found(c, p, n))
           /\ Found(c, p, n).at = "done" \/ Found(c, p, n).node = p
<1>1. PICK rest : rest = <<>>
  OBVIOUS
<1>2. /\ c.do \in {"ls", "cat", "exec"} /\ n \in DiskNode \cup RamNode /\ NoIo.at = "none"
      /\ Len(c.names) = 0 /\ Len(c.out) = 0
  <2>1. Len(Trail[c.path]) \in 1 .. Len(Trail[c.path])
    BY PathIs
  <2> QED
    BY <2>1, PathIs DEF Cmd, Last, NoIo
<1>3. n.size \in Nat /\ n.dir \in BOOLEAN
  BY <1>2 DEF DiskNode, RamNode
<1>4. ASSUME NEW at \in {"list", "read", "header"}, NEW d,
             d = [c EXCEPT !.at = at, !.node = p, !.rest = rest, !.from = 0]
      PROVE  /\ d.at = at /\ d.node = p /\ d.from = 0 /\ Same(c, d) /\ d.do = c.do
             /\ d.path = c.path /\ d.names = c.names /\ d.out = c.out
  BY <1>4 DEF Cmd, Same
<1>5. CASE c.do = "ls" /\ n.dir
  <2>1. PICK d : d = [c EXCEPT !.at = "list", !.node = p, !.rest = rest, !.from = 0]
    OBVIOUS
  <2>2. /\ d.at = "list" /\ d.node = p /\ d.from = 0 /\ Same(c, d) /\ d.path = c.path
        /\ d.names = c.names
    BY <1>4, <2>1
  <2>3. Len(NodesIn(n)) \in Nat
    BY <1>2, <1>5, NodesInAre
  <2>4. Listing(d.path, d.from, d.names, n)
    BY <1>2, <1>5, <2>2, <2>3 DEF Listing
  <2>5. Progress(d, NoIo, n)
    BY <1>2, <2>2, <2>4 DEF Progress
  <2>6. Found(c, p, n) = d
    BY <1>1, <1>5, <2>1, Zenon DEF Found
  <2> QED
    BY <2>2, <2>5, <2>6
<1>6. CASE c.do = "cat" /\ ~ n.dir
  <2>1. PICK d : d = [c EXCEPT !.at = "read", !.node = p, !.rest = rest, !.from = 0]
    OBVIOUS
  <2>2. /\ d.at = "read" /\ d.node = p /\ d.from = 0 /\ Same(c, d) /\ d.path = c.path
        /\ d.out = c.out
    BY <1>4, <2>1
  <2>3. Reading(d.at, d.path, d.from, d.out, n)
    BY <1>2, <1>3, <1>6, <2>2 DEF Reading
  <2>4. Progress(d, NoIo, n)
    BY <1>2, <2>2, <2>3 DEF Progress
  <2>5. Found(c, p, n) = d
    BY <1>1, <1>6, <2>1, Zenon DEF Found
  <2> QED
    BY <2>2, <2>4, <2>5
<1>7. CASE c.do = "exec"
  <2>1. PICK d : d = [c EXCEPT !.at = "header", !.node = p, !.rest = rest, !.from = 0]
    OBVIOUS
  <2>2. /\ d.at = "header" /\ d.node = p /\ d.from = 0 /\ Same(c, d) /\ d.path = c.path
        /\ d.out = c.out
    BY <1>4, <2>1
  <2>3. Reading(d.at, d.path, d.from, d.out, n)
    BY <1>2, <1>7, <2>2 DEF Reading
  <2>4. Progress(d, NoIo, n)
    BY <1>2, <2>2, <2>3 DEF Progress
  <2>5. Found(c, p, n) = d
    BY <1>1, <1>7, <2>1, Zenon DEF Found
  <2> QED
    BY <2>2, <2>4, <2>5
<1>8. CASE (c.do = "ls" /\ ~ n.dir) \/ (c.do = "cat" /\ n.dir)
  <2>1. Right(c.do, c.path, "wrong_kind", c.names, c.out)
    BY <1>2, <1>8, RightIs, Zenon
  <2>2. Found(c, p, n) = Done(c, "wrong_kind")
    BY <1>8, Zenon DEF Found
  <2>3. Done(c, "wrong_kind").at = "done" /\ Same(c, Done(c, "wrong_kind"))
    BY DoneFields
  <2>4. Progress(Done(c, "wrong_kind"), NoIo, n)
    BY <2>1, DoneProgress
  <2> QED
    BY <2>2, <2>3, <2>4
<1> QED
  BY <1>2, <1>3, <1>5, <1>6, <1>7, <1>8

\* What is left of a sequence behind its first h places.
LEMMA TailOf ==
    ASSUME NEW S, NEW s \in Seq(S), NEW h \in Nat, h <= Len(s), NEW one,
           one = SubSeq(s, h + 1, Len(s))
    PROVE  /\ one \in Seq(S) /\ Len(one) = Len(s) - h
           /\ \A j \in 1 .. Len(s) - h : one[j] = s[h + j]
<1>1. PICK b \in Int : b = Len(s) /\ b <= Len(s)
  OBVIOUS
<1>2. one = SubSeq(s, h + 1, b)
  BY <1>1, Zenon
<1>3. /\ one \in Seq(S) /\ Len(one) = (IF h < b THEN b - h ELSE 0)
      /\ \A j \in 1 .. b - h : one[j] = s[h + j]
  BY <1>1, <1>2, Cut
<1>4. (IF h < b THEN b - h ELSE 0) = b - h
  BY <1>1
<1> QED
  BY <1>1, <1>3, <1>4, Zenon

\* What is left of a path behind its first k places.
LEMMA RestIs ==
    ASSUME NEW path \in Paths, NEW k \in Nat, k <= Len(path), NEW rest,
           rest = SubSeq(path, k + 1, Len(path))
    PROVE  /\ rest \in Seq(Names \cup {"/"}) /\ Len(rest) = Len(path) - k
           /\ \A i \in 1 .. Len(path) - k : rest[i] = path[k + i]
<1>1. path \in Seq(Names \cup {"/"}) /\ Len(path) \in Nat
  BY PathIs
<1>2. PICK S : S = Names \cup {"/"}
  OBVIOUS
<1>3. path \in Seq(S)
  BY <1>1, <1>2, Zenon
<1>4. /\ rest \in Seq(S) /\ Len(rest) = Len(path) - k
      /\ \A i \in 1 .. Len(path) - k : rest[i] = path[k + i]
  BY <1>3, TailOf
<1> QED
  BY <1>2, <1>4, Zenon

LEMMA RestTail ==
    ASSUME NEW path \in Paths, NEW k \in Nat, k < Len(path), NEW rest,
           rest = SubSeq(path, k + 1, Len(path))
    PROVE  /\ rest # <<>> /\ Head(rest) = path[k + 1]
           /\ Tail(rest) = SubSeq(path, k + 2, Len(path))
<1>1. /\ rest \in Seq(Names \cup {"/"}) /\ Len(rest) = Len(path) - k /\ Len(path) \in Nat
      /\ \A i \in 1 .. Len(path) - k : rest[i] = path[k + i]
  BY RestIs, PathIs
<1>2. rest # <<>>
  <2>1. Len(rest) # 0
    BY <1>1
  <2> QED
    BY <1>1, <2>1, EmptySeq
<1>3. Head(rest) = path[k + 1]
  <2>1. Head(rest) = rest[1]
    BY <1>1, <1>2, HeadTailProperties
  <2>2. 1 \in 1 .. Len(path) - k
    BY <1>1
  <2> QED
    BY <1>1, <2>1, <2>2
<1>4. PICK tail, sub : tail = Tail(rest) /\ sub = SubSeq(path, (k + 1) + 1, Len(path))
  OBVIOUS
<1>5. /\ tail \in Seq(Names \cup {"/"}) /\ Len(tail) = Len(rest) - 1
      /\ \A i \in 1 .. Len(tail) : tail[i] = rest[i + 1]
  BY <1>1, <1>2, <1>4, HeadTailProperties
<1>6. /\ sub \in Seq(Names \cup {"/"}) /\ Len(sub) = Len(path) - (k + 1)
      /\ \A i \in 1 .. Len(path) - (k + 1) : sub[i] = path[(k + 1) + i]
  <2>1. PICK l \in Nat : l = k + 1
    OBVIOUS
  <2>2. l <= Len(path) /\ sub = SubSeq(path, l + 1, Len(path))
    BY <1>1, <1>4, <2>1
  <2> QED
    BY <2>1, <2>2, RestIs
<1>7. Len(tail) = Len(sub)
  BY <1>1, <1>5, <1>6
<1>8. \A i \in 1 .. Len(tail) : tail[i] = sub[i]
  <2> SUFFICES ASSUME NEW i \in 1 .. Len(tail) PROVE tail[i] = sub[i]
    OBVIOUS
  <2>1. i \in 1 .. Len(path) - (k + 1) /\ i + 1 \in 1 .. Len(path) - k
    BY <1>1, <1>5
  <2>2. k + (i + 1) = (k + 1) + i
    OBVIOUS
  <2> QED
    BY <1>1, <1>5, <1>6, <2>1, <2>2
<1>9. tail = sub
  BY <1>5, <1>6, <1>7, <1>8, SeqEqual
<1>10. (k + 1) + 1 = k + 2
  OBVIOUS
<1> QED
  BY <1>2, <1>3, <1>4, <1>9, <1>10

\* A step from a name on the path to its child.
LEMMA ChildProgress ==
    ASSUME NEW c \in Cmd, c.do # "none", c.path \in Paths, Len(c.names) = 0, Len(c.out) = 0,
           GoodPath(c.path), NEW p \in 1 .. Len(c.path), c.path[p] # "/", NEW d,
           d = Depth(c.path, p), d < Len(Trail[c.path]), NEW n, n = Trail[c.path][d + 1],
           GoodNode(n), NEW place \in Places, NEW rest,
           rest = SubSeq(c.path, p + 1, Len(c.path))
    PROVE  /\ Progress(Child(c, place, n, rest), NoIo, n) /\ Same(c, Child(c, place, n, rest))
           /\ Child(c, place, n, rest).at = "done" \/ Child(c, place, n, rest).node = place
<1>1. PICK path : path = c.path
  OBVIOUS
<1>2. /\ p \in Nat /\ p <= Len(path) /\ Len(path) \in Nat /\ path \in Paths /\ d \in Nat
      /\ rest \in Seq(Names \cup {"/"}) /\ Len(rest) = Len(path) - p
  <2>1. p \in Nat /\ p <= Len(path) /\ Len(path) \in Nat /\ path \in Paths
    BY <1>1, PathIs
  <2>2. d \in Nat
    BY <1>1, <2>1, DepthIs
  <2>3. rest \in Seq(Names \cup {"/"}) /\ Len(rest) = Len(path) - p
    BY <1>1, <2>1, RestIs
  <2> QED
    BY <2>1, <2>2, <2>3
<1>3. CASE p = Len(path)
  <2>1. rest = <<>>
    <3>1. Len(rest) = 0
      BY <1>2, <1>3
    <3> QED
      BY <1>2, <3>1, EmptySeq
  <2>2. Leads(path) /\ n = Last(path)
    <3>1. d = Depth(path, Len(path)) /\ Len(Trail[path]) <= d + 1 /\ Len(Trail[path]) \in Nat
      BY <1>1, <1>2, <1>3, PathIs
    <3>2. Len(Trail[path]) = d + 1
      BY <1>1, <1>2, <3>1
    <3> QED
      BY <1>1, <1>2, <3>1, <3>2 DEF Leads, Last
  <2>3. Child(c, place, n, rest) = Found(c, place, n)
    BY <2>1 DEF Child
  <2> QED
    BY <1>1, <2>2, <2>3, FoundProgress
<1>4. CASE p < Len(path)
  <2>1. path[p + 1] = "/"
    BY <1>1, <1>2, <1>4, TrailAt
  <2>2. p + 1 < Len(path)
    <3> SUFFICES ASSUME p + 1 = Len(path) PROVE FALSE
      BY <1>2, <1>4
    <3>1. Len(path) > 1 /\ path[Len(path)] = "/" /\ Len(path) - 1 = p
      BY <1>2, <2>1
    <3> QED
      BY <1>1, <3>1 DEF GoodPath
  <2>3. rest # <<>> /\ Tail(rest) = SubSeq(path, p + 2, Len(path))
    BY <1>1, <1>2, <1>4, RestTail
  <2>4. PICK tail : tail = Tail(rest)
    OBVIOUS
  <2>5. PICK e : e = [c EXCEPT !.at = "walk", !.node = place, !.rest = tail]
    OBVIOUS
  <2>6. Child(c, place, n, rest) = e
    BY <2>3, <2>4, <2>5, Zenon DEF Child
  <2>7. /\ e.at = "walk" /\ e.node = place /\ e.rest = tail /\ e.do = c.do /\ e.path = path
        /\ e.taken = c.taken /\ e.names = c.names /\ e.out = c.out
    BY <1>1, <2>5 DEF Cmd
  <2>8. PICK k \in 0 .. Len(path) - 1 : k = p + 1
    BY <1>2, <2>2
  <2>9. Depth(path, k) = d
    <3>1. \A q \in p + 1 .. k : path[q] = "/"
      <4>1. \A q \in p + 1 .. k : q = p + 1
        BY <1>2, <2>8
      <4> QED
        BY <2>1, <4>1
    <3>2. k \in Nat /\ p <= k
      BY <1>2, <2>8
    <3>3. Depth(path, p) = Depth(path, k)
      BY <1>2, <3>1, <3>2, DepthMonotone, Zenon
    <3> QED
      BY <1>1, <3>3
  <2>10. k + 1 = p + 2
    BY <1>2, <2>8
  <2>11. Walking(path, tail, n)
    BY <1>1, <2>3, <2>4, <2>9, <2>10 DEF Walking
  <2>12. Progress(e, NoIo, n)
    BY <2>7, <2>11 DEF Progress
  <2> QED
    BY <1>1, <2>6, <2>7, <2>12 DEF Same
<1> QED
  BY <1>2, <1>3, <1>4

LEMMA RestOfRest ==
    ASSUME NEW path \in Paths, NEW k \in Nat, k <= Len(path), NEW rest,
           rest = SubSeq(path, k + 1, Len(path)), NEW i \in 1 .. Len(rest)
    PROVE  SubSeq(rest, i, Len(rest)) = SubSeq(path, k + i, Len(path))
<1>1. /\ rest \in Seq(Names \cup {"/"}) /\ Len(rest) = Len(path) - k /\ Len(path) \in Nat
      /\ \A j \in 1 .. Len(path) - k : rest[j] = path[k + j]
  BY RestIs, PathIs
<1>2. PICK h \in Nat : h = i - 1
  BY <1>1
<1>3. PICK l \in Nat : l = k + h
  OBVIOUS
<1>4. i = h + 1 /\ k + i = l + 1 /\ l <= Len(path) /\ Len(rest) - h = Len(path) - l /\ h < Len(rest)
  BY <1>1, <1>2, <1>3
<1>5. PICK one, two : one = SubSeq(rest, h + 1, Len(rest)) /\ two = SubSeq(path, l + 1, Len(path))
  OBVIOUS
<1>6. /\ one \in Seq(Names \cup {"/"}) /\ Len(one) = Len(rest) - h
      /\ \A j \in 1 .. Len(rest) - h : one[j] = rest[h + j]
  <2>1. rest \in Seq(Names \cup {"/"}) /\ h \in Nat /\ h <= Len(rest)
    BY <1>1, <1>4
  <2>2. one = SubSeq(rest, h + 1, Len(rest))
    BY <1>5, Zenon
  <2>3. PICK S : S = Names \cup {"/"}
    OBVIOUS
  <2>4. rest \in Seq(S)
    BY <2>1, <2>3, Zenon
  <2>5. /\ one \in Seq(S) /\ Len(one) = Len(rest) - h
        /\ \A j \in 1 .. Len(rest) - h : one[j] = rest[h + j]
    BY <2>1, <2>2, <2>4, TailOf
  <2> QED
    BY <2>3, <2>5, Zenon
<1>7. /\ two \in Seq(Names \cup {"/"}) /\ Len(two) = Len(path) - l
      /\ \A j \in 1 .. Len(path) - l : two[j] = path[l + j]
  <2>1. l \in Nat /\ l <= Len(path) /\ two = SubSeq(path, l + 1, Len(path))
    BY <1>4, <1>5, Zenon
  <2> QED
    BY <2>1, RestIs, Zenon
<1>8. ASSUME NEW j \in 1 .. Len(one) PROVE one[j] = two[j]
  <2>1. j \in 1 .. Len(rest) - h /\ j \in 1 .. Len(path) - l /\ h + j \in 1 .. Len(path) - k
    <3>1. PICK a, b \in Nat : a = Len(rest) /\ b = Len(path)
      <4>1. Len(rest) \in Nat /\ Len(path) \in Nat
        BY <1>1, LenProperties, Zenon
      <4> QED
        BY <4>1, Zenon
    <3>2. a = b - k /\ a - h = b - l /\ Len(one) = a - h
      <4>1. Len(rest) = Len(path) - k
        BY <1>1, Zenon
      <4>2. Len(rest) - h = Len(path) - l
        BY <1>4, Zenon
      <4>3. Len(one) = Len(rest) - h
        BY <1>6, Zenon
      <4> QED
        BY <3>1, <4>1, <4>2, <4>3
    <3>3. j \in 1 .. a - h
      BY <3>2
    <3>4. j \in 1 .. b - l /\ h + j \in 1 .. b - k
      BY <3>1, <3>2, <3>3
    <3> QED
      BY <3>1, <3>3, <3>4, Zenon
  <2>2. k + (h + j) = l + j
    BY <1>3
  <2> QED
    BY <1>1, <1>6, <1>7, <2>1, <2>2
<1>9. one = two
  BY <1>4, <1>6, <1>7, <1>8, SeqEqual
<1> QED
  BY <1>4, <1>5, <1>9, Zenon

\* What the next name of a walk is.
LEMMA WalkOn ==
    ASSUME NEW path \in Paths, NEW rest, NEW n, Walking(path, rest, n), NEW stripped,
           stripped = Stripped(rest)
    PROVE  /\ rest # <<>>
           /\ \/ stripped = <<>> /\ Leads(path) /\ n = Last(path)
              \/ \E p \in 1 .. Len(path) :
                   /\ path[p] # "/" /\ stripped = SubSeq(path, p, Len(path)) /\ stripped # <<>>
                   /\ Depth(path, p) <= Len(Trail[path]) /\ n = Trail[path][Depth(path, p)]
<1>1. PICK k \in 0 .. Len(path) - 1 :
        /\ rest = SubSeq(path, k + 1, Len(path)) /\ Depth(path, k) < Len(Trail[path])
        /\ n = Trail[path][Depth(path, k) + 1]
  BY DEF Walking
<1>2. /\ k \in Nat /\ k < Len(path) /\ k <= Len(path) /\ Len(path) \in Nat
      /\ Len(Trail[path]) \in Nat
  BY PathIs
<1>3. /\ rest \in Seq(Names \cup {"/"}) /\ Len(rest) = Len(path) - k
      /\ \A j \in 1 .. Len(path) - k : rest[j] = path[k + j]
  BY <1>1, <1>2, RestIs
<1>4. rest # <<>>
  BY <1>1, <1>2, RestTail
<1>5. CASE stripped = <<>> /\ \A i \in 1 .. Len(rest) : rest[i] = "/"
  <2>1. ASSUME NEW p \in k + 1 .. Len(path) PROVE path[p] = "/"
    <3>1. PICK j \in 1 .. Len(path) - k : p = k + j
      <4>1. p - k \in 1 .. Len(path) - k /\ p = k + (p - k)
        BY <1>2
      <4> QED
        BY <4>1
    <3> QED
      BY <1>3, <1>5, <3>1
  <2>2. Depth(path, k) = Depth(path, Len(path)) /\ Depth(path, k) \in Nat
    BY <1>2, <2>1, DepthMonotone, Zenon
  <2>3. Len(Trail[path]) = Depth(path, k) + 1
    BY <1>1, <1>2, <2>2, PathIs
  <2> QED
    BY <1>1, <1>4, <1>5, <2>2, <2>3 DEF Leads, Last
<1>6. ASSUME NEW i \in 1 .. Len(rest), stripped = SubSeq(rest, i, Len(rest)),
             rest[i] # "/", \A j \in 1 .. i - 1 : rest[j] = "/"
      PROVE  \E p \in 1 .. Len(path) :
                   /\ path[p] # "/" /\ stripped = SubSeq(path, p, Len(path)) /\ stripped # <<>>
                   /\ Depth(path, p) <= Len(Trail[path]) /\ n = Trail[path][Depth(path, p)]
  <2>1. PICK p \in 1 .. Len(path) : p = k + i
    BY <1>2, <1>3
  <2>2. stripped = SubSeq(path, p, Len(path))
    <3>1. k \in Nat /\ k <= Len(path) /\ rest = SubSeq(path, k + 1, Len(path))
      BY <1>1, <1>2, Zenon
    <3>2. SubSeq(rest, i, Len(rest)) = SubSeq(path, k + i, Len(path))
      BY <3>1, RestOfRest
    <3> QED
      BY <1>6, <2>1, <3>2, Zenon
  <2>3. path[p] # "/"
    BY <1>3, <1>6, <2>1
  <2>4. ASSUME NEW q \in k + 1 .. p - 1 PROVE path[q] = "/"
    <3>1. PICK j \in 1 .. i - 1 : q = k + j
      <4>1. q - k \in 1 .. i - 1 /\ q = k + (q - k)
        BY <1>2, <2>1
      <4> QED
        BY <4>1
    <3>2. j \in 1 .. Len(path) - k
      BY <1>3
    <3> QED
      BY <1>3, <1>6, <3>1, <3>2
  <2>5. p \in Nat \ {0} /\ p - 1 \in Nat /\ k <= p - 1 /\ p - 1 < Len(path)
    BY <1>2, <2>1
  <2>6. Depth(path, k) = Depth(path, p - 1) /\ Depth(path, k) \in Nat
    BY <1>2, <2>4, <2>5, DepthMonotone, Zenon
  <2>7. Depth(path, p) = Depth(path, k) + 1
    BY <2>3, <2>5, <2>6, DepthAtName
  <2>8. stripped # <<>>
    <3>1. stripped = SubSeq(path, (p - 1) + 1, Len(path))
      BY <2>2, <2>5
    <3> QED
      BY <2>5, <3>1, RestTail
  <2>9. Depth(path, p) <= Len(Trail[path])
    <3>1. PICK a, b : a = Depth(path, k) /\ b = Len(Trail[path])
      OBVIOUS
    <3>2. a \in Nat /\ b \in Nat /\ a < b
      BY <1>1, <1>2, <2>6, <3>1, Zenon
    <3>3. a + 1 <= b
      BY <3>2
    <3> QED
      BY <2>7, <3>1, <3>3, Zenon
  <2>10. n = Trail[path][Depth(path, p)]
    BY <1>1, <2>7, Zenon
  <2> QED
    BY <2>2, <2>3, <2>8, <2>9, <2>10, Zenon
<1> QED
  BY <1>3, <1>4, <1>5, <1>6, StrippedIs

-----------------------------------------------------------------------------
(* Walks over a directory.                                                 *)

LEMMA DirBegins ==
    ASSUME NEW d \in DOMAIN Children, NEW index \in Nat, NEW my,
           my = [cluster |-> d, sector |-> 0, seen |-> 0, index |-> index]
    PROVE  InDir(d, "entries", SectorOf(d, 0), my) /\ my.index = index
<1>1. my.cluster = d /\ my.sector = 0 /\ my.seen = 0 /\ my.index = index
  OBVIOUS
<1>2. 1 \in DOMAIN Chain[d] /\ Chain[d][1] = d
  <2>1. d \in DOMAIN Chain
    BY DirectoryIs
  <2>2. Chain[d] \in Seq(Nat) /\ Len(Chain[d]) \in Nat \ {0} /\ Chain[d][1] = d
    BY <2>1, ChainIs
  <2> QED
    BY <2>2
<1>3. <<1, 0>> \in DOMAIN Before[d] /\ Before[d][<<1, 0>>] = 0
  BY DirectoryIs
<1>4. PICK m : m = 1
  OBVIOUS
<1>5. /\ m \in DOMAIN Chain[d] /\ my.cluster = Chain[d][m]
      /\ <<m, my.sector>> \in DOMAIN Before[d] /\ my.seen = Before[d][<<m, my.sector>>]
      /\ SectorOf(d, 0) = SectorOf(my.cluster, my.sector) /\ my.seen <= my.index
  BY <1>1, <1>2, <1>3, <1>4
<1>6. "entries" # "next_entries"
  OBVIOUS
<1> QED
  BY <1>1, <1>5, <1>6, Zenon DEF InDir

LEMMA ChainAt ==
    ASSUME NEW f \in DOMAIN Chain, NEW m \in DOMAIN Chain[f]
    PROVE  /\ m \in 1 .. Len(Chain[f]) /\ Len(Chain[f]) \in Nat
           /\ Chain[f][m] \in Nat /\ InUse(Chain[f][m])
           /\ m < Len(Chain[f]) => /\ m + 1 \in DOMAIN Chain[f]
                                   /\ FatEntry(Chain[f][m]) = Chain[f][m + 1]
                                   /\ InUse(FatEntry(Chain[f][m]))
           /\ ~ (m < Len(Chain[f])) => ~ InUse(FatEntry(Chain[f][m]))
<1>1. Chain[f] \in Seq(Nat) /\ Len(Chain[f]) \in Nat
  BY ChainIs
<1>2. DOMAIN Chain[f] = 1 .. Len(Chain[f])
  BY <1>1
<1>3. \A k \in 1 .. Len(Chain[f]) :
        /\ Chain[f][k] \in Nat /\ InUse(Chain[f][k])
        /\ k < Len(Chain[f]) => FatEntry(Chain[f][k]) = Chain[f][k + 1]
        /\ ~ (k < Len(Chain[f])) => ~ InUse(FatEntry(Chain[f][k]))
  BY ChainIs
<1>4. m < Len(Chain[f]) => m + 1 \in 1 .. Len(Chain[f])
  BY <1>1, <1>2
<1>5. m \in 1 .. Len(Chain[f])
  BY <1>2
<1> QED
  BY <1>1, <1>2, <1>3, <1>4, <1>5, Zenon

\* The entry of the number that is looked for, in the directory d.
EntryHere(d, my, e) ==
    /\ my.index + 1 \in 1 .. Len(Children[d])
    /\ e = Children[d][my.index + 1]

LEMMA DirSector ==
    ASSUME NEW d, NEW sector, NEW my \in DirLocals, InDir(d, "entries", sector, my),
           NEW entries, entries = Disk[sector].entries,
           NEW here, here = Numbered(entries, my.seen, my.index),
           NEW after, after = my.seen + Cardinality(LiveIn(entries))
    PROVE  /\ d \in DOMAIN Children
           /\ \A i \in here : EntryHere(d, my, entries[i])
           /\ (here = {} /\ Ended(entries)) => Len(Children[d]) <= my.index
           /\ (here = {} /\ ~ Ended(entries) /\ my.sector + 1 < PerCluster) =>
                InDir(d, "entries", SectorOf(my.cluster, my.sector + 1),
                      [my EXCEPT !.sector = my.sector + 1, !.seen = after])
           /\ (here = {} /\ ~ Ended(entries) /\ ~ (my.sector + 1 < PerCluster)) =>
                InDir(d, "next_entries", FatSector(my.cluster), [my EXCEPT !.seen = after])
<1>1. PICK m \in DOMAIN Chain[d] :
        /\ my.cluster = Chain[d][m] /\ <<m, my.sector>> \in DOMAIN Before[d]
        /\ my.seen = Before[d][<<m, my.sector>>] /\ sector = SectorOf(my.cluster, my.sector)
  BY Zenon DEF InDir
<1>2. d \in DOMAIN Children /\ my.seen <= my.index
  BY Zenon DEF InDir
<1>3. PICK s, seen, index : s = my.sector /\ seen = my.seen /\ index = my.index
  OBVIOUS
<1>4. index \in Nat /\ entries = Disk[SectorOf(Chain[d][m], s)].entries
  BY <1>1, <1>3 DEF DirLocals
<1>9. Counted(d, m, s, index, entries, here, after)
  <2>1. d \in DOMAIN Children /\ <<m, s>> \in DOMAIN Before[d] /\ index \in Nat
    BY <1>1, <1>2, <1>3, <1>4, Zenon
  <2>2. seen = Before[d][<<m, s>>] /\ seen <= index
    BY <1>1, <1>2, <1>3, Zenon
  <2>3. after = seen + Cardinality(LiveIn(entries)) /\ here = Numbered(entries, seen, index)
    BY <1>3, Zenon
  <2> QED
    BY <1>4, <2>1, <2>2, <2>3, EntryFound
<1>5. /\ \A i \in here : /\ index + 1 \in 1 .. Len(Children[d])
                         /\ Children[d][index + 1] = entries[i]
      /\ here = {} => after <= index
      /\ Ended(entries) => after = Len(Children[d])
      /\ (~ Ended(entries) /\ s + 1 < PerCluster) =>
           <<m, s + 1>> \in DOMAIN Before[d] /\ Before[d][<<m, s + 1>>] = after
      /\ (~ Ended(entries) /\ ~ (s + 1 < PerCluster)) =>
           IF m < Len(Chain[d])
           THEN <<m + 1, 0>> \in DOMAIN Before[d] /\ Before[d][<<m + 1, 0>>] = after
           ELSE after = Len(Children[d])
  BY <1>9, Zenon DEF Counted
<1>6. ASSUME here = {}, ~ Ended(entries), s + 1 < PerCluster
      PROVE  InDir(d, "entries", SectorOf(my.cluster, s + 1),
                   [my EXCEPT !.sector = s + 1, !.seen = after])
  <2>1. PICK e, f : f = s + 1 /\ e = [my EXCEPT !.sector = f, !.seen = after]
    OBVIOUS
  <2>2. e.cluster = my.cluster /\ e.sector = f /\ e.seen = after /\ e.index = index
    BY <1>3, <2>1 DEF DirLocals
  <2>3. "entries" # "next_entries"
    OBVIOUS
  <2>4. InDir(d, "entries", SectorOf(my.cluster, f), e)
    BY <1>1, <1>2, <1>5, <1>6, <2>1, <2>2, <2>3, Zenon DEF InDir
  <2> QED
    BY <2>1, <2>4, Zenon
<1>7. ASSUME here = {}, ~ Ended(entries), ~ (s + 1 < PerCluster)
      PROVE  InDir(d, "next_entries", FatSector(my.cluster), [my EXCEPT !.seen = after])
  <2>1. PICK e : e = [my EXCEPT !.seen = after]
    OBVIOUS
  <2>2. e.cluster = my.cluster /\ e.seen = after /\ e.index = index
    BY <1>3, <2>1 DEF DirLocals
  <2>3. "entries" # "next_entries"
    OBVIOUS
  <2>4. IF m < Len(Chain[d])
        THEN <<m + 1, 0>> \in DOMAIN Before[d] /\ e.seen = Before[d][<<m + 1, 0>>]
        ELSE e.seen = Len(Children[d])
    BY <1>5, <1>7, <2>2, Zenon
  <2>5. InDir(d, "next_entries", FatSector(my.cluster), e)
    BY <1>1, <1>2, <1>5, <1>7, <2>2, <2>3, <2>4, Zenon DEF InDir
  <2> QED
    BY <2>1, <2>5, Zenon
<1>8. (here = {} /\ Ended(entries)) => Len(Children[d]) <= index
  BY <1>5
<1>10. \A i \in here : EntryHere(d, my, entries[i])
  BY <1>3, <1>5, Zenon DEF EntryHere
<1> QED
  BY <1>2, <1>3, <1>6, <1>7, <1>8, <1>10, Zenon

LEMMA DirCluster ==
    ASSUME NEW d, NEW sector, NEW my \in DirLocals, InDir(d, "next_entries", sector, my),
           NEW c, c = FatEntry(my.cluster)
    PROVE  /\ d \in DOMAIN Children /\ sector = FatSector(my.cluster)
           /\ ~ InUse(c) => Len(Children[d]) <= my.index
           /\ InUse(c) => InDir(d, "entries", SectorOf(c, 0),
                                [my EXCEPT !.cluster = c, !.sector = 0])
<1>1. PICK m \in DOMAIN Chain[d] :
        /\ my.cluster = Chain[d][m] /\ sector = FatSector(my.cluster)
        /\ IF m < Len(Chain[d]) THEN /\ <<m + 1, 0>> \in DOMAIN Before[d]
                                     /\ my.seen = Before[d][<<m + 1, 0>>]
           ELSE my.seen = Len(Children[d])
  BY Zenon DEF InDir
<1>2. d \in DOMAIN Children /\ my.seen <= my.index /\ d \in DOMAIN Chain
  BY DirectoryIs DEF InDir
<1>3. /\ m < Len(Chain[d]) => /\ m + 1 \in DOMAIN Chain[d] /\ c = Chain[d][m + 1] /\ InUse(c)
      /\ ~ (m < Len(Chain[d])) => ~ InUse(c)
  BY <1>1, <1>2, ChainAt
<1>4. CASE ~ (m < Len(Chain[d]))
  BY <1>1, <1>2, <1>3, <1>4
<1>5. CASE m < Len(Chain[d])
  <2>1. PICK e, zero : zero = 0 /\ e = [my EXCEPT !.cluster = c, !.sector = zero]
    OBVIOUS
  <2>2. e.cluster = c /\ e.sector = zero /\ e.seen = my.seen /\ e.index = my.index
    BY <2>1 DEF DirLocals
  <2>3. "entries" # "next_entries"
    OBVIOUS
  <2>4. PICK k : k = m + 1
    OBVIOUS
  <2>5. <<k, zero>> \in DOMAIN Before[d] /\ e.seen = Before[d][<<k, zero>>]
    BY <1>1, <1>5, <2>1, <2>2, <2>4, Zenon
  <2>6. InDir(d, "entries", SectorOf(c, zero), e)
    BY <1>2, <1>3, <1>5, <2>2, <2>3, <2>4, <2>5, Zenon DEF InDir
  <2> QED
    BY <1>1, <1>2, <1>3, <1>5, <2>1, <2>6, Zenon
<1> QED
  BY <1>4, <1>5

-----------------------------------------------------------------------------
(* Reads of a file.                                                        *)

\* A node whose fields fit each other.
Sized(n) ==
    /\ n.size \in Nat /\ n.dir \in BOOLEAN
    /\ n.cluster = None => n.bytes \in Seq(Byte) /\ (~ n.dir => n.size = Len(n.bytes))
    /\ n.cluster # None => n.cluster \in Nat

LEMMA ContentIs ==
    ASSUME NEW n, Sized(n), ~ n.dir
    PROVE  /\ DOMAIN ContentOf(n) = 1 .. n.size /\ Len(ContentOf(n)) = n.size
           /\ \E S : ContentOf(n) \in Seq(S)
           /\ n.cluster # None => \A i \in 1 .. n.size : ContentOf(n)[i] = ByteAt(n.cluster, i - 1)
           /\ n.cluster = None => ContentOf(n) = n.bytes
<1>1. CASE n.cluster = None
  <2>1. PICK bytes : bytes = n.bytes
    OBVIOUS
  <2>2. bytes \in Seq(Byte) /\ Len(bytes) = n.size /\ n.size \in Nat
    BY <1>1, <2>1 DEF Sized
  <2>3. ContentOf(n) = bytes
    BY <1>1, <2>1 DEF ContentOf
  <2>4. DOMAIN bytes = 1 .. Len(bytes)
    BY <2>2
  <2> QED
    BY <1>1, <2>1, <2>2, <2>3, <2>4, Zenon
<1>2. CASE n.cluster # None
  <2>1. PICK k \in Nat : k = n.size
    BY DEF Sized
  <2>2. PICK f : f = [i \in 1 .. k |-> ByteAt(n.cluster, i - 1)]
    OBVIOUS
  <2>3. ContentOf(n) = f
    BY <1>2, <2>1, <2>2 DEF ContentOf
  <2>4. PICK S : S = {f[i] : i \in 1 .. k}
    OBVIOUS
  <2>5. f \in [1 .. k -> S]
    BY <2>2, <2>4
  <2>6. f \in Seq(S) /\ Len(f) = k
    BY <2>5, SeqIs
  <2>7. DOMAIN f = 1 .. k /\ \A i \in 1 .. k : f[i] = ByteAt(n.cluster, i - 1)
    BY <2>2
  <2> QED
    BY <1>2, <2>1, <2>3, <2>6, <2>7
<1> QED
  BY <1>1, <1>2

\* A file with bytes on the disk.
LEMMA FileIs ==
    ASSUME NEW n, Sized(n), GoodNode(n), ~ n.dir, n.cluster # None, n.size > 0
    PROVE  /\ n.cluster \in DOMAIN Chain /\ Len(Chain[n.cluster]) \in Nat
           /\ n.size <= Len(Chain[n.cluster]) * ClusterBytes
           /\ Chain[n.cluster][1] = n.cluster /\ 1 \in DOMAIN Chain[n.cluster]
<1>1. n.cluster \in DOMAIN Chain /\ n.size <= Len(Chain[n.cluster]) * ClusterBytes
  BY DEF GoodNode
<1>2. /\ Chain[n.cluster] \in Seq(Nat) /\ Len(Chain[n.cluster]) \in Nat \ {0}
      /\ Chain[n.cluster][1] = n.cluster
  BY <1>1, ChainIs
<1> QED
  BY <1>1, <1>2

\* A place in the file, by the cluster it is in.
LEMMA BytePlace ==
    ASSUME NEW f, NEW m \in Nat, NEW x \in 0 .. ClusterBytes - 1
    PROVE  ByteAt(f, m * ClusterBytes + x) = ClusterByte(Chain[f][m + 1], x)
<1>1. (m * ClusterBytes + x) \div ClusterBytes = m /\ (m * ClusterBytes + x) % ClusterBytes = x
  BY Sizes, Divided
<1> QED
  BY <1>1, Zenon DEF ByteAt

\* And by the sector.
LEMMA SectorPlace ==
    ASSUME NEW c, NEW s \in Nat, NEW x \in 0 .. SectorBytes - 1
    PROVE  ClusterByte(c, s * SectorBytes + x) = Disk[SectorOf(c, s)].bytes[x + 1]
<1>1. (s * SectorBytes + x) \div SectorBytes = s /\ (s * SectorBytes + x) % SectorBytes = x
  BY Sizes, Divided
<1> QED
  BY <1>1, Zenon DEF ClusterByte

\* A read begins, with the clusters before its offset to skip.
LEMMA ReadBegins ==
    ASSUME NEW n, Sized(n), GoodNode(n), ~ n.dir, n.cluster # None, NEW offset \in Nat,
           offset < n.size, NEW size \in Nat, NEW my,
           my = [cluster |-> n.cluster, skip |-> offset \div ClusterBytes,
                 want |-> Smaller(size, n.size - offset), got |-> <<>>, buf |-> <<>>,
                 offset |-> offset % ClusterBytes]
    PROVE  InFile(n, offset, size, "skip", FatSector(n.cluster), my)
<1>1. PICK none, want, skip, rest : /\ none = <<>> /\ want = Smaller(size, n.size - offset)
                                    /\ skip = offset \div ClusterBytes
                                    /\ rest = offset % ClusterBytes
  OBVIOUS
<1>2. my = [cluster |-> n.cluster, skip |-> skip, want |-> want, got |-> none, buf |-> none,
            offset |-> rest]
  BY <1>1, Zenon
<1>3. /\ my.cluster = n.cluster /\ my.skip = skip /\ my.want = want /\ my.got = none
      /\ my.offset = rest
  BY <1>2
<1>4. Len(none) = 0 /\ \A x \in 1 .. Len(none) : FALSE
  BY <1>1
<1>5. want \in Nat
  BY <1>1, SmallerIs DEF Sized
<1>6. skip \in Nat
  BY <1>1, Sizes, Division
<1>7. n.size > 0
  BY DEF Sized
<1>8. 1 \in DOMAIN Chain[n.cluster] /\ Chain[n.cluster][1] = n.cluster
  BY <1>7, FileIs
<1>9. PICK m : m = 1
  OBVIOUS
<1>10. /\ m \in DOMAIN Chain[n.cluster] /\ my.cluster = Chain[n.cluster][m]
       /\ FatSector(n.cluster) = FatSector(my.cluster)
       /\ offset \div ClusterBytes = m - 1 + my.skip /\ my.offset = offset % ClusterBytes
       /\ Len(my.got) = 0 /\ Len(my.got) <= want
  BY <1>1, <1>3, <1>4, <1>5, <1>6, <1>8, <1>9
<1>11. "skip" \notin {"buffer", "bytes"} /\ "skip" # "bytes" /\ "skip" # "next_bytes"
  OBVIOUS
<1> QED
  BY <1>1, <1>3, <1>4, <1>10, <1>11, Zenon DEF InFile

\* What is so in every call of a read.
LEMMA InFileIs ==
    ASSUME NEW n, Sized(n), GoodNode(n), NEW offset \in Nat, NEW size \in Nat, NEW then,
           NEW sector, NEW my, InFile(n, offset, size, then, sector, my)
    PROVE  /\ ~ n.dir /\ n.cluster # None /\ offset < n.size /\ n.size \in Nat
           /\ my.want = Smaller(size, n.size - offset) /\ my.want \in Nat
           /\ offset + my.want <= n.size /\ Len(my.got) <= my.want
           /\ \A x \in 1 .. Len(my.got) : my.got[x] = ContentOf(n)[offset + x]
           /\ n.cluster \in DOMAIN Chain /\ Len(Chain[n.cluster]) \in Nat
           /\ n.size <= Len(Chain[n.cluster]) * ClusterBytes
<1>1. PICK want : want = Smaller(size, n.size - offset)
  OBVIOUS
<1>2. /\ ~ n.dir /\ n.cluster # None /\ offset < n.size /\ my.want = want /\ Len(my.got) <= want
      /\ \A x \in 1 .. Len(my.got) : my.got[x] = ContentOf(n)[offset + x]
  BY <1>1, Zenon DEF InFile
<1>3. n.size \in Nat /\ n.size > 0
  BY <1>2 DEF Sized
<1>4. want \in Nat /\ offset + want <= n.size
  BY <1>1, <1>2, <1>3, SmallerIs
<1>5. /\ n.cluster \in DOMAIN Chain /\ Len(Chain[n.cluster]) \in Nat
      /\ n.size <= Len(Chain[n.cluster]) * ClusterBytes
  BY <1>2, <1>3, FileIs
<1> QED
  BY <1>1, <1>2, <1>3, <1>4, <1>5, Zenon

LEMMA SkipEnds ==
    ASSUME NEW n, Sized(n), GoodNode(n), NEW offset \in Nat, NEW size \in Nat, NEW sector,
           NEW my \in ReadLocals, InFile(n, offset, size, "skip", sector, my), my.skip = 0,
           NEW other
    PROVE  InFile(n, offset, size, "buffer", other, my)
<1>1. PICK m \in DOMAIN Chain[n.cluster] :
        /\ my.cluster = Chain[n.cluster][m] /\ Len(my.got) = 0
        /\ offset \div ClusterBytes = m - 1 + my.skip /\ my.offset = offset % ClusterBytes
  BY Zenon DEF InFile
<1>2. PICK want : want = Smaller(size, n.size - offset)
  OBVIOUS
<1>3. /\ ~ n.dir /\ n.cluster # None /\ offset < n.size /\ my.want = want /\ Len(my.got) <= want
      /\ \A x \in 1 .. Len(my.got) : my.got[x] = ContentOf(n)[offset + x]
  BY <1>2, Zenon DEF InFile
<1>4. PICK q, r, read : q = offset \div ClusterBytes /\ r = offset % ClusterBytes /\ read = Len(my.got)
  OBVIOUS
<1>5. q \in Nat /\ r \in 0 .. ClusterBytes - 1 /\ offset = q * ClusterBytes + r
  BY <1>4, Sizes, Division
<1>6. q = m - 1 + 0 /\ my.offset = r /\ read = 0
  BY <1>1, <1>4
<1>7. offset + read = (m - 1) * ClusterBytes + my.offset
  <2>1. n.cluster \in DOMAIN Chain
    BY InFileIs
  <2>2. m \in Int
    BY <2>1, ChainAt
  <2>3. m - 1 = q
    BY <1>6, <2>2
  <2> QED
    BY <1>5, <1>6, <2>3
<1>8. "buffer" # "skip" /\ "buffer" # "bytes" /\ "buffer" # "next_bytes" /\ "buffer" \in {"buffer", "bytes"}
  OBVIOUS
<1> QED
  BY <1>1, <1>2, <1>3, <1>4, <1>7, <1>8, Zenon DEF InFile

\* A read that has still clusters to skip.
Skipping(n, offset, size, sector, my) ==
    /\ Sized(n) /\ GoodNode(n) /\ offset \in Nat /\ size \in Nat /\ my \in ReadLocals
    /\ InFile(n, offset, size, "skip", sector, my) /\ my.skip > 0

\* One cluster more is skipped: there is one, the offset lies in the file.
LEMMA OneSkipped ==
    ASSUME NEW n, NEW offset, NEW size, NEW sector, NEW my, Skipping(n, offset, size, sector, my)
    PROVE  \A c, e : (c = FatEntry(my.cluster) /\ e = [my EXCEPT !.cluster = c, !.skip = my.skip - 1]) =>
             /\ sector = FatSector(my.cluster) /\ InUse(c)
             /\ InFile(n, offset, size, "skip", FatSector(c), e)
<1> SUFFICES ASSUME NEW c, NEW e, c = FatEntry(my.cluster),
                    e = [my EXCEPT !.cluster = c, !.skip = my.skip - 1]
             PROVE  /\ sector = FatSector(my.cluster) /\ InUse(c)
                    /\ InFile(n, offset, size, "skip", FatSector(c), e)
  BY Zenon
<1>0. /\ Sized(n) /\ GoodNode(n) /\ offset \in Nat /\ size \in Nat /\ my \in ReadLocals
      /\ InFile(n, offset, size, "skip", sector, my) /\ my.skip > 0
  BY Zenon DEF Skipping
<1>1. PICK m \in DOMAIN Chain[n.cluster] :
        /\ my.cluster = Chain[n.cluster][m] /\ sector = FatSector(my.cluster) /\ Len(my.got) = 0
        /\ offset \div ClusterBytes = m - 1 + my.skip /\ my.offset = offset % ClusterBytes
  BY <1>0, Zenon DEF InFile
<1>2. PICK chain, k : chain = Chain[n.cluster] /\ k = Len(chain)
  OBVIOUS
<1>3. /\ n.cluster \in DOMAIN Chain /\ k \in Nat /\ offset < k * ClusterBytes
      /\ m \in 1 .. k /\ my.skip \in Nat
  <2>1. /\ n.cluster \in DOMAIN Chain /\ k \in Nat /\ offset < n.size /\ n.size \in Nat
        /\ n.size <= k * ClusterBytes
    BY <1>0, <1>2, InFileIs
  <2>2. k * ClusterBytes \in Nat
    BY <2>1, Sizes, Times
  <2>3. m \in 1 .. k
    BY <1>2, <2>1, ChainAt
  <2> QED
    BY <1>0, <2>1, <2>2, <2>3 DEF ReadLocals
<1>4. m < k
  <2>1. PICK q, r : q = offset \div ClusterBytes /\ r = offset % ClusterBytes
    OBVIOUS
  <2>2. q \in Nat /\ r \in 0 .. ClusterBytes - 1 /\ offset = q * ClusterBytes + r
    BY <1>0, <2>1, Sizes, Division
  <2>3. q * ClusterBytes < k * ClusterBytes
    <3>1. q * ClusterBytes \in Nat /\ k * ClusterBytes \in Nat
      BY <1>3, <2>2, Sizes, Times
    <3> QED
      BY <1>3, <2>2, <3>1
  <2>4. q < k
    BY <1>3, <2>2, <2>3, Sizes, FewerTimes
  <2>5. q = m - 1 + my.skip
    BY <1>1, <2>1
  <2> QED
    BY <1>0, <1>3, <2>2, <2>4, <2>5
<1>5. m + 1 \in DOMAIN chain /\ c = chain[m + 1] /\ InUse(c)
  BY <1>1, <1>2, <1>3, <1>4, ChainAt
<1>6. PICK skip : skip = my.skip - 1
  OBVIOUS
<1>7. e.cluster = c /\ e.skip = skip /\ e.want = my.want /\ e.got = my.got /\ e.offset = my.offset
  <2>1. e = [my EXCEPT !.cluster = c, !.skip = skip]
    BY <1>6, Zenon
  <2> QED
    BY <1>0, <2>1 DEF ReadLocals
<1>8. offset \div ClusterBytes = (m + 1) - 1 + e.skip
  <2>1. m - 1 + my.skip = (m + 1) - 1 + skip
    BY <1>3, <1>6
  <2> QED
    BY <1>1, <1>7, <2>1
<1>9. PICK want : want = Smaller(size, n.size - offset)
  OBVIOUS
<1>10. /\ ~ n.dir /\ n.cluster # None /\ offset < n.size /\ my.want = want /\ Len(my.got) <= want
       /\ \A x \in 1 .. Len(my.got) : my.got[x] = ContentOf(n)[offset + x]
  BY <1>0, <1>9, Zenon DEF InFile
<1>11. "skip" \notin {"buffer", "bytes"} /\ "skip" # "bytes" /\ "skip" # "next_bytes"
  OBVIOUS
<1>12. PICK l : l = m + 1
  OBVIOUS
<1>13. InFile(n, offset, size, "skip", FatSector(c), e)
  BY <1>1, <1>2, <1>5, <1>7, <1>8, <1>9, <1>10, <1>11, <1>12, Zenon DEF InFile
<1> QED
  BY <1>1, <1>5, <1>13, Zenon

\* A cluster's first sector is asked for.
LEMMA ClusterBegins ==
    ASSUME NEW n, Sized(n), GoodNode(n), NEW offset \in Nat, NEW size \in Nat, NEW sector,
           NEW my \in ReadLocals, InFile(n, offset, size, "buffer", sector, my)
    PROVE  /\ InUse(my.cluster)
           /\ ~ (Len(my.got) < my.want) => Len(my.got) = my.want
           /\ Len(my.got) < my.want =>
                InFile(n, offset, size, "bytes", SectorOf(my.cluster, 0), [my EXCEPT !.buf = <<>>])
<1>1. PICK want, chain : want = Smaller(size, n.size - offset) /\ chain = Chain[n.cluster]
  OBVIOUS
<1>2. /\ ~ n.dir /\ n.cluster # None /\ offset < n.size /\ my.want = want /\ Len(my.got) <= want
      /\ \A x \in 1 .. Len(my.got) : my.got[x] = ContentOf(n)[offset + x]
  BY <1>1, Zenon DEF InFile
<1>3. PICK m \in DOMAIN chain :
        /\ my.cluster = chain[m]
        /\ offset + Len(my.got) = (m - 1) * ClusterBytes + my.offset
  BY <1>1, Zenon DEF InFile
<1>4. n.cluster \in DOMAIN Chain /\ my.want \in Nat
  BY InFileIs
<1>5. InUse(my.cluster)
  BY <1>1, <1>3, <1>4, ChainAt
<1>6. my.got \in Seq(Byte) /\ Len(my.got) \in Nat
  BY DEF ReadLocals
<1>7. ~ (Len(my.got) < my.want) => Len(my.got) = my.want
  BY <1>2, <1>4, <1>6
<1>8. ASSUME Len(my.got) < my.want
      PROVE  InFile(n, offset, size, "bytes", SectorOf(my.cluster, 0), [my EXCEPT !.buf = <<>>])
  <2>1. PICK none : none = <<>>
    OBVIOUS
  <2>2. PICK e : e = [my EXCEPT !.buf = none]
    OBVIOUS
  <2>3. /\ e.cluster = my.cluster /\ e.buf = none /\ e.want = my.want /\ e.got = my.got
        /\ e.offset = my.offset
    BY <2>2 DEF ReadLocals
  <2>4. PICK s \in 0 .. PerCluster - 1 : s = 0
    BY Sizes
  <2>5. Len(e.buf) = s * SectorBytes /\ Filled(e.cluster, e.buf)
    <3>1. Len(none) = 0 /\ \A x \in 1 .. Len(none) : FALSE
      BY <2>1
    <3>2. s * SectorBytes = 0
      BY <2>4, Sizes
    <3> QED
      BY <2>3, <3>1, <3>2 DEF Filled
  <2>6. SectorOf(my.cluster, 0) = SectorOf(e.cluster, s)
    BY <2>3, <2>4
  <2>7. "bytes" # "skip" /\ "bytes" # "next_bytes"
    OBVIOUS
  <2>8. InFile(n, offset, size, "bytes", SectorOf(my.cluster, 0), e)
    BY <1>1, <1>2, <1>3, <1>8, <2>3, <2>5, <2>6, <2>7, Zenon DEF InFile
  <2> QED
    BY <2>1, <2>2, <2>8, Zenon
<1> QED
  BY <1>5, <1>7, <1>8

\* The next cluster of a read: there is one, if bytes are still wanted.
LEMMA ClusterFollows ==
    ASSUME NEW n, Sized(n), GoodNode(n), NEW offset \in Nat, NEW size \in Nat, NEW sector,
           NEW my \in ReadLocals, InFile(n, offset, size, "next_bytes", sector, my),
           NEW c, c = FatEntry(my.cluster), NEW other
    PROVE  /\ sector = FatSector(my.cluster)
           /\ ~ (Len(my.got) < my.want) => Len(my.got) = my.want
           /\ Len(my.got) < my.want =>
                InFile(n, offset, size, "buffer", other, [my EXCEPT !.cluster = c])
<1>1. PICK want, chain, k : /\ want = Smaller(size, n.size - offset) /\ chain = Chain[n.cluster]
                            /\ k = Len(chain)
  OBVIOUS
<1>2. /\ ~ n.dir /\ n.cluster # None /\ offset < n.size /\ my.want = want /\ Len(my.got) <= want
      /\ \A x \in 1 .. Len(my.got) : my.got[x] = ContentOf(n)[offset + x]
  BY <1>1, Zenon DEF InFile
<1>3. PICK m \in DOMAIN chain :
        /\ my.cluster = chain[m] /\ sector = FatSector(my.cluster) /\ my.offset = 0
        /\ Len(my.got) = want \/ offset + Len(my.got) = m * ClusterBytes
  BY <1>1, Zenon DEF InFile
<1>4. /\ n.cluster \in DOMAIN Chain /\ my.want \in Nat /\ k \in Nat /\ n.size \in Nat
      /\ offset + my.want <= n.size /\ n.size <= k * ClusterBytes
  BY <1>1, InFileIs
<1>5. my.got \in Seq(Byte) /\ Len(my.got) \in Nat
  BY DEF ReadLocals
<1>6. ~ (Len(my.got) < my.want) => Len(my.got) = my.want
  BY <1>2, <1>4, <1>5
<1>7. ASSUME Len(my.got) < my.want
      PROVE  InFile(n, offset, size, "buffer", other, [my EXCEPT !.cluster = c])
  <2>1. m \in 1 .. k /\ m \in Nat
    BY <1>1, <1>4, ChainAt
  <2>2. offset + Len(my.got) = m * ClusterBytes
    BY <1>2, <1>3, <1>4, <1>5, <1>7
  <2>3. m < k
    <3>1. m * ClusterBytes \in Nat /\ k * ClusterBytes \in Nat
      BY <1>4, <2>1, Sizes, Times
    <3>2. m * ClusterBytes < k * ClusterBytes
      BY <1>4, <1>5, <1>7, <2>2, <3>1
    <3> QED
      BY <1>4, <2>1, <3>2, Sizes, FewerTimes
  <2>4. m + 1 \in DOMAIN chain /\ c = chain[m + 1]
    BY <1>1, <1>3, <1>4, <2>3, ChainAt
  <2>5. PICK e : e = [my EXCEPT !.cluster = c]
    OBVIOUS
  <2>6. e.cluster = c /\ e.want = my.want /\ e.got = my.got /\ e.offset = my.offset
    BY <2>5 DEF ReadLocals
  <2>7. PICK l : l = m + 1
    OBVIOUS
  <2>8. offset + Len(e.got) = (l - 1) * ClusterBytes + e.offset
    <3>1. m * ClusterBytes \in Nat /\ l - 1 = m
      BY <2>1, <2>7, Sizes, Times
    <3> QED
      BY <1>3, <2>2, <2>6, <3>1
  <2>9. "buffer" # "skip" /\ "buffer" # "bytes" /\ "buffer" # "next_bytes"
    OBVIOUS
  <2>10. InFile(n, offset, size, "buffer", other, e)
    BY <1>1, <1>2, <2>4, <2>6, <2>7, <2>8, <2>9, Zenon DEF InFile
  <2> QED
    BY <2>5, <2>10, Zenon
<1> QED
  BY <1>3, <1>6, <1>7

\* The buffer, with a sector more of its cluster.
LEMMA BufferMore ==
    ASSUME NEW c, NEW s \in Nat, NEW buf \in Seq(Byte), Len(buf) = s * SectorBytes,
           Filled(c, buf), NEW bytes \in Seq(Byte), Len(bytes) = SectorBytes,
           bytes = Disk[SectorOf(c, s)].bytes, NEW more, more = buf \o bytes
    PROVE  more \in Seq(Byte) /\ Len(more) = (s + 1) * SectorBytes /\ Filled(c, more)
<1>1. PICK l \in Nat : l = Len(buf)
  BY LenProperties
<1>2. /\ more \in Seq(Byte) /\ Len(more) = l + SectorBytes
      /\ \A x \in 1 .. l + SectorBytes : more[x] = IF x <= l THEN buf[x] ELSE bytes[x - l]
  BY <1>1, ConcatProperties
<1>3. (s + 1) * SectorBytes = s * SectorBytes + SectorBytes /\ SectorBytes \in Nat \ {0}
  BY Sizes, Times
<1>4. ASSUME NEW x \in 1 .. l + SectorBytes PROVE more[x] = ClusterByte(c, x - 1)
  <2>1. CASE x <= l
    <3>1. x \in 1 .. Len(buf)
      BY <1>1, <2>1
    <3> QED
      BY <1>2, <2>1, <3>1 DEF Filled
  <2>2. CASE ~ (x <= l)
    <3>1. PICK y \in 0 .. SectorBytes - 1 : y = x - 1 - l
      BY <1>3, <2>2
    <3>2. x - l = y + 1 /\ x - 1 = s * SectorBytes + y
      <4>1. x - l = y + 1 /\ x - 1 = l + y
        BY <3>1
      <4> QED
        BY <1>1, <4>1, Zenon
    <3>3. ClusterByte(c, s * SectorBytes + y) = bytes[y + 1]
      BY <3>1, SectorPlace
    <3> QED
      BY <1>2, <2>2, <3>2, <3>3
  <2> QED
    BY <2>1, <2>2
<1> QED
  BY <1>1, <1>2, <1>3, <1>4 DEF Filled

\* A sector of a cluster has come, and another is asked for.
LEMMA SectorRead ==
    ASSUME NEW n, Sized(n), GoodNode(n), NEW offset \in Nat, NEW size \in Nat, NEW sector,
           NEW my \in ReadLocals, InFile(n, offset, size, "bytes", sector, my),
           sector \in DOMAIN Disk, NEW buf, buf = my.buf \o Disk[sector].bytes
    PROVE  \E next \in 1 .. PerCluster :
             /\ next = Len(buf) \div SectorBytes /\ Len(buf) = next * SectorBytes
             /\ buf \in Seq(Byte) /\ Filled(my.cluster, buf)
             /\ next < PerCluster =>
                  InFile(n, offset, size, "bytes", SectorOf(my.cluster, next), [my EXCEPT !.buf = buf])
<1>1. PICK want, chain : want = Smaller(size, n.size - offset) /\ chain = Chain[n.cluster]
  OBVIOUS
<1>2. /\ ~ n.dir /\ n.cluster # None /\ offset < n.size /\ my.want = want /\ Len(my.got) <= want
      /\ \A x \in 1 .. Len(my.got) : my.got[x] = ContentOf(n)[offset + x]
  BY <1>1, Zenon DEF InFile
<1>3. PICK m \in DOMAIN chain :
        /\ my.cluster = chain[m]
        /\ offset + Len(my.got) = (m - 1) * ClusterBytes + my.offset /\ Len(my.got) < want
        /\ \E s \in 0 .. PerCluster - 1 :
             /\ sector = SectorOf(my.cluster, s) /\ Len(my.buf) = s * SectorBytes
             /\ Filled(my.cluster, my.buf)
  BY <1>1, Zenon DEF InFile
<1>4. PICK s \in 0 .. PerCluster - 1 :
        /\ sector = SectorOf(my.cluster, s) /\ Len(my.buf) = s * SectorBytes
        /\ Filled(my.cluster, my.buf)
  BY <1>3
<1>5. PICK old, bytes : old = my.buf /\ bytes = Disk[sector].bytes
  OBVIOUS
<1>6. old \in Seq(Byte) /\ bytes \in Seq(Byte) /\ Len(bytes) = SectorBytes /\ s \in Nat
  BY <1>5, Sizes, DiskConstants DEF ReadLocals
<1>7. buf \in Seq(Byte) /\ Len(buf) = (s + 1) * SectorBytes /\ Filled(my.cluster, buf)
  <2>1. Len(old) = s * SectorBytes /\ Filled(my.cluster, old)
    BY <1>4, <1>5, Zenon
  <2>2. bytes = Disk[SectorOf(my.cluster, s)].bytes /\ buf = old \o bytes
    BY <1>4, <1>5, Zenon
  <2>3. PICK c : c = my.cluster
    OBVIOUS
  <2>4. Filled(c, old) /\ bytes = Disk[SectorOf(c, s)].bytes
    BY <2>1, <2>2, <2>3, Zenon
  <2>5. buf \in Seq(Byte) /\ Len(buf) = (s + 1) * SectorBytes /\ Filled(c, buf)
    BY <1>6, <2>1, <2>2, <2>4, BufferMore, Zenon
  <2> QED
    BY <2>3, <2>5, Zenon
<1>8. Len(buf) \div SectorBytes = s + 1
  BY <1>4, <1>5, <1>6, OneSectorMore
<1>9. PICK next : next = s + 1
  OBVIOUS
<1>10. next \in 1 .. PerCluster
  BY <1>6, <1>9, Sizes
<1>11. ASSUME next < PerCluster
       PROVE  InFile(n, offset, size, "bytes", SectorOf(my.cluster, next), [my EXCEPT !.buf = buf])
  <2>1. PICK e : e = [my EXCEPT !.buf = buf]
    OBVIOUS
  <2>2. /\ e.cluster = my.cluster /\ e.buf = buf /\ e.want = my.want /\ e.got = my.got
        /\ e.offset = my.offset
    BY <2>1 DEF ReadLocals
  <2>3. next \in 0 .. PerCluster - 1
    BY <1>10, <1>11, Sizes
  <2>4. Len(e.buf) = next * SectorBytes /\ Filled(e.cluster, e.buf)
    BY <1>7, <1>9, <2>2, Zenon
  <2>5. "bytes" # "skip" /\ "bytes" # "next_bytes"
    OBVIOUS
  <2>6. InFile(n, offset, size, "bytes", SectorOf(my.cluster, next), e)
    BY <1>1, <1>2, <1>3, <2>2, <2>3, <2>4, <2>5, Zenon DEF InFile
  <2> QED
    BY <2>1, <2>6, Zenon
<1> QED
  BY <1>7, <1>8, <1>9, <1>10, <1>11, Zenon

\* k bytes agree with a function from a place on.
Agrees(got, k, f, place) ==
    got \in Seq(Byte) /\ Len(got) = k /\ \A x \in 1 .. k : got[x] = f[place + x]

LEMMA AgreesMore ==
    ASSUME NEW f, NEW offset \in Nat, NEW got, NEW k \in Nat, Agrees(got, k, f, offset),
           NEW part, NEW l \in Nat, Agrees(part, l, f, offset + k)
    PROVE  Agrees(got \o part, k + l, f, offset)
<1>1. PICK more : more = got \o part
  OBVIOUS
<1>2. /\ got \in Seq(Byte) /\ Len(got) = k /\ \A x \in 1 .. k : got[x] = f[offset + x]
      /\ part \in Seq(Byte) /\ Len(part) = l
      /\ \A x \in 1 .. l : part[x] = f[(offset + k) + x]
  BY Zenon DEF Agrees
<1>3. /\ more \in Seq(Byte) /\ Len(more) = k + l
      /\ \A x \in 1 .. k + l : more[x] = IF x <= k THEN got[x] ELSE part[x - k]
  <2>1. got \in Seq(Byte) /\ Len(got) = k /\ part \in Seq(Byte) /\ Len(part) = l
    BY <1>2
  <2> QED
    BY <1>1, <2>1, ConcatProperties
<1>4. ASSUME NEW x \in 1 .. k + l PROVE more[x] = f[offset + x]
  <2>1. CASE x <= k
    <3>1. x \in 1 .. k
      BY <2>1
    <3> QED
      BY <1>2, <1>3, <2>1, <3>1
  <2>2. CASE ~ (x <= k)
    <3>1. x - k \in 1 .. l /\ (offset + k) + (x - k) = offset + x
      BY <2>2
    <3> QED
      BY <1>2, <1>3, <2>2, <3>1
  <2> QED
    BY <2>1, <2>2
<1> QED
  BY <1>1, <1>3, <1>4 DEF Agrees

LEMMA ClusterTimes ==
    ASSUME NEW k \in Nat
    PROVE  /\ k * ClusterBytes \in Nat
           /\ (k + 1) * ClusterBytes = k * ClusterBytes + ClusterBytes
BY Sizes, Times

\* How many bytes a cluster gives.
LEMMA SmallerOfBoth ==
    ASSUME NEW b \in Nat, NEW at \in 0 .. b - 1, NEW want \in Nat, NEW read \in Nat,
           read <= want, NEW copy, copy = Smaller(b - at, want - read)
    PROVE  /\ copy \in Nat /\ at + copy <= b /\ read + copy <= want
           /\ (read + copy = want \/ at + copy = b)
BY DEF Smaller

\* A buffer with a whole cluster.
Full(c, buf) == buf \in Seq(Byte) /\ Len(buf) = ClusterBytes /\ Filled(c, buf)

\* What the reader gets of a full buffer is of the file.
LEMMA PartRead ==
    ASSUME NEW n, Sized(n), ~ n.dir, n.cluster # None, NEW m \in Nat \ {0},
           NEW at \in 0 .. ClusterBytes - 1, NEW place \in Nat,
           place = (m - 1) * ClusterBytes + at, NEW buf, Full(Chain[n.cluster][m], buf),
           NEW copy \in Nat, at + copy <= ClusterBytes,
           place + copy <= n.size, NEW part, part = SubSeq(buf, at + 1, at + copy)
    PROVE  Agrees(part, copy, ContentOf(n), place)
<1>0. buf \in Seq(Byte) /\ Len(buf) = ClusterBytes
  BY DEF Full
<1>1. ClusterBytes \in Nat \ {0} /\ at \in Nat /\ m - 1 \in Nat /\ n.size \in Nat
  BY Sizes DEF Sized
<1>2. PICK last : last = at + copy
  OBVIOUS
<1>3. last \in Int /\ last <= Len(buf)
  BY <1>0, <1>1, <1>2
<1>4. part = SubSeq(buf, at + 1, last)
  BY <1>2
<1>5. /\ part \in Seq(Byte) /\ Len(part) = IF at < last THEN last - at ELSE 0
      /\ \A i \in 1 .. last - at : part[i] = buf[at + i]
  BY <1>0, <1>1, <1>3, <1>4, Cut
<1>6. last - at = copy /\ Len(part) = copy
  BY <1>1, <1>2, <1>5
<1>7. ASSUME NEW y \in 1 .. copy PROVE part[y] = ContentOf(n)[place + y]
  <2>1. PICK x \in 0 .. ClusterBytes - 1 : x = at + y - 1
    <3>1. PICK b : b = ClusterBytes
      OBVIOUS
    <3>2. b \in Nat \ {0} /\ at \in Nat /\ at + copy <= b
      BY <1>1, <3>1, Zenon
    <3>3. at + y - 1 \in 0 .. b - 1
      BY <3>2
    <3> QED
      BY <3>1, <3>3, Zenon
  <2>2. part[y] = buf[at + y] /\ at + y \in 1 .. Len(buf) /\ (at + y) - 1 = x
    BY <1>0, <1>1, <1>5, <1>6, <2>1
  <2>3. buf[at + y] = ClusterByte(Chain[n.cluster][m], x)
    BY <2>2 DEF Full, Filled
  <2>4. place + y \in 1 .. n.size
    BY <1>1
  <2>5. ContentOf(n)[place + y] = ByteAt(n.cluster, (place + y) - 1)
    <3>1. \A i \in 1 .. n.size : ContentOf(n)[i] = ByteAt(n.cluster, i - 1)
      BY ContentIs, Zenon
    <3> QED
      BY <2>4, <3>1, Zenon
  <2>6. PICK k \in Nat : k = m - 1
    BY <1>1
  <2>7. k * ClusterBytes \in Nat
    BY ClusterTimes
  <2>8. (place + y) - 1 = k * ClusterBytes + x
    BY <1>1, <2>1, <2>6, <2>7
  <2>9. ByteAt(n.cluster, k * ClusterBytes + x) = ClusterByte(Chain[n.cluster][k + 1], x)
    BY BytePlace
  <2>10. k + 1 = m
    BY <2>6
  <2> QED
    BY <2>2, <2>3, <2>5, <2>8, <2>9, <2>10, Zenon
<1> QED
  BY <1>5, <1>6, <1>7 DEF Agrees

LEMMA CopiedFields ==
    ASSUME NEW my \in ReadLocals, NEW copy,
           copy = Smaller(ClusterBytes - my.offset, my.want - Len(my.got)),
           NEW part, part = SubSeq(my.buf, my.offset + 1, my.offset + copy)
    PROVE  /\ Copied(my).cluster = my.cluster /\ Copied(my).want = my.want
           /\ Copied(my).offset = 0 /\ Copied(my).got = my.got \o part
<1>1. PICK got, none, zero : got = my.got \o part /\ none = <<>> /\ zero = 0
  OBVIOUS
<1>2. PICK d : d = [my EXCEPT !.got = got, !.offset = zero, !.buf = none]
  OBVIOUS
<1>3. d = Copied(my)
  BY <1>1, <1>2, Zenon DEF Copied
<1>4. d.cluster = my.cluster /\ d.want = my.want /\ d.offset = zero /\ d.got = got
  BY <1>2 DEF ReadLocals
<1> QED
  BY <1>1, <1>3, <1>4, Zenon

\* The last sector of a cluster has come.
LEMMA ClusterRead ==
    ASSUME NEW n, Sized(n), GoodNode(n), NEW offset \in Nat, NEW size \in Nat, NEW sector,
           NEW my \in ReadLocals, InFile(n, offset, size, "bytes", sector, my),
           NEW buf, Full(my.cluster, buf)
    PROVE  \A d : d = [my EXCEPT !.buf = buf] =>
              InFile(n, offset, size, "next_bytes", FatSector(d.cluster), Copied(d))
<1>0. PICK d : d = [my EXCEPT !.buf = buf]
  OBVIOUS
<1>1. PICK want, chain, read :
        want = Smaller(size, n.size - offset) /\ chain = Chain[n.cluster] /\ read = Len(my.got)
  OBVIOUS
<1>2. /\ ~ n.dir /\ n.cluster # None /\ offset < n.size /\ my.want = want /\ read <= want
      /\ \A x \in 1 .. read : my.got[x] = ContentOf(n)[offset + x]
  BY <1>1, Zenon DEF InFile
<1>3. PICK m \in DOMAIN chain :
        /\ my.cluster = chain[m] /\ offset + read = (m - 1) * ClusterBytes + my.offset
        /\ read < want
  BY <1>1, Zenon DEF InFile
<1>4. /\ n.cluster \in DOMAIN Chain /\ want \in Nat /\ n.size \in Nat
      /\ offset + want <= n.size
  BY <1>1, <1>2, InFileIs
<1>5. m \in Nat \ {0}
  <2>1. m \in 1 .. Len(chain) /\ Len(chain) \in Nat
    BY <1>1, <1>4, ChainAt
  <2> QED
    BY <2>1
<1>6. PICK at, got : at = my.offset /\ got = my.got
  OBVIOUS
<1>7. /\ d \in ReadLocals /\ d.cluster = my.cluster /\ d.want = want /\ d.got = got
      /\ d.offset = at /\ d.buf = buf
  BY <1>0, <1>2, <1>6 DEF ReadLocals, Full
<1>8. at \in 0 .. ClusterBytes - 1 /\ at \in Nat /\ got \in Seq(Byte) /\ read \in Nat
  BY <1>1, <1>6 DEF ReadLocals
<1>9. PICK copy, part : /\ copy = Smaller(ClusterBytes - at, want - read)
                        /\ part = SubSeq(buf, at + 1, at + copy)
  OBVIOUS
<1>10. /\ copy \in Nat /\ at + copy <= ClusterBytes /\ read + copy <= want
       /\ (read + copy = want \/ at + copy = ClusterBytes)
  <2>1. ClusterBytes \in Nat
    BY Sizes
  <2> QED
    <3>1. want \in Nat /\ read \in Nat /\ read <= want /\ at \in 0 .. ClusterBytes - 1
      BY <1>2, <1>4, <1>8, Zenon
    <3>2. copy = Smaller(ClusterBytes - at, want - read)
      BY <1>9, Zenon
    <3> QED
      BY <2>1, <3>1, <3>2, SmallerOfBoth
<1>11. PICK place \in Nat : place = offset + read
  BY <1>8
<1>12. Agrees(part, copy, ContentOf(n), place)
  <2>1. place = (m - 1) * ClusterBytes + at
    BY <1>3, <1>6, <1>11, Zenon
  <2>2. Full(Chain[n.cluster][m], buf)
    BY <1>1, <1>3, Zenon
  <2>3. place + copy <= n.size
    BY <1>4, <1>8, <1>10, <1>11
  <2>4. ~ n.dir /\ n.cluster # None
    BY <1>2
  <2>5. m \in Nat \ {0} /\ at \in 0 .. ClusterBytes - 1 /\ copy \in Nat /\ at + copy <= ClusterBytes
    BY <1>5, <1>8, <1>10, Zenon
  <2>6. part = SubSeq(buf, at + 1, at + copy)
    BY <1>9, Zenon
  <2> QED
    BY <2>1, <2>2, <2>3, <2>4, <2>5, <2>6, PartRead, Zenon
<1>13. PICK more : more = got \o part
  OBVIOUS
<1>14. Agrees(more, read + copy, ContentOf(n), offset) /\ Len(more) = read + copy
  <2>1. Agrees(got, read, ContentOf(n), offset)
    BY <1>1, <1>2, <1>6, <1>8, Zenon DEF Agrees
  <2>2. Agrees(part, copy, ContentOf(n), offset + read)
    BY <1>11, <1>12, Zenon
  <2>3. read \in Nat /\ copy \in Nat
    BY <1>8, <1>10, Zenon
  <2>4. Agrees(more, read + copy, ContentOf(n), offset)
    BY <1>13, <2>1, <2>2, <2>3, AgreesMore, Zenon
  <2> QED
    BY <2>4, Zenon DEF Agrees
<1>15. Len(more) = want \/ offset + Len(more) = m * ClusterBytes
  <2>1. CASE read + copy = want
    BY <1>14, <2>1, Zenon
  <2>2. CASE at + copy = ClusterBytes
    <3>1. PICK k \in Nat : k = m - 1
      BY <1>5
    <3>2. (k + 1) * ClusterBytes = k * ClusterBytes + ClusterBytes /\ k * ClusterBytes \in Nat
      BY Sizes, Times
    <3>3. k + 1 = m
      BY <1>5, <3>1
    <3>4. place = k * ClusterBytes + at
      BY <1>3, <1>6, <1>11, <3>1, Zenon
    <3>5. place + copy = k * ClusterBytes + ClusterBytes
      <4>1. PICK b \in Nat, q \in Nat : b = ClusterBytes /\ q = k * ClusterBytes
        BY <3>2, Sizes
      <4>2. at + copy = b /\ place = q + at /\ at \in Nat /\ copy \in Nat
        BY <1>8, <1>10, <2>2, <3>4, <4>1, Zenon
      <4>3. place + copy = q + b
        BY <4>2
      <4> QED
        BY <4>1, <4>3, Zenon
    <3>6. offset + (read + copy) = place + copy
      BY <1>8, <1>10, <1>11
    <3> QED
      BY <1>14, <3>2, <3>3, <3>5, <3>6, Zenon
  <2> QED
    BY <1>10, <2>1, <2>2
<1>16. PICK e : e = Copied(d)
  OBVIOUS
<1>17. e.cluster = my.cluster /\ e.want = want /\ e.offset = 0 /\ e.got = more
  <2>1. copy = Smaller(ClusterBytes - d.offset, d.want - Len(d.got))
    BY <1>1, <1>6, <1>7, <1>9, Zenon
  <2>2. part = SubSeq(d.buf, d.offset + 1, d.offset + copy)
    BY <1>7, <1>9, Zenon
  <2>3. e.cluster = d.cluster /\ e.want = d.want /\ e.offset = 0 /\ e.got = d.got \o part
    BY <1>7, <1>16, <2>1, <2>2, CopiedFields, Zenon
  <2> QED
    BY <1>7, <1>13, <2>3, Zenon
<1>18. /\ FatSector(d.cluster) = FatSector(e.cluster) /\ e.cluster = chain[m]
       /\ Len(e.got) <= want /\ e.want = want /\ e.offset = 0
       /\ (Len(e.got) = want \/ offset + Len(e.got) = m * ClusterBytes)
       /\ \A x \in 1 .. Len(e.got) : e.got[x] = ContentOf(n)[offset + x]
  <2>1. Len(more) <= want
    BY <1>10, <1>14, Zenon
  <2>2. FatSector(d.cluster) = FatSector(e.cluster)
    BY <1>7, <1>17, Zenon
  <2>3. \A x \in 1 .. Len(more) : more[x] = ContentOf(n)[offset + x]
    BY <1>14, Zenon DEF Agrees
  <2> QED
    BY <1>3, <1>15, <1>17, <2>1, <2>2, <2>3, Zenon
<1>19. "next_bytes" # "skip" /\ "next_bytes" # "bytes" /\ "next_bytes" \notin {"buffer", "bytes"}
  OBVIOUS
<1>20. InFile(n, offset, size, "next_bytes", FatSector(d.cluster), e)
  BY <1>1, <1>2, <1>3, <1>18, <1>19, Zenon DEF InFile
<1> QED
  BY <1>0, <1>16, <1>20, Zenon

-----------------------------------------------------------------------------
(* What a walk over a directory finds.                                     *)

\* The name at a place of the path is looked for, in a directory where no child up to a
\* number has it.
Looking(path, rest, index, n) ==
    /\ n \in DiskNode \cup RamNode /\ n.dir /\ n.cluster # None /\ InUse(n.cluster)
    /\ n.cluster \in DOMAIN Children
    /\ \E p \in 1 .. Len(path) :
         /\ path[p] # "/" /\ rest = SubSeq(path, p, Len(path))
         /\ Depth(path, p) <= Len(Trail[path]) /\ n = Trail[path][Depth(path, p)]
         /\ \A j \in 1 .. index :
              j <= Len(Children[n.cluster]) => Children[n.cluster][j].name # path[p]

LEMMA FindingIs ==
    ASSUME NEW path \in Paths, NEW rest, NEW then, NEW sector, NEW my, NEW n, GoodNode(n),
           Finding(path, rest, then, sector, my, n)
    PROVE  Looking(path, rest, my.index, n) /\ InDir(n.cluster, then, sector, my)
<1>1. PICK p \in 1 .. Len(path) :
        /\ path[p] # "/" /\ rest = SubSeq(path, p, Len(path))
        /\ Depth(path, p) <= Len(Trail[path]) /\ n = Trail[path][Depth(path, p)]
        /\ n.dir /\ n.cluster # None /\ InUse(n.cluster) /\ InDir(n.cluster, then, sector, my)
        /\ \A j \in 1 .. my.index :
             j <= Len(Children[n.cluster]) => Children[n.cluster][j].name # path[p]
  BY Zenon DEF Finding
<1>2. n \in DiskNode \cup RamNode
  BY <1>1, TrailChild
<1>3. n.cluster \in DOMAIN Children
  BY <1>1, Zenon DEF GoodNode
<1> QED
  BY <1>1, <1>2, <1>3, Zenon DEF Looking

\* The same number in another sector.
LEMMA FindingOn ==
    ASSUME NEW path \in Paths, NEW rest, NEW then, NEW sector, NEW my, NEW n,
           Finding(path, rest, then, sector, my, n), NEW then2, NEW sector2, NEW my2,
           InDir(n.cluster, then2, sector2, my2), my2.index = my.index
    PROVE  Finding(path, rest, then2, sector2, my2, n)
BY Zenon DEF Finding

LEMMA NothingFound ==
    ASSUME NEW path \in Paths, NEW rest, NEW then, NEW sector, NEW my \in DirLocals, NEW n,
           GoodNode(n), Finding(path, rest, then, sector, my, n),
           Len(Children[n.cluster]) <= my.index
    PROVE  ~ Leads(path)
<1>0. Looking(path, rest, my.index, n)
  BY FindingIs
<1>1. PICK p \in 1 .. Len(path) :
        /\ path[p] # "/" /\ Depth(path, p) <= Len(Trail[path])
        /\ n = Trail[path][Depth(path, p)]
        /\ \A j \in 1 .. my.index :
             j <= Len(Children[n.cluster]) => Children[n.cluster][j].name # path[p]
  BY <1>0, Zenon DEF Looking
<1>2. /\ n \in DiskNode \cup RamNode /\ n.dir /\ n.cluster # None /\ InUse(n.cluster)
      /\ n.cluster \in DOMAIN Children
  BY <1>0, Zenon DEF Looking
<1>3. PICK all, k : all = NodesIn(n) /\ k = Len(Children[n.cluster])
  OBVIOUS
<1>4. Len(all) = k /\ \A i \in 1 .. k : all[i] = NodeOf(Children[n.cluster][i])
  BY <1>2, <1>3, NodesInAre
<1>5. k \in Nat /\ my.index \in Nat
  BY <1>2, <1>3, DirectoryIs DEF DirLocals
<1>6. ASSUME NEW i \in 1 .. k PROVE all[i].name # path[p]
  <2>1. i \in 1 .. my.index /\ i <= k
    BY <1>3, <1>5
  <2>2. Children[n.cluster][i].name # path[p]
    BY <1>1, <1>3, <2>1
  <2>3. NodeOf(Children[n.cluster][i]).name = Children[n.cluster][i].name
    BY <1>2, <1>3, EntryNodesAre
  <2> QED
    BY <1>4, <2>2, <2>3
<1>7. n.dir => \A i \in 1 .. Len(NodesIn(n)) : NodesIn(n)[i].name # path[p]
  BY <1>3, <1>4, <1>6
<1>8. PICK d : d = Depth(path, p)
  OBVIOUS
<1>9. d <= Len(Trail[path]) /\ n = Trail[path][d] /\ path[p] # "/"
  BY <1>1, <1>8
<1> QED
  BY <1>7, <1>8, <1>9, TrailChild

\* Where the path goes on behind a child.
Lies(path, rest, e) ==
    GoodNode(NodeOf(e)) /\
    \E p \in 1 .. Len(path) :
       /\ path[p] # "/" /\ Tail(rest) = SubSeq(path, p + 1, Len(path))
       /\ Depth(path, p) < Len(Trail[path]) /\ NodeOf(e) = Trail[path][Depth(path, p) + 1]

\* The child of a number: of the name that is looked for, or of another.
LEMMA ChildFound ==
    ASSUME NEW path \in Paths, NEW rest, NEW then, NEW sector, NEW my \in DirLocals, NEW n,
           GoodNode(n), Finding(path, rest, then, sector, my, n),
           NEW e, EntryHere(n.cluster, my, e), e.name = Head(rest)
    PROVE  Lies(path, rest, e)
<1>0. Looking(path, rest, my.index, n)
  BY FindingIs
<1>1. PICK p \in 1 .. Len(path) :
        /\ path[p] # "/" /\ rest = SubSeq(path, p, Len(path))
        /\ Depth(path, p) <= Len(Trail[path]) /\ n = Trail[path][Depth(path, p)]
        /\ \A j \in 1 .. my.index :
             j <= Len(Children[n.cluster]) => Children[n.cluster][j].name # path[p]
  BY <1>0, Zenon DEF Looking
<1>2. /\ n \in DiskNode \cup RamNode /\ n.dir /\ n.cluster # None /\ InUse(n.cluster)
      /\ n.cluster \in DOMAIN Children
  BY <1>0, Zenon DEF Looking
<1>3. PICK all, k : all = NodesIn(n) /\ k = Len(Children[n.cluster])
  OBVIOUS
<1>4. Len(all) = k /\ \A i \in 1 .. k : all[i] = NodeOf(Children[n.cluster][i])
  BY <1>2, <1>3, NodesInAre
<1>5. k \in Nat /\ my.index \in Nat
  BY <1>2, <1>3, DirectoryIs DEF DirLocals
<1>6. \A i \in 1 .. k : all[i].name = Children[n.cluster][i].name
  <2> SUFFICES ASSUME NEW i \in 1 .. k PROVE all[i].name = Children[n.cluster][i].name
    OBVIOUS
  <2>1. NodeOf(Children[n.cluster][i]).name = Children[n.cluster][i].name
    BY <1>2, <1>3, EntryNodesAre
  <2> QED
    BY <1>4, <2>1
<1>7. PICK q \in Nat : q = p - 1
  OBVIOUS
<1>8. q < Len(path) /\ q + 1 = p /\ q + 2 = p + 1
  BY <1>7, PathIs
<1>9. Head(rest) = path[p] /\ Tail(rest) = SubSeq(path, p + 1, Len(path))
  <2>1. rest = SubSeq(path, q + 1, Len(path))
    BY <1>1, <1>8, Zenon
  <2>2. Head(rest) = path[q + 1] /\ Tail(rest) = SubSeq(path, q + 2, Len(path))
    BY <1>8, <2>1, RestTail
  <2> QED
    BY <1>8, <2>2, Zenon
<1>10. PICK i \in 1 .. k : i = my.index + 1
  BY <1>3 DEF EntryHere
<1>11. all[i].name = path[p] /\ all[i] = NodeOf(e)
  BY <1>4, <1>6, <1>9, <1>10 DEF EntryHere
<1>12. \A j \in 1 .. i - 1 : all[j].name # path[p]
  <2> SUFFICES ASSUME NEW j \in 1 .. i - 1 PROVE all[j].name # path[p]
    OBVIOUS
  <2>1. j \in 1 .. my.index /\ j \in 1 .. k /\ j <= k
    BY <1>5, <1>10
  <2> QED
    BY <1>1, <1>3, <1>6, <2>1
<1>13. PICK d : d = Depth(path, p)
  OBVIOUS
<1>14. d <= Len(Trail[path]) /\ n = Trail[path][d] /\ path[p] # "/"
  BY <1>1, <1>13
<1>15. FirstNamed(n, path[p], i)
  BY <1>3, <1>4, <1>11, <1>12, Zenon DEF FirstNamed
<1>16. d < Len(Trail[path]) /\ Trail[path][d + 1] = all[i] /\ GoodNode(all[i])
  <2>1. At(path, p, d, n)
    BY <1>1, <1>2, <1>13, <1>14, Zenon DEF At
  <2>2. GoesTo(path, d, NodesIn(n)[i])
    BY <1>15, <2>1, TrailFirst, Zenon
  <2> QED
    BY <1>3, <2>2, Zenon DEF GoesTo
<1> QED
  BY <1>9, <1>11, <1>13, <1>14, <1>16, Zenon DEF Lies

LEMMA OtherFound ==
    ASSUME NEW path \in Paths, NEW rest, NEW then, NEW sector, NEW my \in DirLocals, NEW n,
           GoodNode(n), Finding(path, rest, then, sector, my, n),
           NEW e, EntryHere(n.cluster, my, e), e.name # Head(rest),
           NEW sector2, NEW my2, InDir(n.cluster, "entries", sector2, my2),
           my2.index = my.index + 1
    PROVE  Finding(path, rest, "entries", sector2, my2, n)
<1>1. PICK p \in 1 .. Len(path) :
        /\ path[p] # "/" /\ rest = SubSeq(path, p, Len(path))
        /\ Depth(path, p) <= Len(Trail[path]) /\ n = Trail[path][Depth(path, p)]
        /\ n.dir /\ n.cluster # None /\ InUse(n.cluster)
        /\ \A j \in 1 .. my.index :
             j <= Len(Children[n.cluster]) => Children[n.cluster][j].name # path[p]
  BY Zenon DEF Finding
<1>2. PICK q \in Nat : q = p - 1
  OBVIOUS
<1>3. q < Len(path) /\ q + 1 = p
  BY <1>2, PathIs
<1>4. Head(rest) = path[p]
  <2>1. rest = SubSeq(path, q + 1, Len(path))
    BY <1>1, <1>3, Zenon
  <2>2. Head(rest) = path[q + 1]
    BY <1>3, <2>1, RestTail
  <2> QED
    BY <1>3, <2>2, Zenon
<1>5. my.index \in Nat
  BY DEF DirLocals
<1>6. ASSUME NEW j \in 1 .. my2.index, j <= Len(Children[n.cluster])
      PROVE  Children[n.cluster][j].name # path[p]
  <2>1. CASE j = my.index + 1
    BY <1>4, <2>1 DEF EntryHere
  <2>2. CASE j # my.index + 1
    <3>1. j \in 1 .. my.index
      BY <1>5, <2>2
    <3> QED
      BY <1>1, <1>6, <3>1
  <2> QED
    BY <2>1, <2>2
<1> QED
  BY <1>1, <1>6, Zenon DEF Finding

-----------------------------------------------------------------------------
(* What ls has listed.                                                     *)

LEMMA ListingIs ==
    ASSUME NEW path \in Paths, NEW from \in Nat, NEW names, NEW n, GoodNode(n),
           Listing(path, from, names, n)
    PROVE  /\ Leads(path) /\ n = Last(path) /\ n.dir /\ n \in DiskNode \cup RamNode
           /\ Len(names) = from /\ from <= Len(NodesIn(n)) /\ Len(NodesIn(n)) \in Nat
           /\ DOMAIN NodesIn(n) = 1 .. Len(NodesIn(n))
           /\ \A x \in 1 .. from : names[x] = NodesIn(n)[x].name
<1>1. /\ Leads(path) /\ n = Last(path) /\ n.dir /\ from <= Len(NodesIn(n))
      /\ Len(names) = from /\ \A x \in 1 .. from : names[x] = NodesIn(n)[x].name
  BY Zenon DEF Listing
<1>2. n \in DiskNode \cup RamNode
  BY <1>1, PathIs DEF Last
<1>3. Len(NodesIn(n)) \in Nat /\ DOMAIN NodesIn(n) = 1 .. Len(NodesIn(n))
  BY <1>1, <1>2, NodesInAre
<1> QED
  BY <1>1, <1>2, <1>3

LEMMA OneMoreListed ==
    ASSUME NEW path \in Paths, NEW from \in Nat, NEW names \in Seq(Names), NEW n, GoodNode(n),
           Listing(path, from, names, n), from < Len(NodesIn(n)),
           NEW name \in Names, name = NodesIn(n)[from + 1].name
    PROVE  Listing(path, from + 1, Append(names, name), n)
<1>0. PICK all, k : all = NodesIn(n) /\ k = Len(all)
  OBVIOUS
<1>1. /\ Leads(path) /\ n = Last(path) /\ n.dir /\ Len(names) = from /\ from <= k /\ k \in Nat
      /\ \A x \in 1 .. from : names[x] = all[x].name
  <2>1. from <= Len(NodesIn(n)) /\ Len(NodesIn(n)) \in Nat
    BY ListingIs
  <2>2. /\ Leads(path) /\ n = Last(path) /\ n.dir /\ Len(names) = from
        /\ \A x \in 1 .. from : names[x] = NodesIn(n)[x].name
    BY ListingIs
  <2> QED
    BY <1>0, <2>1, <2>2, Zenon
<1>2. PICK more : more = Append(names, name)
  OBVIOUS
<1>3. Len(more) = from + 1 /\ more[from + 1] = name /\ \A x \in 1 .. from : more[x] = names[x]
  BY <1>1, <1>2
<1>4. \A x \in 1 .. from + 1 : more[x] = all[x].name
  <2> SUFFICES ASSUME NEW x \in 1 .. from + 1 PROVE more[x] = all[x].name
    OBVIOUS
  <2>1. CASE x = from + 1
    BY <1>0, <1>3, <2>1
  <2>2. CASE x # from + 1
    BY <1>1, <1>3, <2>2
  <2> QED
    BY <2>1, <2>2
<1>5. from + 1 <= k
  BY <1>0, <1>1
<1> QED
  BY <1>0, <1>1, <1>2, <1>3, <1>4, <1>5, Zenon DEF Listing

\* A list of all the names is the list.
LEMMA EverythingListed ==
    ASSUME NEW path \in Paths, NEW from \in Nat, NEW names \in Seq(Names), NEW n, GoodNode(n),
           Listing(path, from, names, n), Len(NodesIn(n)) <= from
    PROVE  Leads(path) /\ Last(path).dir /\ names = NamesIn(Last(path))
<1>0. PICK all, k : all = NodesIn(n) /\ k = Len(all)
  OBVIOUS
<1>1. /\ Leads(path) /\ n = Last(path) /\ n.dir /\ Len(names) = from /\ from <= k /\ k \in Nat
      /\ DOMAIN all = 1 .. k /\ \A x \in 1 .. from : names[x] = all[x].name
  <2>1. /\ from <= Len(NodesIn(n)) /\ Len(NodesIn(n)) \in Nat
        /\ DOMAIN NodesIn(n) = 1 .. Len(NodesIn(n))
    BY ListingIs
  <2>2. /\ Leads(path) /\ n = Last(path) /\ n.dir /\ Len(names) = from
        /\ \A x \in 1 .. from : names[x] = NodesIn(n)[x].name
    BY ListingIs
  <2> QED
    BY <1>0, <2>1, <2>2, Zenon
<1>2. from = k
  BY <1>0, <1>1
<1>3. names = [x \in 1 .. k |-> names[x]]
  BY <1>1, <1>2
<1>4. [x \in 1 .. k |-> names[x]] = [x \in 1 .. k |-> all[x].name]
  <2>1. \A x \in 1 .. k : names[x] = all[x].name
    BY <1>1, <1>2
  <2> QED
    BY <2>1, Zenon
<1>5. names = NamesIn(n)
  <2>1. DOMAIN all = 1 .. k
    BY <1>1, Zenon
  <2> QED
    BY <1>0, <1>3, <1>4, <2>1, Zenon DEF NamesIn
<1> QED
  BY <1>1, <1>5, Zenon

Named(c, name) == [c EXCEPT !.names = Append(@, name), !.from = @ + 1]

LEMMA NamedFields ==
    ASSUME NEW c \in Cmd, NEW name \in Names
    PROVE  /\ Named(c, name) \in Cmd
           /\ Named(c, name).do = c.do /\ Named(c, name).path = c.path
           /\ Named(c, name).at = c.at /\ Named(c, name).node = c.node
           /\ Named(c, name).taken = c.taken
           /\ Named(c, name).names = Append(c.names, name) /\ Named(c, name).from = c.from + 1
BY NameType DEF Cmd, Named

LEMMA NamedProgress ==
    ASSUME NEW c \in Cmd, c.path \in Paths, c.at = "list", NEW i, NEW n, Progress(c, i, n),
           c.from < Len(NodesIn(n)), NEW name \in Names, name = NodesIn(n)[c.from + 1].name
    PROVE  Progress(Named(c, name), NoIo, n)
<1>0. PICK d : d = Named(c, name)
  OBVIOUS
<1>1. d.at = "list" /\ d.path = c.path /\ d.names = Append(c.names, name) /\ d.from = c.from + 1
  BY <1>0, NamedFields, Zenon
<1>2. GoodNode(n) /\ Listing(c.path, c.from, c.names, n)
  BY Zenon DEF Progress
<1>3. c.from \in Nat /\ c.names \in Seq(Names)
  BY DEF Cmd
<1>4. Listing(d.path, d.from, d.names, n)
  <2>1. Listing(c.path, c.from + 1, Append(c.names, name), n)
    BY <1>2, <1>3, OneMoreListed
  <2> QED
    BY <1>1, <2>1, Zenon
<1>5. NoIo.at = "none"
  BY DEF NoIo
<1>6. d.at \notin {"walk", "find", "read", "header", "segment", "done"} /\ d.at # "walk"
      /\ d.at # "find" /\ d.at # "done" /\ d.at \notin {"walk", "find"}
      /\ d.at \notin {"read", "header", "segment"}
  BY <1>1
<1>7. Progress(d, NoIo, n)
  BY <1>2, <1>4, <1>5, <1>6, Zenon DEF Progress
<1> QED
  BY <1>0, <1>7, Zenon

-----------------------------------------------------------------------------
(* What a read gives.                                                      *)

LEMMA SameSeq ==
    ASSUME NEW S, NEW s \in Seq(S), NEW T, NEW u \in Seq(T), NEW k \in Nat,
           Len(s) = k, Len(u) = k, \A i \in 1 .. k : s[i] = u[i]
    PROVE  s = u
<1>1. s = [i \in 1 .. k |-> s[i]] /\ u = [i \in 1 .. k |-> u[i]]
  OBVIOUS
<1>2. [i \in 1 .. k |-> s[i]] = [i \in 1 .. k |-> u[i]]
  BY Zenon
<1> QED
  BY <1>1, <1>2, Zenon

\* A read of so many bytes at an offset gives those of the file.
Got(n, offset, size, got) ==
    /\ (n.dir \/ offset >= n.size) => got = <<>>
    /\ (~ n.dir /\ offset < n.size) =>
         Agrees(got, Smaller(size, n.size - offset), ContentOf(n), offset)

LEMMA WholeFile ==
    ASSUME NEW n, Sized(n), ~ n.dir, NEW out, Agrees(out, n.size, ContentOf(n), 0)
    PROVE  out = ContentOf(n)
<1>1. PICK content, k : content = ContentOf(n) /\ k = n.size
  OBVIOUS
<1>2. k \in Nat /\ Len(content) = k /\ \E S : content \in Seq(S)
  BY <1>1, ContentIs DEF Sized
<1>3. PICK S : content \in Seq(S)
  BY <1>2
<1>4. out \in Seq(Byte) /\ Len(out) = k /\ \A x \in 1 .. k : out[x] = content[0 + x]
  BY <1>1, Zenon DEF Agrees
<1>5. \A x \in 1 .. k : out[x] = content[x]
  BY <1>2, <1>4
<1>6. out = content
  BY <1>2, <1>3, <1>4, <1>5, SameSeq, Zenon
<1> QED
  BY <1>1, <1>6, Zenon

\* What is read behind the magic and the length is the segment.
LEMMA SegmentRead ==
    ASSUME NEW S, NEW f \in Seq(S), NEW size \in Nat, Len(f) = size, NEW from \in Nat,
           size >= 2 => from = f[2], NEW got, (2 >= size) => got = <<>>,
           2 < size => Agrees(got, Smaller(from, size - 2), f, 2)
    PROVE  got = Segment(f)
<1>1. CASE size < 2
  BY <1>1 DEF Segment
<1>2. CASE size >= 2
  <2>1. PICK end \in Nat : end = Smaller(size, 2 + from)
    BY DEF Smaller
  <2>2. end <= size /\ end >= 2 /\ (2 < size => Smaller(from, size - 2) = end - 2)
    BY <1>2, <2>1 DEF Smaller
  <2>3. PICK part : part = SubSeq(f, 2 + 1, end)
    OBVIOUS
  <2>4. part = Segment(f)
    <3>1. 2 + 1 = 3 /\ ~ (size < 2)
      BY <1>2
    <3>2. part = SubSeq(f, 3, Smaller(Len(f), 2 + f[2]))
      BY <1>2, <2>1, <2>3, <3>1, Zenon
    <3> QED
      BY <3>1, <3>2, Zenon DEF Segment
  <2>5. /\ part \in Seq(S) /\ Len(part) = (IF 2 < end THEN end - 2 ELSE 0)
        /\ \A i \in 1 .. end - 2 : part[i] = f[2 + i]
    BY <2>2, <2>3, Cut
  <2>6. Len(part) = end - 2 /\ end - 2 \in Nat
    BY <2>2, <2>5
  <2>7. got \in Seq(Byte) /\ Len(got) = end - 2 /\ \A i \in 1 .. end - 2 : got[i] = f[2 + i]
    <3>1. CASE 2 < size
      <4>1. Agrees(got, end - 2, f, 2)
        BY <2>2, <3>1
      <4> QED
        BY <4>1 DEF Agrees
    <3>2. CASE ~ (2 < size)
      <4>1. got = <<>> /\ end - 2 = 0
        BY <1>2, <2>2, <3>2
      <4> QED
        BY <4>1
    <3> QED
      BY <3>1, <3>2
  <2>8. got = part
    BY <2>5, <2>6, <2>7, SameSeq
  <2> QED
    BY <2>4, <2>8, Zenon
<1> QED
  BY <1>1, <1>2

\* What follows a read of the right bytes.
LEMMA CatProgress ==
    ASSUME NEW c \in Cmd, c.at = "read", c.do = "cat", c.path \in Paths, NEW n, Sized(n),
           GoodNode(n), Reading("read", c.path, c.from, c.out, n),
           NEW got \in Seq(Byte), Got(n, c.from, Chunk, got)
    PROVE  /\ Progress(Cat(c, got), NoIo, n) /\ Same(c, Cat(c, got))
           /\ Cat(c, got).at = "done" \/ Cat(c, got).node = c.node
<1>0. PICK from, content, k : from = c.from /\ content = ContentOf(n) /\ k = n.size
  OBVIOUS
<1>1. /\ from \in Nat /\ c.out \in Seq(Byte) /\ k \in Nat /\ Chunk \in Nat \ {0}
  BY <1>0, PlacesAre DEF Cmd, Sized
<1>2. /\ Leads(c.path) /\ n = Last(c.path) /\ ~ n.dir /\ from <= k /\ Len(c.out) = from
      /\ \A x \in 1 .. from : c.out[x] = content[x]
  BY <1>0, Zenon DEF Reading
<1>3. Agrees(c.out, from, content, 0)
  <2>1. \A x \in 1 .. from : c.out[x] = content[0 + x]
    BY <1>1, <1>2
  <2> QED
    BY <1>1, <1>2, <2>1, Zenon DEF Agrees
<1>4. /\ from >= k => got = <<>>
      /\ from < k => Agrees(got, Smaller(Chunk, k - from), content, from)
  BY <1>0, <1>2, Zenon DEF Got
<1>5. CASE got = <<>>
  <2>1. ~ (from < k)
    <3>1. SUFFICES ASSUME from < k PROVE FALSE
      OBVIOUS
    <3>2. Len(got) = Smaller(Chunk, k - from)
      BY <1>4, <3>1, Zenon DEF Agrees
    <3>3. Smaller(Chunk, k - from) >= 1
      BY <1>1, <3>1 DEF Smaller
    <3> QED
      BY <1>5, <3>2, <3>3
  <2>2. from = k
    BY <1>1, <1>2, <2>1
  <2>3. c.out = ContentOf(n)
    BY <1>0, <1>2, <1>3, <2>2, WholeFile
  <2>4. PICK path, out : path = c.path /\ out = c.out
    OBVIOUS
  <2>5. Right("cat", path, "ok", c.names, out)
    BY <1>2, <2>3, <2>4, RightIs
  <2>6. Progress(Done(c, "ok"), NoIo, n)
    BY <2>4, <2>5, DoneProgress
  <2>7. Same(c, Done(c, "ok")) /\ Done(c, "ok").at = "done"
    BY DoneFields
  <2>8. Cat(c, got) = Done(c, "ok")
    BY <1>5, Zenon DEF Cat
  <2> QED
    BY <2>6, <2>7, <2>8
<1>6. CASE got # <<>>
  <2>1. PICK out, next : out = c.out \o got /\ next = c.from + Len(got)
    OBVIOUS
  <2>2. PICK d : d = [c EXCEPT !.out = out, !.from = next]
    OBVIOUS
  <2>3. Cat(c, got) = d
    BY <1>6, <2>1, <2>2, Zenon DEF Cat
  <2>4. d.at = "read" /\ Same(c, d) /\ d.path = c.path /\ d.node = c.node /\ d.out = out
        /\ d.from = next
    BY <2>2 DEF Cmd, Same
  <2>5. PICK l \in Nat : l = Smaller(Chunk, k - from) /\ from < k /\ from + l <= k
                         /\ Agrees(got, l, content, from)
    <3>1. from < k
      BY <1>1, <1>4, <1>6
    <3>2. Smaller(Chunk, k - from) \in Nat /\ from + Smaller(Chunk, k - from) <= k
      BY <1>1, <3>1 DEF Smaller
    <3> QED
      BY <1>4, <3>1, <3>2
  <2>6. Agrees(got, l, content, 0 + from) /\ 0 \in Nat
    <3>1. 0 + from = from
      BY <1>1
    <3> QED
      BY <2>5, <3>1
  <2>7. Agrees(out, from + l, content, 0)
    BY <1>1, <1>3, <2>1, <2>6, AgreesMore, Zenon
  <2>8. next = from + l
    BY <1>0, <2>1, <2>5, Zenon DEF Agrees
  <2>9. Len(out) = next /\ next <= k /\ \A x \in 1 .. next : out[x] = content[x]
    <3>1. Len(out) = next /\ \A x \in 1 .. next : out[x] = content[0 + x]
      BY <2>7, <2>8, Zenon DEF Agrees
    <3> QED
      BY <1>1, <2>5, <2>8, <3>1
  <2>10. Reading("read", d.path, d.from, d.out, n)
    <3>1. "read" # "segment"
      OBVIOUS
    <3> QED
      BY <1>0, <1>2, <2>4, <2>9, <3>1, Zenon DEF Reading
  <2>11. Progress(d, NoIo, n)
    <3>1. NoIo.at = "none"
      BY DEF NoIo
    <3>2. d.at # "walk" /\ d.at # "find" /\ d.at # "list" /\ d.at # "done"
          /\ d.at \notin {"walk", "find"}
      BY <2>4
    <3> QED
      BY <2>4, <2>10, <3>1, <3>2, Zenon DEF Progress
  <2> QED
    BY <2>3, <2>4, <2>11
<1> QED
  BY <1>5, <1>6

LEMMA HeaderProgress ==
    ASSUME NEW c \in Cmd, c.at = "header", c.do = "exec", c.path \in Paths, NEW n, Sized(n),
           GoodNode(n), Reading("header", c.path, c.from, c.out, n),
           NEW got \in Seq(Byte), Got(n, 0, 2, got), NEW d \in After(c, got)
    PROVE  Progress(d, NoIo, n) /\ Same(c, d) /\ (d.at = "done" \/ d.node = c.node)
<1>0. PICK content, k : content = ContentOf(n) /\ k = n.size
  OBVIOUS
<1>1. k \in Nat /\ n.dir \in BOOLEAN /\ Leads(c.path) /\ n = Last(c.path)
  BY <1>0, Zenon DEF Sized, Reading
<1>2. PICK h \in Headers(got) : d = IF h[1] = Magic THEN [c EXCEPT !.at = "segment", !.from = h[2]]
                                    ELSE Done(c, "wrong_kind")
  BY DEF After
<1>3. CASE h[1] = Magic
  <2>1. PICK from : from = h[2]
    OBVIOUS
  <2>2. d = [c EXCEPT !.at = "segment", !.from = from]
    BY <1>2, <1>3, <2>1
  <2>3. /\ d.at = "segment" /\ Same(c, d) /\ d.path = c.path /\ d.node = c.node
        /\ d.out = c.out /\ d.from = from
    BY <2>2 DEF Cmd, Same
  <2>4. ASSUME ~ n.dir, k > 0 PROVE content[1] = Magic /\ (k >= 2 => from = content[2])
    <3>1. PICK l \in Nat : l = Smaller(2, k - 0) /\ l >= 1 /\ (k >= 2 => l = 2)
      BY <1>1, <2>4 DEF Smaller
    <3>2. Agrees(got, l, content, 0)
      <4>1. 0 < k
        BY <1>1, <2>4
      <4> QED
        BY <1>0, <2>4, <3>1, <4>1, Zenon DEF Got
    <3>3. Len(got) = l /\ \A x \in 1 .. l : got[x] = content[0 + x]
      BY <3>2, Zenon DEF Agrees
    <3>4. \A i \in 1 .. 2 : i <= Len(got) => h[i] = got[i]
      BY HeadersAre
    <3>5. got[1] = content[1] /\ h[1] = got[1]
      BY <3>1, <3>3, <3>4
    <3>6. ASSUME k >= 2 PROVE got[2] = content[2] /\ h[2] = got[2]
      BY <3>1, <3>3, <3>4, <3>6
    <3> QED
      BY <1>3, <2>1, <3>5, <3>6
  <2>5. Reading("segment", d.path, d.from, d.out, n)
    <3>1. "segment" # "read"
      OBVIOUS
    <3> QED
      BY <1>0, <1>1, <2>3, <2>4, <3>1, Zenon DEF Reading
  <2>6. Progress(d, NoIo, n)
    <3>1. NoIo.at = "none"
      BY DEF NoIo
    <3>2. d.at # "walk" /\ d.at # "find" /\ d.at # "list" /\ d.at # "done"
          /\ d.at \notin {"walk", "find"}
      BY <2>3
    <3> QED
      BY <2>3, <2>5, <3>1, <3>2, Zenon DEF Progress
  <2> QED
    BY <2>3, <2>6
<1>4. CASE h[1] # Magic
  <2>1. d = Done(c, "wrong_kind")
    BY <1>2, <1>4
  <2>2. PICK path, out : path = c.path /\ out = c.out
    OBVIOUS
  <2>3. Right("exec", path, "wrong_kind", c.names, out)
    <3>1. "wrong_kind" # "ok" /\ "exec" \in {"ls", "cat", "exec"}
      OBVIOUS
    <3> QED
      BY <1>1, <2>2, <3>1, RightIs, Zenon
  <2>4. Progress(Done(c, "wrong_kind"), NoIo, n)
    BY <2>2, <2>3, DoneProgress
  <2>5. Same(c, Done(c, "wrong_kind")) /\ Done(c, "wrong_kind").at = "done"
    BY DoneFields
  <2> QED
    BY <2>1, <2>4, <2>5
<1> QED
  BY <1>3, <1>4

LEMMA SegmentProgress ==
    ASSUME NEW c \in Cmd, c.at = "segment", c.do = "exec", c.path \in Paths, NEW n, Sized(n),
           GoodNode(n), Reading("segment", c.path, c.from, c.out, n),
           NEW got \in Seq(Byte), Got(n, 2, c.from, got), NEW d \in After(c, got)
    PROVE  Progress(d, NoIo, n) /\ Same(c, d) /\ d.at = "done"
<1>0. PICK content, k, from : content = ContentOf(n) /\ k = n.size /\ from = c.from
  OBVIOUS
<1>1. k \in Nat /\ n.dir \in BOOLEAN /\ Leads(c.path) /\ n = Last(c.path) /\ from \in Nat
  BY <1>0 DEF Sized, Reading, Cmd
<1>2. PICK e : e = [c EXCEPT !.out = got]
  OBVIOUS
<1>3. e \in Cmd /\ e.do = c.do /\ e.path = c.path /\ e.taken = c.taken /\ e.out = got
  BY <1>2 DEF Cmd
<1>4. d = Done(e, "ok")
  BY <1>2 DEF After
<1>5. ASSUME ~ n.dir, content # <<>> PROVE content[1] = Magic /\ got = Segment(content)
  <2>1. Len(content) = k /\ \E S : content \in Seq(S)
    BY <1>0, <1>5, ContentIs
  <2>2. PICK S : content \in Seq(S)
    BY <2>1
  <2>3. k > 0
    BY <1>1, <1>5, <2>1, <2>2
  <2>4. content[1] = Magic /\ (k >= 2 => from = content[2])
    BY <1>0, <1>5, <2>3, Zenon DEF Reading
  <2>5. /\ 2 >= k => got = <<>>
        /\ 2 < k => Agrees(got, Smaller(from, k - 2), content, 2)
    BY <1>0, <1>5, Zenon DEF Got
  <2>6. got = Segment(content)
    BY <1>1, <2>1, <2>2, <2>4, <2>5, SegmentRead
  <2> QED
    BY <2>4, <2>6
<1>6. PICK path : path = c.path
  OBVIOUS
<1>7. Right("exec", path, "ok", e.names, got)
  <2>1. "exec" \in {"ls", "cat", "exec"}
    OBVIOUS
  <2>2. CASE n.dir
    BY <1>1, <1>6, <2>1, <2>2, RightIs, Zenon
  <2>3. CASE ~ n.dir
    <3>1. ContentOf(Last(path)) # <<>> =>
            ContentOf(Last(path))[1] = Magic /\ got = Segment(ContentOf(Last(path)))
      BY <1>0, <1>1, <1>5, <1>6, <2>3
    <3> QED
      BY <1>1, <1>6, <2>1, <2>3, <3>1, RightIs, Zenon
  <2> QED
    BY <2>2, <2>3
<1>8. Right(e.do, e.path, "ok", e.names, e.out)
  BY <1>3, <1>6, <1>7, Zenon
<1>9. Progress(Done(e, "ok"), NoIo, n)
  BY <1>3, <1>8, DoneProgress
<1>10. Same(e, Done(e, "ok")) /\ Done(e, "ok").at = "done"
  BY <1>3, DoneFields
<1> QED
  BY <1>3, <1>4, <1>9, <1>10 DEF Same

LEMMA RequestIs ==
    ASSUME NEW c
    PROVE  /\ c.at = "read" => Request(c)[1] = c.from /\ Request(c)[2] = Chunk
           /\ c.at = "header" => Request(c)[1] = 0 /\ Request(c)[2] = 2
           /\ c.at = "segment" => Request(c)[1] = 2 /\ Request(c)[2] = c.from
BY DEF Request

LEMMA AfterProgress ==
    ASSUME NEW c \in Cmd, NEW i, Flow(c, i), c.at \in {"read", "header", "segment"},
           c.path \in Paths, NEW n, Sized(n), GoodNode(n),
           Reading(c.at, c.path, c.from, c.out, n), NEW got \in Seq(Byte),
           Got(n, Request(c)[1], Request(c)[2], got), NEW d \in After(c, got)
    PROVE  Progress(d, NoIo, n) /\ Same(c, d) /\ (d.at = "done" \/ d.node = c.node)
<1>1. CASE c.at = "read"
  <2>1. c.do = "cat" /\ Reading("read", c.path, c.from, c.out, n)
    BY <1>1 DEF Flow
  <2>2. Got(n, c.from, Chunk, got)
    BY <1>1, RequestIs, Zenon
  <2>3. d = Cat(c, got)
    BY <1>1 DEF After
  <2> QED
    BY <1>1, <2>1, <2>2, <2>3, CatProgress
<1>2. CASE c.at = "header"
  <2>1. c.do = "exec" /\ Reading("header", c.path, c.from, c.out, n)
    BY <1>2 DEF Flow
  <2>2. Got(n, 0, 2, got)
    BY <1>2, RequestIs, Zenon
  <2> QED
    BY <1>2, <2>1, <2>2, HeaderProgress
<1>3. CASE c.at = "segment"
  <2>1. c.do = "exec" /\ Reading("segment", c.path, c.from, c.out, n)
    BY <1>3 DEF Flow
  <2>2. Got(n, 2, c.from, got)
    BY <1>3, RequestIs, Zenon
  <2> QED
    BY <1>3, <2>1, <2>2, SegmentProgress
<1> QED
  BY <1>1, <1>2, <1>3

\* The three ways a read ends: nothing to read, a RAM file, the clusters of a file.
LEMMA NothingGot ==
    ASSUME NEW n, Sized(n), NEW offset \in Nat, NEW size, n.dir \/ offset >= n.size
    PROVE  Got(n, offset, size, <<>>) /\ <<>> \in Seq(Byte)
<1>1. ~ (~ n.dir /\ offset < n.size)
  BY DEF Sized
<1>2. <<>> \in Seq(Byte)
  BY EmptySeq, Zenon
<1> QED
  BY <1>1, <1>2, Zenon DEF Got

LEMMA RamGot ==
    ASSUME NEW n, Sized(n), ~ n.dir, n.cluster = None, NEW offset \in Nat, offset < n.size,
           NEW size \in Nat, NEW want, want = Smaller(size, n.size - offset)
    PROVE  Got(n, offset, size, RamRead(n, offset, want)) /\ RamRead(n, offset, want) \in Seq(Byte)
<1>0. PICK bytes, k : bytes = n.bytes /\ k = n.size
  OBVIOUS
<1>1. bytes \in Seq(Byte) /\ k = Len(bytes) /\ k \in Nat /\ ContentOf(n) = bytes
  BY <1>0, ContentIs DEF Sized
<1>2. want \in Nat /\ offset + want <= k
  BY <1>0, <1>1 DEF Smaller
<1>3. PICK got, end : got = SubSeq(bytes, offset + 1, end) /\ end = offset + want
  OBVIOUS
<1>4. /\ got \in Seq(Byte) /\ Len(got) = (IF offset < end THEN end - offset ELSE 0)
      /\ \A i \in 1 .. end - offset : got[i] = bytes[offset + i]
  <2>1. end \in Nat /\ end \in Int /\ end <= Len(bytes)
    BY <1>1, <1>2, <1>3
  <2>2. /\ SubSeq(bytes, offset + 1, end) \in Seq(Byte)
        /\ Len(SubSeq(bytes, offset + 1, end)) = (IF offset < end THEN end - offset ELSE 0)
        /\ \A i \in 1 .. end - offset : SubSeq(bytes, offset + 1, end)[i] = bytes[offset + i]
    <3>1. bytes \in Seq(Byte) /\ offset \in Nat /\ end \in Int /\ end <= Len(bytes)
      BY <1>1, <2>1
    <3> QED
      BY <3>1, Cut, Zenon
  <2> QED
    BY <1>3, <2>2, Zenon
<1>5. Len(got) = want /\ \A i \in 1 .. want : got[i] = bytes[offset + i]
  <2>1. end - offset = want /\ (IF offset < end THEN end - offset ELSE 0) = want
    BY <1>2, <1>3
  <2> QED
    BY <1>4, <2>1, Zenon
<1>6. Agrees(got, want, ContentOf(n), offset)
  BY <1>1, <1>4, <1>5, Zenon DEF Agrees
<1>7. got = RamRead(n, offset, want)
  BY <1>0, <1>3, Zenon DEF RamRead
<1>8. ~ (offset >= n.size)
  BY <1>0, <1>1
<1> QED
  BY <1>4, <1>6, <1>7, <1>8, Zenon DEF Got

LEMMA FileGot ==
    ASSUME NEW n, Sized(n), GoodNode(n), NEW offset \in Nat, NEW size \in Nat, NEW then,
           NEW sector, NEW my \in ReadLocals, InFile(n, offset, size, then, sector, my),
           Len(my.got) = my.want
    PROVE  Got(n, offset, size, my.got) /\ my.got \in Seq(Byte)
<1>1. PICK got, want : got = my.got /\ want = my.want
  OBVIOUS
<1>2. got \in Seq(Byte) /\ Len(got) = want
  BY <1>1 DEF ReadLocals
<1>3. /\ ~ n.dir /\ offset < n.size /\ n.size \in Nat
      /\ want = Smaller(size, n.size - offset)
      /\ \A x \in 1 .. Len(got) : got[x] = ContentOf(n)[offset + x]
  BY <1>1, InFileIs
<1>4. Agrees(got, want, ContentOf(n), offset)
  BY <1>2, <1>3, Zenon DEF Agrees
<1>5. ~ (offset >= n.size)
  BY <1>3
<1> QED
  BY <1>1, <1>2, <1>3, <1>4, <1>5, Zenon DEF Got

-----------------------------------------------------------------------------
(* The drive.                                                              *)

\* The state of a thread's call changes; those of the others do not.
LEMMA Others ==
    ASSUME TypeInv, NEW t \in Threads, NEW i, io' = [io EXCEPT ![t] = i]
    PROVE  io'[t] = i /\ \A u \in Threads : u # t => io'[u] = io[u]
BY DEF TypeInv, TypeOK

LEMMA QuietDrive ==
    ASSUME TypeInv, DriveInv, NEW t \in Threads, NEW i, io' = [io EXCEPT ![t] = i],
           i.at \notin {"command", "data"}, UNCHANGED <<lba, overlap>>, data' \in {data, None}
    PROVE  DriveInv'
<1> SUFFICES ASSUME ~ overlap'
             PROVE  /\ \A u, v \in Driving' : u = v
                    /\ \A u \in Threads : /\ io'[u].at = "command" => lba' = io'[u].lba
                                          /\ io'[u].at = "data" => data' \in {io'[u].lba, None}
  BY DEF DriveInv
<1>1. /\ \A u, v \in Driving : u = v
      /\ \A u \in Threads : /\ io[u].at = "command" => lba = io[u].lba
                            /\ io[u].at = "data" => data \in {io[u].lba, None}
  BY DEF DriveInv
<1>2. io'[t] = i /\ \A u \in Threads : u # t => io'[u] = io[u]
  BY Others
<1>3. \A u \in Driving' : u \in Driving
  BY <1>2 DEF Driving
<1>4. \A u \in Threads : /\ io'[u].at = "command" => lba' = io'[u].lba
                         /\ io'[u].at = "data" => data' \in {io'[u].lba, None}
  <2> SUFFICES ASSUME NEW u \in Threads
               PROVE  /\ io'[u].at = "command" => lba' = io'[u].lba
                      /\ io'[u].at = "data" => data' \in {io'[u].lba, None}
    OBVIOUS
  <2>1. CASE u = t
    BY <1>2, <2>1
  <2>2. CASE u # t
    BY <1>1, <1>2, <2>2
  <2> QED
    BY <2>1, <2>2
<1> QED
  BY <1>1, <1>3, <1>4

\* The call of a sector goes on, and is otherwise the same.
LEMMA CallOn ==
    ASSUME NEW i \in Io, i.at \in {"address", "command"}, NEW at
    PROVE  \A j : j = [i EXCEPT !.at = at] =>
              j.at = at /\ j.lba = i.lba /\ j.then = i.then /\ j.my = i.my
<1>1. i \in DirCalls \/ i \in ReadCalls
  BY DEF Io, NoIo, BufferCalls
<1> QED
  BY <1>1 DEF DirCalls, ReadCalls

\* One thread at most had the drive; this one takes it next.
LEMMA AddressDrive == ASSUME TypeInv, DriveInv, NEW t \in Threads, Address(t) PROVE DriveInv'
<1>1. PICK i : i = [io[t] EXCEPT !.at = "command"]
  OBVIOUS
<1>2. /\ io' = [io EXCEPT ![t] = i] /\ lba' = io[t].lba /\ data' = data
      /\ overlap' = (overlap \/ \E u \in Threads \ {t} : io[u].at \in {"command", "data"})
      /\ io[t].at = "address"
  BY <1>1 DEF Address
<1>3. i.at = "command" /\ i.lba = io[t].lba
  <2>1. io[t] \in Io
    BY DEF TypeInv, TypeOK
  <2>2. io[t].at \in {"address", "command"}
    BY <1>2
  <2> QED
    BY <1>1, <2>1, <2>2, CallOn
<1>4. io'[t] = i /\ \A u \in Threads : u # t => io'[u] = io[u]
  BY <1>2, Others
<1> SUFFICES ASSUME ~ overlap'
             PROVE  /\ \A u, v \in Driving' : u = v
                    /\ \A u \in Threads : /\ io'[u].at = "command" => lba' = io'[u].lba
                                          /\ io'[u].at = "data" => data' \in {io'[u].lba, None}
  BY DEF DriveInv
<1>5. ~ \E u \in Threads \ {t} : io[u].at \in {"command", "data"}
  BY <1>2, Zenon
<1>6. \A u \in Threads : u # t => ~ (io'[u].at \in {"command", "data"})
  BY <1>4, <1>5
<1>7. \A u \in Driving' : u = t
  BY <1>6 DEF Driving
<1> QED
  BY <1>2, <1>3, <1>4, <1>6, <1>7

\* The command takes its own address.
LEMMA CommandDrive == ASSUME TypeInv, DriveInv, NEW t \in Threads, Command(t) PROVE DriveInv'
<1>1. PICK i : i = [io[t] EXCEPT !.at = "data"]
  OBVIOUS
<1>2. /\ io' = [io EXCEPT ![t] = i] /\ lba' = lba /\ data' \in {lba, None}
      /\ overlap' = overlap /\ io[t].at = "command"
  BY <1>1 DEF Command
<1>3. i.at = "data" /\ i.lba = io[t].lba
  <2>1. io[t] \in Io
    BY DEF TypeInv, TypeOK
  <2>2. io[t].at \in {"address", "command"}
    BY <1>2
  <2> QED
    BY <1>1, <2>1, <2>2, CallOn
<1>4. io'[t] = i /\ \A u \in Threads : u # t => io'[u] = io[u]
  BY <1>2, Others
<1> SUFFICES ASSUME ~ overlap'
             PROVE  /\ \A u, v \in Driving' : u = v
                    /\ \A u \in Threads : /\ io'[u].at = "command" => lba' = io'[u].lba
                                          /\ io'[u].at = "data" => data' \in {io'[u].lba, None}
  BY DEF DriveInv
<1>5. /\ \A u, v \in Driving : u = v
      /\ lba = io[t].lba
  BY <1>2 DEF DriveInv
<1>6. t \in Driving
  BY <1>2 DEF Driving
<1>7. \A u \in Driving' : u \in Driving
  BY <1>4, <1>6 DEF Driving
<1>8. \A u \in Driving' : u = t
  BY <1>5, <1>6, <1>7
<1>9. \A u \in Threads : u # t => ~ (io'[u].at \in {"command", "data"})
  BY <1>8 DEF Driving
<1> QED
  BY <1>2, <1>3, <1>4, <1>5, <1>8, <1>9

\* So what arrives is what was asked for.
LEMMA Asked ==
    ASSUME DriveInv, NEW t \in Threads, NEW then, Arrives(t, then), ~ overlap
    PROVE  data = io[t].lba
BY DEF DriveInv, Arrives

-----------------------------------------------------------------------------
(* The pool.                                                               *)

\* One step further round.
LEMMA RoundOn ==
    ASSUME NEW M \in Nat \ {0}, NEW a \in Nat
    PROVE  ((a % M) + 1) % M = (a + 1) % M
<1>1. PICK q \in Nat, r \in 0 .. M - 1 : a = q * M + r /\ r = a % M
  <2>1. a \div M \in Nat /\ a % M \in 0 .. M - 1 /\ a = (a \div M) * M + (a % M)
    BY Division
  <2> QED
    BY <2>1
<1>2. CASE r + 1 < M
  <2>1. r + 1 \in 0 .. M - 1
    BY <1>2
  <2>2. PICK s \in 0 .. M - 1 : s = r + 1
    BY <2>1
  <2>3. (q * M + s) % M = s
    BY Divided
  <2>4. (0 * M + s) % M = s
    BY Divided
  <2>5. q * M + s = a + 1 /\ 0 * M + s = r + 1
    <3>1. PICK p \in Nat : p = q * M
      BY Times
    <3>2. a = p + r
      BY <1>1, <3>1
    <3>3. p + s = a + 1 /\ 0 * M = 0
      BY <2>2, <3>2
    <3> QED
      BY <2>2, <3>1, <3>3
  <2> QED
    BY <1>1, <2>3, <2>4, <2>5, Zenon
<1>3. CASE ~ (r + 1 < M)
  <2>1. r + 1 = M
    BY <1>3
  <2>2. ((q + 1) * M + 0) % M = 0
    BY Divided
  <2>3. (1 * M + 0) % M = 0
    BY Divided
  <2>4. (q + 1) * M + 0 = a + 1 /\ 1 * M + 0 = r + 1
    <3>1. PICK p \in Nat : p = q * M /\ (q + 1) * M = p + M
      BY Times
    <3>2. a = p + r
      BY <1>1, <3>1
    <3>3. p + M + 0 = a + 1 /\ 1 * M = M
      BY <2>1, <3>2
    <3> QED
      BY <2>1, <3>1, <3>3
  <2> QED
    BY <1>1, <2>2, <2>3, <2>4, Zenon
<1> QED
  BY <1>2, <1>3

\* Fewer than all the slots further is another one.
LEMMA NotRound ==
    ASSUME NEW M \in Nat \ {0}, NEW slot \in 0 .. M - 1, NEW m \in Nat, m + 1 < M
    PROVE  (slot + 1 + m) % M # slot
<1>1. PICK a \in Nat : a = slot + 1 + m
  OBVIOUS
<1>2. CASE a < M
  <2>1. a \in 0 .. M - 1
    BY <1>1, <1>2
  <2>2. (0 * M + a) % M = a
    BY <2>1, Divided
  <2>3. 0 * M + a = a
    OBVIOUS
  <2>4. a # slot
    BY <1>1
  <2> QED
    BY <1>1, <2>2, <2>3, <2>4, Zenon
<1>3. CASE ~ (a < M)
  <2>1. PICK r \in 0 .. M - 1 : a = M + r
    <3>1. a - M \in 0 .. M - 1 /\ a = M + (a - M)
      BY <1>1, <1>3
    <3> QED
      BY <3>1
  <2>2. (1 * M + r) % M = r
    BY Divided
  <2>3. 1 * M + r = a /\ r # slot
    BY <1>1, <2>1
  <2> QED
    BY <1>1, <2>2, <2>3, Zenon
<1> QED
  BY <1>2, <1>3

LEMMA CmdIs ==
    ASSUME NEW c \in Cmd
    PROVE  /\ c.taken \in Nat /\ c.from \in Nat /\ c.node \in Places
           /\ c.names \in Seq(Names) /\ c.out \in Seq(Byte) /\ c.rest \in Seq(Names \cup {"/"})
BY Sizes DEF Cmd

LEMMA CountIs ==
    ASSUME NEW c \in Cmd
    PROVE  /\ Count(c).do = c.do /\ Count(c).path = c.path /\ Count(c).at = c.at
           /\ Count(c).rest = c.rest /\ Count(c).node = c.node /\ Count(c).from = c.from
           /\ Count(c).names = c.names /\ Count(c).out = c.out /\ Count(c).result = c.result
           /\ c.taken <= Count(c).taken /\ Count(c).taken \in Nat
           /\ (c.at # "done" /\ c.node[1] = "fat" /\ Count(c).taken < MAX_FAT32_NODES) =>
                c.taken < MAX_FAT32_NODES /\ Count(c).taken = c.taken + 1
<1>1. CASE c.at # "done" /\ c.node[1] = "fat" /\ c.taken < MAX_FAT32_NODES
  <2>1. PICK k : k = c.taken + 1
    OBVIOUS
  <2>2. PICK d : d = [c EXCEPT !.taken = k]
    OBVIOUS
  <2>3. Count(c) = d
    BY <1>1, <2>1, <2>2, Zenon DEF Count
  <2>4. /\ d.do = c.do /\ d.path = c.path /\ d.at = c.at /\ d.rest = c.rest /\ d.node = c.node
        /\ d.from = c.from /\ d.names = c.names /\ d.out = c.out /\ d.result = c.result
        /\ d.taken = k
    BY <2>2 DEF Cmd
  <2>5. c.taken <= k /\ k \in Nat
    BY <2>1, Sizes DEF Cmd
  <2> QED
    BY <1>1, <2>1, <2>3, <2>4, <2>5
<1>2. CASE ~ (c.at # "done" /\ c.node[1] = "fat" /\ c.taken < MAX_FAT32_NODES)
  <2>1. Count(c) = c
    BY <1>2, Zenon DEF Count
  <2>2. c.taken \in Nat
    BY Sizes DEF Cmd
  <2> QED
    BY <1>2, <2>1, <2>2
<1> QED
  BY <1>1, <1>2

LEMMA CountProgress ==
    ASSUME NEW c \in Cmd, NEW i, NEW n, Progress(c, i, n)
    PROVE  Progress(Count(c), i, n)
<1>1. PICK d : d = Count(c)
  OBVIOUS
<1>2. /\ d.do = c.do /\ d.path = c.path /\ d.at = c.at /\ d.rest = c.rest
      /\ d.from = c.from /\ d.names = c.names /\ d.out = c.out /\ d.result = c.result
  BY <1>1, CountIs, Zenon
<1>3. Request(d) = Request(c)
  BY <1>2, Zenon DEF Request
<1>4. Progress(d, i, n)
  BY <1>2, <1>3, Zenon DEF Progress
<1> QED
  BY <1>1, <1>4, Zenon

LEMMA DoneAnyNode ==
    ASSUME NEW c, NEW i, NEW n, Progress(c, i, n), c.at = "done", NEW m
    PROVE  Progress(c, i, m)
BY DEF Progress

\* A node that is given spares the node of who holds one, until the pool went round.
LEMMA Spared ==
    ASSUME TypeInv, PoolInv, NEW e \in Entry, TakeNode(e), NEW u \in Threads,
           cmd[u].at # "done", Count(cmd[u]).taken < MAX_FAT32_NODES
    PROVE  NodeAt(nodes', cmd[u].node) = NodeAt(nodes, cmd[u].node)
<1>1. PICK c, p : c = cmd[u] /\ p = c.node
  OBVIOUS
<1>2. c \in Cmd /\ p \in Places /\ nodes \in [0 .. MAX_FAT32_NODES - 1 -> DiskNode]
  BY <1>1 DEF TypeInv, TypeOK, Cmd
<1>3. CASE p[1] # "fat"
  BY <1>1, <1>3, <1>2, PlaceIs DEF NodeAt
<1>4. CASE p[1] = "fat"
  <2>1. c.taken < MAX_FAT32_NODES /\ Count(c).taken = c.taken + 1
    BY <1>1, <1>2, <1>4, CountIs
  <2>2. Behind(c, p[2])
    BY <1>1, <1>4, <2>1 DEF PoolInv
  <2>3. c.taken \in Nat /\ MAX_FAT32_NODES \in Nat \ {0} /\ p[2] \in 0 .. MAX_FAT32_NODES - 1
    <3>1. p[2] \in 0 .. MAX_FAT32_NODES - 1
      BY <1>2, <1>4, PlaceIs
    <3>2. c.taken \in Nat /\ MAX_FAT32_NODES \in Nat \ {0}
      BY <1>2, Sizes DEF Cmd
    <3> QED
      BY <3>1, <3>2
  <2>4. PICK m \in 0 .. c.taken : next_node = (p[2] + 1 + m) % MAX_FAT32_NODES
    BY <2>2, Zenon DEF Behind
  <2>5. m \in Nat /\ m + 1 < MAX_FAT32_NODES
    BY <1>1, <2>1, <2>3, <2>4
  <2>6. next_node # p[2]
    BY <2>3, <2>4, <2>5, NotRound
  <2>7. nodes'[p[2]] = nodes[p[2]]
    BY <1>2, <2>3, <2>6 DEF TakeNode
  <2> QED
    BY <1>1, <1>4, <2>7 DEF NodeAt
<1> QED
  BY <1>3, <1>4

-----------------------------------------------------------------------------
(* The steps of a thread, as far as what is known of commands goes.        *)

Keeps(c, d) == /\ d.do = c.do /\ d.path = c.path /\ d.taken = c.taken
               /\ d.at = "done" \/ d.node[1] # "fat" \/ d.node = c.node

\* It takes no node.
Alone(t, d, i) ==
    /\ io' = [io EXCEPT ![t] = i] /\ With(t, d) /\ UNCHANGED <<nodes, next_node>>
    /\ Keeps(cmd[t], d)
    /\ (Trusted(cmd[t]) /\ ~ starved') => Progress(d, i, NodeAt(nodes, d.node))

\* It takes a node, for an entry.
Takes(t, d, e) ==
    /\ io' = [io EXCEPT ![t] = NoIo] /\ WithNode(t, d) /\ TakeNode(e)
    /\ d.do = cmd[t].do /\ d.path = cmd[t].path /\ d.taken = Count(cmd[t]).taken
    /\ d.at = "done" \/ d.node = <<"fat", next_node>> \/ d.node = cmd[t].node
    /\ (Trusted(cmd[t]) /\ d.taken < MAX_FAT32_NODES) => Progress(d, NoIo, NodeAt(nodes', d.node))

LEMMA OthersAlone ==
    ASSUME TypeInv, NEW t \in Threads, NEW d, NEW i, Alone(t, d, i)
    PROVE  /\ cmd'[t] = d /\ io'[t] = i /\ next_node' = next_node /\ nodes' = nodes
           /\ \A u \in Threads : u # t => cmd'[u] = cmd[u] /\ io'[u] = io[u]
BY DEF TypeInv, TypeOK, Alone, With

LEMMA OthersTake ==
    ASSUME TypeInv, NEW t \in Threads, NEW d, NEW e, Takes(t, d, e)
    PROVE  /\ cmd'[t] = d /\ io'[t] = NoIo
           /\ \A u \in Threads : u # t => cmd'[u] = Count(cmd[u]) /\ io'[u] = io[u]
BY DEF TypeInv, TypeOK, Takes, WithNode

LEMMA PoolAlone ==
    ASSUME TypeInv, PoolInv, NEW t \in Threads, cmd[t].at # "done", NEW d, NEW i, Alone(t, d, i)
    PROVE  PoolInv'
<1>1. /\ cmd'[t] = d /\ next_node' = next_node
      /\ \A u \in Threads : u # t => cmd'[u] = cmd[u]
  BY OthersAlone
<1>2. SUFFICES ASSUME NEW u \in Threads, cmd'[u].at # "done", cmd'[u].node[1] = "fat",
                      cmd'[u].taken < MAX_FAT32_NODES
               PROVE  \E m \in 0 .. cmd'[u].taken :
                        next_node' = (cmd'[u].node[2] + 1 + m) % MAX_FAT32_NODES
  BY DEF PoolInv, Behind
<1>3. cmd'[u].node = cmd[u].node /\ cmd'[u].taken = cmd[u].taken /\ cmd[u].at # "done"
  <2>1. CASE u = t
    <3>1. Keeps(cmd[t], d)
      BY DEF Alone
    <3> QED
      BY <1>1, <1>2, <2>1, <3>1 DEF Keeps
  <2>2. CASE u # t
    BY <1>1, <1>2, <2>2
  <2> QED
    BY <2>1, <2>2
<1>4. Behind(cmd[u], cmd[u].node[2])
  BY <1>2, <1>3 DEF PoolInv
<1> QED
  BY <1>1, <1>3, <1>4 DEF Behind

LEMMA PoolTakes ==
    ASSUME TypeInv, PoolInv, NEW t \in Threads, cmd[t].at # "done", NEW d, NEW e \in Entry,
           Takes(t, d, e)
    PROVE  PoolInv'
<1>0. PICK next : next = next_node
  OBVIOUS
<1>1. /\ cmd'[t] = d /\ next_node' = (next + 1) % MAX_FAT32_NODES
      /\ \A u \in Threads : u # t => cmd'[u] = Count(cmd[u])
  BY <1>0, OthersTake DEF Takes, TakeNode
<1>2. SUFFICES ASSUME NEW u \in Threads, cmd'[u].at # "done", cmd'[u].node[1] = "fat",
                      cmd'[u].taken < MAX_FAT32_NODES
               PROVE  \E m \in 0 .. cmd'[u].taken :
                        next_node' = (cmd'[u].node[2] + 1 + m) % MAX_FAT32_NODES
  BY DEF PoolInv, Behind
<1>3. PICK c, p : c = cmd[u] /\ p = c.node
  OBVIOUS
<1>4. c \in Cmd /\ p \in Places
  BY <1>3, Between
<1>5. cmd'[u].taken = Count(c).taken
  BY <1>1, <1>3, Zenon DEF Takes
<1>6. MAX_FAT32_NODES \in Nat \ {0} /\ next \in 0 .. MAX_FAT32_NODES - 1
      /\ Count(c).taken \in Nat
  BY <1>0, <1>4, CountIs, Sizes DEF TypeInv, TypeOK
<1>7. CASE cmd'[u].node = <<"fat", next>>
  <2>1. next_node' = (cmd'[u].node[2] + 1 + 0) % MAX_FAT32_NODES
    BY <1>1, <1>6, <1>7
  <2> QED
    BY <1>5, <1>6, <2>1
<1>8. CASE cmd'[u].node = p /\ c.at # "done"
  <2>1. c.taken < MAX_FAT32_NODES /\ Count(c).taken = c.taken + 1 /\ c.taken \in Nat
    <3>1. c.node[1] = "fat" /\ Count(c).taken < MAX_FAT32_NODES
      BY <1>2, <1>3, <1>5, <1>8
    <3> QED
      BY <1>4, <1>8, <3>1, CountIs, CmdIs
  <2>2. Behind(c, p[2])
    BY <1>2, <1>3, <1>8, <2>1 DEF PoolInv
  <2>3. PICK m \in 0 .. c.taken : next = (p[2] + 1 + m) % MAX_FAT32_NODES
    BY <1>0, <2>2 DEF Behind
  <2>4. p[2] \in Nat
    BY <1>2, <1>4, <1>8, PlaceIs
  <2>5. PICK a \in Nat : a = p[2] + 1 + m
    BY <2>1, <2>4
  <2>6. ((a % MAX_FAT32_NODES) + 1) % MAX_FAT32_NODES = (a + 1) % MAX_FAT32_NODES
    BY <1>6, RoundOn
  <2>7. a + 1 = p[2] + 1 + (m + 1) /\ m + 1 \in 0 .. Count(c).taken
    BY <2>1, <2>4, <2>5
  <2>8. next_node' = (p[2] + 1 + (m + 1)) % MAX_FAT32_NODES
    BY <1>1, <2>3, <2>5, <2>6, <2>7, Zenon
  <2> QED
    BY <1>5, <1>8, <2>7, <2>8
<1> QED
  <2>1. CASE u = t
    <3>1. d.at = "done" \/ d.node = <<"fat", next>> \/ d.node = cmd[t].node
      BY <1>0 DEF Takes
    <3> QED
      BY <1>1, <1>2, <1>3, <1>7, <1>8, <2>1, <3>1
  <2>2. CASE u # t
    BY <1>1, <1>2, <1>3, <1>4, <1>8, <2>2, CountIs
  <2> QED
    BY <2>1, <2>2

\* Trusted, after a step.
StillTrusted(c) == /\ c.do # "none" /\ ~ overlap' /\ ~ starved'
                   /\ c.taken < MAX_FAT32_NODES /\ GoodPath(c.path)

LEMMA NextProgress ==
    ASSUME \A u \in Threads : StillTrusted(cmd'[u]) =>
             Progress(cmd'[u], io'[u], NodeAt(nodes', cmd'[u].node))
    PROVE  ProgressInv'
<1> SUFFICES ASSUME NEW u \in Threads, Trusted(cmd[u])'
             PROVE  Progress(cmd'[u], io'[u], Node(cmd[u].node)')
  BY DEF ProgressInv
<1>1. StillTrusted(cmd'[u])
  BY DEF Trusted, StillTrusted
<1>2. Node(cmd[u].node)' = NodeAt(nodes', cmd'[u].node)
  BY DEF Node, NodeAt
<1> QED
  BY <1>1, <1>2

LEMMA TrustedBefore ==
    ASSUME NEW c, NEW d, d.do = c.do, d.path = c.path, c.taken \in Nat, d.taken \in Nat,
           c.taken <= d.taken, overlap => overlap', starved => starved', StillTrusted(d)
    PROVE  Trusted(c) /\ ~ starved' /\ d.taken < MAX_FAT32_NODES
BY Sizes DEF Trusted, StillTrusted

LEMMA ProgressAlone ==
    ASSUME TypeInv, ProgressInv, NEW t \in Threads, NEW d, NEW i, Alone(t, d, i),
           overlap => overlap', starved => starved'
    PROVE  ProgressInv'
<1>1. /\ cmd'[t] = d /\ io'[t] = i /\ nodes' = nodes
      /\ \A u \in Threads : u # t => cmd'[u] = cmd[u] /\ io'[u] = io[u]
  BY OthersAlone
<1>2. Keeps(cmd[t], d) /\ ((Trusted(cmd[t]) /\ ~ starved') => Progress(d, i, NodeAt(nodes, d.node)))
  BY DEF Alone
<1>3. ASSUME NEW u \in Threads, StillTrusted(cmd'[u])
      PROVE  Progress(cmd'[u], io'[u], NodeAt(nodes', cmd'[u].node))
  <2>1. cmd[u] \in Cmd /\ cmd[u].taken \in Nat
    BY Between, CmdIs
  <2>2. CASE u = t
    <3>1. d.do = cmd[t].do /\ d.path = cmd[t].path /\ d.taken = cmd[t].taken
      BY <1>2 DEF Keeps
    <3>2. cmd[t].taken \in Nat /\ d.taken \in Nat /\ cmd[t].taken <= d.taken
      BY <2>1, <2>2, <3>1
    <3>3. StillTrusted(d)
      BY <1>1, <1>3, <2>2
    <3>4. Trusted(cmd[t]) /\ ~ starved'
      BY <3>1, <3>2, <3>3, TrustedBefore
    <3> QED
      BY <1>1, <1>2, <2>2, <3>4
  <2>3. CASE u # t
    <3>1. cmd'[u] = cmd[u] /\ io'[u] = io[u]
      BY <1>1, <2>3
    <3>2. Trusted(cmd[u])
      <4>1. StillTrusted(cmd[u]) /\ cmd[u].taken <= cmd[u].taken
        BY <1>3, <2>1, <3>1
      <4> QED
        BY <2>1, <4>1, TrustedBefore
    <3>3. Progress(cmd[u], io[u], NodeAt(nodes, cmd[u].node))
      BY <3>2, NodesAt DEF ProgressInv
    <3> QED
      BY <1>1, <3>1, <3>3
  <2> QED
    BY <2>2, <2>3
<1> QED
  BY <1>3, NextProgress

LEMMA ProgressTakes ==
    ASSUME TypeInv, PoolInv, ProgressInv, NEW t \in Threads, NEW d, NEW e \in Entry,
           Takes(t, d, e), UNCHANGED <<overlap, starved>>
    PROVE  ProgressInv'
<1>1. /\ cmd'[t] = d /\ io'[t] = NoIo
      /\ \A u \in Threads : u # t => cmd'[u] = Count(cmd[u]) /\ io'[u] = io[u]
  BY OthersTake
<1>2. /\ d.do = cmd[t].do /\ d.path = cmd[t].path /\ d.taken = Count(cmd[t]).taken
      /\ (Trusted(cmd[t]) /\ d.taken < MAX_FAT32_NODES) =>
           Progress(d, NoIo, NodeAt(nodes', d.node))
      /\ TakeNode(e)
  BY DEF Takes
<1>3. ASSUME NEW u \in Threads, StillTrusted(cmd'[u])
      PROVE  Progress(cmd'[u], io'[u], NodeAt(nodes', cmd'[u].node))
  <2>1. cmd[u] \in Cmd /\ cmd[u].taken \in Nat /\ Count(cmd[u]).taken \in Nat
        /\ cmd[u].taken <= Count(cmd[u]).taken
    BY Between, CmdIs, CountIs
  <2>2. CASE u = t
    <3>1. cmd[t].taken \in Nat /\ d.taken \in Nat /\ cmd[t].taken <= d.taken
      BY <1>2, <2>1, <2>2
    <3>2. StillTrusted(d)
      BY <1>1, <1>3, <2>2
    <3>3. Trusted(cmd[t]) /\ d.taken < MAX_FAT32_NODES
      BY <1>2, <3>1, <3>2, TrustedBefore
    <3> QED
      BY <1>1, <1>2, <2>2, <3>3
  <2>3. CASE u # t
    <3>0. PICK c : c = Count(cmd[u])
      OBVIOUS
    <3>1. cmd'[u] = c /\ io'[u] = io[u]
      BY <1>1, <2>3, <3>0
    <3>2. /\ c.do = cmd[u].do /\ c.path = cmd[u].path /\ c.at = cmd[u].at /\ c.node = cmd[u].node
      BY <2>1, <3>0, CountIs
    <3>3. Trusted(cmd[u]) /\ c.taken < MAX_FAT32_NODES
      <4>1. StillTrusted(c) /\ c.taken \in Nat /\ cmd[u].taken <= c.taken
        BY <1>3, <2>1, <3>0, <3>1
      <4> QED
        BY <2>1, <3>2, <4>1, TrustedBefore
    <3>4. Progress(cmd[u], io[u], NodeAt(nodes, cmd[u].node))
      BY <3>3, NodesAt DEF ProgressInv
    <3>5. Progress(c, io[u], NodeAt(nodes, cmd[u].node))
      BY <2>1, <3>0, <3>4, CountProgress
    <3>6. Progress(c, io[u], NodeAt(nodes', cmd[u].node))
      <4>1. CASE c.at = "done"
        BY <3>5, <4>1, DoneAnyNode
      <4>2. CASE c.at # "done"
        <5>1. NodeAt(nodes', cmd[u].node) = NodeAt(nodes, cmd[u].node)
          BY <1>2, <3>0, <3>2, <3>3, <4>2, Spared
        <5> QED
          BY <3>5, <5>1
      <4> QED
        BY <4>1, <4>2
    <3> QED
      BY <3>1, <3>2, <3>6
  <2> QED
    BY <2>2, <2>3
<1> QED
  BY <1>3, NextProgress

FilesInv == TypeInv /\ DriveInv /\ PoolInv /\ ProgressInv

Proceeds(t) ==
    /\ cmd[t].at # "done" /\ UNCHANGED <<lba, overlap>> /\ data' \in {data, None}
    /\ starved => starved'
    /\ \/ \E d, i : Alone(t, d, i) /\ i.at \notin {"command", "data"}
       \/ \E d, e : e \in Entry /\ Takes(t, d, e) /\ UNCHANGED starved

LEMMA ProceedsInv ==
    ASSUME FilesInv, TypeInv', NEW t \in Threads, Proceeds(t)
    PROVE  FilesInv'
<1>1. TypeInv /\ DriveInv /\ PoolInv /\ ProgressInv
  BY DEF FilesInv
<1>2. /\ cmd[t].at # "done" /\ UNCHANGED <<lba, overlap>> /\ data' \in {data, None}
      /\ starved => starved'
  BY DEF Proceeds
<1>3. CASE \E d, i : Alone(t, d, i) /\ i.at \notin {"command", "data"}
  <2>1. PICK d, i : Alone(t, d, i) /\ i.at \notin {"command", "data"}
    BY <1>3
  <2>2. io' = [io EXCEPT ![t] = i]
    BY <2>1 DEF Alone
  <2>3. DriveInv'
    BY <1>1, <1>2, <2>1, <2>2, QuietDrive
  <2>4. PoolInv'
    BY <1>1, <1>2, <2>1, PoolAlone
  <2>5. ProgressInv'
    BY <1>1, <1>2, <2>1, ProgressAlone
  <2> QED
    BY <2>3, <2>4, <2>5 DEF FilesInv
<1>4. CASE \E d, e : e \in Entry /\ Takes(t, d, e) /\ UNCHANGED starved
  <2>1. PICK d, e : e \in Entry /\ Takes(t, d, e) /\ UNCHANGED starved
    BY <1>4
  <2>2. io' = [io EXCEPT ![t] = NoIo] /\ NoIo.at \notin {"command", "data"}
    BY <2>1 DEF Takes, NoIo
  <2>3. DriveInv'
    BY <1>1, <1>2, <2>2, QuietDrive
  <2>4. PoolInv'
    BY <1>1, <1>2, <2>1, PoolTakes
  <2>5. ProgressInv'
    BY <1>1, <1>2, <2>1, ProgressTakes
  <2> QED
    BY <2>3, <2>4, <2>5 DEF FilesInv
<1> QED
  BY <1>3, <1>4 DEF Proceeds

\* The address and the command leave the call what it is.
LEMMA ProgressOn ==
    ASSUME NEW c, NEW i, NEW n, Progress(c, i, n), i.at \in {"address", "command"}, NEW j,
           j.at \in {"command", "data"}, j.lba = i.lba, j.then = i.then, j.my = i.my
    PROVE  Progress(c, j, n)
<1>1. i.at # "none" /\ j.at # "none" /\ i.at # "buffer" /\ j.at # "buffer"
  OBVIOUS
<1>2. Purpose(j) = Purpose(i)
  BY <1>1, Zenon DEF Purpose
<1> QED
  BY <1>1, <1>2, Zenon DEF Progress

LEMMA OnInv ==
    ASSUME FilesInv, TypeInv', DriveInv', NEW t \in Threads, io[t].at \in {"address", "command"},
           NEW at \in {"command", "data"}, io' = [io EXCEPT ![t].at = at],
           UNCHANGED <<nodes, next_node, cmd, starved>>, overlap => overlap'
    PROVE  FilesInv'
<1>1. TypeInv /\ PoolInv /\ ProgressInv
  BY DEF FilesInv
<1>2. PICK i : i = [io[t] EXCEPT !.at = at]
  OBVIOUS
<1>3. io' = [io EXCEPT ![t] = i]
  BY <1>2
<1>4. io[t] \in Io /\ cmd[t] \in Cmd /\ Flow(cmd[t], io[t])
  BY <1>1, Between
<1>5. i.at = at /\ i.lba = io[t].lba /\ i.then = io[t].then /\ i.my = io[t].my
  BY <1>2, <1>4, CallOn
<1>6. cmd' = [cmd EXCEPT ![t] = cmd[t]]
  BY <1>1 DEF TypeInv, TypeOK
<1>7. cmd[t].at # "done"
  BY <1>4 DEF Flow, NoIo
<1>8. Trusted(cmd[t]) => Progress(cmd[t], i, NodeAt(nodes, cmd[t].node))
  <2> SUFFICES ASSUME Trusted(cmd[t]) PROVE Progress(cmd[t], i, NodeAt(nodes, cmd[t].node))
    OBVIOUS
  <2>1. Progress(cmd[t], io[t], NodeAt(nodes, cmd[t].node))
    BY <1>1, NodesAt DEF ProgressInv
  <2> QED
    BY <1>5, <2>1, ProgressOn
<1>9. Alone(t, cmd[t], i)
  BY <1>3, <1>6, <1>8 DEF Alone, With, Keeps
<1>10. PoolInv'
  BY <1>1, <1>7, <1>9, PoolAlone
<1>11. ProgressInv'
  BY <1>1, <1>9, ProgressAlone
<1> QED
  BY <1>10, <1>11 DEF FilesInv

LEMMA AddressInv == ASSUME FilesInv, NEW t \in Threads, Address(t) PROVE FilesInv'
<1>1. TypeInv' /\ DriveInv'
  BY AddressType, AddressDrive DEF FilesInv
<1>2. /\ io[t].at \in {"address", "command"} /\ io' = [io EXCEPT ![t].at = "command"]
      /\ UNCHANGED <<nodes, next_node, cmd, starved>> /\ (overlap => overlap')
  BY DEF Address
<1> QED
  BY <1>1, <1>2, OnInv

LEMMA CommandInv == ASSUME FilesInv, NEW t \in Threads, Command(t) PROVE FilesInv'
<1>1. TypeInv' /\ DriveInv'
  BY CommandType, CommandDrive DEF FilesInv
<1>2. /\ io[t].at \in {"address", "command"} /\ io' = [io EXCEPT ![t].at = "data"]
      /\ UNCHANGED <<nodes, next_node, cmd, starved>> /\ (overlap => overlap')
  BY DEF Command
<1> QED
  BY <1>1, <1>2, OnInv

-----------------------------------------------------------------------------
(* The walk of a path.                                                     *)

LEMMA FoundSame ==
    ASSUME NEW c \in Cmd, c.do # "none", NEW p, NEW n
    PROVE  LET d == Found(c, p, n)
           IN  Same(c, d) /\ (d.at = "done" \/ d.node = p)
<1>1. PICK rest : rest = <<>>
  OBVIOUS
<1>2. c.do \in {"ls", "cat", "exec"}
  BY DEF Cmd
<1>3. ASSUME NEW at \in {"list", "read", "header"},
             Found(c, p, n) = [c EXCEPT !.at = at, !.node = p, !.rest = rest, !.from = 0]
      PROVE  Same(c, Found(c, p, n)) /\ Found(c, p, n).node = p
  BY <1>3 DEF Cmd, Same
<1>4. ASSUME Found(c, p, n) = Done(c, "wrong_kind")
      PROVE  Same(c, Found(c, p, n)) /\ Found(c, p, n).at = "done"
  BY <1>4, DoneFields
<1>5. CASE c.do = "ls" /\ n.dir
  <2>1. Found(c, p, n) = [c EXCEPT !.at = "list", !.node = p, !.rest = rest, !.from = 0]
    BY <1>1, <1>5, Zenon DEF Found
  <2> QED
    BY <1>3, <2>1
<1>6. CASE c.do = "cat" /\ ~ n.dir
  <2>1. Found(c, p, n) = [c EXCEPT !.at = "read", !.node = p, !.rest = rest, !.from = 0]
    BY <1>1, <1>6, Zenon DEF Found
  <2> QED
    BY <1>3, <2>1
<1>7. CASE c.do = "exec"
  <2>1. Found(c, p, n) = [c EXCEPT !.at = "header", !.node = p, !.rest = rest, !.from = 0]
    BY <1>1, <1>7, Zenon DEF Found
  <2> QED
    BY <1>3, <2>1
<1>8. CASE (c.do = "ls" /\ ~ n.dir) \/ (c.do = "cat" /\ n.dir)
  <2>1. Found(c, p, n) = Done(c, "wrong_kind")
    BY <1>8, Zenon DEF Found
  <2> QED
    BY <1>4, <2>1
<1> QED
  BY <1>2, <1>5, <1>6, <1>7, <1>8

LEMMA ChildSame ==
    ASSUME NEW c \in Cmd, c.do # "none", NEW p, NEW n, NEW rest
    PROVE  LET d == Child(c, p, n, rest)
           IN  Same(c, d) /\ (d.at = "done" \/ d.node = p)
<1>1. CASE rest = <<>>
  BY <1>1, FoundSame, Zenon DEF Child
<1>2. CASE rest # <<>>
  <2>1. PICK tail : tail = Tail(rest)
    OBVIOUS
  <2>2. PICK d : d = [c EXCEPT !.at = "walk", !.node = p, !.rest = tail]
    OBVIOUS
  <2>3. Child(c, p, n, rest) = d
    BY <1>2, <2>1, <2>2, Zenon DEF Child
  <2>4. Same(c, d) /\ d.node = p
    BY <2>2 DEF Cmd, Same
  <2> QED
    BY <2>3, <2>4
<1> QED
  BY <1>1, <1>2

LEMMA AfterSame ==
    ASSUME NEW c \in Cmd, c.at \in {"read", "header", "segment"}, NEW got, NEW d \in After(c, got)
    PROVE  Same(c, d) /\ (d.at = "done" \/ d.node = c.node)
<1>1. CASE c.at = "read" /\ got = <<>>
  <2>1. d = Done(c, "ok")
    BY <1>1 DEF After, Cat
  <2> QED
    BY <2>1, DoneFields
<1>2. CASE c.at = "read" /\ got # <<>>
  <2>1. PICK out, from : out = c.out \o got /\ from = c.from + Len(got)
    OBVIOUS
  <2>2. d = [c EXCEPT !.out = out, !.from = from]
    BY <1>2, <2>1 DEF After, Cat
  <2> QED
    BY <2>2 DEF Cmd, Same
<1>3. CASE c.at = "header"
  <2>1. PICK h \in Headers(got) : d = IF h[1] = Magic THEN [c EXCEPT !.at = "segment", !.from = h[2]]
                                      ELSE Done(c, "wrong_kind")
    BY <1>3 DEF After
  <2>2. CASE h[1] = Magic
    <3>1. PICK from : from = h[2]
      OBVIOUS
    <3>2. d = [c EXCEPT !.at = "segment", !.from = from]
      BY <2>1, <2>2, <3>1
    <3> QED
      BY <3>2 DEF Cmd, Same
  <2>3. CASE h[1] # Magic
    BY <2>1, <2>3, DoneFields
  <2> QED
    BY <2>2, <2>3
<1>4. CASE c.at = "segment"
  <2>1. PICK e : e = [c EXCEPT !.out = got]
    OBVIOUS
  <2>2. d = Done(e, "ok")
    BY <1>4, <2>1 DEF After
  <2>3. d.do = e.do /\ d.path = e.path /\ d.taken = e.taken /\ d.at = "done"
    BY <2>2 DEF Done
  <2>4. e.do = c.do /\ e.path = c.path /\ e.taken = c.taken
    BY <2>1 DEF Cmd
  <2> QED
    BY <2>3, <2>4 DEF Same
<1> QED
  BY <1>1, <1>2, <1>3, <1>4

\* The walk stands before a name of the path, in the node the trail has come to.
Stands(path, p, n) ==
    /\ path \in Paths /\ p \in 1 .. Len(path) /\ path[p] # "/"
    /\ Depth(path, p) <= Len(Trail[path]) /\ n = Trail[path][Depth(path, p)] /\ GoodNode(n)

LEMMA StandsIs ==
    ASSUME NEW path, NEW p, NEW n, Stands(path, p, n)
    PROVE  /\ n \in DiskNode \cup RamNode
           /\ (n.dir => \A i \in 1 .. Len(NodesIn(n)) : NodesIn(n)[i].name # path[p])
                => ~ Leads(path)
           /\ n.dir => At(path, p, Depth(path, p), n)
<1>1. PICK d : d = Depth(path, p)
  OBVIOUS
<1>2. /\ path \in Paths /\ p \in 1 .. Len(path) /\ path[p] # "/"
      /\ d <= Len(Trail[path]) /\ n = Trail[path][d] /\ GoodNode(n)
  BY <1>1, Zenon DEF Stands
<1>3. n.dir => At(path, p, d, n)
  BY <1>1, <1>2, Zenon DEF At
<1>4. n \in DiskNode \cup RamNode
  BY <1>1, <1>2, TrailChild
<1>5. (n.dir => \A i \in 1 .. Len(NodesIn(n)) : NodesIn(n)[i].name # path[p]) => ~ Leads(path)
  BY <1>1, <1>2, TrailChild
<1> QED
  BY <1>1, <1>3, <1>4, <1>5, Zenon

LEMMA RootDirectory ==
    ASSUME NEW n, n = Directory("root", None)
    PROVE  n.dir /\ n.cluster = None /\ NodesIn(n) = RamFiles
<1>1. n.dir /\ n.cluster = None
  BY Zenon DEF Directory
<1> QED
  BY <1>1, Zenon DEF NodesIn

LEMMA WalkRoot ==
    ASSUME NEW path, NEW p, NEW n, Stands(path, p, n), n = Directory("root", None),
           NEW child, child = RamChild(path[p])
    PROVE  /\ child = 0 => ~ Leads(path)
           /\ child # 0 => child \in DOMAIN RamFiles /\ GoesTo(path, Depth(path, p), RamFiles[child])
<1>1. PICK name : name = path[p]
  OBVIOUS
<1>2. n.dir /\ NodesIn(n) = RamFiles
  BY RootDirectory
<1>3. n \in DiskNode \cup RamNode /\ At(path, p, Depth(path, p), n) /\ GoodNode(n)
  BY <1>2, StandsIs DEF Stands
<1>4. Len(RamFiles) \in Nat /\ DOMAIN RamFiles = 1 .. Len(RamFiles)
  <2>1. Len(NodesIn(n)) \in Nat /\ DOMAIN NodesIn(n) = 1 .. Len(NodesIn(n))
    BY <1>2, <1>3, NodesInAre
  <2> QED
    BY <1>2, <2>1, Zenon
<1>5. \/ child = 0 /\ \A i \in 1 .. Len(RamFiles) : RamFiles[i].name # name
      \/ /\ child \in 1 .. Len(RamFiles) /\ child \in Nat \ {0} /\ RamFiles[child].name = name
         /\ \A j \in 1 .. child - 1 : RamFiles[j].name # name
  BY <1>1, <1>4, RamChildIs
<1>6. CASE child = 0
  <2>1. \A i \in 1 .. Len(NodesIn(n)) : NodesIn(n)[i].name # path[p]
    BY <1>1, <1>2, <1>5, <1>6
  <2> QED
    BY <1>6, <2>1, StandsIs
<1>7. CASE child # 0
  <2>1. FirstNamed(n, path[p], child)
    BY <1>1, <1>2, <1>5, <1>7, Zenon DEF FirstNamed
  <2>2. GoesTo(path, Depth(path, p), NodesIn(n)[child])
    BY <1>3, <2>1, TrailFirst, Zenon
  <2> QED
    BY <1>2, <1>4, <1>5, <1>7, <2>2, Zenon
<1> QED
  BY <1>6, <1>7

LEMMA WalkNowhere ==
    ASSUME NEW path, NEW p, NEW n, Stands(path, p, n),
           ~ n.dir \/ (n.cluster # None /\ ~ InUse(n.cluster))
    PROVE  ~ Leads(path)
<1>1. n.dir => \A i \in 1 .. Len(NodesIn(n)) : NodesIn(n)[i].name # path[p]
  <2> SUFFICES ASSUME n.dir PROVE \A i \in 1 .. Len(NodesIn(n)) : NodesIn(n)[i].name # path[p]
    OBVIOUS
  <2>1. n \in DiskNode \cup RamNode /\ GoodNode(n)
    BY StandsIs DEF Stands
  <2>2. Len(NodesIn(n)) = 0
    BY <2>1, NodesInAre
  <2> QED
    BY <2>2
<1> QED
  BY <1>1, StandsIs

LEMMA WalkInto ==
    ASSUME NEW path, NEW p, NEW n, Stands(path, p, n), n.dir, n.cluster # None,
           InUse(n.cluster), NEW my,
           my = [cluster |-> n.cluster, sector |-> 0, seen |-> 0, index |-> 0]
    PROVE  Finding(path, SubSeq(path, p, Len(path)), "entries", SectorOf(n.cluster, 0), my, n)
<1>1. n.cluster \in DOMAIN Children /\ 0 \in Nat
  BY DEF Stands, GoodNode
<1>2. InDir(n.cluster, "entries", SectorOf(n.cluster, 0), my) /\ my.index = 0
  BY <1>1, DirBegins, Zenon
<1>3. \A j \in 1 .. my.index : FALSE
  BY <1>2
<1> QED
  BY <1>2, <1>3, Zenon DEF Stands, Finding

\* What is known of a command that is on its way.
LEMMA Known ==
    ASSUME TypeInv, ProgressInv, NEW t \in Threads, Trusted(cmd[t]), cmd[t].at # "done",
           NEW n, n = NodeAt(nodes, cmd[t].node)
    PROVE  /\ Progress(cmd[t], io[t], n) /\ GoodNode(n) /\ Sized(n) /\ n \in DiskNode \cup RamNode
           /\ cmd[t].path \in Paths /\ GoodPath(cmd[t].path)
<1>1. Progress(cmd[t], io[t], n)
  BY NodesAt DEF ProgressInv
<1>2. GoodNode(n)
  BY <1>1, Zenon DEF Progress
<1>3. cmd[t].path \in Paths /\ cmd[t].node \in Places
      /\ nodes \in [0 .. MAX_FAT32_NODES - 1 -> DiskNode]
  BY Between
<1>4. Sized(n) /\ n \in DiskNode \cup RamNode
  BY <1>3, NodeSize, NodeType DEF Sized
<1>5. GoodPath(cmd[t].path)
  BY DEF Trusted
<1> QED
  BY <1>1, <1>2, <1>3, <1>4, <1>5

\* A step without a call, that takes no node.
LEMMA QuietStep ==
    ASSUME FilesInv, NEW t \in Threads, cmd[t].at # "done", NEW d, NoCall(t), With(t, d),
           UNCHANGED <<nodes, next_node, lba, overlap>>, data' \in {data, None},
           starved => starved', Same(cmd[t], d),
           d.at = "done" \/ d.node[1] # "fat" \/ d.node = cmd[t].node,
           (Trusted(cmd[t]) /\ ~ starved') => Progress(d, NoIo, NodeAt(nodes, d.node))
    PROVE  Proceeds(t)
<1>1. Keeps(cmd[t], d)
  BY DEF Keeps, Same
<1>2. Alone(t, d, NoIo)
  BY <1>1 DEF Alone, NoCall
<1>3. NoIo.at \notin {"command", "data"}
  BY DEF NoIo
<1> QED
  BY <1>2, <1>3 DEF Proceeds

\* A step with a call, that takes no node.
LEMMA CallStep ==
    ASSUME FilesInv, NEW t \in Threads, cmd[t].at # "done", NEW d, NEW i,
           i.at \notin {"command", "data"}, io' = [io EXCEPT ![t] = i], With(t, d),
           UNCHANGED <<nodes, next_node, lba, overlap>>, data' \in {data, None},
           starved => starved', Same(cmd[t], d), d.node = cmd[t].node,
           (Trusted(cmd[t]) /\ ~ starved') => Progress(d, i, NodeAt(nodes, cmd[t].node))
    PROVE  Proceeds(t)
<1>1. Keeps(cmd[t], d)
  BY DEF Keeps, Same
<1>2. Alone(t, d, i)
  BY <1>1 DEF Alone
<1> QED
  BY <1>2 DEF Proceeds

LEMMA DoneStep ==
    ASSUME FilesInv, NEW t \in Threads, cmd[t].at # "done", NEW r, NoCall(t),
           With(t, Done(cmd[t], r)), UNCHANGED <<nodes, next_node, lba, overlap>>,
           data' \in {data, None}, starved => starved',
           (Trusted(cmd[t]) /\ ~ starved') =>
             Right(cmd[t].do, cmd[t].path, r, cmd[t].names, cmd[t].out)
    PROVE  Proceeds(t)
<1>1. cmd[t] \in Cmd
  BY Between DEF FilesInv
<1>2. PICK d : d = Done(cmd[t], r)
  OBVIOUS
<1>3. Same(cmd[t], d) /\ d.at = "done"
  BY <1>1, <1>2, DoneFields
<1>4. (Trusted(cmd[t]) /\ ~ starved') => Progress(d, NoIo, NodeAt(nodes, d.node))
  BY <1>1, <1>2, DoneProgress
<1> QED
  BY <1>2, <1>3, <1>4, QuietStep

\* The end of a walk that was bound to find nothing.
LEMMA MissingStep ==
    ASSUME FilesInv, NEW t \in Threads, cmd[t].at \in {"walk", "find"}, NoCall(t),
           With(t, Done(cmd[t], "missing")), UNCHANGED <<nodes, next_node, lba, overlap>>,
           data' \in {data, None}, starved => starved',
           Trusted(cmd[t]) => ~ Leads(cmd[t].path)
    PROVE  Proceeds(t)
<1>1. cmd[t].at # "done"
  OBVIOUS
<1>2. ASSUME Trusted(cmd[t]) PROVE Right(cmd[t].do, cmd[t].path, "missing", cmd[t].names, cmd[t].out)
  <2>1. cmd[t] \in Cmd /\ cmd[t].path \in Paths /\ cmd[t].do # "none"
    BY <1>1, Between DEF FilesInv
  <2>2. cmd[t].do \in {"ls", "cat", "exec"}
    BY <2>1 DEF Cmd
  <2> QED
    BY <1>2, <2>1, <2>2, RightIs
<1> QED
  BY <1>1, <1>2, DoneStep

LEMMA Placed ==
    ASSUME NEW d, NEW i, NEW n, Progress(d, i, n), NEW pool,
           d.at = "done" \/ NodeAt(pool, d.node) = n
    PROVE  Progress(d, i, NodeAt(pool, d.node))
BY DoneAnyNode

\* The path ends here, or its next name is to be looked for.
WalksOn(path, rest, stripped, n) ==
    /\ rest # <<>>
    /\ stripped = <<>> => Leads(path) /\ n = Last(path)
    /\ stripped # <<>> =>
         \E p : /\ Stands(path, p, n) /\ stripped = SubSeq(path, p, Len(path))
                /\ Head(stripped) = path[p] /\ Tail(stripped) = SubSeq(path, p + 1, Len(path))

LEMMA WalkStands ==
    ASSUME NEW path \in Paths, NEW rest, NEW n, GoodNode(n), Walking(path, rest, n),
           NEW stripped, stripped = Stripped(rest)
    PROVE  WalksOn(path, rest, stripped, n)
<1>1. /\ rest # <<>>
      /\ \/ stripped = <<>> /\ Leads(path) /\ n = Last(path)
         \/ \E p \in 1 .. Len(path) :
              /\ path[p] # "/" /\ stripped = SubSeq(path, p, Len(path)) /\ stripped # <<>>
              /\ Depth(path, p) <= Len(Trail[path]) /\ n = Trail[path][Depth(path, p)]
  BY WalkOn
<1>2. ASSUME stripped # <<>>
      PROVE  \E p : /\ Stands(path, p, n) /\ stripped = SubSeq(path, p, Len(path))
                    /\ Head(stripped) = path[p] /\ Tail(stripped) = SubSeq(path, p + 1, Len(path))
  <2>1. PICK p \in 1 .. Len(path) :
          /\ path[p] # "/" /\ stripped = SubSeq(path, p, Len(path)) /\ stripped # <<>>
          /\ Depth(path, p) <= Len(Trail[path]) /\ n = Trail[path][Depth(path, p)]
    BY <1>1, <1>2, Zenon
  <2>2. Stands(path, p, n)
    BY <2>1, Zenon DEF Stands
  <2>3. PICK q \in Nat : q = p - 1
    OBVIOUS
  <2>4. q < Len(path) /\ q + 1 = p /\ q + 2 = p + 1
    BY <2>3, PathIs
  <2>5. stripped = SubSeq(path, q + 1, Len(path))
    BY <2>1, <2>4, Zenon
  <2>6. Head(stripped) = path[q + 1] /\ Tail(stripped) = SubSeq(path, q + 2, Len(path))
    BY <2>4, <2>5, RestTail
  <2> QED
    BY <2>1, <2>2, <2>4, <2>6, Zenon
<1> QED
  BY <1>1, <1>2, Zenon DEF WalksOn

LEMMA WalkProceeds == ASSUME FilesInv, NEW t \in Threads, Walk(t) PROVE Proceeds(t)
<1>0. PICK c, path, node, child :
       /\ c = cmd[t] /\ path = Stripped(c.rest) /\ node = Node(c.node)
       /\ child = RamChild(Head(path))
  OBVIOUS
<1>1. /\ c.at = "walk" /\ UNCHANGED <<nodes, next_node, lba, overlap, starved>>
      /\ data' \in {data, None}
  BY <1>0 DEF Walk
<1>2. TypeInv /\ ProgressInv
  BY DEF FilesInv
<1>3. /\ c \in Cmd /\ c.do # "none" /\ c.path \in Paths /\ c.node \in Places /\ c.at # "done"
      /\ node = NodeAt(nodes, c.node) /\ nodes \in [0 .. MAX_FAT32_NODES - 1 -> DiskNode]
  BY <1>0, <1>1, <1>2, Between, NodesAt
<1>4. ASSUME Trusted(c)
      PROVE  /\ Len(c.names) = 0 /\ Len(c.out) = 0 /\ GoodPath(c.path) /\ GoodNode(node)
             /\ Walking(c.path, c.rest, node)
  <2>1. Progress(c, io[t], node) /\ GoodPath(c.path) /\ GoodNode(node)
    BY <1>0, <1>2, <1>3, <1>4, Known
  <2>2. c.at \in {"walk", "find"}
    BY <1>1
  <2> QED
    BY <1>1, <2>1, <2>2, Zenon DEF Progress
<1>5. ASSUME Trusted(c)
      PROVE  /\ c.rest # <<>>
             /\ path = <<>> => Leads(c.path) /\ node = Last(c.path)
             /\ path # <<>> =>
                  \E p : /\ Stands(c.path, p, node) /\ path = SubSeq(c.path, p, Len(c.path))
                         /\ Head(path) = c.path[p]
                         /\ Tail(path) = SubSeq(c.path, p + 1, Len(c.path))
  <2>1. path = Stripped(c.rest) /\ GoodNode(node) /\ Walking(c.path, c.rest, node)
    BY <1>0, <1>4, <1>5, Zenon
  <2>2. WalksOn(c.path, c.rest, path, node)
    BY <1>3, <2>1, WalkStands
  <2> QED
    BY <2>2, Zenon DEF WalksOn
<1>6. CASE c.rest = <<>> /\ With(t, Done(c, "missing")) /\ NoCall(t)
  <2>1. cmd[t].at \in {"walk", "find"} /\ (Trusted(cmd[t]) => ~ Leads(cmd[t].path))
    BY <1>0, <1>1, <1>5, <1>6
  <2>2. With(t, Done(cmd[t], "missing"))
    BY <1>0, <1>6
  <2> QED
    BY <1>1, <1>6, <2>1, <2>2, MissingStep
<1>7. CASE path = <<>> /\ With(t, Found(c, c.node, node)) /\ NoCall(t)
  <2>1. PICK d : d = Found(c, c.node, node)
    OBVIOUS
  <2>2. Same(c, d) /\ (d.at = "done" \/ d.node = c.node)
    BY <1>3, <2>1, FoundSame
  <2>3. ASSUME Trusted(c) PROVE Progress(d, NoIo, NodeAt(nodes, d.node))
    <3>1. Progress(d, NoIo, node)
      BY <1>3, <1>4, <1>5, <1>7, <2>1, <2>3, FoundProgress
    <3>2. d.at = "done" \/ NodeAt(nodes, d.node) = node
      BY <1>3, <2>2
    <3> QED
      BY <3>1, <3>2, Placed
  <2>4. With(t, d) /\ Same(cmd[t], d) /\ (d.at = "done" \/ d.node[1] # "fat" \/ d.node = cmd[t].node)
    BY <1>0, <1>7, <2>1, <2>2
  <2> QED
    BY <1>0, <1>1, <1>3, <1>7, <2>3, <2>4, QuietStep
<1>8. CASE path # <<>> /\ c.node = Root /\ child = 0 /\ With(t, Done(c, "missing")) /\ NoCall(t)
  <2>1. ASSUME Trusted(c) PROVE ~ Leads(c.path)
    <3>1. PICK p : Stands(c.path, p, node) /\ Head(path) = c.path[p]
      BY <1>5, <1>8, <2>1
    <3>2. node = Directory("root", None)
      BY <1>3, <1>8 DEF NodeAt, Root
    <3> QED
      BY <1>0, <1>8, <3>1, <3>2, WalkRoot
  <2>2. cmd[t].at \in {"walk", "find"} /\ (Trusted(cmd[t]) => ~ Leads(cmd[t].path))
    BY <1>0, <1>1, <2>1
  <2>3. With(t, Done(cmd[t], "missing"))
    BY <1>0, <1>8
  <2> QED
    BY <1>1, <1>8, <2>2, <2>3, MissingStep
<1>9. CASE /\ path # <<>> /\ c.node = Root /\ child # 0 /\ NoCall(t)
           /\ With(t, Child(c, <<"ram", child>>, RamFiles[child], Tail(path)))
  <2>1. PICK place, file, rest : place = <<"ram", child>> /\ file = RamFiles[child] /\ rest = Tail(path)
    OBVIOUS
  <2>2. PICK d : d = Child(c, place, file, rest)
    OBVIOUS
  <2>3. Same(c, d) /\ (d.at = "done" \/ d.node = place)
    BY <1>3, <2>2, ChildSame
  <2>4. place[1] = "ram" /\ place[2] = child /\ place[1] # "fat"
    BY <2>1
  <2>5. ASSUME Trusted(c) PROVE Progress(d, NoIo, NodeAt(nodes, d.node))
    <3>1. PICK p : /\ Stands(c.path, p, node) /\ Head(path) = c.path[p]
                   /\ rest = SubSeq(c.path, p + 1, Len(c.path))
      BY <1>5, <1>9, <2>1, <2>5
    <3>2. node = Directory("root", None)
      BY <1>3, <1>9 DEF NodeAt, Root
    <3>3. child \in DOMAIN RamFiles /\ GoesTo(c.path, Depth(c.path, p), file)
      BY <1>0, <1>9, <2>1, <3>1, <3>2, WalkRoot
    <3>4. PICK e : e = Depth(c.path, p)
      OBVIOUS
    <3>5. e < Len(Trail[c.path]) /\ file = Trail[c.path][e + 1] /\ GoodNode(file)
      BY <3>3, <3>4 DEF GoesTo
    <3>6. p \in 1 .. Len(c.path) /\ c.path[p] # "/"
      BY <3>1 DEF Stands
    <3>7. place \in Places
      BY <2>1, <3>3 DEF Places
    <3>8. Progress(d, NoIo, file)
      BY <1>3, <1>4, <2>2, <2>5, <3>1, <3>4, <3>5, <3>6, <3>7, ChildProgress
    <3>9. d.at = "done" \/ NodeAt(nodes, d.node) = file
      BY <2>1, <2>3, <2>4 DEF NodeAt
    <3> QED
      BY <3>8, <3>9, Placed
  <2>6. With(t, d) /\ Same(cmd[t], d) /\ (d.at = "done" \/ d.node[1] # "fat" \/ d.node = cmd[t].node)
    BY <1>0, <1>9, <2>1, <2>2, <2>3, <2>4
  <2> QED
    BY <1>0, <1>1, <1>3, <1>9, <2>5, <2>6, QuietStep
<1>10. CASE /\ path # <<>> /\ c.node # Root /\ (~ node.dir \/ ~ InUse(node.cluster))
            /\ With(t, Done(c, "missing")) /\ NoCall(t)
  <2>1. ASSUME Trusted(c) PROVE ~ Leads(c.path)
    <3>1. PICK p : Stands(c.path, p, node)
      BY <1>5, <1>10, <2>1
    <3>2. node.dir => node.cluster # None
      <4>1. node.dir => node \in DiskNode
        BY <1>3, <1>10, NodeType
      <4> QED
        BY <4>1, Sizes DEF DiskNode
    <3>3. ~ node.dir \/ (node.cluster # None /\ ~ InUse(node.cluster))
      BY <1>10, <3>2
    <3> QED
      BY <3>1, <3>3, WalkNowhere
  <2>2. cmd[t].at \in {"walk", "find"} /\ (Trusted(cmd[t]) => ~ Leads(cmd[t].path))
    BY <1>0, <1>1, <2>1
  <2>3. With(t, Done(cmd[t], "missing"))
    BY <1>0, <1>10
  <2> QED
    BY <1>1, <1>10, <2>2, <2>3, MissingStep
<1>11. CASE /\ path # <<>> /\ c.node # Root /\ node.dir /\ InUse(node.cluster)
            /\ ReadDir(t, node.cluster, 0) /\ With(t, [c EXCEPT !.at = "find", !.rest = path])
  <2>1. PICK cluster, my : /\ cluster = node.cluster
                           /\ my = [cluster |-> cluster, sector |-> 0, seen |-> 0, index |-> 0]
    OBVIOUS
  <2>2. PICK d : d = [c EXCEPT !.at = "find", !.rest = path]
    OBVIOUS
  <2>3. /\ d.at = "find" /\ d.rest = path /\ d.node = c.node /\ Same(c, d) /\ d.path = c.path
        /\ d.names = c.names /\ d.out = c.out
    BY <1>3, <2>2 DEF Cmd, Same
  <2>4. PICK i : i = Call(SectorOf(cluster, 0), "entries", my)
    OBVIOUS
  <2>5. io' = [io EXCEPT ![t] = i]
    BY <1>11, <2>1, <2>4 DEF ReadDir, Asks, Call
  <2>6. i.at = "address" /\ i.lba = SectorOf(cluster, 0) /\ i.then = "entries" /\ i.my = my
    BY <2>4, CallFields
  <2>7. ASSUME Trusted(c) PROVE Progress(d, i, node)
    <3>1. PICK p : Stands(c.path, p, node) /\ path = SubSeq(c.path, p, Len(c.path))
      BY <1>5, <1>11, <2>7
    <3>2. node.cluster # None
      <4>1. node \in DiskNode
        BY <1>3, <1>11, NodeType
      <4> QED
        BY <4>1, Sizes DEF DiskNode
    <3>3. Finding(c.path, path, "entries", SectorOf(cluster, 0), my, node)
      BY <1>11, <2>1, <3>1, <3>2, WalkInto
    <3>4. Len(c.names) = 0 /\ Len(c.out) = 0 /\ GoodNode(node)
      BY <1>4, <2>7
    <3>5. Finding(d.path, d.rest, i.then, i.lba, i.my, node)
      BY <2>3, <2>6, <3>3, Zenon
    <3>6. d.at # "walk" /\ d.at # "list" /\ d.at # "done" /\ d.at \notin {"read", "header", "segment"}
      BY <2>3
    <3> QED
      BY <2>3, <3>4, <3>5, <3>6, Zenon DEF Progress
  <2>8. /\ With(t, d) /\ Same(cmd[t], d) /\ d.node = cmd[t].node
        /\ i.at \notin {"command", "data"}
        /\ Trusted(cmd[t]) => Progress(d, i, NodeAt(nodes, cmd[t].node))
    BY <1>0, <1>3, <1>11, <2>2, <2>3, <2>6, <2>7
  <2> QED
    BY <1>0, <1>1, <1>3, <2>5, <2>8, CallStep
<1> QED
  BY <1>0, <1>6, <1>7, <1>8, <1>9, <1>10, <1>11 DEF Walk

-----------------------------------------------------------------------------
(* ls, and the walks over directories.                                     *)

\* A call for a sector, or for a buffer.
LEMMA AskStep ==
    ASSUME FilesInv, NEW t \in Threads, cmd[t].at # "done", NEW sector, NEW then, NEW my,
           Asks(t, sector, then, my), UNCHANGED <<nodes, next_node, cmd, lba, overlap>>,
           data' \in {data, None}, starved => starved',
           (Trusted(cmd[t]) /\ ~ starved') =>
             Progress(cmd[t], Call(sector, then, my), NodeAt(nodes, cmd[t].node))
    PROVE  Proceeds(t)
<1>1. PICK i : i = Call(sector, then, my)
  OBVIOUS
<1>2. i.at \notin {"command", "data"}
  BY <1>1, CallFields
<1>3. io' = [io EXCEPT ![t] = i]
  BY <1>1 DEF Asks, Call
<1>4. With(t, cmd[t])
  BY DEF FilesInv, TypeInv, TypeOK, With
<1>5. Same(cmd[t], cmd[t])
  BY DEF Same
<1> QED
  BY <1>1, <1>2, <1>3, <1>4, <1>5, CallStep

LEMMA BufferStep ==
    ASSUME FilesInv, NEW t \in Threads, cmd[t].at # "done", NEW my,
           NeedsBuffer(t, my), UNCHANGED <<nodes, next_node, cmd, lba, overlap>>,
           data' \in {data, None}, starved => starved',
           (Trusted(cmd[t]) /\ ~ starved') =>
             Progress(cmd[t], Waits(my), NodeAt(nodes, cmd[t].node))
    PROVE  Proceeds(t)
<1>1. PICK i : i = Waits(my)
  OBVIOUS
<1>2. i.at \notin {"command", "data"}
  BY <1>1, CallFields
<1>3. io' = [io EXCEPT ![t] = i]
  BY <1>1 DEF NeedsBuffer, Waits
<1>4. With(t, cmd[t])
  BY DEF FilesInv, TypeInv, TypeOK, With
<1>5. Same(cmd[t], cmd[t])
  BY DEF Same
<1> QED
  BY <1>1, <1>2, <1>3, <1>4, <1>5, CallStep

\* The progress of a command in another call.
LEMMA FindCall ==
    ASSUME NEW c, c.at = "find", NEW i, NEW n, Progress(c, i, n), NEW sector, NEW then, NEW my,
           Finding(c.path, c.rest, then, sector, my, n)
    PROVE  Progress(c, Call(sector, then, my), n)
<1>1. PICK j : j = Call(sector, then, my)
  OBVIOUS
<1>2. j.lba = sector /\ j.then = then /\ j.my = my
  BY <1>1, CallFields
<1>3. /\ c.at # "walk" /\ c.at # "list" /\ c.at # "done" /\ c.at \in {"walk", "find"}
      /\ c.at \notin {"read", "header", "segment"}
  OBVIOUS
<1>4. Progress(c, j, n)
  BY <1>2, <1>3, Zenon DEF Progress
<1> QED
  BY <1>1, <1>4, Zenon

LEMMA ListCall ==
    ASSUME NEW c, c.at = "list", NEW i, NEW n, Progress(c, i, n), NEW sector, NEW then, NEW my,
           my.index = c.from, InDir(n.cluster, then, sector, my)
    PROVE  Progress(c, Call(sector, then, my), n)
<1>1. PICK j : j = Call(sector, then, my)
  OBVIOUS
<1>2. j.lba = sector /\ j.then = then /\ j.my = my
  BY <1>1, CallFields
<1>3. /\ c.at # "walk" /\ c.at # "find" /\ c.at # "done" /\ c.at \notin {"walk", "find"}
      /\ c.at \notin {"read", "header", "segment"}
  OBVIOUS
<1>4. Progress(c, j, n)
  BY <1>2, <1>3, Zenon DEF Progress
<1> QED
  BY <1>1, <1>4, Zenon

LEMMA ReadCall ==
    ASSUME NEW c, c.at \in {"read", "header", "segment"}, NEW i, NEW n, Progress(c, i, n), NEW j,
           InFile(n, Request(c)[1], Request(c)[2], Purpose(j), j.lba, j.my)
    PROVE  Progress(c, j, n)
<1>1. /\ c.at # "walk" /\ c.at # "find" /\ c.at # "list" /\ c.at # "done"
      /\ c.at \notin {"walk", "find"}
  OBVIOUS
<1> QED
  BY <1>1, Zenon DEF Progress

LEMMA ListedRight ==
    ASSUME NEW c \in Cmd, c.path \in Paths, c.at = "list", c.do = "ls", NEW i, NEW n,
           Progress(c, i, n), Len(NodesIn(n)) <= c.from
    PROVE  Right(c.do, c.path, "ok", c.names, c.out)
<1>1. GoodNode(n) /\ Listing(c.path, c.from, c.names, n)
  BY Zenon DEF Progress
<1>2. c.from \in Nat /\ c.names \in Seq(Names)
  BY CmdIs
<1>3. PICK path, names : path = c.path /\ names = c.names
  OBVIOUS
<1>4. Leads(path) /\ Last(path).dir /\ names = NamesIn(Last(path))
  BY <1>1, <1>2, <1>3, EverythingListed
<1>5. Right("ls", path, "ok", names, c.out)
  BY <1>3, <1>4, RightIs
<1> QED
  BY <1>3, <1>5, Zenon

\* The end of ls, or of a walk that found nothing.
LEMMA NoEntryStep ==
    ASSUME FilesInv, NEW t \in Threads, cmd[t].at \in {"find", "list"}, NoEntry(t),
           UNCHANGED <<lba, overlap>>, data' \in {data, None}, starved => starved',
           (Trusted(cmd[t]) /\ cmd[t].at = "find") => ~ Leads(cmd[t].path),
           (Trusted(cmd[t]) /\ cmd[t].at = "list") =>
              Len(NodesIn(NodeAt(nodes, cmd[t].node))) <= cmd[t].from
    PROVE  Proceeds(t)
<1>1. PICK c : c = cmd[t]
  OBVIOUS
<1>2. c.at # "done" /\ TypeInv /\ ProgressInv
  BY <1>1 DEF FilesInv
<1>3. CASE c.at = "find"
  <2>1. With(t, Done(c, "missing")) /\ NoCall(t) /\ UNCHANGED <<nodes, next_node>>
    BY <1>1, <1>3, Zenon DEF NoEntry
  <2>2. cmd[t].at \in {"walk", "find"}
    BY <1>1, <1>3
  <2> QED
    BY <1>1, <1>3, <2>1, <2>2, MissingStep
<1>4. CASE c.at = "list"
  <2>1. With(t, Done(c, "ok")) /\ NoCall(t) /\ UNCHANGED <<nodes, next_node>>
    <3>1. c.at # "find"
      BY <1>4
    <3> QED
      BY <1>1, <3>1, Zenon DEF NoEntry
  <2>2. c \in Cmd /\ c.do = "ls" /\ c.path \in Paths
    BY <1>1, <1>2, <1>4, Between DEF Flow
  <2>3. ASSUME Trusted(c) PROVE Right(c.do, c.path, "ok", c.names, c.out)
    <3>1. Progress(c, io[t], NodeAt(nodes, c.node))
      BY <1>1, <1>2, <2>3, Known
    <3>2. Len(NodesIn(NodeAt(nodes, c.node))) <= c.from
      BY <1>1, <1>4, <2>3
    <3> QED
      BY <1>4, <2>2, <3>1, <3>2, ListedRight
  <2> QED
    BY <1>1, <1>2, <2>1, <2>3, DoneStep
<1> QED
  BY <1>1, <1>3, <1>4

LEMMA ListProceeds == ASSUME FilesInv, NEW t \in Threads, List(t) PROVE Proceeds(t)
<1>0. PICK c, n : c = cmd[t] /\ n = NodeAt(nodes, c.node)
  OBVIOUS
<1>1. /\ c.at = "list" /\ UNCHANGED <<lba, overlap, starved>> /\ data' \in {data, None}
      /\ c.at # "done" /\ starved => starved'
  BY <1>0 DEF List
<1>2. TypeInv /\ ProgressInv
  BY DEF FilesInv
<1>3. /\ c \in Cmd /\ c.do = "ls" /\ c.path \in Paths /\ c.node \in Places /\ c.from \in Nat
      /\ n = Node(c.node) /\ nodes \in [0 .. MAX_FAT32_NODES - 1 -> DiskNode]
  BY <1>0, <1>1, <1>2, Between, NodesAt, CmdIs DEF Flow
<1>4. ASSUME Trusted(c)
      PROVE  /\ Progress(c, io[t], n) /\ GoodNode(n) /\ n \in DiskNode \cup RamNode
             /\ Listing(c.path, c.from, c.names, n) /\ n.dir
  <2>1. Progress(c, io[t], n) /\ GoodNode(n) /\ n \in DiskNode \cup RamNode
    BY <1>0, <1>1, <1>2, <1>4, Known
  <2>2. Listing(c.path, c.from, c.names, n)
    BY <1>1, <2>1, Zenon DEF Progress
  <2>3. n.dir
    BY <2>2, Zenon DEF Listing
  <2> QED
    BY <2>1, <2>2, <2>3
<1>5. CASE c.node = Root /\ HasRamFile(c.from)
  <2>1. PICK name : name = RamFiles[c.from + 1].name
    OBVIOUS
  <2>2. PICK d : d = Named(c, name)
    OBVIOUS
  <2>3. NoCall(t) /\ With(t, d) /\ UNCHANGED <<nodes, next_node>>
    BY <1>0, <1>5, <2>1, <2>2, Zenon DEF List, Named
  <2>4. c.from < Len(RamFiles) /\ c.from + 1 \in DOMAIN RamFiles /\ name \in Names
    <3>1. c.from < Len(RamFiles) /\ Len(RamFiles) \in Nat /\ DOMAIN RamFiles = 1 .. Len(RamFiles)
      BY <1>5, RamFilesAre DEF HasRamFile
    <3>2. c.from + 1 \in DOMAIN RamFiles
      BY <1>3, <3>1
    <3>3. RamFiles[c.from + 1] \in DiskNode \cup RamNode
      BY <3>2, RamNodesAre
    <3>4. RamFiles[c.from + 1].name \in Names
      BY <3>3 DEF DiskNode, RamNode
    <3> QED
      BY <2>1, <3>1, <3>2, <3>4
  <2>5. d.do = c.do /\ d.path = c.path /\ d.at = c.at /\ d.node = c.node /\ d.taken = c.taken
    BY <1>3, <2>2, <2>4, NamedFields
  <2>6. ASSUME Trusted(c) PROVE Progress(d, NoIo, NodeAt(nodes, d.node))
    <3>1. n = Directory("root", None)
      BY <1>0, <1>5 DEF NodeAt, Root
    <3>2. NodesIn(n) = RamFiles
      BY <3>1, RootDirectory
    <3>3. c.from < Len(NodesIn(n)) /\ name = NodesIn(n)[c.from + 1].name
      BY <2>1, <2>4, <3>2
    <3>4. Progress(d, NoIo, n)
      BY <1>1, <1>3, <1>4, <2>2, <2>4, <2>6, <3>3, NamedProgress
    <3> QED
      BY <1>0, <2>5, <3>4
  <2>7. Same(cmd[t], d) /\ d.node = cmd[t].node
    BY <1>0, <2>5 DEF Same
  <2> QED
    BY <1>0, <1>1, <2>3, <2>6, <2>7, QuietStep
<1>6. CASE c.node = Root /\ ~ HasRamFile(c.from)
  <2>1. NoCall(t) /\ With(t, Done(c, "ok")) /\ UNCHANGED <<nodes, next_node>>
    BY <1>0, <1>6, Zenon DEF List
  <2>2. ASSUME Trusted(c) PROVE Right(c.do, c.path, "ok", c.names, c.out)
    <3>1. n = Directory("root", None)
      BY <1>0, <1>6 DEF NodeAt, Root
    <3>2. NodesIn(n) = RamFiles
      BY <3>1, RootDirectory
    <3>3. Len(NodesIn(n)) <= c.from
      <4>1. ~ (c.from < Len(RamFiles)) /\ Len(RamFiles) \in Nat
        BY <1>6, RamFilesAre DEF HasRamFile
      <4> QED
        BY <1>3, <3>2, <4>1
    <3> QED
      BY <1>1, <1>3, <1>4, <2>2, <3>3, ListedRight
  <2> QED
    BY <1>0, <1>1, <2>1, <2>2, DoneStep
<1>7. CASE c.node # Root /\ ~ n.dir
  <2>1. NoEntry(t)
    BY <1>0, <1>3, <1>7, Zenon DEF List
  <2>2. ~ Trusted(cmd[t])
    BY <1>0, <1>4, <1>7
  <2> QED
    BY <1>0, <1>1, <2>1, <2>2, NoEntryStep
<1>8. CASE c.node # Root /\ n.dir
  <2>1. ReadNode(t, c.node, c.from)
    BY <1>0, <1>3, <1>8, Zenon DEF List
  <2>2. n.cluster \in Nat /\ n.cluster # None
    <3>1. n \in DiskNode
      BY <1>0, <1>3, <1>8, NodeType
    <3> QED
      BY <3>1, Sizes DEF DiskNode
  <2>3. CASE InUse(n.cluster)
    <3>1. PICK my : my = [cluster |-> n.cluster, sector |-> 0, seen |-> 0, index |-> c.from]
      OBVIOUS
    <3>2. /\ Asks(t, SectorOf(n.cluster, 0), "entries", my)
          /\ UNCHANGED <<nodes, next_node, cmd>>
      BY <1>3, <2>1, <2>3, <3>1, Zenon DEF ReadNode, ReadDir
    <3>3. ASSUME Trusted(c) PROVE Progress(c, Call(SectorOf(n.cluster, 0), "entries", my), n)
      <4>1. n.cluster \in DOMAIN Children
        BY <1>4, <1>8, <2>2, <2>3, <3>3, Zenon DEF GoodNode
      <4>2. InDir(n.cluster, "entries", SectorOf(n.cluster, 0), my) /\ my.index = c.from
        BY <1>3, <3>1, <4>1, DirBegins, Zenon
      <4> QED
        BY <1>1, <1>4, <3>3, <4>2, ListCall
    <3> QED
      BY <1>0, <1>1, <3>2, <3>3, AskStep
  <2>4. CASE ~ InUse(n.cluster)
    <3>1. NoEntry(t)
      BY <1>3, <2>1, <2>4, Zenon DEF ReadNode
    <3>2. ASSUME Trusted(c) PROVE Len(NodesIn(n)) <= c.from
      <4>1. Len(NodesIn(n)) = 0
        BY <1>4, <2>2, <2>4, <3>2, NodesInAre
      <4> QED
        BY <1>3, <4>1
    <3>3. cmd[t].at \in {"find", "list"} /\ cmd[t].at # "find"
      BY <1>0, <1>1
    <3> QED
      BY <1>0, <1>1, <3>1, <3>2, <3>3, NoEntryStep
  <2> QED
    BY <2>3, <2>4
<1> QED
  BY <1>5, <1>6, <1>7, <1>8

LEMMA DirUsed ==
    ASSUME NEW d \in DOMAIN Children
    PROVE  d \in Nat /\ InUse(d) /\ d # None
<1>1. d \in DOMAIN Chain
  BY DirectoryIs
<1>2. Chain[d][1] = d /\ Len(Chain[d]) \in Nat \ {0}
  BY <1>1, ChainIs
<1>3. 1 \in 1 .. Len(Chain[d])
  BY <1>2
<1>4. Chain[d][1] \in Nat /\ InUse(Chain[d][1])
  BY <1>1, <1>3, ChainIs
<1> QED
  BY <1>2, <1>4, Sizes

LEMMA InWalk ==
    ASSUME NEW c, c.path \in Paths, c.at \in {"find", "list"}, NEW i, i.at # "none", NEW n,
           Progress(c, i, n)
    PROVE  /\ InDir(n.cluster, i.then, i.lba, i.my)
           /\ c.at = "find" => Finding(c.path, c.rest, i.then, i.lba, i.my, n)
           /\ c.at = "list" => /\ i.my.index = c.from
                               /\ Listing(c.path, c.from, c.names, n) /\ n.dir
<1>1. GoodNode(n)
  <2>1. c.at # "done"
    OBVIOUS
  <2> QED
    BY <2>1, Zenon DEF Progress
<1>2. CASE c.at = "find"
  <2>1. Finding(c.path, c.rest, i.then, i.lba, i.my, n)
    BY <1>2, Zenon DEF Progress
  <2>2. InDir(n.cluster, i.then, i.lba, i.my)
    BY <2>1, Zenon DEF Finding
  <2> QED
    BY <1>2, <2>1, <2>2
<1>3. CASE c.at = "list"
  <2>1. /\ i.my.index = c.from /\ Listing(c.path, c.from, c.names, n)
        /\ InDir(n.cluster, i.then, i.lba, i.my)
    BY <1>3, Zenon DEF Progress
  <2>2. n.dir
    BY <2>1, Zenon DEF Listing
  <2> QED
    BY <1>3, <2>1, <2>2
<1> QED
  BY <1>2, <1>3

\* The state a thread is in whose sector has come.
LEMMA Came ==
    ASSUME FilesInv, NEW t \in Threads, NEW then, Arrives(t, then)
    PROVE  /\ TypeInv /\ ProgressInv /\ PoolInv /\ data \in DOMAIN Disk
           /\ UNCHANGED <<lba, overlap>> /\ data' \in {data, None}
           /\ cmd[t] \in Cmd /\ cmd[t].at # "done" /\ cmd[t].do # "none"
           /\ cmd[t].path \in Paths /\ cmd[t].node \in Places
           /\ io[t] \in Io /\ Flow(cmd[t], io[t]) /\ io[t].at = "data" /\ io[t].then = then
           /\ Trusted(cmd[t]) => data = io[t].lba
<1>1. TypeInv /\ ProgressInv /\ PoolInv /\ DriveInv
  BY DEF FilesInv
<1>2. /\ io[t].at = "data" /\ io[t].then = then /\ data' = None /\ UNCHANGED <<lba, overlap>>
  BY DEF Arrives
<1>3. data \in DOMAIN Disk /\ io[t] \in Io /\ cmd[t] \in Cmd /\ Flow(cmd[t], io[t])
  BY <1>1, ArrivesType
<1>4. cmd[t].at # "done"
  BY <1>2, <1>3 DEF Flow, NoIo
<1>5. cmd[t].path \in Paths /\ cmd[t].do # "none" /\ cmd[t].node \in Places
  BY <1>1, <1>4, Between
<1>6. Trusted(cmd[t]) => data = io[t].lba
  BY <1>1, Asked DEF Trusted
<1> QED
  BY <1>1, <1>2, <1>3, <1>4, <1>5, <1>6

Framed == UNCHANGED <<lba, overlap, starved>> /\ data' \in {data, None}

\* The walk of a path finds the child, and takes a node for it.
LEMMA ChildTaken ==
    ASSUME FilesInv, NEW t \in Threads, cmd[t].at = "find", io[t] \in DirCalls, NEW e \in Entry,
           Framed, GotEntry(t, e), e.name = Head(cmd[t].rest), NEW n,
           n = NodeAt(nodes, cmd[t].node), Trusted(cmd[t]) => EntryHere(n.cluster, io[t].my, e)
    PROVE  Proceeds(t)
<1>0. PICK c, b, my, path : c = cmd[t] /\ b = Count(c) /\ my = io[t].my /\ path = c.path
  OBVIOUS
<1>1. TypeInv /\ ProgressInv /\ PoolInv /\ c.at # "done"
  BY <1>0 DEF FilesInv
<1>2. /\ c \in Cmd /\ c.do # "none" /\ path \in Paths /\ io[t].at # "none"
      /\ nodes \in [0 .. MAX_FAT32_NODES - 1 -> DiskNode] /\ my \in DirLocals
  BY <1>0, <1>1, Between, CallsAre DEF DirCalls
<1>3. /\ b \in Cmd /\ b.do = c.do /\ b.path = path /\ b.names = c.names /\ b.out = c.out
      /\ b.rest = c.rest
  BY <1>0, <1>2, CountType, CountIs
<1>4. PICK place, m, tail, d : /\ place = <<"fat", next_node>> /\ m = NodeOf(e)
                               /\ tail = Tail(c.rest) /\ d = Child(b, place, m, tail)
  OBVIOUS
<1>5. TakeNode(e) /\ NoCall(t) /\ WithNode(t, d)
  BY <1>0, <1>4, Zenon DEF GotEntry
<1>6. next_node \in 0 .. MAX_FAT32_NODES - 1 /\ place \in Places
  BY <1>1, <1>4, <1>5, TakeNodeType DEF TypeInv, TypeOK
<1>7. nodes'[next_node] = m
  BY <1>2, <1>4, <1>5, <1>6 DEF TakeNode
<1>8. NodeAt(nodes', place) = m
  BY <1>4, <1>7 DEF NodeAt
<1>9. Same(b, d) /\ (d.at = "done" \/ d.node = place)
  BY <1>2, <1>3, <1>4, ChildSame
<1>10. ASSUME Trusted(c) PROVE Progress(d, NoIo, NodeAt(nodes', d.node))
  <2>1. Progress(c, io[t], n) /\ GoodNode(n) /\ GoodPath(path)
    BY <1>0, <1>1, <1>10, Known
  <2>2. Finding(path, c.rest, io[t].then, io[t].lba, my, n)
    BY <1>0, <1>2, <2>1, InWalk
  <2>3. Len(c.names) = 0 /\ Len(c.out) = 0
    <3>1. c.at \in {"walk", "find"}
      BY <1>0
    <3> QED
      BY <2>1, <3>1, Zenon DEF Progress
  <2>4. EntryHere(n.cluster, my, e) /\ e.name = Head(c.rest)
    BY <1>0, <1>10
  <2>5. Lies(path, c.rest, e)
    BY <1>2, <2>1, <2>2, <2>4, ChildFound
  <2>6. PICK p \in 1 .. Len(path) :
           /\ path[p] # "/" /\ Tail(c.rest) = SubSeq(path, p + 1, Len(path))
           /\ Depth(path, p) < Len(Trail[path]) /\ NodeOf(e) = Trail[path][Depth(path, p) + 1]
           /\ GoodNode(NodeOf(e))
    BY <2>5 DEF Lies
  <2>7. PICK k : k = Depth(path, p)
    OBVIOUS
  <2>8. /\ b.do # "none" /\ b.path \in Paths /\ Len(b.names) = 0 /\ Len(b.out) = 0
        /\ GoodPath(b.path) /\ p \in 1 .. Len(b.path) /\ b.path[p] # "/"
        /\ k = Depth(b.path, p) /\ k < Len(Trail[b.path]) /\ m = Trail[b.path][k + 1]
        /\ GoodNode(m) /\ tail = SubSeq(b.path, p + 1, Len(b.path))
    BY <1>2, <1>3, <1>4, <2>1, <2>3, <2>6, <2>7
  <2>9. Progress(d, NoIo, m)
    BY <1>3, <1>4, <1>6, <2>8, ChildProgress
  <2>10. d.at = "done" \/ NodeAt(nodes', d.node) = m
    BY <1>8, <1>9
  <2> QED
    BY <2>9, <2>10, Placed
<1>11. /\ d.do = cmd[t].do /\ d.path = cmd[t].path /\ d.taken = Count(cmd[t]).taken
       /\ d.at = "done" \/ d.node = <<"fat", next_node>>
  BY <1>0, <1>3, <1>4, <1>9 DEF Same
<1>12. Takes(t, d, e)
  BY <1>0, <1>5, <1>10, <1>11 DEF Takes, NoCall
<1> QED
  BY <1>0, <1>1, <1>12 DEF Proceeds, Framed

\* The walk of a path goes on to the next entry.
LEMMA OtherPassed ==
    ASSUME FilesInv, NEW t \in Threads, cmd[t].at = "find", io[t] \in DirCalls, NEW e \in Entry,
           Framed, GotEntry(t, e), e.name # Head(cmd[t].rest), NEW n,
           n = NodeAt(nodes, cmd[t].node), Trusted(cmd[t]) => EntryHere(n.cluster, io[t].my, e)
    PROVE  Proceeds(t)
<1>0. PICK c, my, path, f : c = cmd[t] /\ my = io[t].my /\ path = c.path /\ f = n.cluster
  OBVIOUS
<1>1. TypeInv /\ ProgressInv /\ PoolInv /\ c.at # "done" /\ (starved => starved')
  BY <1>0 DEF FilesInv, Framed
<1>2. /\ c \in Cmd /\ c.do # "none" /\ path \in Paths /\ io[t].at # "none"
      /\ my \in DirLocals /\ my.index + 1 \in Nat /\ n = Node(c.node)
  <2>1. /\ c \in Cmd /\ c.do # "none" /\ path \in Paths /\ io[t].at # "none" /\ my \in DirLocals
    BY <1>0, <1>1, Between, CallsAre DEF DirCalls
  <2>2. my.index + 1 \in Nat
    BY <2>1 DEF DirLocals
  <2>3. n = Node(c.node)
    BY <1>0, NodesAt
  <2> QED
    BY <2>1, <2>2, <2>3
<1>3. ReadNode(t, c.node, my.index + 1)
  BY <1>0, Zenon DEF GotEntry
<1>4. UNCHANGED <<lba, overlap>> /\ data' \in {data, None} /\ (starved => starved')
  BY DEF Framed
<1>5. ASSUME Trusted(c)
      PROVE  /\ Progress(c, io[t], n) /\ GoodNode(n) /\ Finding(path, c.rest, io[t].then, io[t].lba, my, n)
             /\ f \in DOMAIN Children /\ InUse(f)
  <2>1. Progress(c, io[t], n) /\ GoodNode(n)
    BY <1>0, <1>1, <1>5, Known
  <2>2. Finding(path, c.rest, io[t].then, io[t].lba, my, n)
    BY <1>0, <1>2, <2>1, InWalk
  <2>3. InDir(f, io[t].then, io[t].lba, my)
    BY <1>0, <2>2, Zenon DEF Finding
  <2>4. f \in DOMAIN Children
    BY <2>3, Zenon DEF InDir
  <2> QED
    BY <2>1, <2>2, <2>4, DirUsed
<1>6. CASE InUse(f)
  <2>1. PICK more : more = [cluster |-> f, sector |-> 0, seen |-> 0, index |-> my.index + 1]
    OBVIOUS
  <2>2. Asks(t, SectorOf(f, 0), "entries", more) /\ UNCHANGED <<nodes, next_node, cmd>>
    BY <1>0, <1>2, <1>3, <1>6, <2>1, Zenon DEF ReadNode, ReadDir
  <2>3. ASSUME Trusted(c) PROVE Progress(c, Call(SectorOf(f, 0), "entries", more), n)
    <3>1. InDir(n.cluster, "entries", SectorOf(f, 0), more) /\ more.index = my.index + 1
      <4>1. PICK k \in Nat : k = my.index + 1
        BY <1>2
      <4>2. more = [cluster |-> f, sector |-> 0, seen |-> 0, index |-> k] /\ f \in DOMAIN Children
        BY <1>5, <2>1, <2>3, <4>1
      <4>3. InDir(f, "entries", SectorOf(f, 0), more) /\ more.index = k
        BY <4>1, <4>2, DirBegins, Zenon
      <4> QED
        BY <1>0, <4>1, <4>3, Zenon
    <3>2. EntryHere(n.cluster, my, e) /\ e.name # Head(c.rest)
      BY <1>0, <2>3
    <3>3. Finding(path, c.rest, "entries", SectorOf(f, 0), more, n)
      BY <1>2, <1>5, <2>3, <3>1, <3>2, OtherFound
    <3> QED
      BY <1>0, <1>5, <2>3, <3>3, FindCall
  <2> QED
    BY <1>0, <1>1, <1>4, <2>2, <2>3, AskStep
<1>7. CASE ~ InUse(f)
  <2>1. NoEntry(t)
    BY <1>0, <1>2, <1>3, <1>7, Zenon DEF ReadNode
  <2>2. ~ Trusted(cmd[t]) /\ cmd[t].at \in {"find", "list"}
    BY <1>0, <1>5, <1>7
  <2> QED
    BY <1>4, <2>1, <2>2, NoEntryStep
<1> QED
  BY <1>6, <1>7

\* ls writes the name of an entry, which took a node.
LEMMA NameListed ==
    ASSUME FilesInv, NEW t \in Threads, cmd[t].at = "list", io[t] \in DirCalls, NEW e \in Entry,
           Framed, GotEntry(t, e), NEW n, n = NodeAt(nodes, cmd[t].node),
           Trusted(cmd[t]) => EntryHere(n.cluster, io[t].my, e)
    PROVE  Proceeds(t)
<1>0. PICK c, b, d, my : /\ c = cmd[t] /\ b = Named(c, e.name) /\ d = Count(b) /\ my = io[t].my
  OBVIOUS
<1>1. TypeInv /\ ProgressInv /\ PoolInv /\ c.at # "done"
  BY <1>0 DEF FilesInv
<1>2. /\ c \in Cmd /\ c.do # "none" /\ c.path \in Paths /\ io[t].at # "none" /\ e.name \in Names
      /\ my \in DirLocals
  BY <1>0, <1>1, Between, CallsAre DEF DirCalls, Entry
<1>3. TakeNode(e) /\ NoCall(t) /\ WithNode(t, d)
  BY <1>0, Zenon DEF GotEntry, Named
<1>4. /\ b \in Cmd /\ b.do = c.do /\ b.path = c.path /\ b.at = c.at /\ b.node = c.node
      /\ b.taken = c.taken
  BY <1>0, <1>2, NamedFields
<1>5. /\ d.do = c.do /\ d.path = c.path /\ d.at = c.at /\ d.node = c.node
  BY <1>0, <1>4, CountIs
<1>6. d.taken = Count(c).taken
  <2>1. PICK taken : taken = b.taken
    OBVIOUS
  <2>2. CASE c.at # "done" /\ c.node[1] = "fat" /\ taken < MAX_FAT32_NODES
    <3>1. PICK k : k = taken + 1
      OBVIOUS
    <3>2. d = [b EXCEPT !.taken = k] /\ Count(c) = [c EXCEPT !.taken = k]
      BY <1>0, <1>4, <2>1, <2>2, <3>1 DEF Count
    <3>3. d.taken = k /\ Count(c).taken = k
      BY <1>2, <1>4, <3>2 DEF Cmd
    <3> QED
      BY <3>3
  <2>3. CASE ~ (c.at # "done" /\ c.node[1] = "fat" /\ taken < MAX_FAT32_NODES)
    <3>1. d = b /\ Count(c) = c
      BY <1>0, <1>4, <2>1, <2>3, Zenon DEF Count
    <3> QED
      BY <1>4, <3>1
  <2> QED
    BY <2>2, <2>3
<1>7. ASSUME Trusted(c), d.taken < MAX_FAT32_NODES PROVE Progress(d, NoIo, NodeAt(nodes', d.node))
  <2>1. Progress(c, io[t], n) /\ GoodNode(n)
    BY <1>0, <1>1, <1>7, Known
  <2>2. /\ InDir(n.cluster, io[t].then, io[t].lba, my) /\ my.index = c.from
        /\ Listing(c.path, c.from, c.names, n) /\ n.dir
    <3>1. c.at \in {"find", "list"} /\ c.at = "list"
      BY <1>0
    <3> QED
      BY <1>0, <1>2, <2>1, <3>1, InWalk
  <2>3. n.cluster \in DOMAIN Children
    BY <2>2, Zenon DEF InDir
  <2>4. n \in DiskNode \cup RamNode /\ c.from \in Nat
    BY <1>0, <1>1, <1>2, <1>7, Known, CmdIs
  <2>5. PICK all, k : all = NodesIn(n) /\ k = Len(all)
    OBVIOUS
  <2>6. k = Len(Children[n.cluster]) /\ \A i \in 1 .. k : all[i] = NodeOf(Children[n.cluster][i])
    BY <2>1, <2>2, <2>3, <2>4, <2>5, DirUsed, NodesInAre
  <2>7. /\ c.from + 1 \in 1 .. k /\ e = Children[n.cluster][c.from + 1]
    BY <1>0, <1>7, <2>2, <2>6 DEF EntryHere
  <2>8. NodeOf(e).name = e.name
    BY <2>3, <2>6, <2>7, EntryNodesAre
  <2>9. k \in Nat
    BY <2>3, <2>6, DirectoryIs
  <2>10. c.from < Len(NodesIn(n)) /\ e.name = NodesIn(n)[c.from + 1].name
    <3>1. c.from < k
      BY <2>4, <2>7, <2>9
    <3>2. all[c.from + 1] = NodeOf(e)
      BY <2>6, <2>7
    <3> QED
      BY <2>5, <2>8, <3>1, <3>2
  <2>11. c.at = "list"
    BY <1>0
  <2>12. Progress(b, NoIo, n)
    BY <1>0, <1>2, <2>1, <2>10, <2>11, NamedProgress
  <2>13. Progress(d, NoIo, n)
    BY <1>0, <1>4, <2>12, CountProgress
  <2>14. NodeAt(nodes', d.node) = n
    <3>1. Count(cmd[t]).taken < MAX_FAT32_NODES
      BY <1>0, <1>6, <1>7
    <3>2. NodeAt(nodes', cmd[t].node) = NodeAt(nodes, cmd[t].node)
      BY <1>0, <1>1, <1>3, <3>1, Spared
    <3> QED
      BY <1>0, <1>5, <3>2
  <2> QED
    BY <2>13, <2>14
<1>8. Takes(t, d, e)
  BY <1>0, <1>3, <1>5, <1>6, <1>7 DEF Takes, NoCall
<1> QED
  BY <1>0, <1>1, <1>8 DEF Proceeds, Framed

LEMMA GotEntryProceeds ==
    ASSUME FilesInv, NEW t \in Threads, cmd[t].at \in {"find", "list"}, io[t] \in DirCalls,
           NEW e \in Entry, Framed, GotEntry(t, e), NEW n, n = NodeAt(nodes, cmd[t].node),
           Trusted(cmd[t]) => EntryHere(n.cluster, io[t].my, e)
    PROVE  Proceeds(t)
<1>1. CASE cmd[t].at = "list"
  BY <1>1, NameListed
<1>2. CASE cmd[t].at = "find" /\ e.name = Head(cmd[t].rest)
  BY <1>2, ChildTaken
<1>3. CASE cmd[t].at = "find" /\ e.name # Head(cmd[t].rest)
  BY <1>3, OtherPassed
<1> QED
  BY <1>1, <1>2, <1>3

\* The next call of a walk over a directory.
LEMMA WalkCall ==
    ASSUME NEW c, c.path \in Paths, c.at \in {"find", "list"}, NEW i, i.at # "none", NEW n,
           Progress(c, i, n), NEW sector, NEW then, NEW my, my.index = i.my.index,
           InDir(n.cluster, then, sector, my)
    PROVE  Progress(c, Call(sector, then, my), n)
<1>1. CASE c.at = "find"
  <2>1. Finding(c.path, c.rest, i.then, i.lba, i.my, n)
    BY <1>1, InWalk
  <2>2. PICK path, rest, then1, sector1, my1 :
          path = c.path /\ rest = c.rest /\ then1 = i.then /\ sector1 = i.lba /\ my1 = i.my
    OBVIOUS
  <2>3. path \in Paths /\ Finding(path, rest, then1, sector1, my1, n) /\ my.index = my1.index
    BY <2>1, <2>2
  <2>4. Finding(path, rest, then, sector, my, n)
    BY <2>3, FindingOn
  <2> QED
    BY <1>1, <2>2, <2>4, FindCall
<1>2. CASE c.at = "list"
  <2>1. my.index = c.from
    BY <1>2, InWalk
  <2> QED
    BY <1>2, <2>1, ListCall
<1> QED
  BY <1>1, <1>2

\* The walk has come to the end of the directory.
LEMMA EndStep ==
    ASSUME FilesInv, NEW t \in Threads, cmd[t].at \in {"find", "list"}, io[t] \in DirCalls,
           NoEntry(t), UNCHANGED <<lba, overlap>>, data' \in {data, None}, starved => starved',
           NEW n, n = NodeAt(nodes, cmd[t].node),
           Trusted(cmd[t]) => Len(Children[n.cluster]) <= io[t].my.index
    PROVE  Proceeds(t)
<1>0. PICK c, my : c = cmd[t] /\ my = io[t].my
  OBVIOUS
<1>1. /\ TypeInv /\ ProgressInv /\ c \in Cmd /\ c.path \in Paths /\ my \in DirLocals
      /\ io[t].at # "none" /\ c.at # "done"
  BY <1>0, Between, CallsAre DEF FilesInv, DirCalls
<1>2. ASSUME Trusted(c)
      PROVE  /\ Progress(c, io[t], n) /\ GoodNode(n) /\ n \in DiskNode \cup RamNode
             /\ Len(Children[n.cluster]) <= my.index
  BY <1>0, <1>1, <1>2, Known
<1>3. ASSUME Trusted(c), c.at = "find" PROVE ~ Leads(c.path)
  <2>1. Finding(c.path, c.rest, io[t].then, io[t].lba, my, n)
    BY <1>0, <1>1, <1>2, <1>3, InWalk
  <2>2. PICK path, rest, then, sector :
          path = c.path /\ rest = c.rest /\ then = io[t].then /\ sector = io[t].lba
    OBVIOUS
  <2>3. path \in Paths /\ Finding(path, rest, then, sector, my, n)
    BY <1>1, <2>1, <2>2
  <2>4. ~ Leads(path)
    BY <1>1, <1>2, <1>3, <2>3, NothingFound
  <2> QED
    BY <2>2, <2>4
<1>4. ASSUME Trusted(c), c.at = "list" PROVE Len(NodesIn(n)) <= c.from
  <2>1. InDir(n.cluster, io[t].then, io[t].lba, my) /\ my.index = c.from /\ n.dir
    BY <1>0, <1>1, <1>2, <1>4, InWalk
  <2>2. n.cluster \in DOMAIN Children
    BY <2>1, Zenon DEF InDir
  <2>3. Len(NodesIn(n)) = Len(Children[n.cluster])
    BY <1>2, <1>4, <2>1, <2>2, DirUsed, NodesInAre
  <2> QED
    BY <1>2, <1>4, <2>1, <2>3
<1> QED
  BY <1>0, <1>3, <1>4, NoEntryStep

LEMMA EntriesProceeds == ASSUME FilesInv, NEW t \in Threads, Entries(t) PROVE Proceeds(t)
<1>0. PICK c, n, my, entries, here, after :
        /\ c = cmd[t] /\ n = NodeAt(nodes, c.node) /\ my = io[t].my
        /\ entries = Disk[data].entries /\ here = Numbered(entries, my.seen, my.index)
        /\ after = my.seen + Cardinality(LiveIn(entries))
  OBVIOUS
<1>1. Arrives(t, "entries") /\ starved' = starved
  BY DEF Entries
<1>2. /\ TypeInv /\ ProgressInv /\ data \in DOMAIN Disk
      /\ UNCHANGED <<lba, overlap>> /\ data' \in {data, None} /\ c.at # "done"
      /\ c \in Cmd /\ c.path \in Paths /\ io[t].at = "data" /\ io[t].then = "entries"
      /\ Trusted(c) => data = io[t].lba
  BY <1>0, <1>1, Came
<1>3. io[t] \in DirCalls /\ c.at \in {"find", "list"} /\ my \in DirLocals
  <2>1. "entries" \in {"entries", "next_entries"}
    OBVIOUS
  <2>2. io[t] \in DirCalls /\ Flow(c, io[t])
    BY <1>0, <1>1, <1>2, <2>1, ArrivesType
  <2>3. c.at \in {"find", "list"}
    BY <1>2, <2>2, InDirectory
  <2> QED
    BY <1>0, <2>2, <2>3 DEF DirCalls
<1>4. Framed /\ (starved => starved') /\ io[t].at # "none"
  BY <1>1, <1>2 DEF Framed
<1>5. ASSUME Trusted(c)
      PROVE  /\ Progress(c, io[t], n) /\ GoodNode(n)
             /\ InDir(n.cluster, "entries", data, my)
  <2>1. Progress(c, io[t], n) /\ GoodNode(n)
    BY <1>0, <1>2, <1>5, Known
  <2>2. InDir(n.cluster, io[t].then, io[t].lba, io[t].my)
    BY <1>2, <1>3, <1>4, <2>1, InWalk
  <2> QED
    BY <1>0, <1>2, <1>5, <2>1, <2>2
<1>6. CASE here # {} /\ GotEntry(t, entries[CHOOSE i \in here : TRUE])
  <2>1. PICK i \in here : i = CHOOSE j \in here : TRUE
    BY <1>6
  <2>2. entries[i] \in Entry
    <3>1. entries \in Seq(Entry)
      BY <1>0, <1>2, DiskConstants
    <3>2. i \in 1 .. Len(entries)
      BY <1>0, <3>1, NumberedIn
    <3> QED
      BY <3>1, <3>2, ElementOfSeq
  <2>3. ASSUME Trusted(c) PROVE EntryHere(n.cluster, my, entries[i])
    <3>1. \A j \in here : EntryHere(n.cluster, my, entries[j])
      BY <1>0, <1>3, <1>5, <2>3, DirSector
    <3> QED
      BY <2>1, <3>1
  <2>4. GotEntry(t, entries[i])
    BY <1>6, <2>1
  <2> QED
    BY <1>0, <1>3, <1>4, <2>2, <2>3, <2>4, GotEntryProceeds
<1>7. CASE here = {} /\ Ended(entries) /\ NoEntry(t)
  <2>1. ASSUME Trusted(c) PROVE Len(Children[n.cluster]) <= my.index
    BY <1>0, <1>3, <1>5, <1>7, <2>1, DirSector
  <2> QED
    BY <1>0, <1>2, <1>3, <1>4, <1>7, <2>1, EndStep
<1>8. CASE /\ here = {} /\ ~ Ended(entries) /\ my.sector + 1 < PerCluster
           /\ Asks(t, SectorOf(my.cluster, my.sector + 1), "entries",
                   [my EXCEPT !.sector = my.sector + 1, !.seen = after])
           /\ UNCHANGED <<nodes, next_node, cmd>>
  <2>1. PICK d, sector : /\ d = [my EXCEPT !.sector = my.sector + 1, !.seen = after]
                         /\ sector = SectorOf(my.cluster, my.sector + 1)
    OBVIOUS
  <2>2. d.index = my.index
    BY <1>3, <2>1 DEF DirLocals
  <2>3. ASSUME Trusted(c) PROVE Progress(c, Call(sector, "entries", d), n)
    <3>1. InDir(n.cluster, "entries", sector, d)
      BY <1>0, <1>3, <1>5, <1>8, <2>1, <2>3, DirSector
    <3> QED
      BY <1>0, <1>2, <1>3, <1>4, <1>5, <2>2, <2>3, <3>1, WalkCall
  <2>4. Asks(t, sector, "entries", d)
    BY <1>8, <2>1
  <2> QED
    BY <1>0, <1>2, <1>4, <1>8, <2>3, <2>4, AskStep
<1>9. CASE /\ here = {} /\ ~ Ended(entries) /\ ~ (my.sector + 1 < PerCluster)
           /\ Asks(t, FatSector(my.cluster), "next_entries", [my EXCEPT !.seen = after])
           /\ UNCHANGED <<nodes, next_node, cmd>>
  <2>1. PICK d, sector : d = [my EXCEPT !.seen = after] /\ sector = FatSector(my.cluster)
    OBVIOUS
  <2>2. d.index = my.index
    BY <1>3, <2>1 DEF DirLocals
  <2>3. ASSUME Trusted(c) PROVE Progress(c, Call(sector, "next_entries", d), n)
    <3>1. InDir(n.cluster, "next_entries", sector, d)
      BY <1>0, <1>3, <1>5, <1>9, <2>1, <2>3, DirSector
    <3> QED
      BY <1>0, <1>2, <1>3, <1>4, <1>5, <2>2, <2>3, <3>1, WalkCall
  <2>4. Asks(t, sector, "next_entries", d)
    BY <1>9, <2>1
  <2> QED
    BY <1>0, <1>2, <1>4, <1>9, <2>3, <2>4, AskStep
<1> QED
  BY <1>0, <1>6, <1>7, <1>8, <1>9 DEF Entries

\* The word of the table that comes is the one of the cluster.
LEMMA WordCame ==
    ASSUME NEW c, data = FatSector(c)
    PROVE  FatWord(c) = FatEntry(c)
BY Zenon DEF FatWord, FatEntry

LEMMA NextEntriesProceeds == ASSUME FilesInv, NEW t \in Threads, NextEntries(t) PROVE Proceeds(t)
<1>0. PICK c, n, my, f : /\ c = cmd[t] /\ n = NodeAt(nodes, c.node) /\ my = io[t].my
                         /\ f = FatWord(my.cluster)
  OBVIOUS
<1>1. Arrives(t, "next_entries") /\ starved' = starved
  BY DEF NextEntries
<1>2. /\ TypeInv /\ ProgressInv /\ data \in DOMAIN Disk
      /\ UNCHANGED <<lba, overlap>> /\ data' \in {data, None} /\ c.at # "done"
      /\ c \in Cmd /\ c.path \in Paths /\ io[t].at = "data" /\ io[t].then = "next_entries"
      /\ Trusted(c) => data = io[t].lba
  BY <1>0, <1>1, Came
<1>3. io[t] \in DirCalls /\ c.at \in {"find", "list"} /\ my \in DirLocals
  <2>1. "next_entries" \in {"entries", "next_entries"}
    OBVIOUS
  <2>2. io[t] \in DirCalls /\ Flow(c, io[t])
    BY <1>0, <1>1, <1>2, <2>1, ArrivesType
  <2>3. c.at \in {"find", "list"}
    BY <1>2, <2>2, InDirectory
  <2> QED
    BY <1>0, <2>2, <2>3 DEF DirCalls
<1>4. (starved => starved') /\ io[t].at # "none"
  BY <1>1, <1>2
<1>5. ASSUME Trusted(c)
      PROVE  /\ Progress(c, io[t], n) /\ GoodNode(n)
             /\ ~ InUse(f) => Len(Children[n.cluster]) <= my.index
             /\ InUse(f) => InDir(n.cluster, "entries", SectorOf(f, 0),
                                  [my EXCEPT !.cluster = f, !.sector = 0])
  <2>1. Progress(c, io[t], n) /\ GoodNode(n)
    BY <1>0, <1>2, <1>5, Known
  <2>2. InDir(n.cluster, io[t].then, io[t].lba, io[t].my)
    BY <1>2, <1>3, <1>4, <2>1, InWalk
  <2>3. PICK d : d = n.cluster
    OBVIOUS
  <2>4. InDir(d, "next_entries", data, my)
    BY <1>0, <1>2, <1>5, <2>2, <2>3
  <2>5. data = FatSector(my.cluster)
    BY <1>3, <2>4, DirCluster
  <2>6. f = FatEntry(my.cluster)
    BY <1>0, <2>5, WordCame
  <2>7. /\ ~ InUse(f) => Len(Children[d]) <= my.index
        /\ InUse(f) => InDir(d, "entries", SectorOf(f, 0),
                             [my EXCEPT !.cluster = f, !.sector = 0])
    BY <1>3, <2>4, <2>6, DirCluster
  <2> QED
    BY <2>1, <2>3, <2>7
<1>6. CASE InUse(f)
  <2>1. PICK d, sector : d = [my EXCEPT !.cluster = f, !.sector = 0] /\ sector = SectorOf(f, 0)
    OBVIOUS
  <2>2. Asks(t, sector, "entries", d) /\ UNCHANGED <<nodes, next_node, cmd>>
    BY <1>0, <1>6, <2>1, Zenon DEF NextEntries
  <2>3. d.index = my.index
    BY <1>3, <2>1 DEF DirLocals
  <2>4. ASSUME Trusted(c) PROVE Progress(c, Call(sector, "entries", d), n)
    <3>1. InDir(n.cluster, "entries", sector, d)
      BY <1>5, <1>6, <2>1, <2>4
    <3> QED
      BY <1>0, <1>2, <1>3, <1>4, <1>5, <2>3, <2>4, <3>1, WalkCall
  <2> QED
    BY <1>0, <1>2, <1>4, <2>2, <2>4, AskStep
<1>7. CASE ~ InUse(f)
  <2>1. NoEntry(t)
    BY <1>0, <1>7, Zenon DEF NextEntries
  <2> QED
    BY <1>0, <1>2, <1>3, <1>4, <1>5, <1>7, <2>1, EndStep
<1> QED
  BY <1>6, <1>7

-----------------------------------------------------------------------------
(* Reads.                                                                  *)

\* A read, and the request it answers.
Answers(c, i, n, offset, size) ==
    /\ Progress(c, i, n) /\ Sized(n) /\ GoodNode(n)
    /\ offset = Request(c)[1] /\ size = Request(c)[2] /\ offset \in Nat /\ size \in Nat
    /\ Reading(c.at, c.path, c.from, c.out, n)
    /\ i.at # "none" => InFile(n, offset, size, Purpose(i), i.lba, i.my)

LEMMA InReading ==
    ASSUME TypeInv, ProgressInv, NEW t \in Threads, cmd[t].at \in {"read", "header", "segment"},
           Trusted(cmd[t])
    PROVE  Answers(cmd[t], io[t], NodeAt(nodes, cmd[t].node), Request(cmd[t])[1], Request(cmd[t])[2])
<1>1. PICK c, n : c = cmd[t] /\ n = NodeAt(nodes, c.node)
  OBVIOUS
<1>2. c \in Cmd /\ c.at # "done"
  BY <1>1, Between
<1>3. Progress(c, io[t], n) /\ Sized(n) /\ GoodNode(n)
  BY <1>1, <1>2, Known
<1>4. Request(c)[1] \in Nat /\ Request(c)[2] \in Nat
  BY <1>1, <1>2, RequestType
<1>5. c.at \in {"read", "header", "segment"}
  BY <1>1
<1>6. /\ Reading(c.at, c.path, c.from, c.out, n)
      /\ io[t].at # "none" =>
           InFile(n, Request(c)[1], Request(c)[2], Purpose(io[t]), io[t].lba, io[t].my)
  BY <1>3, <1>5, Zenon DEF Progress
<1> QED
  BY <1>1, <1>3, <1>4, <1>6, Zenon DEF Answers

\* A read returns.
LEMMA ReturnedStep ==
    ASSUME FilesInv, NEW t \in Threads, cmd[t].at \in {"read", "header", "segment"},
           NEW got \in Seq(Byte), Returned(t, got), UNCHANGED <<nodes, next_node, lba, overlap>>,
           data' \in {data, None}, starved => starved', NEW n, n = NodeAt(nodes, cmd[t].node),
           (Trusted(cmd[t]) /\ ~ starved') => Got(n, Request(cmd[t])[1], Request(cmd[t])[2], got)
    PROVE  Proceeds(t)
<1>1. PICK c, offset, size : c = cmd[t] /\ offset = Request(c)[1] /\ size = Request(c)[2]
  OBVIOUS
<1>2. /\ TypeInv /\ ProgressInv /\ c \in Cmd /\ c.at # "done" /\ Flow(c, io[t])
      /\ c.path \in Paths /\ c.at \in {"read", "header", "segment"}
  BY <1>1, Between DEF FilesInv
<1>3. PICK d \in After(c, got) : NoCall(t) /\ With(t, d)
  BY <1>1, ReturnedAre
<1>4. Same(c, d) /\ (d.at = "done" \/ d.node = c.node)
  BY <1>2, <1>3, AfterSame
<1>5. ASSUME Trusted(c), ~ starved' PROVE Progress(d, NoIo, NodeAt(nodes, d.node))
  <2>1. Answers(c, io[t], n, offset, size)
    BY <1>1, <1>2, <1>5, InReading
  <2>2. Sized(n) /\ GoodNode(n) /\ Reading(c.at, c.path, c.from, c.out, n)
    BY <2>1, Zenon DEF Answers
  <2>3. Got(n, Request(c)[1], Request(c)[2], got)
    BY <1>1, <1>5
  <2>4. Progress(d, NoIo, n)
    BY <1>2, <1>3, <2>2, <2>3, AfterProgress
  <2>5. d.at = "done" \/ NodeAt(nodes, d.node) = n
    BY <1>1, <1>4
  <2> QED
    BY <2>4, <2>5, Placed
<1> QED
  BY <1>1, <1>2, <1>3, <1>4, <1>5, QuietStep

\* A read goes on with a call.
LEMMA ReadAsks ==
    ASSUME FilesInv, NEW t \in Threads, cmd[t].at \in {"read", "header", "segment"},
           NEW sector, NEW then \in {"skip", "bytes", "next_bytes"}, NEW my,
           Asks(t, sector, then, my), UNCHANGED <<nodes, next_node, cmd, lba, overlap>>,
           data' \in {data, None}, starved => starved', NEW n, n = NodeAt(nodes, cmd[t].node),
           Trusted(cmd[t]) =>
             InFile(n, Request(cmd[t])[1], Request(cmd[t])[2], then, sector, my)
    PROVE  Proceeds(t)
<1>1. PICK c, offset, size, j : /\ c = cmd[t] /\ offset = Request(c)[1] /\ size = Request(c)[2]
                                /\ j = Call(sector, then, my)
  OBVIOUS
<1>2. TypeInv /\ ProgressInv /\ c.at # "done" /\ c.at \in {"read", "header", "segment"}
  BY <1>1 DEF FilesInv
<1>3. j.at = "address" /\ j.lba = sector /\ j.then = then /\ j.my = my
  BY <1>1, CallFields
<1>4. Purpose(j) = then
  <2>1. j.at # "buffer"
    BY <1>3
  <2> QED
    BY <1>3, <2>1, Zenon DEF Purpose
<1>5. ASSUME Trusted(c) PROVE Progress(c, j, n)
  <2>1. Answers(c, io[t], n, offset, size)
    BY <1>1, <1>2, <1>5, InReading
  <2>2. Progress(c, io[t], n)
    BY <2>1, Zenon DEF Answers
  <2>3. InFile(n, Request(c)[1], Request(c)[2], then, sector, my)
    BY <1>1, <1>5
  <2>4. InFile(n, Request(c)[1], Request(c)[2], Purpose(j), j.lba, j.my)
    BY <1>3, <1>4, <2>3, Zenon
  <2> QED
    BY <1>2, <2>2, <2>4, ReadCall
<1> QED
  BY <1>1, <1>2, <1>5, AskStep

LEMMA ReadWaits ==
    ASSUME FilesInv, NEW t \in Threads, cmd[t].at \in {"read", "header", "segment"}, NEW my,
           NeedsBuffer(t, my), UNCHANGED <<nodes, next_node, cmd, lba, overlap>>,
           data' \in {data, None}, starved => starved', NEW n, n = NodeAt(nodes, cmd[t].node),
           Trusted(cmd[t]) =>
             InFile(n, Request(cmd[t])[1], Request(cmd[t])[2], "buffer", None, my)
    PROVE  Proceeds(t)
<1>1. PICK c, offset, size, j : /\ c = cmd[t] /\ offset = Request(c)[1] /\ size = Request(c)[2]
                                /\ j = Waits(my)
  OBVIOUS
<1>2. TypeInv /\ ProgressInv /\ c.at # "done" /\ c.at \in {"read", "header", "segment"}
  BY <1>1 DEF FilesInv
<1>3. j.at = "buffer" /\ j.lba = None /\ j.my = my
  BY <1>1, CallFields DEF Waits
<1>4. Purpose(j) = "buffer"
  BY <1>3, Zenon DEF Purpose
<1>5. ASSUME Trusted(c) PROVE Progress(c, j, n)
  <2>1. Answers(c, io[t], n, offset, size)
    BY <1>1, <1>2, <1>5, InReading
  <2>2. Progress(c, io[t], n)
    BY <2>1, Zenon DEF Answers
  <2>3. InFile(n, Request(c)[1], Request(c)[2], "buffer", None, my)
    BY <1>1, <1>5
  <2>4. InFile(n, Request(c)[1], Request(c)[2], Purpose(j), j.lba, j.my)
    BY <1>3, <1>4, <2>3, Zenon
  <2> QED
    BY <1>2, <2>2, <2>4, ReadCall
<1> QED
  BY <1>1, <1>2, <1>5, BufferStep

LEMMA LocalsBegin ==
    ASSUME NEW n, Sized(n), n.cluster # None, NEW offset \in Nat, offset < n.size,
           NEW size \in Nat, NEW my,
           my = [cluster |-> n.cluster, skip |-> offset \div ClusterBytes,
                 want |-> Smaller(size, n.size - offset), got |-> <<>>, buf |-> <<>>,
                 offset |-> offset % ClusterBytes]
    PROVE  my \in ReadLocals
<1>1. PICK skip, place, want, none, k :
        /\ skip = offset \div ClusterBytes /\ place = offset % ClusterBytes /\ none = <<>>
        /\ want = Smaller(size, k - offset) /\ k = n.size
  OBVIOUS
<1>2. my = [cluster |-> n.cluster, skip |-> skip, want |-> want, got |-> none, buf |-> none,
            offset |-> place]
  BY <1>1, Zenon
<1>3. skip \in Nat /\ place \in 0 .. ClusterBytes - 1
  BY <1>1, Sizes, Division
<1>4. k \in Nat /\ offset < k /\ n.cluster \in Nat
  BY <1>1 DEF Sized
<1>5. want \in Nat
  BY <1>1, <1>4 DEF Smaller
<1>6. none \in Seq(Byte)
  BY <1>1, EmptySeq, Zenon
<1> QED
  BY <1>2, <1>3, <1>4, <1>5, <1>6 DEF ReadLocals

LEMMA ReadProceeds == ASSUME FilesInv, NEW t \in Threads, Read(t) PROVE Proceeds(t)
<1>0. PICK c, n, offset, want, skip, my :
       /\ c = cmd[t] /\ n = Node(c.node) /\ offset = Request(c)[1]
       /\ want = Smaller(Request(c)[2], n.size - offset)
       /\ skip = offset \div ClusterBytes
       /\ my = [cluster |-> n.cluster, skip |-> skip, want |-> want, got |-> <<>>,
                buf |-> <<>>, offset |-> offset % ClusterBytes]
       /\ ReadWith(t, c, n, offset, want, skip, my)
  BY ReadIs, Zenon
<1>1. PICK size : size = Request(c)[2]
  OBVIOUS
<1>2. c = cmd[t] /\ n = NodeAt(nodes, c.node) /\ offset = Request(c)[1]
  BY <1>0, NodesAt, Zenon
<1>3. /\ want = Smaller(size, n.size - offset) /\ skip = offset \div ClusterBytes
      /\ my = [cluster |-> n.cluster, skip |-> offset \div ClusterBytes,
               want |-> Smaller(size, n.size - offset), got |-> <<>>,
               buf |-> <<>>, offset |-> offset % ClusterBytes]
  BY <1>0, <1>1, Zenon
<1>4. ReadWith(t, c, n, offset, want, skip, my)
  BY <1>0, Zenon
<1>5. /\ cmd[t].at \in {"read", "header", "segment"} /\ UNCHANGED <<nodes, next_node, lba, overlap>>
      /\ data' \in {data, None} /\ starved' = starved
  <2>1. cmd[t].at \in {"read", "header", "segment"}
    BY <1>2, <1>4, Zenon DEF ReadWith
  <2>2. UNCHANGED <<nodes, next_node, lba, overlap>> /\ data' = data /\ starved' = starved
    BY Zenon DEF Read
  <2> QED
    BY <2>1, <2>2
<1>6. /\ TypeInv /\ ProgressInv /\ offset \in Nat /\ size \in Nat /\ Sized(n) /\ (starved => starved')
      /\ n = NodeAt(nodes, cmd[t].node)
  <2>1. TypeInv /\ ProgressInv
    BY DEF FilesInv
  <2>2. offset \in Nat /\ size \in Nat
    BY <1>1, <1>2, <1>5, <2>1, Between, RequestType
  <2>3. Sized(n)
    BY <1>2, <2>1, Between, NodeSize DEF Sized
  <2> QED
    BY <1>2, <1>5, <2>1, <2>2, <2>3
<1>7. CASE (n.dir \/ offset >= n.size) /\ Returned(t, <<>>)
  <2>1. Got(n, offset, size, <<>>) /\ <<>> \in Seq(Byte)
    BY <1>6, <1>7, NothingGot
  <2>2. PICK got : got = <<>>
    OBVIOUS
  <2>3. Returned(t, got) /\ got \in Seq(Byte) /\ Got(n, Request(cmd[t])[1], Request(cmd[t])[2], got)
    BY <1>1, <1>2, <1>7, <2>1, <2>2, Zenon
  <2> QED
    BY <1>5, <1>6, <2>3, ReturnedStep
<1>8. CASE ~ n.dir /\ offset < n.size /\ n.cluster = None /\ Returned(t, RamRead(n, offset, want))
  <2>1. PICK got : got = RamRead(n, offset, want)
    OBVIOUS
  <2>2. Got(n, offset, size, got) /\ got \in Seq(Byte)
    BY <1>3, <1>6, <1>8, <2>1, RamGot
  <2>3. Returned(t, got) /\ Got(n, Request(cmd[t])[1], Request(cmd[t])[2], got)
    BY <1>1, <1>2, <1>8, <2>1, <2>2, Zenon
  <2> QED
    BY <1>5, <1>6, <2>2, <2>3, ReturnedStep
<1>9. ASSUME ~ n.dir, offset < n.size, n.cluster # None, Trusted(cmd[t])
      PROVE  /\ InFile(n, offset, size, "skip", FatSector(n.cluster), my) /\ GoodNode(n)
  <2>1. Answers(cmd[t], io[t], n, offset, size)
    BY <1>1, <1>2, <1>5, <1>6, <1>9, InReading
  <2>2. GoodNode(n)
    BY <2>1, Zenon DEF Answers
  <2>3. InFile(n, offset, size, "skip", FatSector(n.cluster), my)
    BY <1>3, <1>6, <1>9, <2>2, ReadBegins, Zenon
  <2> QED
    BY <2>2, <2>3
<1>10. CASE /\ ~ n.dir /\ offset < n.size /\ n.cluster # None /\ UNCHANGED cmd
            /\ skip = 0 /\ NeedsBuffer(t, my)
  <2>1. ASSUME Trusted(cmd[t])
        PROVE  InFile(n, Request(cmd[t])[1], Request(cmd[t])[2], "buffer", None, my)
    <3>1. InFile(n, offset, size, "skip", FatSector(n.cluster), my) /\ GoodNode(n)
      BY <1>9, <1>10, <2>1
    <3>2. my \in ReadLocals
      BY <1>3, <1>6, <1>10, LocalsBegin, Zenon
    <3>3. my.skip = 0
      BY <1>3, <1>10
    <3>4. InFile(n, offset, size, "buffer", None, my)
      BY <1>6, <3>1, <3>2, <3>3, SkipEnds
    <3> QED
      BY <1>1, <1>2, <3>4, Zenon
  <2> QED
    BY <1>5, <1>6, <1>10, <2>1, ReadWaits
<1>11. CASE /\ ~ n.dir /\ offset < n.size /\ n.cluster # None /\ UNCHANGED cmd
            /\ skip # 0 /\ Asks(t, FatSector(n.cluster), "skip", my)
  <2>1. ASSUME Trusted(cmd[t])
        PROVE  InFile(n, Request(cmd[t])[1], Request(cmd[t])[2], "skip", FatSector(n.cluster), my)
    <3>1. InFile(n, offset, size, "skip", FatSector(n.cluster), my)
      BY <1>9, <1>11, <2>1
    <3> QED
      BY <1>1, <1>2, <3>1, Zenon
  <2>2. PICK sector, then : /\ sector = FatSector(n.cluster) /\ then = "skip"
                            /\ then \in {"skip", "bytes", "next_bytes"}
    OBVIOUS
  <2>3. Asks(t, sector, then, my) /\ UNCHANGED <<nodes, next_node, cmd, lba, overlap>>
    BY <1>5, <1>11, <2>2
  <2>4. Trusted(cmd[t]) =>
          InFile(n, Request(cmd[t])[1], Request(cmd[t])[2], then, sector, my)
    BY <2>1, <2>2, Zenon
  <2> QED
    <3>1. then \in {"skip", "bytes", "next_bytes"}
      BY <2>2
    <3> QED
      BY <1>5, <1>6, <2>3, <2>4, <3>1, ReadAsks
<1> QED
  BY <1>4, <1>7, <1>8, <1>10, <1>11, Zenon DEF ReadWith

\* The state of a read whose sector has come.
LEMMA ReadCame ==
    ASSUME FilesInv, NEW t \in Threads, NEW then \in {"skip", "bytes", "next_bytes"},
           Arrives(t, then), starved' = starved
    PROVE  /\ TypeInv /\ ProgressInv /\ data \in DOMAIN Disk /\ UNCHANGED <<lba, overlap>>
           /\ data' \in {data, None} /\ (starved => starved') /\ (starved' => starved)
           /\ cmd[t].at \in {"read", "header", "segment"}
           /\ io[t].my \in ReadLocals /\ io[t] \in ReadCalls
           /\ \A n : (n = NodeAt(nodes, cmd[t].node) /\ Trusted(cmd[t])) =>
                /\ Sized(n) /\ GoodNode(n)
                /\ Request(cmd[t])[1] \in Nat /\ Request(cmd[t])[2] \in Nat
                /\ InFile(n, Request(cmd[t])[1], Request(cmd[t])[2], then, data, io[t].my)
<1>1. /\ TypeInv /\ ProgressInv /\ data \in DOMAIN Disk /\ UNCHANGED <<lba, overlap>>
      /\ data' \in {data, None} /\ cmd[t] \in Cmd /\ Flow(cmd[t], io[t])
      /\ io[t].at = "data" /\ io[t].then = then /\ (Trusted(cmd[t]) => data = io[t].lba)
  BY Came
<1>2. io[t] \in ReadCalls
  BY <1>1, ArrivesType
<1>3. io[t].my \in ReadLocals /\ cmd[t].at \in {"read", "header", "segment"}
  BY <1>1, <1>2, InRead DEF ReadCalls
<1>4. io[t].at # "none" /\ io[t].at # "buffer"
  BY <1>1
<1>5. Purpose(io[t]) = then
  BY <1>1, <1>4, Zenon DEF Purpose
<1>6. ASSUME NEW n, n = NodeAt(nodes, cmd[t].node), Trusted(cmd[t])
      PROVE  /\ Sized(n) /\ GoodNode(n)
             /\ Request(cmd[t])[1] \in Nat /\ Request(cmd[t])[2] \in Nat
             /\ InFile(n, Request(cmd[t])[1], Request(cmd[t])[2], then, data, io[t].my)
  <2>1. PICK c, offset, size : c = cmd[t] /\ offset = Request(c)[1] /\ size = Request(c)[2]
    OBVIOUS
  <2>2. Answers(c, io[t], n, offset, size)
    BY <1>1, <1>3, <1>6, <2>1, InReading
  <2>3. Sized(n) /\ GoodNode(n) /\ offset \in Nat /\ size \in Nat
        /\ (io[t].at # "none" => InFile(n, offset, size, Purpose(io[t]), io[t].lba, io[t].my))
    BY <2>2, Zenon DEF Answers
  <2>4. data = io[t].lba
    BY <1>1, <1>6
  <2>5. InFile(n, offset, size, then, data, io[t].my)
    BY <1>4, <1>5, <2>3, <2>4, Zenon
  <2> QED
    BY <2>1, <2>3, <2>5, Zenon
<1> QED
  BY <1>1, <1>2, <1>3, <1>6

LEMMA SkipProceeds == ASSUME FilesInv, NEW t \in Threads, Skip(t) PROVE Proceeds(t)
<1>0. PICK n, old, c, skip, my :
        /\ n = NodeAt(nodes, cmd[t].node) /\ old = io[t].my /\ c = FatWord(old.cluster)
        /\ skip = old.skip - 1 /\ my = [old EXCEPT !.cluster = c, !.skip = skip]
  OBVIOUS
<1>1. Arrives(t, "skip") /\ starved' = starved /\ UNCHANGED <<nodes, next_node>>
  BY DEF Skip
<1>2. PICK offset, size : offset = Request(cmd[t])[1] /\ size = Request(cmd[t])[2]
  OBVIOUS
<1>3. /\ TypeInv /\ ProgressInv /\ data \in DOMAIN Disk /\ UNCHANGED <<lba, overlap>>
      /\ data' \in {data, None} /\ (starved => starved')
      /\ cmd[t].at \in {"read", "header", "segment"} /\ old \in ReadLocals
      /\ io[t] \in ReadCalls
      /\ Trusted(cmd[t]) =>
           /\ Sized(n) /\ GoodNode(n) /\ offset \in Nat /\ size \in Nat
           /\ InFile(n, offset, size, "skip", data, old)
  <2>1. PICK then : then = "skip" /\ then \in {"skip", "bytes", "next_bytes"}
    OBVIOUS
  <2>2. Arrives(t, then) /\ starved' = starved /\ then \in {"skip", "bytes", "next_bytes"}
    BY <1>1, <2>1
  <2>3. /\ TypeInv /\ ProgressInv /\ data \in DOMAIN Disk /\ UNCHANGED <<lba, overlap>>
        /\ data' \in {data, None} /\ (starved => starved')
        /\ cmd[t].at \in {"read", "header", "segment"} /\ io[t].my \in ReadLocals
        /\ io[t] \in ReadCalls
    BY <2>2, ReadCame, Zenon
  <2>4. Trusted(cmd[t]) =>
           /\ Sized(n) /\ GoodNode(n)
           /\ Request(cmd[t])[1] \in Nat /\ Request(cmd[t])[2] \in Nat
           /\ InFile(n, Request(cmd[t])[1], Request(cmd[t])[2], then, data, io[t].my)
    BY <1>0, <2>2, ReadCame, Zenon
  <2> QED
    BY <1>0, <1>2, <2>1, <2>3, <2>4, Zenon
<1>4. old.skip > 0 /\ old.skip \in Nat /\ skip \in Nat /\ old.cluster \in Nat
  <2>1. Flow(cmd[t], io[t]) /\ io[t].then = "skip"
    BY <1>1, <1>3, Between DEF Arrives
  <2>2. old.skip > 0 /\ old.skip \in Nat /\ old.cluster \in Nat
    BY <1>0, <1>3, <2>1 DEF Flow, ReadLocals
  <2> QED
    BY <1>0, <2>2
<1>5. my \in ReadLocals /\ my.skip = skip
  <2>1. c \in Nat
    BY <1>0, <1>3, <1>4, FatWordType
  <2> QED
    BY <1>0, <1>3, <1>4, <2>1 DEF ReadLocals
<1>6. ASSUME Trusted(cmd[t])
      PROVE  InUse(c) /\ InFile(n, offset, size, "skip", FatSector(c), my)
  <2>1. PICK f : f = FatEntry(old.cluster)
    OBVIOUS
  <2>2. /\ Sized(n) /\ GoodNode(n) /\ offset \in Nat /\ size \in Nat
        /\ InFile(n, offset, size, "skip", data, old)
    BY <1>3, <1>6
  <2>3. Skipping(n, offset, size, data, old)
    BY <1>3, <1>4, <2>2, Zenon DEF Skipping
  <2>4. my = [old EXCEPT !.cluster = c, !.skip = old.skip - 1]
    BY <1>0, Zenon
  <2>5. data = FatSector(old.cluster)
    BY <2>3, OneSkipped
  <2>6. c = f
    BY <1>0, <2>1, <2>5, WordCame
  <2> QED
    BY <2>1, <2>3, <2>4, <2>6, OneSkipped, Zenon
<1>7. CASE ~ InUse(c)
  <2>1. PICK got : got = <<>>
    OBVIOUS
  <2>2. Returned(t, got)
    BY <1>0, <1>7, <2>1, Zenon DEF Skip
  <2>3. got \in Seq(Byte) /\ ~ Trusted(cmd[t])
    BY <1>6, <1>7, <2>1, EmptySeq
  <2> QED
    BY <1>0, <1>1, <1>3, <2>2, <2>3, ReturnedStep
<1>8. CASE InUse(c) /\ skip = 0
  <2>1. NeedsBuffer(t, my) /\ UNCHANGED cmd
    BY <1>0, <1>5, <1>8, Zenon DEF Skip
  <2>2. ASSUME Trusted(cmd[t])
        PROVE  InFile(n, Request(cmd[t])[1], Request(cmd[t])[2], "buffer", None, my)
    <3>1. /\ Sized(n) /\ GoodNode(n) /\ offset \in Nat /\ size \in Nat /\ my.skip = 0
          /\ InFile(n, offset, size, "skip", FatSector(c), my)
      BY <1>3, <1>5, <1>6, <1>8, <2>2
    <3>2. InFile(n, offset, size, "buffer", None, my)
      BY <1>5, <3>1, SkipEnds
    <3> QED
      BY <1>2, <3>2, Zenon
  <2> QED
    BY <1>0, <1>1, <1>3, <2>1, <2>2, ReadWaits
<1>9. CASE InUse(c) /\ skip # 0
  <2>1. PICK sector, then : /\ sector = FatSector(c) /\ then = "skip"
                            /\ then \in {"skip", "bytes", "next_bytes"}
    OBVIOUS
  <2>2. Asks(t, sector, then, my) /\ UNCHANGED cmd
    BY <1>0, <1>5, <1>9, <2>1, Zenon DEF Skip
  <2>3. Trusted(cmd[t]) =>
          InFile(n, Request(cmd[t])[1], Request(cmd[t])[2], then, sector, my)
    BY <1>2, <1>6, <2>1, Zenon
  <2> QED
    BY <1>0, <1>1, <1>3, <2>1, <2>2, <2>3, ReadAsks
<1> QED
  BY <1>7, <1>8, <1>9

\* A read before its next cluster: it goes on there, or has what it wants.
Ready(n, offset, size, my) ==
    /\ Sized(n) /\ GoodNode(n) /\ offset \in Nat /\ size \in Nat /\ my \in ReadLocals
    /\ Len(my.got) < my.want => InFile(n, offset, size, "buffer", None, my)
    /\ ~ (Len(my.got) < my.want) => Got(n, offset, size, my.got)

LEMMA ReadyBegins ==
    ASSUME NEW n, NEW offset, NEW size, NEW my, Ready(n, offset, size, my)
    PROVE  \A e : (Len(my.got) < my.want /\ e = [my EXCEPT !.buf = <<>>]) =>
             /\ InUse(my.cluster)
             /\ InFile(n, offset, size, "bytes", SectorOf(my.cluster, 0), e)
<1> SUFFICES ASSUME NEW e, Len(my.got) < my.want, e = [my EXCEPT !.buf = <<>>]
             PROVE  /\ InUse(my.cluster)
                    /\ InFile(n, offset, size, "bytes", SectorOf(my.cluster, 0), e)
  BY Zenon
<1>1. /\ Sized(n) /\ GoodNode(n) /\ offset \in Nat /\ size \in Nat /\ my \in ReadLocals
      /\ InFile(n, offset, size, "buffer", None, my)
  BY Zenon DEF Ready
<1>2. PICK sector : sector = None
  OBVIOUS
<1>3. InFile(n, offset, size, "buffer", sector, my)
  BY <1>1, <1>2, Zenon
<1>4. /\ InUse(my.cluster)
      /\ InFile(n, offset, size, "bytes", SectorOf(my.cluster, 0), [my EXCEPT !.buf = <<>>])
  BY <1>1, <1>3, ClusterBegins
<1> QED
  BY <1>4, Zenon

LEMMA NextClusterProceeds ==
    ASSUME FilesInv, NEW t \in Threads, cmd[t].at \in {"read", "header", "segment"},
           NEW my \in ReadLocals, NextCluster(t, my), UNCHANGED <<nodes, next_node, lba, overlap>>,
           data' \in {data, None}, starved => starved', NEW n, n = NodeAt(nodes, cmd[t].node),
           Trusted(cmd[t]) => Ready(n, Request(cmd[t])[1], Request(cmd[t])[2], my)
    PROVE  Proceeds(t)
<1>1. PICK offset, size : offset = Request(cmd[t])[1] /\ size = Request(cmd[t])[2]
  OBVIOUS
<1>2. Trusted(cmd[t]) => Ready(n, offset, size, my)
  BY <1>1, Zenon
<1>3. CASE Len(my.got) < my.want /\ InUse(my.cluster)
  <2>1. PICK e, sector, then : /\ e = [my EXCEPT !.buf = <<>>] /\ sector = SectorOf(my.cluster, 0)
                               /\ then = "bytes" /\ then \in {"skip", "bytes", "next_bytes"}
    OBVIOUS
  <2>2. Asks(t, sector, then, e) /\ UNCHANGED cmd
    BY <1>3, <2>1, Zenon DEF NextCluster
  <2>3. ASSUME Trusted(cmd[t])
        PROVE  InFile(n, Request(cmd[t])[1], Request(cmd[t])[2], then, sector, e)
    <3>1. Ready(n, offset, size, my)
      BY <1>2, <2>3
    <3>2. InFile(n, offset, size, "bytes", SectorOf(my.cluster, 0), e)
      BY <1>3, <2>1, <3>1, ReadyBegins, Zenon
    <3> QED
      BY <1>1, <2>1, <3>2, Zenon
  <2>4. then \in {"skip", "bytes", "next_bytes"}
    BY <2>1
  <2> QED
    BY <2>2, <2>3, <2>4, ReadAsks
<1>4. CASE ~ (Len(my.got) < my.want /\ InUse(my.cluster))
  <2>1. PICK got : got = my.got
    OBVIOUS
  <2>2. Returned(t, got)
    BY <1>4, <2>1, Zenon DEF NextCluster
  <2>3. got \in Seq(Byte)
    BY <2>1 DEF ReadLocals
  <2>4. ASSUME Trusted(cmd[t]) PROVE Got(n, Request(cmd[t])[1], Request(cmd[t])[2], got)
    <3>1. Ready(n, offset, size, my)
      BY <1>2, <2>4
    <3>2. PICK e : e = [my EXCEPT !.buf = <<>>]
      OBVIOUS
    <3>3. ~ (Len(my.got) < my.want)
      BY <1>4, <3>1, <3>2, ReadyBegins, Zenon
    <3>4. Got(n, offset, size, my.got)
      BY <3>1, <3>3, Zenon DEF Ready
    <3> QED
      BY <1>1, <2>1, <3>4, Zenon
  <2> QED
    BY <2>2, <2>3, <2>4, ReturnedStep
<1> QED
  BY <1>3, <1>4

LEMMA BufferProceeds == ASSUME FilesInv, NEW t \in Threads, Buffer(t) PROVE Proceeds(t)
<1>0. PICK n, my : n = NodeAt(nodes, cmd[t].node) /\ my = io[t].my
  OBVIOUS
<1>1. PICK offset, size : offset = Request(cmd[t])[1] /\ size = Request(cmd[t])[2]
  OBVIOUS
<1>2. /\ UNCHANGED <<nodes, next_node, lba, overlap>> /\ data' \in {data, None}
      /\ io[t].at = "buffer" /\ TypeInv /\ ProgressInv
  BY DEF Buffer, FilesInv
<1>3. io[t] \in BufferCalls /\ cmd[t] \in Cmd /\ Flow(cmd[t], io[t])
  BY <1>2, Between, CallsAre
<1>4. my \in ReadLocals /\ cmd[t].at \in {"read", "header", "segment"}
  BY <1>0, <1>3, InRead DEF BufferCalls
<1>5. io[t].at # "none" /\ Purpose(io[t]) = "buffer" /\ io[t].lba = None
  <2>1. io[t].at # "none" /\ io[t].lba = None
    BY <1>2, <1>3 DEF BufferCalls
  <2> QED
    BY <1>2, <2>1, Zenon DEF Purpose
<1>6. CASE NextCluster(t, my) /\ UNCHANGED starved
  <2>1. ASSUME Trusted(cmd[t]) PROVE Ready(n, Request(cmd[t])[1], Request(cmd[t])[2], my)
    <3>1. Answers(cmd[t], io[t], n, offset, size)
      BY <1>0, <1>1, <1>2, <1>4, <2>1, InReading
    <3>2. /\ Sized(n) /\ GoodNode(n) /\ offset \in Nat /\ size \in Nat
          /\ InFile(n, offset, size, "buffer", None, my)
      BY <1>0, <1>5, <3>1, Zenon DEF Answers
    <3>3. ASSUME ~ (Len(my.got) < my.want) PROVE Got(n, offset, size, my.got)
      <4>1. PICK sector, then : /\ sector = None /\ then = "buffer"
                                /\ InFile(n, offset, size, then, sector, my)
        BY <3>2, Zenon
      <4>2. InFile(n, offset, size, "buffer", sector, my)
        BY <4>1, Zenon
      <4>3. Len(my.got) = my.want
        BY <1>4, <3>2, <3>3, <4>2, ClusterBegins
      <4> QED
        BY <1>4, <3>2, <4>1, <4>3, FileGot
    <3> QED
      BY <1>1, <1>4, <3>2, <3>3, Zenon DEF Ready
  <2>2. starved => starved'
    BY <1>6
  <2> QED
    BY <1>0, <1>2, <1>4, <1>6, <2>1, <2>2, NextClusterProceeds
<1>7. CASE Returned(t, <<>>) /\ starved' = TRUE
  <2>1. PICK got : got = <<>>
    OBVIOUS
  <2>2. Returned(t, got) /\ starved' /\ (starved => starved')
    BY <1>7, <2>1
  <2>3. got \in Seq(Byte)
    BY <2>1, EmptySeq
  <2> QED
    BY <1>0, <1>2, <1>4, <2>2, <2>3, ReturnedStep
<1> QED
  BY <1>0, <1>6, <1>7, Zenon DEF Buffer

\* The next cluster of a read whose word has come.
LEMMA FollowsReady ==
    ASSUME NEW n, NEW offset \in Nat, NEW size \in Nat, NEW old \in ReadLocals, NEW sector,
           Sized(n), GoodNode(n), InFile(n, offset, size, "next_bytes", sector, old),
           NEW c, c = FatEntry(old.cluster), c \in Nat
    PROVE  \A my : my = [old EXCEPT !.cluster = c] => Ready(n, offset, size, my)
<1> SUFFICES ASSUME NEW my, my = [old EXCEPT !.cluster = c]
             PROVE  Ready(n, offset, size, my)
  BY Zenon
<1>1. PICK other : other = None
  OBVIOUS
<1>2. my \in ReadLocals /\ my.got = old.got /\ my.want = old.want
  BY DEF ReadLocals
<1>3. /\ ~ (Len(old.got) < old.want) => Len(old.got) = old.want
      /\ Len(old.got) < old.want =>
           InFile(n, offset, size, "buffer", other, [old EXCEPT !.cluster = c])
  BY ClusterFollows
<1>4. ASSUME ~ (Len(old.got) < old.want) PROVE Got(n, offset, size, old.got)
  <2>1. Len(old.got) = old.want
    BY <1>3, <1>4
  <2>2. PICK then : then = "next_bytes"
    OBVIOUS
  <2>3. InFile(n, offset, size, then, sector, old)
    BY <2>2, Zenon
  <2> QED
    BY <2>1, <2>3, FileGot
<1>5. Len(my.got) < my.want => InFile(n, offset, size, "buffer", None, my)
  BY <1>1, <1>2, <1>3, Zenon
<1>6. ~ (Len(my.got) < my.want) => Got(n, offset, size, my.got)
  BY <1>2, <1>4, Zenon
<1> QED
  BY <1>2, <1>5, <1>6, Zenon DEF Ready

LEMMA NextBytesProceeds == ASSUME FilesInv, NEW t \in Threads, NextBytes(t) PROVE Proceeds(t)
<1>0. PICK n, old, c, my :
        /\ n = NodeAt(nodes, cmd[t].node) /\ old = io[t].my /\ c = FatWord(old.cluster)
        /\ my = [old EXCEPT !.cluster = c]
  OBVIOUS
<1>1. Arrives(t, "next_bytes") /\ starved' = starved /\ UNCHANGED <<nodes, next_node>>
  BY DEF NextBytes
<1>2. PICK offset, size : offset = Request(cmd[t])[1] /\ size = Request(cmd[t])[2]
  OBVIOUS
<1>3. /\ TypeInv /\ ProgressInv /\ data \in DOMAIN Disk /\ UNCHANGED <<lba, overlap>>
      /\ data' \in {data, None} /\ (starved => starved')
      /\ cmd[t].at \in {"read", "header", "segment"} /\ old \in ReadLocals
      /\ io[t] \in ReadCalls
      /\ Trusted(cmd[t]) =>
           /\ Sized(n) /\ GoodNode(n) /\ offset \in Nat /\ size \in Nat
           /\ InFile(n, offset, size, "next_bytes", data, old)
  <2>1. PICK then : then = "next_bytes" /\ then \in {"skip", "bytes", "next_bytes"}
    OBVIOUS
  <2>2. Arrives(t, then) /\ starved' = starved /\ then \in {"skip", "bytes", "next_bytes"}
    BY <1>1, <2>1
  <2>3. /\ TypeInv /\ ProgressInv /\ data \in DOMAIN Disk /\ UNCHANGED <<lba, overlap>>
        /\ data' \in {data, None} /\ (starved => starved')
        /\ cmd[t].at \in {"read", "header", "segment"} /\ io[t].my \in ReadLocals
        /\ io[t] \in ReadCalls
    BY <2>2, ReadCame, Zenon
  <2>4. Trusted(cmd[t]) =>
           /\ Sized(n) /\ GoodNode(n)
           /\ Request(cmd[t])[1] \in Nat /\ Request(cmd[t])[2] \in Nat
           /\ InFile(n, Request(cmd[t])[1], Request(cmd[t])[2], then, data, io[t].my)
    BY <1>0, <2>2, ReadCame, Zenon
  <2> QED
    BY <1>0, <1>2, <2>1, <2>3, <2>4, Zenon
<1>4. c \in Nat /\ my \in ReadLocals
  <2>1. c \in Nat
    BY <1>0, <1>3, FatWordType DEF ReadLocals
  <2> QED
    BY <1>0, <1>3, <2>1 DEF ReadLocals
<1>5. NextCluster(t, my)
  BY <1>0, Zenon DEF NextBytes
<1>6. ASSUME Trusted(cmd[t]) PROVE Ready(n, Request(cmd[t])[1], Request(cmd[t])[2], my)
  <2>1. /\ Sized(n) /\ GoodNode(n) /\ offset \in Nat /\ size \in Nat
        /\ InFile(n, offset, size, "next_bytes", data, old)
    BY <1>3, <1>6
  <2>2. data = FatSector(old.cluster)
    BY <2>1, Zenon DEF InFile
  <2>3. c = FatEntry(old.cluster)
    BY <1>0, <2>2, WordCame
  <2>4. \A m : m = [old EXCEPT !.cluster = c] => Ready(n, offset, size, m)
    BY <1>3, <1>4, <2>1, <2>3, FollowsReady
  <2> QED
    BY <1>0, <1>2, <2>4, Zenon
<1> QED
  BY <1>0, <1>1, <1>3, <1>4, <1>5, <1>6, NextClusterProceeds

\* A read with a sector more.
Loaded(n, offset, size, sector, my) ==
    /\ Sized(n) /\ GoodNode(n) /\ offset \in Nat /\ size \in Nat /\ my \in ReadLocals
    /\ InFile(n, offset, size, "bytes", sector, my) /\ sector \in DOMAIN Disk

LEMMA LoadedGoesOn ==
    ASSUME NEW n, NEW offset, NEW size, NEW sector, NEW my, Loaded(n, offset, size, sector, my)
    PROVE  \A buf, d, next :
             (/\ buf = my.buf \o Disk[sector].bytes /\ d = [my EXCEPT !.buf = buf]
              /\ next = Len(buf) \div SectorBytes) =>
               /\ next < PerCluster =>
                    InFile(n, offset, size, "bytes", SectorOf(my.cluster, next), d)
               /\ ~ (next < PerCluster) =>
                    InFile(n, offset, size, "next_bytes", FatSector(d.cluster), Copied(d))
<1>0. SUFFICES ASSUME NEW buf, NEW d, NEW next, buf = my.buf \o Disk[sector].bytes,
                      d = [my EXCEPT !.buf = buf], next = Len(buf) \div SectorBytes
             PROVE  /\ next < PerCluster =>
                         InFile(n, offset, size, "bytes", SectorOf(my.cluster, next), d)
                    /\ ~ (next < PerCluster) =>
                         InFile(n, offset, size, "next_bytes", FatSector(d.cluster), Copied(d))
  BY Zenon
<1>1. /\ Sized(n) /\ GoodNode(n) /\ offset \in Nat /\ size \in Nat /\ my \in ReadLocals
      /\ InFile(n, offset, size, "bytes", sector, my) /\ sector \in DOMAIN Disk
  BY Zenon DEF Loaded
<1>2. PICK k \in 1 .. PerCluster :
        /\ k = Len(buf) \div SectorBytes /\ Len(buf) = k * SectorBytes
        /\ buf \in Seq(Byte) /\ Filled(my.cluster, buf)
        /\ k < PerCluster =>
             InFile(n, offset, size, "bytes", SectorOf(my.cluster, k), [my EXCEPT !.buf = buf])
  BY <1>0, <1>1, SectorRead
<1>3. next = k
  BY <1>0, <1>2, Zenon
<1>4. ASSUME ~ (next < PerCluster)
      PROVE  InFile(n, offset, size, "next_bytes", FatSector(d.cluster), Copied(d))
  <2>1. k = PerCluster
    BY <1>3, <1>4, Sizes
  <2>2. Full(my.cluster, buf)
    BY <1>2, <2>1, Zenon DEF Full, ClusterBytes
  <2>3. \A e : e = [my EXCEPT !.buf = buf] =>
              InFile(n, offset, size, "next_bytes", FatSector(e.cluster), Copied(e))
    BY <1>1, <2>2, ClusterRead
  <2> QED
    BY <1>0, <2>3, Zenon
<1> QED
  BY <1>0, <1>2, <1>3, <1>4, Zenon

LEMMA BytesProceeds == ASSUME FilesInv, NEW t \in Threads, Bytes(t) PROVE Proceeds(t)
<1>0. PICK n, old, buf, my, next :
       /\ n = NodeAt(nodes, cmd[t].node) /\ old = io[t].my /\ buf = old.buf \o Disk[data].bytes
       /\ my = [old EXCEPT !.buf = buf] /\ next = Len(buf) \div SectorBytes
  OBVIOUS
<1>1. Arrives(t, "bytes") /\ starved' = starved /\ UNCHANGED <<nodes, next_node, cmd>>
  BY DEF Bytes
<1>2. PICK offset, size : offset = Request(cmd[t])[1] /\ size = Request(cmd[t])[2]
  OBVIOUS
<1>3. /\ TypeInv /\ ProgressInv /\ data \in DOMAIN Disk /\ UNCHANGED <<lba, overlap>>
      /\ data' \in {data, None} /\ (starved => starved')
      /\ cmd[t].at \in {"read", "header", "segment"} /\ old \in ReadLocals
      /\ io[t] \in ReadCalls
      /\ Trusted(cmd[t]) =>
           /\ Sized(n) /\ GoodNode(n) /\ offset \in Nat /\ size \in Nat
           /\ InFile(n, offset, size, "bytes", data, old)
  <2>1. PICK then : then = "bytes" /\ then \in {"skip", "bytes", "next_bytes"}
    OBVIOUS
  <2>2. Arrives(t, then) /\ starved' = starved /\ then \in {"skip", "bytes", "next_bytes"}
    BY <1>1, <2>1
  <2>3. /\ TypeInv /\ ProgressInv /\ data \in DOMAIN Disk /\ UNCHANGED <<lba, overlap>>
        /\ data' \in {data, None} /\ (starved => starved')
        /\ cmd[t].at \in {"read", "header", "segment"} /\ io[t].my \in ReadLocals
        /\ io[t] \in ReadCalls
    BY <2>2, ReadCame, Zenon
  <2>4. Trusted(cmd[t]) =>
           /\ Sized(n) /\ GoodNode(n)
           /\ Request(cmd[t])[1] \in Nat /\ Request(cmd[t])[2] \in Nat
           /\ InFile(n, Request(cmd[t])[1], Request(cmd[t])[2], then, data, io[t].my)
    BY <1>0, <2>2, ReadCame, Zenon
  <2> QED
    BY <1>0, <1>2, <2>1, <2>3, <2>4, Zenon
<1>4. my.cluster = old.cluster /\ my.buf = buf
  BY <1>0, <1>3 DEF ReadLocals
<1>5. IF next < PerCluster THEN Asks(t, SectorOf(my.cluster, next), "bytes", my)
                           ELSE Asks(t, FatSector(my.cluster), "next_bytes", Copied(my))
  <2>1. my = [io[t].my EXCEPT !.buf = @ \o Disk[data].bytes]
    BY <1>0, Zenon
  <2>2. next = Len(my.buf) \div SectorBytes
    BY <1>0, <1>4, Zenon
  <2> QED
    BY <2>1, <2>2, Zenon DEF Bytes
<1>6. ASSUME Trusted(cmd[t])
      PROVE  /\ next < PerCluster =>
                  InFile(n, offset, size, "bytes", SectorOf(my.cluster, next), my)
             /\ ~ (next < PerCluster) =>
                  InFile(n, offset, size, "next_bytes", FatSector(my.cluster), Copied(my))
  <2>1. Loaded(n, offset, size, data, old)
    BY <1>3, <1>6, Zenon DEF Loaded
  <2>2. \A b, d, x :
             (/\ b = old.buf \o Disk[data].bytes /\ d = [old EXCEPT !.buf = b]
              /\ x = Len(b) \div SectorBytes) =>
               /\ x < PerCluster =>
                    InFile(n, offset, size, "bytes", SectorOf(old.cluster, x), d)
               /\ ~ (x < PerCluster) =>
                    InFile(n, offset, size, "next_bytes", FatSector(d.cluster), Copied(d))
    BY <2>1, LoadedGoesOn, Zenon
  <2>3. /\ next < PerCluster =>
             InFile(n, offset, size, "bytes", SectorOf(old.cluster, next), my)
        /\ ~ (next < PerCluster) =>
             InFile(n, offset, size, "next_bytes", FatSector(my.cluster), Copied(my))
    BY <1>0, <2>2, Zenon
  <2> QED
    BY <1>4, <2>3, Zenon
<1>7. CASE next < PerCluster
  <2>1. PICK sector, then : /\ sector = SectorOf(my.cluster, next) /\ then = "bytes"
                            /\ then \in {"skip", "bytes", "next_bytes"}
    OBVIOUS
  <2>2. Asks(t, sector, then, my) /\ then \in {"skip", "bytes", "next_bytes"}
    BY <1>5, <1>7, <2>1, Zenon
  <2>3. Trusted(cmd[t]) =>
          InFile(n, Request(cmd[t])[1], Request(cmd[t])[2], then, sector, my)
    BY <1>2, <1>6, <1>7, <2>1, Zenon
  <2> QED
    BY <1>0, <1>1, <1>3, <2>2, <2>3, ReadAsks
<1>8. CASE ~ (next < PerCluster)
  <2>1. PICK sector, then, e : /\ sector = FatSector(my.cluster) /\ then = "next_bytes"
                               /\ then \in {"skip", "bytes", "next_bytes"} /\ e = Copied(my)
    OBVIOUS
  <2>2. Asks(t, sector, then, e) /\ then \in {"skip", "bytes", "next_bytes"}
    BY <1>5, <1>8, <2>1, Zenon
  <2>3. Trusted(cmd[t]) =>
          InFile(n, Request(cmd[t])[1], Request(cmd[t])[2], then, sector, e)
    BY <1>2, <1>6, <1>8, <2>1, Zenon
  <2> QED
    BY <1>0, <1>1, <1>3, <2>2, <2>3, ReadAsks
<1> QED
  BY <1>7, <1>8

-----------------------------------------------------------------------------
(* The invariant.                                                          *)

LEMMA FirstNode ==
    ASSUME NEW path \in Paths, GoodPath(path), NEW n, n = Directory("root", None)
    PROVE  Walking(path, path, n) /\ GoodNode(n)
<1>1. n.dir /\ n.cluster = None
  BY RootDirectory
<1>2. GoodNode(n)
  BY <1>1, Zenon DEF GoodNode
<1>3. /\ path \in Seq(Names \cup {"/"}) /\ Len(path) \in Nat /\ Len(Trail[path]) \in Nat \ {0}
      /\ Trail[path][1] = n
  BY PathIs
<1>4. PICK last, k : last = Len(path) /\ k = 0
  OBVIOUS
<1>5. path # <<>>
  BY Zenon DEF GoodPath
<1>6. last \in Nat \ {0} /\ k \in 0 .. last - 1
  BY <1>3, <1>4, <1>5
<1>7. SubSeq(path, 1, last) = path
  BY <1>3, <1>4
<1>8. Depth(path, k) = 0
  BY <1>4, DepthZero
<1>9. /\ k + 1 = 1 /\ Depth(path, k) < Len(Trail[path]) /\ Depth(path, k) + 1 = 1
  BY <1>3, <1>4, <1>8
<1>10. path = SubSeq(path, k + 1, Len(path)) /\ n = Trail[path][Depth(path, k) + 1]
  BY <1>3, <1>4, <1>7, <1>9, Zenon
<1> QED
  BY <1>2, <1>4, <1>6, <1>9, <1>10, Zenon DEF Walking

LEMMA BeginFields ==
    ASSUME NEW do, NEW path, NEW c, c = Begin(do, path)
    PROVE  /\ c.do = do /\ c.path = path /\ c.rest = path /\ c.at = "walk" /\ c.node = Root
           /\ c.names = <<>> /\ c.out = <<>> /\ c.taken = 0
<1>1. PICK none, root : none = <<>> /\ root = Root
  OBVIOUS
<1>2. c = [do |-> do, at |-> "walk", path |-> path, rest |-> path, node |-> root,
           from |-> 0, names |-> none, out |-> none, result |-> None, taken |-> 0]
  BY <1>1, Zenon DEF Begin
<1>3. /\ c.do = do /\ c.path = path /\ c.rest = path /\ c.at = "walk" /\ c.node = root
      /\ c.names = none /\ c.out = none /\ c.taken = 0
  BY <1>2
<1> QED
  BY <1>1, <1>3, Zenon

\* A command that begins is at the root, with its whole path to go.
LEMMA BeginProgress ==
    ASSUME NEW do, NEW path \in Paths, NEW c, c = Begin(do, path), NEW pool, GoodPath(path)
    PROVE  Progress(c, NoIo, NodeAt(pool, c.node))
<1>1. /\ c.path = path /\ c.rest = path /\ c.at = "walk" /\ c.node = Root
      /\ c.names = <<>> /\ c.out = <<>>
  BY BeginFields
<1>2. PICK n : n = NodeAt(pool, c.node)
  OBVIOUS
<1>3. n = Directory("root", None)
  <2>1. c.node[1] = "root"
    BY <1>1 DEF Root
  <2> QED
    BY <1>2, <2>1, Zenon DEF NodeAt
<1>4. Walking(path, path, n) /\ GoodNode(n)
  BY <1>3, FirstNode
<1>5. PICK none : none = <<>>
  OBVIOUS
<1>6. Len(none) = 0
  BY <1>5
<1>7. Len(c.names) = 0 /\ Len(c.out) = 0
  BY <1>1, <1>5, <1>6, Zenon
<1>8. c.at # "find" /\ c.at # "list" /\ c.at \notin {"read", "header", "segment"} /\ c.at # "done"
  BY <1>1
<1> QED
  BY <1>1, <1>2, <1>4, <1>7, <1>8, Zenon DEF Progress

LEMMA StartInv == ASSUME FilesInv, NEW e \in Commands, Start(e[1], e[2]) PROVE FilesInv'
<1>1. TypeInv /\ DriveInv /\ PoolInv /\ ProgressInv /\ TypeInv'
  BY StartType DEF FilesInv
<1>2. PICK do, path, c : do = e[1] /\ path = e[2] /\ c = Begin(do, path)
  OBVIOUS
<1>3. path \in Paths
  BY <1>2 DEF Paths
<1>4. /\ cmd' = [cmd EXCEPT ![Shell] = c]
      /\ UNCHANGED <<nodes, next_node, lba, data, io, overlap, starved>>
  BY <1>2, Zenon DEF Start, With
<1>5. /\ cmd'[Shell] = c /\ Shell \in Threads /\ cmd[Shell].at = "done"
      /\ \A u \in Threads : u # Shell => cmd'[u] = cmd[u]
  <2>1. cmd'[Shell] = c /\ Shell \in Threads
        /\ \A u \in Threads : u # Shell => cmd'[u] = cmd[u]
    BY <1>1, <1>4 DEF TypeInv, TypeOK, Threads
  <2>2. cmd[Shell].at = "done"
    BY Zenon DEF Start
  <2> QED
    BY <2>1, <2>2
<1>6. io[Shell] = NoIo
  <2>1. Flow(cmd[Shell], io[Shell])
    BY <1>1, <1>5, Between
  <2> QED
    BY <1>5, <2>1 DEF Flow
<1>7. c.path = path /\ c.node = Root
  BY <1>2, BeginFields
<1>8. DriveInv'
  BY <1>1, <1>4 DEF DriveInv, Driving
<1>9. PoolInv'
  <2>1. c.node[1] # "fat"
    BY <1>7 DEF Root
  <2>2. ASSUME NEW u \in Threads, cmd'[u].at # "done", cmd'[u].node[1] = "fat",
               cmd'[u].taken < MAX_FAT32_NODES
        PROVE  \E m \in 0 .. cmd'[u].taken :
                 next_node' = (cmd'[u].node[2] + 1 + m) % MAX_FAT32_NODES
    <3>1. u # Shell /\ cmd'[u] = cmd[u]
      BY <1>5, <2>1, <2>2
    <3>2. Behind(cmd[u], cmd[u].node[2])
      BY <1>1, <2>2, <3>1 DEF PoolInv
    <3> QED
      BY <1>4, <3>1, <3>2 DEF Behind
  <2> QED
    BY <2>2 DEF PoolInv, Behind
<1>10. ASSUME NEW u \in Threads, StillTrusted(cmd'[u])
       PROVE  Progress(cmd'[u], io'[u], NodeAt(nodes', cmd'[u].node))
  <2>1. CASE u = Shell
    <3>1. GoodPath(path)
      <4>1. GoodPath(c.path)
        BY <1>5, <1>10, <2>1, Zenon DEF StillTrusted
      <4> QED
        BY <1>7, <4>1, Zenon
    <3>2. Progress(c, NoIo, NodeAt(nodes, c.node))
      BY <1>2, <1>3, <3>1, BeginProgress
    <3>3. cmd'[u] = c /\ io'[u] = NoIo /\ nodes' = nodes
      BY <1>4, <1>5, <1>6, <2>1
    <3> QED
      BY <3>2, <3>3
  <2>2. CASE u # Shell
    <3>1. cmd'[u] = cmd[u] /\ io'[u] = io[u] /\ nodes' = nodes
      BY <1>4, <1>5, <2>2
    <3>2. Trusted(cmd[u])
      BY <1>4, <1>10, <3>1, Zenon DEF Trusted, StillTrusted
    <3>3. Progress(cmd[u], io[u], NodeAt(nodes, cmd[u].node))
      BY <1>1, <3>2, NodesAt DEF ProgressInv
    <3> QED
      BY <3>1, <3>3
  <2> QED
    BY <2>1, <2>2
<1>11. ProgressInv'
  BY <1>10, NextProgress
<1> QED
  BY <1>1, <1>8, <1>9, <1>11 DEF FilesInv

LEMMA InitInv == Init => FilesInv
<1> SUFFICES ASSUME Init PROVE FilesInv
  OBVIOUS
<1>1. TypeInv
  BY InitType
<1>2. io = [t \in Threads |-> NoIo] /\ overlap = FALSE /\ starved = FALSE
  BY Zenon DEF Init
<1>3. PICK b, d : /\ b = Begin("exec", UserPath)
                  /\ d = [Begin("none", <<>>) EXCEPT !.at = "done"]
  OBVIOUS
<1>4. cmd = [t \in Threads |-> IF t = User THEN b ELSE d]
  BY <1>3, Zenon DEF Init
<1>5. b.path = UserPath /\ b.node = Root
  BY <1>3, BeginFields
<1>6. d.at = "done" /\ d.do = "none"
  <2>1. PICK none, e : none = <<>> /\ e = Begin("none", none)
    OBVIOUS
  <2>2. e.do = "none"
    BY <2>1, BeginFields
  <2>3. d = [e EXCEPT !.at = "done"]
    BY <1>3, <2>1, Zenon
  <2>4. e \in Cmd
    <3>1. none \in Seq(Names \cup {"/"})
      BY <2>1, NothingIs
    <3> QED
      BY <2>1, <3>1, BeginType
  <2>5. d.do = e.do /\ d.at = "done"
    BY <2>3, <2>4 DEF Cmd
  <2> QED
    BY <2>2, <2>5
<1>7. DriveInv
  <2>1. NoIo.at \notin {"command", "data"}
    BY DEF NoIo
  <2> QED
    BY <1>2, <2>1 DEF DriveInv, Driving
<1>8. \A u \in Threads : cmd[u] = b \/ cmd[u] = d
  BY <1>4
<1>9. PoolInv
  <2>1. b.node[1] # "fat"
    BY <1>5 DEF Root
  <2> QED
    BY <1>6, <1>8, <2>1, Zenon DEF PoolInv
<1>10. ASSUME NEW u \in Threads, Trusted(cmd[u])
       PROVE  Progress(cmd[u], io[u], NodeAt(nodes, cmd[u].node))
  <2>1. cmd[u] = b
    <3>1. cmd[u].do # "none"
      BY <1>10, Zenon DEF Trusted
    <3> QED
      BY <1>6, <1>8, <3>1
  <2>2. UserPath \in Paths /\ GoodPath(UserPath)
    <3>1. GoodPath(b.path)
      BY <1>10, <2>1, Zenon DEF Trusted
    <3> QED
      BY <1>5, <3>1, Zenon DEF Paths
  <2>3. Progress(b, NoIo, NodeAt(nodes, b.node))
    BY <1>3, <2>2, BeginProgress
  <2> QED
    BY <1>2, <2>1, <2>3
<1>11. ProgressInv
  BY <1>10, NodesAt DEF ProgressInv
<1> QED
  BY <1>1, <1>7, <1>9, <1>11 DEF FilesInv

LEMMA StepInv == FilesInv /\ [Next]_vars => FilesInv'
<1> SUFFICES ASSUME FilesInv, [Next]_vars PROVE FilesInv'
  OBVIOUS
<1>1. TypeInv'
  BY StepType DEF FilesInv
<1>2. CASE UNCHANGED vars
  <2>1. UNCHANGED <<nodes, next_node, lba, data, cmd, io, overlap, starved>>
    BY <1>2 DEF vars
  <2>2. TypeInv /\ DriveInv /\ PoolInv /\ ProgressInv
    BY DEF FilesInv
  <2>3. DriveInv'
    BY <2>1, <2>2 DEF DriveInv, Driving
  <2>4. PoolInv'
    BY <2>1, <2>2 DEF PoolInv, Behind
  <2>5. ProgressInv'
    BY <2>1, <2>2 DEF ProgressInv, Trusted, Node
  <2> QED
    BY <1>1, <2>3, <2>4, <2>5 DEF FilesInv
<1>3. CASE \E e \in Commands : Start(e[1], e[2])
  BY <1>3, StartInv
<1>4. ASSUME NEW t \in Threads, Steps(t) PROVE FilesInv'
  <2>1. CASE Address(t)
    BY <2>1, AddressInv
  <2>2. CASE Command(t)
    BY <2>2, CommandInv
  <2>3. CASE ~ Address(t) /\ ~ Command(t)
    <3>1. Proceeds(t)
      BY <1>4, <2>3, WalkProceeds, EntriesProceeds, NextEntriesProceeds, ListProceeds,
         ReadProceeds, SkipProceeds, BufferProceeds, BytesProceeds, NextBytesProceeds DEF Steps
    <3> QED
      BY <1>1, <3>1, ProceedsInv
  <2> QED
    BY <2>1, <2>2, <2>3
<1> QED
  BY <1>2, <1>3, <1>4 DEF Next

\* What a command that can be relied on has come to.
LEMMA ReliableRight ==
    ASSUME FilesInv, NEW t \in Threads, NEW c, c = cmd[t], Reliable(c)
    PROVE  Right(c.do, c.path, c.result, c.names, c.out)
<1>1. c.at = "done" /\ Trusted(c)
  <2>1. /\ c.at = "done" /\ c.do # "none" /\ ~ overlap /\ ~ starved /\ c.taken < MAX_FAT32_NODES
        /\ c.path # <<>>
        /\ Len(c.path) > 1 /\ c.path[Len(c.path)] = "/" => c.path[Len(c.path) - 1] = "/"
    BY Zenon DEF Reliable
  <2> QED
    BY <2>1, Zenon DEF Trusted, GoodPath
<1>2. Progress(c, io[t], Node(c.node))
  BY <1>1 DEF FilesInv, ProgressInv
<1> QED
  BY <1>1, <1>2, Zenon DEF Progress

\* cat and exec come to the bytes of the file the path names, in order and without a
\* gap, on every disk, for every path and whatever the other thread does meanwhile, as
\* long as the drive was not shared and no node was handed out again: fat32_vfs_read,
\* fat32_vfs_finddir and elf_load_file.
THEOREM FilesAreReadAlways == Spec => []FilesAreRead
<1>1. ASSUME FilesInv, NEW t \in Threads, NEW c, NEW there, c = cmd[t], there = Holds(c.path),
             Reliable(c), c.do # "ls"
      PROVE  CASE there.kind = "none" -> c.result = "missing"
                [] there.kind = "directory" -> c.result = "wrong_kind" \/ c.do = "exec"
                [] there.kind = "file" /\ c.do = "cat" ->
                     c.result = "ok" /\ c.out = there.content
                [] there.kind = "file" /\ c.do = "exec" ->
                     c.result = "ok" /\ there.content # <<>> =>
                       /\ there.content[1] = Magic
                       /\ c.out = Segment(there.content)
  <2>1. Right(c.do, c.path, c.result, c.names, c.out)
    BY <1>1, ReliableRight
  <2> QED
    BY <1>1, <2>1, Zenon DEF Right
<1>2. FilesInv => FilesAreRead
  BY <1>1, Zenon DEF FilesAreRead
<1> QED
  BY <1>2, InitInv, StepInv, PTL DEF Spec

\* ls shows each child of a directory once and in order, on every disk: the entries it
\* counts from the beginning again for each number are the children of the directory.
THEOREM DirectoriesAreListedAlways == Spec => []DirectoriesAreListed
<1>1. ASSUME FilesInv, NEW t \in Threads, NEW c, NEW there, c = cmd[t], there = Holds(c.path),
             Reliable(c), c.do = "ls"
      PROVE  CASE there.kind = "none" -> c.result = "missing"
                [] there.kind = "file" -> c.result = "wrong_kind"
                [] there.kind = "directory" -> c.result = "ok" /\ c.names = there.content
  <2>1. Right(c.do, c.path, c.result, c.names, c.out)
    BY <1>1, ReliableRight
  <2> QED
    BY <1>1, <2>1, Zenon DEF Right
<1>2. FilesInv => DirectoriesAreListed
  BY <1>1, Zenon DEF DirectoriesAreListed
<1> QED
  BY <1>2, InitInv, StepInv, PTL DEF Spec

=============================================================================
