------------------------------- MODULE Files -------------------------------
(***************************************************************************)
(* The file system: the disk driver (ata.c), FAT32 (fat32.c), the RAM file *)
(* system it is mounted in (ramfs.c), the walk of a path (vfs.c), and the  *)
(* callers: ls, cat and exec of the shell, and the ELF loader (elf.c),     *)
(* which a second thread calls once, at its start.                         *)
(*                                                                         *)
(* Both threads are preempted anywhere.  They share the registers of the   *)
(* drive and the pool of nodes that FAT32 hands out in turn.  Reading a    *)
(* sector takes three steps: the address, the command, the data; what a    *)
(* thread does with a sector until it asks for the next one is part of the *)
(* third.                                                                  *)
(*                                                                         *)
(* A sector is what each reader would see in it: directory entries, words  *)
(* of the allocation table, bytes.  Names are values, a path is a sequence *)
(* of names and slashes.  The disk is never written.                       *)
(***************************************************************************)
EXTENDS Integers, Sequences, FiniteSets, FiniteSetsExt

CONSTANTS
    Shell, User,     \* shell_thread and user_thread_entry
    UserPath,        \* the program of the user thread
    Names,           \* the names of files and directories
    MAX_FAT32_NODES,
    MAX_RAMFS_FILES,
    RamList,         \* the files ramfs_init creates: <<name, bytes>>
    Disk,            \* [entries, fat, bytes] of each sector
    FatStart, DataStart, PerCluster, RootCluster,   \* what fat32_init finds
    FatWords,        \* words of the table in a sector
    SectorBytes,
    Mask,            \* a word of the table is cut below Mask
    EndOfChain,      \* from here on it ends a chain
    Chunk,           \* bytes cat asks for at a time
    Magic,           \* what an ELF header begins with
    Chain,           \* what the disk holds: the clusters of a chain, by the first,
    Children,        \* the entries of a directory, by its first cluster,
    Before,          \* and how many of them stand before each sector of it
    Trail,           \* the nodes a path leads over, from the root
    Commands,        \* bound: what the shell is given: <<command, path>>
    MaxCommands,     \* bound: commands of the shell
    None

Byte == 0 .. 255
Entry == [kind : {"entry", "deleted", "long_name", "end"}, name : Names, dir : BOOLEAN,
          size : Nat, cluster : Nat]
Paths == {UserPath} \cup {c[2] : c \in Commands}

ASSUME FilesConstants ==
    /\ Shell # User /\ None \notin Nat
    /\ "/" \notin Names /\ {"", "root", "disk"} \subseteq Names
    /\ RamList \in Seq(Names \X Seq(Byte))
    /\ MAX_FAT32_NODES \in Nat \ {0} /\ MAX_RAMFS_FILES \in Nat
    /\ FatStart \in Nat /\ DataStart \in Nat /\ RootCluster \in Nat
    /\ PerCluster \in Nat \ {0} /\ FatWords \in Nat \ {0}
    /\ SectorBytes \in Nat \ {0} /\ Chunk \in Nat \ {0}
    /\ Mask \in Nat /\ EndOfChain \in 2 .. Mask - 1
    /\ Magic \in Byte
    /\ Commands \subseteq {"ls", "cat", "exec"} \X Seq(Names \cup {"/"})
    /\ UserPath \in Seq(Names \cup {"/"}) /\ MaxCommands \in Nat

\* The views of a sector.
ASSUME DiskConstants ==
    /\ DOMAIN Disk \subseteq Nat
    /\ \A l \in DOMAIN Disk :
         /\ Disk[l].entries \in Seq(Entry)
         /\ Disk[l].fat \in [0 .. FatWords - 1 -> Nat]
         /\ Disk[l].bytes \in Seq(Byte) /\ Len(Disk[l].bytes) = SectorBytes

Threads == {Shell, User}
ClusterBytes == PerCluster * SectorBytes

VARIABLES
    nodes,      \* fat32_nodes and their infos
    next_node,  \* the next one get_next_free_node gives
    lba,        \* the address registers of the drive
    data,       \* the sector the drive has ready, if any
    cmd,        \* the command of each thread: what, how far, with which result
    io,         \* its innermost call: the sector it waits for, and its locals
    given,      \* commands the shell was given
    overlap,    \* history: two threads used the drive at once
    starved     \* history: kmalloc gave no buffer

vars == <<nodes, next_node, lba, data, cmd, io, given, overlap, starved>>

-----------------------------------------------------------------------------
(* Nodes.                                                                  *)

Smaller(a, b) == IF a < b THEN a ELSE b

Directory(name, cluster) ==
    [name |-> name, dir |-> TRUE, size |-> 0, cluster |-> cluster, bytes |-> <<>>]
NodeOf(e) ==
    [name |-> e.name, dir |-> e.dir, size |-> e.size, cluster |-> e.cluster,
     bytes |-> <<>>]

\* ramfs_create_binary_file and create_file.
File(f) == [name |-> f[1], dir |-> FALSE, size |-> Len(f[2]), cluster |-> None,
            bytes |-> f[2]]

\* ramfs_init, then ramfs_create_mountpoint, which shares the root of the disk: as many
\* as the table has room for, and there for good.
RamFiles == [i \in 1 .. Smaller(Len(RamList) + 1, MAX_RAMFS_FILES) |->
               IF i <= Len(RamList) THEN File(RamList[i])
               ELSE Directory("disk", RootCluster)]

\* A node is named by where it is: the root, a RAM file, a slot of the pool.
Node(n) == CASE n[1] = "root" -> Directory("root", None)
             [] n[1] = "ram"  -> RamFiles[n[2]]
             [] n[1] = "fat"  -> nodes[n[2]]
Root == <<"root", 0>>

DiskNode == [name : Names, dir : BOOLEAN, size : Nat, cluster : Nat, bytes : {<<>>}]
RamNode == [name : Names, dir : BOOLEAN, size : Nat, cluster : {None}, bytes : Seq(Byte)]
Places == {Root} \cup ({"ram"} \X DOMAIN RamFiles)
                 \cup ({"fat"} \X (0 .. MAX_FAT32_NODES - 1))

NoIo == [at |-> "none", lba |-> None, then |-> None, my |-> None]

\* The types of both.
Cmd == [do : {"none", "ls", "cat", "exec"},
        at : {"walk", "find", "list", "read", "header", "segment", "done"},
        path : Seq(Names \cup {"/"}), rest : Seq(Names \cup {"/"}), node : Places,
        from : Nat, names : Seq(Names), out : Seq(Byte),
        result : {"ok", "missing", "wrong_kind", None}, taken : 0 .. MAX_FAT32_NODES]
DirLocals == [cluster : Nat, sector : 0 .. PerCluster - 1, seen : Nat, index : Nat]
ReadLocals == [cluster : Nat, skip : Nat, want : Nat, got : Seq(Byte), buf : Seq(Byte),
               offset : 0 .. ClusterBytes - 1]
DirCalls == [at : {"address", "command", "data"}, lba : Nat,
             then : {"entries", "next_entries"}, my : DirLocals]
ReadCalls == [at : {"address", "command", "data"}, lba : Nat,
              then : {"skip", "bytes", "next_bytes"}, my : ReadLocals]
BufferCalls == [at : {"buffer"}, lba : {None}, then : {None}, my : ReadLocals]
Io == {NoIo} \cup DirCalls \cup ReadCalls \cup BufferCalls

\* A command begins at the root.
Begin(do, path) ==
    [do |-> do, at |-> "walk", path |-> path, rest |-> path, node |-> Root,
     from |-> 0, names |-> <<>>, out |-> <<>>, result |-> None, taken |-> 0]

Init ==
    /\ nodes = [i \in 0 .. MAX_FAT32_NODES - 1 |-> Directory("", 0)]
    /\ next_node = 0
    /\ lba = None /\ data = None
    /\ cmd = [t \in Threads |->
                IF t = User THEN Begin("exec", UserPath)
                ELSE [Begin("none", <<>>) EXCEPT !.at = "done"]]
    /\ io = [t \in Threads |-> NoIo]
    /\ given = 0 /\ overlap = FALSE /\ starved = FALSE

-----------------------------------------------------------------------------
(* ata_read_sector.                                                        *)

\* The calls of t in which it asks for a sector; `then' says what for, `my' are the
\* locals of the caller.
Asks(t, sector, then, my) ==
    io' = [io EXCEPT ![t] = [at |-> "address", lba |-> sector, then |-> then, my |-> my]]
NoCall(t) == io' = [io EXCEPT ![t] = NoIo]

\* The drive and its address.
Address(t) ==
    /\ io[t].at = "address"
    /\ lba' = io[t].lba
    /\ io' = [io EXCEPT ![t].at = "command"]
    /\ overlap' = (overlap \/ \E u \in Threads \ {t} : io[u].at \in {"command", "data"})
    /\ UNCHANGED <<nodes, next_node, data, cmd, given, starved>>

\* The command takes the address that is in the registers now.  The drive has nothing
\* to give from behind its end, and the wait for it goes on.
Command(t) ==
    /\ io[t].at = "command"
    /\ data' = IF lba \in DOMAIN Disk THEN lba ELSE None
    /\ io' = [io EXCEPT ![t].at = "data"]
    /\ UNCHANGED <<nodes, next_node, lba, cmd, given, overlap, starved>>

\* The words are read; a thread that finds none waits.
Arrives(t, then) ==
    /\ io[t].at = "data" /\ io[t].then = then
    /\ data # None /\ data' = None
    /\ UNCHANGED <<lba, given, overlap>>

-----------------------------------------------------------------------------
(* Clusters.                                                               *)

InUse(c) == c >= 2 /\ c < EndOfChain
SectorOf(c, s) == DataStart + (c - 2) * PerCluster + s
FatSector(c) == FatStart + (c \div FatWords)

\* Variant: the reserved bits at the top of a word are not cut off.
FatWordUncut(c) == Disk[data].fat[c % FatWords]
\* fat32_get_next_cluster, when its sector has come.
FatWord(c) == Disk[data].fat[c % FatWords] % Mask

-----------------------------------------------------------------------------
(* The end of a call, and what the caller does next.                       *)

With(t, c) == cmd' = [cmd EXCEPT ![t] = c]
Done(c, result) == [c EXCEPT !.at = "done", !.result = result, !.rest = <<>>,
                             !.node = Root, !.from = 0]

\* vfs_finddir has come to a node: ls wants a directory, cat a file.
Found(c, n, node) ==
    CASE c.do = "ls"  -> IF node.dir THEN [c EXCEPT !.at = "list", !.node = n,
                                                    !.rest = <<>>, !.from = 0]
                         ELSE Done(c, "wrong_kind")
      [] c.do = "cat" -> IF node.dir THEN Done(c, "wrong_kind")
                         ELSE [c EXCEPT !.at = "read", !.node = n,
                                        !.rest = <<>>, !.from = 0]
      [] c.do = "exec" -> [c EXCEPT !.at = "header", !.node = n,
                                    !.rest = <<>>, !.from = 0]

\* The child of one component: the end of the path, or the next component.
Child(c, n, node, rest) ==
    IF rest = <<>> THEN Found(c, n, node)
    ELSE [c EXCEPT !.at = "walk", !.node = n, !.rest = Tail(rest)]

\* Variant: the index of the pool does not wrap.
TakeNodeOnward(e) ==
    /\ nodes' = [nodes EXCEPT ![next_node % MAX_FAT32_NODES] = NodeOf(e)]
    /\ next_node' = next_node + 1

\* get_next_free_node: the next slot, whoever still uses the node in it.
TakeNode(e) ==
    /\ nodes' = [nodes EXCEPT ![next_node] = NodeOf(e)]
    /\ next_node' = (next_node + 1) % MAX_FAT32_NODES

\* A node was taken: the commands that hold one count it.
Count(c) == IF c.at # "done" /\ c.node[1] = "fat" /\ c.taken < MAX_FAT32_NODES
            THEN [c EXCEPT !.taken = @ + 1] ELSE c
WithNode(t, c) == cmd' = [u \in Threads |-> IF u = t THEN c ELSE Count(cmd[u])]

-----------------------------------------------------------------------------
(* fat32_readdir: the entry of a number, looked for from the beginning.    *)

\* Variant: an entry is taken even when it was deleted.
LiveDeleted(e) == e.kind # "long_name"
Live(e) == e.kind \notin {"deleted", "long_name"}

\* The places of the entries of a sector the walk counts: it stops at the end mark.
Ended(entries) == \E i \in DOMAIN entries : entries[i].kind = "end"
LiveIn(entries) == {i \in DOMAIN entries : /\ Live(entries[i])
                                          /\ \A j \in 1 .. i : entries[j].kind # "end"}

\* Where the entry of number index is, when seen others are behind.
Numbered(entries, seen, index) ==
    {i \in LiveIn(entries) : seen + Cardinality({j \in LiveIn(entries) : j < i}) = index}

\* The call begins at the first sector of the directory.
ReadDir(t, c, index) ==
    Asks(t, SectorOf(c, 0), "entries",
         [cluster |-> c, sector |-> 0, seen |-> 0, index |-> index])

\* No such entry: the end of ls, or of the walk.
NoEntry(t) ==
    /\ With(t, Done(cmd[t], IF cmd[t].at = "find" THEN "missing" ELSE "ok"))
    /\ NoCall(t)
    /\ UNCHANGED <<nodes, next_node>>

\* The directory of a node, as the pool has it now.
ReadNode(t, n, index) ==
    IF InUse(Node(n).cluster)
    THEN /\ ReadDir(t, Node(n).cluster, index)
         /\ UNCHANGED <<nodes, next_node, cmd>>
    ELSE NoEntry(t)

\* The loops of fat32_vfs_finddir and of ls, given an entry.
GotEntry(t, e) ==
    LET c == cmd[t]
    IN  CASE c.at = "find" /\ e.name = Head(c.rest) ->
               /\ TakeNode(e) /\ NoCall(t)
               /\ WithNode(t, Child(Count(c), <<"fat", next_node>>, NodeOf(e),
                                    Tail(c.rest)))
          [] c.at = "find" /\ e.name # Head(c.rest) ->
               ReadNode(t, c.node, io[t].my.index + 1)
          [] c.at = "list" ->
               /\ TakeNode(e) /\ NoCall(t)
               /\ WithNode(t, Count([c EXCEPT !.names = Append(@, e.name),
                                              !.from = @ + 1]))

Entries(t) ==
    /\ Arrives(t, "entries")
    /\ LET my == io[t].my
           entries == Disk[data].entries
           here == Numbered(entries, my.seen, my.index)
           seen == my.seen + Cardinality(LiveIn(entries))
       IN  CASE here # {} -> GotEntry(t, entries[CHOOSE i \in here : TRUE])
             [] here = {} /\ Ended(entries) -> NoEntry(t)
             [] here = {} /\ ~ Ended(entries) ->
                  /\ IF my.sector + 1 < PerCluster
                     THEN Asks(t, SectorOf(my.cluster, my.sector + 1), "entries",
                               [my EXCEPT !.sector = @ + 1, !.seen = seen])
                     ELSE Asks(t, FatSector(my.cluster), "next_entries",
                               [my EXCEPT !.seen = seen])
                  /\ UNCHANGED <<nodes, next_node, cmd>>
    /\ UNCHANGED starved

NextEntries(t) ==
    /\ Arrives(t, "next_entries")
    /\ LET c == FatWord(io[t].my.cluster)
       IN  IF InUse(c)
           THEN /\ Asks(t, SectorOf(c, 0), "entries",
                        [io[t].my EXCEPT !.cluster = c, !.sector = 0])
                /\ UNCHANGED <<nodes, next_node, cmd>>
           ELSE NoEntry(t)
    /\ UNCHANGED starved

-----------------------------------------------------------------------------
(* vfs_finddir.                                                            *)

Idle(t) == io[t].at = "none"

Stripped(path) ==
    LET names == {i \in DOMAIN path : path[i] # "/"}
    IN  IF names = {} THEN <<>> ELSE SubSeq(path, Min(names), Len(path))

\* ramfs_finddir and ramfs_readdir: where the first file of a name is, if anywhere, and
\* whether there is one of a number.
RamChild(name) == LET same == {i \in DOMAIN RamFiles : RamFiles[i].name = name}
                  IN  IF same = {} THEN 0 ELSE Min(same)
HasRamFile(index) == index < Len(RamFiles)

\* The component before the next slash, in the directory the walk has come to.
Walk(t) ==
    LET c == cmd[t]
        path == Stripped(c.rest)
        node == Node(c.node)
        child == RamChild(Head(path))
    IN  /\ c.at = "walk" /\ Idle(t)
        /\ CASE c.rest = <<>> -> With(t, Done(c, "missing")) /\ NoCall(t)
             [] c.rest # <<>> /\ path = <<>> -> With(t, Found(c, c.node, node)) /\ NoCall(t)
             [] path # <<>> /\ c.node = Root ->
                  /\ NoCall(t)
                  /\ With(t, IF child = 0 THEN Done(c, "missing")
                             ELSE Child(c, <<"ram", child>>, RamFiles[child], Tail(path)))
             [] path # <<>> /\ c.node # Root /\ (~ node.dir \/ ~ InUse(node.cluster)) ->
                  With(t, Done(c, "missing")) /\ NoCall(t)
             [] path # <<>> /\ c.node # Root /\ node.dir /\ InUse(node.cluster) ->
                  /\ ReadDir(t, node.cluster, 0)
                  /\ With(t, [c EXCEPT !.at = "find", !.rest = path])
        /\ UNCHANGED <<nodes, next_node, lba, data, given, overlap, starved>>

\* ls: vfs_readdir for the next number.
List(t) ==
    LET c == cmd[t]
    IN  /\ c.at = "list" /\ Idle(t)
        /\ IF c.node = Root
           THEN /\ NoCall(t)
                /\ With(t, IF HasRamFile(c.from)
                           THEN [c EXCEPT !.names = Append(@, RamFiles[c.from + 1].name),
                                          !.from = @ + 1]
                           ELSE Done(c, "ok"))
                /\ UNCHANGED <<nodes, next_node>>
           ELSE IF Node(c.node).dir THEN ReadNode(t, c.node, c.from)
                                    ELSE NoEntry(t)
        /\ UNCHANGED <<lba, data, given, overlap, starved>>

-----------------------------------------------------------------------------
(* vfs_read, fat32_vfs_read and ramfs_read, and their callers.             *)

\* Variant: cat asks for the same bytes again.
CatStays(c, got) ==
    IF got = <<>> THEN Done(c, "ok") ELSE [c EXCEPT !.out = got]

\* cat goes on until a read gives nothing.
Cat(c, got) ==
    IF got = <<>> THEN Done(c, "ok")
    ELSE [c EXCEPT !.out = @ \o got, !.from = @ + Len(got)]

\* An ELF file is its magic, the length of its one segment, and the segment.
\* elf_load_file looks at no length: what was not read of the header is whatever
\* the stack held.
Headers(got) == {[i \in 1 .. 2 |-> IF i <= Len(got) THEN got[i] ELSE rest[i]]
                   : rest \in [1 .. 2 -> {0, Magic}]}

Returned(t, got) ==
    LET c == cmd[t]
    IN  /\ NoCall(t)
        /\ CASE c.at = "read" -> With(t, Cat(c, got))
             [] c.at = "header" ->
                  \E h \in Headers(got) :
                     With(t, IF h[1] = Magic
                             THEN [c EXCEPT !.at = "segment", !.from = h[2]]
                             ELSE Done(c, "wrong_kind"))
             [] c.at = "segment" -> With(t, Done([c EXCEPT !.out = got], "ok"))

\* What the command asks for: <<offset, size>>.
Request(c) == CASE c.at = "read"    -> <<c.from, Chunk>>
                [] c.at = "header"  -> <<0, 2>>
                [] c.at = "segment" -> <<2, c.from>>

\* ramfs_read.
RamRead(n, offset, want) == SubSeq(n.bytes, offset + 1, offset + want)

\* A cluster is read into a buffer of its own.
NeedsBuffer(t, my) ==
    io' = [io EXCEPT ![t] = [at |-> "buffer", lba |-> None, then |-> None, my |-> my]]

\* A directory has no read; a read is cut to the size of the file; in a file on the
\* disk, the clusters before the offset are skipped one by one.
Read(t) ==
    LET c == cmd[t]
        n == Node(c.node)
        offset == Request(c)[1]
        want == Smaller(Request(c)[2], n.size - offset)
        skip == offset \div ClusterBytes
        my == [cluster |-> n.cluster, skip |-> skip, want |-> want, got |-> <<>>,
               buf |-> <<>>, offset |-> offset % ClusterBytes]
    IN  /\ c.at \in {"read", "header", "segment"} /\ Idle(t)
        /\ \/ (n.dir \/ offset >= n.size) /\ Returned(t, <<>>)
           \/ /\ ~ n.dir /\ offset < n.size /\ n.cluster = None
              /\ Returned(t, RamRead(n, offset, want))
           \/ /\ ~ n.dir /\ offset < n.size /\ n.cluster # None
              /\ \/ skip = 0 /\ NeedsBuffer(t, my)
                 \/ skip # 0 /\ Asks(t, FatSector(n.cluster), "skip", my)
              /\ UNCHANGED cmd
        /\ UNCHANGED <<nodes, next_node, lba, data, given, overlap, starved>>

Skip(t) ==
    /\ Arrives(t, "skip")
    /\ LET c == FatWord(io[t].my.cluster)
           my == [io[t].my EXCEPT !.cluster = c, !.skip = @ - 1]
       IN  IF ~ InUse(c) THEN Returned(t, <<>>)
           ELSE /\ IF my.skip = 0 THEN NeedsBuffer(t, my)
                   ELSE Asks(t, FatSector(c), "skip", my)
                /\ UNCHANGED cmd
    /\ UNCHANGED <<nodes, next_node, starved>>

\* The loop of the clusters.
NextCluster(t, my) ==
    IF Len(my.got) < my.want /\ InUse(my.cluster)
    THEN /\ Asks(t, SectorOf(my.cluster, 0), "bytes", [my EXCEPT !.buf = <<>>])
         /\ UNCHANGED cmd
    ELSE Returned(t, my.got)

\* kmalloc gives the buffer of a cluster, or none.
Buffer(t) ==
    /\ io[t].at = "buffer"
    /\ \/ NextCluster(t, io[t].my) /\ UNCHANGED starved
       \/ Returned(t, <<>>) /\ starved' = TRUE
    /\ UNCHANGED <<nodes, next_node, lba, data, given, overlap>>

\* What the reader gets of a cluster that is in the buffer.
Copied(my) ==
    LET copy == Smaller(ClusterBytes - my.offset, my.want - Len(my.got))
    IN  [my EXCEPT !.got = @ \o SubSeq(my.buf, my.offset + 1, my.offset + copy),
                   !.offset = 0, !.buf = <<>>]

\* The sectors of the cluster; with the last one, the bytes that are wanted.
Bytes(t) ==
    /\ Arrives(t, "bytes")
    /\ LET my == [io[t].my EXCEPT !.buf = @ \o Disk[data].bytes]
           sector == Len(my.buf) \div SectorBytes
       IN  IF sector < PerCluster
           THEN Asks(t, SectorOf(my.cluster, sector), "bytes", my)
           ELSE Asks(t, FatSector(my.cluster), "next_bytes", Copied(my))
    /\ UNCHANGED <<nodes, next_node, cmd, starved>>

NextBytes(t) ==
    /\ Arrives(t, "next_bytes")
    /\ NextCluster(t, [io[t].my EXCEPT !.cluster = FatWord(@)])
    /\ UNCHANGED <<nodes, next_node, starved>>

-----------------------------------------------------------------------------

\* The shell runs a command to its end, then takes the next; a program it could
\* load takes its place.
Start(do, path) ==
    /\ cmd[Shell].at = "done" /\ given < MaxCommands
    /\ ~ (cmd[Shell].do = "exec" /\ cmd[Shell].result = "ok")
    /\ given' = given + 1
    /\ With(Shell, Begin(do, path))
    /\ UNCHANGED <<nodes, next_node, lba, data, io, overlap, starved>>

Steps(t) == \/ Address(t) \/ Command(t)
            \/ Walk(t) \/ Entries(t) \/ NextEntries(t) \/ List(t)
            \/ Read(t) \/ Skip(t) \/ Buffer(t) \/ Bytes(t) \/ NextBytes(t)

Next == \/ \E c \in Commands : Start(c[1], c[2])
        \/ \E t \in Threads : Steps(t)

Spec == Init /\ [][Next]_vars

\* The scheduler comes back to every thread.
FairSpec == Spec /\ \A t \in Threads : WF_vars(Steps(t))

-----------------------------------------------------------------------------
(* What the disk holds.                                                    *)

\* The word of the table for a cluster, and the clusters of a chain.
FatEntry(c) == Disk[FatSector(c)].fat[c % FatWords] % Mask

IsChain(chain) ==
    /\ chain \in Seq(Nat) /\ chain # <<>>
    /\ \A n \in DOMAIN chain :
         LET c == chain[n]
         IN  /\ InUse(c) /\ FatSector(c) \in DOMAIN Disk
             /\ \A s \in 0 .. PerCluster - 1 : SectorOf(c, s) \in DOMAIN Disk
             /\ IF n < Len(chain) THEN FatEntry(c) = chain[n + 1]
                ELSE ~ InUse(FatEntry(c))

\* The entries a sector of a directory holds, by their places.
HeldIn(entries) == {i \in DOMAIN entries : /\ entries[i].kind = "entry"
                                          /\ \A j \in 1 .. i : entries[j].kind # "end"}

\* A directory: its children stand in the sectors of its chain, in order, up to the end
\* mark or the end of the chain.  before[<<n, s>>] is how many stand before sector s of its
\* n-th cluster; no sector behind the end mark has a place there.
IsDirectory(chain, children, before) ==
    /\ children \in Seq(Entry) /\ <<1, 0>> \in DOMAIN before /\ before[<<1, 0>>] = 0
    /\ \A p \in DOMAIN before :
         LET n == p[1]
             s == p[2]
             entries == Disk[SectorOf(chain[n], s)].entries
             held == HeldIn(entries)
             after == before[p] + Cardinality(held)
             next == IF s + 1 < PerCluster THEN <<n, s + 1>> ELSE <<n + 1, 0>>
         IN  /\ p = <<n, s>> /\ n \in DOMAIN chain /\ s \in 0 .. PerCluster - 1
             /\ before[p] \in Nat /\ after <= Len(children)
             /\ \A i \in held :
                  children[before[p] + Cardinality({j \in held : j < i}) + 1] = entries[i]
             /\ IF Ended(entries) \/ next[1] > Len(chain) THEN after = Len(children)
                ELSE next \in DOMAIN before /\ before[next] = after

\* The chains of files are as long as their sizes say, and every directory that is
\* in one is there.
ASSUME VolumeConstants ==
    /\ RootCluster \in DOMAIN Children /\ DOMAIN Children \subseteq DOMAIN Chain
    /\ \A c \in DOMAIN Chain : IsChain(Chain[c]) /\ Chain[c][1] = c
    /\ \A d \in DOMAIN Children :
         /\ IsDirectory(Chain[d], Children[d], Before[d])
         /\ \A i \in DOMAIN Children[d] :
              LET e == Children[d][i]
              IN  IF e.dir THEN InUse(e.cluster) => e.cluster \in DOMAIN Children
                  ELSE e.size > 0 => /\ e.cluster \in DOMAIN Chain
                                     /\ e.size <= Len(Chain[e.cluster]) * ClusterBytes

\* The bytes of a file, by the cluster and the sector they are in.
ClusterByte(c, x) ==
    Disk[SectorOf(c, x \div SectorBytes)].bytes[(x % SectorBytes) + 1]
ByteAt(c, x) == ClusterByte(Chain[c][(x \div ClusterBytes) + 1], x % ClusterBytes)

ContentOf(n) == IF n.cluster = None THEN n.bytes
                ELSE [i \in 1 .. n.size |-> ByteAt(n.cluster, i - 1)]

\* The nodes in a directory; one without a cluster has none.
NodesIn(n) ==
    CASE n.cluster = None -> RamFiles
      [] n.cluster # None /\ InUse(n.cluster) ->
           [i \in DOMAIN Children[n.cluster] |-> NodeOf(Children[n.cluster][i])]
      [] n.cluster # None /\ ~ InUse(n.cluster) -> <<>>
NamesIn(n) == [i \in DOMAIN NodesIn(n) |-> NodesIn(n)[i].name]

\* The child of a name: the first one, if there is one.
IsChild(n, name, child) ==
    n.dir /\ \E i \in DOMAIN NodesIn(n) :
                /\ NodesIn(n)[i] = child /\ child.name = name
                /\ \A j \in 1 .. i - 1 : NodesIn(n)[j].name # name
HasNone(n, name) == n.dir => \A i \in DOMAIN NodesIn(n) : NodesIn(n)[i].name # name

\* The names among the first k of a path.
Depth(path, k) == Cardinality({p \in 1 .. k : path[p] # "/"})

\* Behind a name stands a slash.  The trail of a path goes from the root from child to
\* child, as far as there is one.
IsTrail(path, trail) ==
    /\ trail # <<>> /\ trail[1] = Directory("root", None)
    /\ Len(trail) <= Depth(path, Len(path)) + 1
    /\ \A p \in DOMAIN path : path[p] # "/" =>
         LET d == Depth(path, p)
         IN  /\ p < Len(path) => path[p + 1] = "/"
             /\ d < Len(trail) => IsChild(trail[d], path[p], trail[d + 1])
             /\ d = Len(trail) => HasNone(trail[d], path[p])

ASSUME PathConstants ==
    \A path \in Paths : Trail[path] \in Seq(DiskNode \cup RamNode) /\ IsTrail(path, Trail[path])

\* What a path names.
Holds(path) ==
    LET trail == Trail[path]
        last == trail[Len(trail)]
    IN  CASE Len(trail) <= Depth(path, Len(path)) -> [kind |-> "none", content |-> <<>>]
          [] Len(trail) > Depth(path, Len(path)) /\ last.dir ->
               [kind |-> "directory", content |-> NamesIn(last)]
          [] Len(trail) > Depth(path, Len(path)) /\ ~ last.dir ->
               [kind |-> "file", content |-> ContentOf(last)]

-----------------------------------------------------------------------------
(* Properties.                                                             *)

\* Every variable has its type.
TypeOK ==
    /\ nodes \in [0 .. MAX_FAT32_NODES - 1 -> DiskNode]
    /\ next_node \in 0 .. MAX_FAT32_NODES - 1
    /\ lba \in {None} \cup Nat /\ data \in {None} \cup DOMAIN Disk
    /\ cmd \in [Threads -> Cmd] /\ io \in [Threads -> Io]
    /\ given \in 0 .. MaxCommands /\ overlap \in BOOLEAN /\ starved \in BOOLEAN

\* A command whose result can be relied on: it never shared the drive, there was
\* memory, its nodes were not handed out again, and its path does not end in one
\* slash (which vfs_finddir takes for an empty name).
Reliable(c) ==
    /\ c.at = "done" /\ c.do # "none" /\ ~ overlap /\ ~ starved
    /\ c.taken < MAX_FAT32_NODES
    /\ c.path # <<>>
    /\ Len(c.path) > 1 /\ c.path[Len(c.path)] = "/" => c.path[Len(c.path) - 1] = "/"

\* What exec loads of a file that is its magic, the length of its segment, and that.
Segment(content) ==
    IF Len(content) < 2 THEN <<>>
    ELSE SubSeq(content, 3, Smaller(Len(content), 2 + content[2]))

\* cat shows, and exec loads, the bytes of the file the path names, whatever the
\* clusters they are scattered over and the boundaries the reads cross; a path that
\* names nothing, or a directory, is told so.
FilesAreRead ==
    \A t \in Threads :
        LET c == cmd[t]
            there == Holds(c.path)
        IN  Reliable(c) /\ c.do # "ls" =>
              CASE there.kind = "none" -> c.result = "missing"
                [] there.kind = "directory" -> c.result = "wrong_kind" \/ c.do = "exec"
                [] there.kind = "file" /\ c.do = "cat" ->
                     c.result = "ok" /\ c.out = there.content
                [] there.kind = "file" /\ c.do = "exec" ->
                     c.result = "ok" /\ there.content # <<>> =>
                       /\ there.content[1] = Magic
                       /\ c.out = Segment(there.content)

\* ls shows each child of the directory the path names once and in order, and none
\* that was deleted.
DirectoriesAreListed ==
    \A t \in Threads :
        LET c == cmd[t]
            there == Holds(c.path)
        IN  Reliable(c) /\ c.do = "ls" =>
              CASE there.kind = "none" -> c.result = "missing"
                [] there.kind = "file" -> c.result = "wrong_kind"
                [] there.kind = "directory" -> c.result = "ok" /\ c.names = there.content

\* A command ends, unless two threads used the drive at once: then one may wait for
\* ever for data the other took.
CommandsEnd ==
    \A t \in Threads : (cmd[t].at # "done") ~> (cmd[t].at = "done" \/ overlap)
=============================================================================
