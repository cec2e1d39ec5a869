------------------------------ MODULE MCFiles ------------------------------
(* A small disk for Files: clusters of two sectors, entries and bytes two  *)
(* to a sector; the root and the file a are each in two clusters that do   *)
(* not follow each other.  Listing sub takes as many nodes as the pool     *)
(* has, with the one of the other thread.                                  *)
EXTENDS Files, TLC

MCMask == 32
MCEnd == 24

\* What fills an unused place in each view of a sector.
End == [kind |-> "end", name |-> "", dir |-> FALSE, size |-> 0, cluster |-> 0]
Blank == [entries |-> <<End, End>>, fat |-> [w \in 0 .. 4 |-> 0], bytes |-> <<0, 0>>]

EntryOf(name, dir, size, cluster) ==
    [kind |-> "entry", name |-> name, dir |-> dir, size |-> size, cluster |-> cluster]
Skipped(kind) == [kind |-> kind, name |-> "gone", dir |-> FALSE, size |-> 2, cluster |-> 5]

Dir(e1, e2) == [Blank EXCEPT !.entries = <<e1, e2>>]
Data(b1, b2) == [Blank EXCEPT !.bytes = <<b1, b2>>]

\* Sector 0 is the boot sector, 1 and 2 the table, 3 the first of cluster 2.
\* Clusters: 2 -> 6 root, 3 sub, 4 -> 7 a, 5 elf.  The word of cluster 4 has reserved
\* bits set.
MCDisk == [l \in 0 .. 14 |->
    CASE l = 1 -> [Blank EXCEPT !.fat = [w \in 0 .. 4 |-> <<31, 31, 6, 31, 39>>[w + 1]]]
      [] l = 2 -> [Blank EXCEPT !.fat = [w \in 0 .. 4 |-> <<31, 31, 24, 0, 0>>[w + 1]]]
      [] l = 3 -> Dir(EntryOf("elf", FALSE, 3, 5), EntryOf("a", FALSE, 5, 4))
      [] l = 4 -> Dir(Skipped("long_name"), Skipped("deleted"))
      [] l = 11 -> Dir(EntryOf("sub", TRUE, 0, 3), End)
      [] l = 5 -> Dir(EntryOf(".", TRUE, 0, 3), EntryOf("..", TRUE, 0, 0))
      [] l = 6 -> Dir(EntryOf("b", FALSE, 0, 0), End)
      [] l = 7 -> Data(1, 2) [] l = 8 -> Data(3, 4) [] l = 13 -> Data(5, 6)
      [] l = 9 -> Data(127, 1) [] l = 10 -> Data(8, 9)
      [] OTHER -> Blank]

MCRamList == << <<"readme", <<11, 12, 13, 14>> >>, <<"extra", <<>> >> >>

MCNames == {"", "root", "disk", "elf", "a", "gone", "sub", ".", "..", "b", "readme", "extra"}

\* The chains, the directories, and what stands before each of their sectors.
MCChain == 2 :> <<2, 6>> @@ 3 :> <<3>> @@ 4 :> <<4, 7>> @@ 5 :> <<5>>
MCChildren ==
    2 :> <<EntryOf("elf", FALSE, 3, 5), EntryOf("a", FALSE, 5, 4), EntryOf("sub", TRUE, 0, 3)>> @@
    3 :> <<EntryOf(".", TRUE, 0, 3), EntryOf("..", TRUE, 0, 0), EntryOf("b", FALSE, 0, 0)>>
MCBefore == 2 :> (<<1, 0>> :> 0 @@ <<1, 1>> :> 2 @@ <<2, 0>> :> 2) @@
            3 :> (<<1, 0>> :> 0 @@ <<1, 1>> :> 2)

\* Where each path leads.
Top == Directory("root", None)
Mount == Directory("disk", 2)
Sub == NodeOf(EntryOf("sub", TRUE, 0, 3))
MCTrail ==
    <<"disk", "/", "a">>             :> <<Top, Mount, NodeOf(EntryOf("a", FALSE, 5, 4))>> @@
    <<"disk", "/", "elf">>           :> <<Top, Mount, NodeOf(EntryOf("elf", FALSE, 3, 5))>> @@
    <<"disk">>                       :> <<Top, Mount>> @@
    <<"disk", "/", "/", "sub", "/", "/">> :> <<Top, Mount, Sub>> @@
    <<"disk", "/", "sub", "/", "b">> :> <<Top, Mount, Sub, NodeOf(EntryOf("b", FALSE, 0, 0))>> @@
    <<"disk", "/", "gone">>          :> <<Top, Mount>> @@
    <<"/", "readme">>                :> <<Top, File(MCRamList[1])>> @@
    <<"/">>                          :> <<Top>> @@
    <<"extra", "/">>                 :> <<Top, File(MCRamList[2])>>

MCCommands ==
    { <<"cat", <<"disk", "/", "a">> >>, <<"cat", <<"disk">> >>,
      <<"cat", <<"disk", "/", "sub", "/", "b">> >>, <<"cat", <<"/", "readme">> >>,
      <<"ls", <<"disk", "/", "/", "sub", "/", "/">> >>, <<"ls", <<"/">> >>,
      <<"ls", <<"extra", "/">> >>, <<"ls", <<"disk", "/", "gone">> >>,
      <<"exec", <<"disk", "/", "elf">> >> }
MCUserPath == <<"disk", "/", "elf">>

\* What is there, by path: the volume described above holds it.
Absent == [kind |-> "none", content |-> <<>>]
IsFile(bytes) == [kind |-> "file", content |-> bytes]
IsDir(names) == [kind |-> "directory", content |-> names]
There ==
    <<"disk", "/", "a">>             :> IsFile(<<1, 2, 3, 4, 5>>) @@
    <<"disk", "/", "elf">>           :> IsFile(<<127, 1, 8>>) @@
    <<"disk">>                       :> IsDir(<<"elf", "a", "sub">>) @@
    <<"disk", "/", "/", "sub", "/", "/">> :> IsDir(<<".", "..", "b">>) @@
    <<"disk", "/", "sub", "/", "b">> :> IsFile(<<>>) @@
    <<"disk", "/", "gone">>          :> Absent @@
    <<"/", "readme">>                :> IsFile(<<11, 12, 13, 14>>) @@
    <<"/">>                          :> IsDir(<<"readme", "extra", "disk">>) @@
    <<"extra", "/">>                 :> IsFile(<<>>)
ASSUME VolumeHolds == \A path \in DOMAIN There : Holds(path) = There[path]
=============================================================================
