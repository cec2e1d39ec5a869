---------------------------- MODULE KHeapProofs ----------------------------
(* Proofs about KHeap, for any sizes of header, page, heap and request.    *)
EXTENDS KHeap, TLAPS

\* Every block has a body, and lies below the page that comes next.
Blocks ==
    /\ 0 \in heads
    /\ \A h \in heads : size[h] >= 1 /\ End(h) <= page
    /\ \A w \in owned : w < page

\* At most one thread is inside.
Solo == \A t, u \in Threads : op[t] # "idle" /\ op[u] # "idle" => t = u

\* A walk stands on a block of the list, and what it found still holds.
Callers ==
    \A t \in Threads :
        /\ op[t] # "idle" => curr[t] \in heads
        /\ op[t] \in {"look", "split", "take"} => req[t] \in Requests
        /\ op[t] \in {"split", "take"} => Fits(curr[t], Need(t))
        /\ op[t] = "split" => size[curr[t]] >= Need(t) + Header + 1

\* A walk for a free block has left none behind that fits.
Passed ==
    \A t \in Threads : op[t] = "look" =>
        \A g \in heads : g < curr[t] => ~ Fits(g, Need(t))

\* Two free blocks side by side are the two halves of a split under way, or lie
\* ahead of a kfree under way.
Seam ==
    \A h \in heads : Mergeable(h) =>
        \E t \in Threads : \/ op[t] = "take" /\ curr[t] = h
                           \/ op[t] = "coalesce" /\ curr[t] <= h

BuffersOK ==
    /\ \A b \in buffers : LET h == b[2] - Header
                          IN  h \in heads /\ ~ free[h] /\ size[h] >= Words(b[3])
    /\ \A h \in heads : ~ free[h] => \E b \in buffers : b[2] = h + Header
    /\ \A b, c \in buffers : b # c => b[2] # c[2]

List == TypeOK /\ Blocks /\ Tiled

Sound == List /\ Solo /\ Callers /\ Passed /\ Seam /\ BuffersOK

HeapInv == overlap \in BOOLEAN /\ (~ overlap => Sound)

\* A request is at least one word.
LEMMA WordsPositive == \A bytes \in Nat \ {0} : Words(bytes) \in Nat /\ Words(bytes) >= 1
BY DEF Words

-----------------------------------------------------------------------------
(* The four steps that change the list keep it a tiling.                   *)


LEMMA SplitTiles ==
    ASSUME List, Callers, NEW t \in Threads, Split(t)
    PROVE  List'
<1> PICK h \in Addr : h = curr[t]
  BY DEF List, TypeOK
<1> PICK n : n = Need(t)
  OBVIOUS
<1> PICK rest : rest = h + Header + n
  OBVIOUS
<1>1. /\ h \in heads /\ n \in Nat /\ n >= 1
      /\ free[h] /\ size[h] >= n + Header + 1
  <2>1. op[t] = "split"
    BY DEF Split
  <2>2. req[t] \in Nat \ {0}
    BY <2>1, HeapConstants DEF Callers
  <2> QED
    BY <2>1, <2>2, WordsPositive DEF Callers, Fits, Need
<1>2. /\ heads \subseteq Addr /\ size \in [Addr -> Int] /\ Addr \subseteq Nat
      /\ next \in [Addr -> Addr \cup {Null}] /\ free \in [Addr -> BOOLEAN]
      /\ Header \in Nat \ {0} /\ page \in Nat /\ page <= Limit /\ Null \notin Addr
  BY HeapConstants DEF List, TypeOK, Addr
<1>3. \A g \in heads : End(g) \in Int /\ End(g) <= page
  BY <1>2 DEF List, Blocks, End
<1>4. rest \in Nat /\ h < rest /\ rest + Header < End(h)
  BY <1>1, <1>2 DEF End
<1>5. rest \in Addr /\ rest + Header < page
  <2>1. End(h) \in Int /\ End(h) <= page
    BY <1>1, <1>3
  <2>2. rest + Header < page /\ rest < Limit
    BY <1>2, <1>4, <2>1, HeapConstants
  <2> QED
    BY <1>4, <2>2, HeapConstants DEF Addr
<1>6. \A g \in heads : (g <= h /\ g < rest) \/ g >= End(h)
  BY <1>1, <1>2, <1>3, <1>4 DEF List, Tiled
<1>7. rest \notin heads
  BY <1>1, <1>2, <1>3, <1>4, <1>6
<1>8. /\ size' = [size EXCEPT ![rest] = size[h] - n - Header, ![h] = n]
      /\ free' = [free EXCEPT ![rest] = TRUE]
      /\ next' = [next EXCEPT ![rest] = next[h], ![h] = rest]
      /\ heads' = heads \cup {rest}
      /\ op' = [op EXCEPT ![t] = "take"]
      /\ UNCHANGED <<page, curr, req, buffers, owned, overlap>>
  BY DEF Split
<1>9. TypeOK'
  <2>1. size' \in [Addr -> Int] /\ free' \in [Addr -> BOOLEAN]
    BY <1>1, <1>2, <1>5, <1>8
  <2>2. next' \in [Addr -> Addr \cup {Null}] /\ op' \in [Threads -> Ops]
    BY <1>1, <1>2, <1>5, <1>8 DEF List, TypeOK, Ops
  <2> QED
    BY <1>5, <1>8, <2>1, <2>2 DEF List, TypeOK
<1>10. /\ size'[h] = n /\ size'[rest] = size[h] - n - Header
       /\ next'[h] = rest /\ next'[rest] = next[h]
       /\ \A g \in heads : g # h => size'[g] = size[g] /\ next'[g] = next[g]
  BY <1>1, <1>2, <1>4, <1>5, <1>7, <1>8
<1>11. /\ End(h)' = rest /\ End(rest)' = End(h)
       /\ \A g \in heads : g # h => End(g)' = End(g)
  BY <1>1, <1>2, <1>4, <1>10 DEF End
<1>12. Blocks'
  <2>1. \A g \in heads' : size'[g] >= 1 /\ End(g)' <= page
    BY <1>1, <1>2, <1>3, <1>4, <1>5, <1>8, <1>10, <1>11 DEF List, Blocks
  <2> QED
    BY <1>8, <2>1 DEF List, Blocks
<1>13. Listed'
  <2> SUFFICES ASSUME NEW g \in heads'
               PROVE  IF next'[g] = Null THEN \A f \in heads' : f <= g
                      ELSE /\ next'[g] \in heads' /\ next'[g] > g
                           /\ \A f \in heads' : f <= g \/ f >= next'[g]
    BY DEF Listed
  <2>1. CASE g = h
    BY <1>1, <1>2, <1>3, <1>4, <1>5, <1>6, <1>8, <1>10, <2>1
  <2>2. CASE g = rest
    <3>1. next[h] = Null => \A f \in heads : f <= h
      BY <1>1 DEF List, Tiled, Listed
    <3>2. next[h] # Null => /\ next[h] \in heads /\ next[h] > h
                            /\ \A f \in heads : f <= h \/ f >= next[h]
      BY <1>1 DEF List, Tiled, Listed
    <3>3. next'[g] = next[h] /\ heads' = heads \cup {rest} /\ rest # h
      BY <1>4, <1>2, <1>8, <1>10, <2>2
    <3>4. \A f \in heads : f \in Int /\ (f <= rest \/ f > rest) /\ (f > h => f > rest)
      BY <1>2, <1>4, <1>6, <1>3, <1>1
    <3>5. \A f \in heads : f <= h => f <= rest
      BY <1>2, <1>4
    <3>6. CASE next[h] = Null
      BY <1>4, <2>2, <3>1, <3>3, <3>5, <3>6
    <3>7. CASE next[h] # Null
      <4>1. next[h] \in heads' /\ next[h] > g
        BY <2>2, <3>2, <3>3, <3>4, <3>7
      <4>2. \A f \in heads' : f <= g \/ f >= next[h]
        BY <1>4, <2>2, <3>2, <3>3, <3>5, <3>7
      <4> QED
        BY <3>3, <3>7, <4>1, <4>2
    <3> QED
      BY <3>6, <3>7
  <2>3. CASE g \in heads /\ g # h
    <3>1. next[g] = Null => \A f \in heads : f <= g
      BY <2>3 DEF List, Tiled, Listed
    <3>2. next[g] # Null => /\ next[g] \in heads /\ next[g] > g
                            /\ \A f \in heads : f <= g \/ f >= next[g]
      BY <2>3 DEF List, Tiled, Listed
    <3>3. next'[g] = next[g] /\ heads' = heads \cup {rest}
      BY <1>8, <1>10, <2>3
    <3>4. (g < h /\ g < rest) \/ g > rest
      BY <1>1, <1>2, <1>3, <1>4, <1>6, <2>3
    <3>5. CASE next[g] = Null
      <4>1. h <= g
        BY <1>1, <3>1, <3>5
      <4>2. rest <= g
        BY <1>2, <1>4, <2>3, <3>4, <4>1
      <4> QED
        BY <3>1, <3>3, <3>5, <4>2
    <3>6. CASE next[g] # Null
      <4>1. rest <= g \/ rest >= next[g]
        <5>1. h <= g \/ h >= next[g]
          BY <1>1, <3>2, <3>6
        <5>2. next[g] \in Nat /\ g \in Nat /\ h \in Nat /\ rest \in Nat
          BY <1>1, <1>2, <1>4, <2>3, <3>2, <3>6
        <5> QED
          BY <1>4, <3>4, <5>1, <5>2
      <4>2. next'[g] # Null /\ next'[g] \in heads' /\ next'[g] > g
        BY <3>2, <3>3, <3>6
      <4>3. \A f \in heads' : f <= g \/ f >= next'[g]
        BY <3>2, <3>3, <3>6, <4>1
      <4> QED
        BY <4>2, <4>3
    <3> QED
      BY <3>5, <3>6
  <2> QED
    BY <1>8, <2>1, <2>2, <2>3
<1>14. \A w \in Addr : w \in owned' <=> \E g \in heads' : Covers(g, w)'
  <2> SUFFICES ASSUME NEW w \in Addr
               PROVE  (\E g \in heads : Covers(g, w))
                        <=> (\E g \in heads' : Covers(g, w)')
    BY <1>8 DEF List, Tiled
  <2>1. Covers(h, w) <=> Covers(h, w)' \/ Covers(rest, w)'
    BY <1>1, <1>2, <1>3, <1>4, <1>11 DEF Covers
  <2>2. \A g \in heads : g # h => (Covers(g, w) <=> Covers(g, w)')
    BY <1>11 DEF Covers
  <2> QED
    BY <1>1, <1>8, <2>1, <2>2
<1>15. \A f, g \in heads' : f < g => End(f)' <= g
  <2>1. \A f, g \in heads : f < g => End(f) <= g
    BY DEF List, Tiled
  <2> QED
    BY <1>1, <1>2, <1>3, <1>4, <1>5, <1>6, <1>8, <1>11, <2>1
<1> QED
  BY <1>9, <1>12, <1>13, <1>14, <1>15 DEF List, Tiled

\* What the other three steps use of a list at rest.
LEMMA ListFacts ==
    ASSUME List
    PROVE  /\ heads \subseteq Addr /\ size \in [Addr -> Int] /\ Addr \subseteq Nat
           /\ next \in [Addr -> Addr \cup {Null}] /\ free \in [Addr -> BOOLEAN]
           /\ Header \in Nat \ {0} /\ page \in Nat /\ page <= Limit
           /\ Null \notin Addr /\ Limit \in Nat /\ PageSize \in Nat
           /\ PageSize > Header
           /\ \A h \in heads : /\ End(h) \in Int /\ End(h) <= page
                               /\ h + Header < End(h) /\ h < page
           /\ \A h \in heads : next[h] = Null => \A g \in heads : g <= h
           /\ \A h \in heads : next[h] # Null =>
                 /\ next[h] \in heads /\ next[h] > h
                 /\ \A g \in heads : g <= h \/ g >= next[h]
           /\ \A g, h \in heads : g < h => End(g) <= h
<1>1. /\ heads \subseteq Addr /\ size \in [Addr -> Int] /\ Addr \subseteq Nat
      /\ next \in [Addr -> Addr \cup {Null}] /\ free \in [Addr -> BOOLEAN]
      /\ Header \in Nat \ {0} /\ page \in Nat /\ page <= Limit
      /\ Null \notin Addr /\ Limit \in Nat /\ PageSize \in Nat
      /\ PageSize > Header
  BY HeapConstants DEF List, TypeOK, Addr
<1>2. \A h \in heads : /\ End(h) \in Int /\ End(h) <= page
                       /\ h + Header < End(h) /\ h < page
  BY <1>1 DEF List, Blocks, End
<1>3. \A h \in heads : next[h] = Null => \A g \in heads : g <= h
  BY DEF List, Tiled, Listed
<1>4. \A h \in heads : next[h] # Null =>
          /\ next[h] \in heads /\ next[h] > h
          /\ \A g \in heads : g <= h \/ g >= next[h]
  BY DEF List, Tiled, Listed
<1> QED
  BY <1>1, <1>2, <1>3, <1>4 DEF List, Tiled

LEMMA MergeTiles ==
    ASSUME List, Callers, NEW t \in Threads, Merge(t)
    PROVE  List'
<1> PICK h \in Addr : h = curr[t]
  BY DEF List, TypeOK
<1> PICK gone : gone = next[h]
  OBVIOUS
<1>0. /\ heads \subseteq Addr /\ size \in [Addr -> Int] /\ Addr \subseteq Nat
      /\ next \in [Addr -> Addr \cup {Null}] /\ free \in [Addr -> BOOLEAN]
      /\ Header \in Nat \ {0} /\ page \in Nat /\ Null \notin Addr
  BY ListFacts
<1>1. h \in heads /\ gone # Null /\ End(h) = gone
  BY DEF Merge, Mergeable, Callers
<1>2. /\ gone \in heads /\ gone > h /\ gone \in Addr
      /\ \A f \in heads : f <= h \/ f >= gone
  BY <1>1, ListFacts
<1>3. /\ size' = [size EXCEPT ![h] = @ + Header + size[gone], ![gone] = 0]
      /\ next' = [next EXCEPT ![h] = next[gone], ![gone] = Null]
      /\ free' = [free EXCEPT ![gone] = FALSE]
      /\ heads' = heads \ {gone}
      /\ UNCHANGED <<page, op, curr, req, buffers, owned, overlap>>
  BY DEF Merge
<1>4. TypeOK'
  <2>1. size' \in [Addr -> Int] /\ free' \in [Addr -> BOOLEAN]
    BY <1>0, <1>2, <1>3
  <2>2. next' \in [Addr -> Addr \cup {Null}]
    BY <1>0, <1>2, <1>3
  <2> QED
    BY <1>0, <1>3, <2>1, <2>2 DEF List, TypeOK
<1>5. h # gone /\ gone # 0
  BY <1>0, <1>2
<1>6. /\ size'[h] = size[h] + Header + size[gone] /\ next'[h] = next[gone]
      /\ \A g \in heads' : g # h => size'[g] = size[g] /\ next'[g] = next[g]
  BY <1>0, <1>1, <1>2, <1>3, <1>5
<1>7. /\ End(h)' = End(gone)
      /\ \A g \in heads' : g # h => End(g)' = End(g)
  BY <1>0, <1>1, <1>2, <1>3, <1>6 DEF End
<1>8. Blocks'
  <2>1. size[h] >= 1 /\ size[gone] >= 1 /\ size[h] \in Int /\ size[gone] \in Int
    BY <1>0, <1>1, <1>2 DEF List, Blocks
  <2>2. size'[h] >= 1 /\ End(h)' <= page
    BY <1>0, <1>2, <1>6, <1>7, <2>1, ListFacts
  <2>3. \A g \in heads' : size'[g] >= 1 /\ End(g)' <= page
    BY <1>3, <1>6, <1>7, <2>2 DEF List, Blocks
  <2> QED
    BY <1>3, <1>5, <2>3 DEF List, Blocks
<1>9. Listed'
  <2> SUFFICES ASSUME NEW g \in heads'
               PROVE  IF next'[g] = Null THEN \A f \in heads' : f <= g
                      ELSE /\ next'[g] \in heads' /\ next'[g] > g
                           /\ \A f \in heads' : f <= g \/ f >= next'[g]
    BY DEF Listed
  <2>0. \A f \in heads' : f \in heads /\ f \in Nat /\ f # gone /\ (f <= h \/ f > gone)
    BY <1>0, <1>2, <1>3
  <2>1. CASE g = h
    <3>1. next'[g] = next[gone]
      BY <1>6, <2>1
    <3>2. CASE next[gone] = Null
      <4>1. \A f \in heads' : f <= gone
        BY <1>2, <2>0, <3>2, ListFacts
      <4>2. \A f \in heads' : f <= h
        BY <1>0, <1>2, <2>0, <4>1
      <4> QED
        BY <2>1, <3>1, <3>2, <4>2
    <3>3. CASE next[gone] # Null
      <4>1. /\ next[gone] \in heads /\ next[gone] > gone
            /\ \A f \in heads' : f <= gone \/ f >= next[gone]
        BY <1>2, <2>0, <3>3, ListFacts
      <4>2. next[gone] \in heads' /\ next[gone] > h
        <5>1. next[gone] \in Nat /\ gone \in Nat /\ h \in Nat
          BY <1>0, <1>2, <4>1
        <5>2. next[gone] > h /\ next[gone] # gone
          BY <1>2, <4>1, <5>1
        <5> QED
          BY <1>3, <4>1, <5>2
      <4>3. \A f \in heads' : f <= h \/ f >= next[gone]
        BY <1>0, <1>2, <2>0, <4>1
      <4> QED
        BY <2>1, <3>1, <3>3, <4>2, <4>3
    <3> QED
      BY <3>2, <3>3
  <2>2. CASE g # h
    <3>1. next'[g] = next[g] /\ g \in heads
      BY <1>6, <2>0, <2>2
    <3>2. CASE next[g] = Null
      BY <2>0, <3>1, <3>2, ListFacts
    <3>3. CASE next[g] # Null
      <4>1. /\ next[g] \in heads /\ next[g] > g
            /\ \A f \in heads : f <= g \/ f >= next[g]
        BY <3>1, <3>3, ListFacts
      <4>2. next[g] # gone
        <5>1. h <= g \/ h >= next[g]
          BY <1>1, <4>1
        <5> QED
          BY <1>0, <1>2, <2>0, <2>2, <4>1, <5>1
      <4>3. next'[g] # Null /\ next'[g] \in heads' /\ next'[g] > g
        BY <1>3, <3>1, <3>3, <4>1, <4>2
      <4>4. \A f \in heads' : f <= g \/ f >= next'[g]
        BY <2>0, <3>1, <4>1
      <4> QED
        BY <4>3, <4>4
    <3> QED
      BY <3>2, <3>3
  <2> QED
    BY <2>1, <2>2
<1>10. \A w \in Addr : w \in owned' <=> \E g \in heads' : Covers(g, w)'
  <2> SUFFICES ASSUME NEW w \in Addr
               PROVE  (\E g \in heads : Covers(g, w))
                        <=> (\E g \in heads' : Covers(g, w)')
    BY <1>3 DEF List, Tiled
  <2>1. Covers(h, w)' <=> Covers(h, w) \/ Covers(gone, w)
    <3>1. w \in Int /\ h \in Int /\ gone \in Int /\ End(gone) \in Int /\ gone < End(gone)
      BY <1>0, <1>2, ListFacts
    <3> QED
      BY <1>1, <1>2, <1>7, <3>1 DEF Covers
  <2>2. \A g \in heads' : g # h => (Covers(g, w) <=> Covers(g, w)')
    BY <1>7 DEF Covers
  <2> QED
    BY <1>1, <1>2, <1>3, <1>5, <2>1, <2>2
<1>11. \A f, g \in heads' : f < g => End(f)' <= g
  <2> SUFFICES ASSUME NEW f \in heads', NEW g \in heads', f < g
               PROVE  End(f)' <= g
    OBVIOUS
  <2>1. f \in heads /\ g \in heads /\ g # gone /\ g \in Nat /\ f \in Nat
    BY <1>0, <1>3
  <2>2. CASE f = h
    <3>1. g > gone
      BY <1>0, <1>2, <2>1, <2>2
    <3> QED
      BY <1>2, <1>7, <2>1, <2>2, <3>1, ListFacts
  <2>3. CASE f # h
    BY <1>7, <2>1, <2>3, ListFacts
  <2> QED
    BY <2>2, <2>3
<1> QED
  BY <1>4, <1>8, <1>9, <1>10, <1>11 DEF List, Tiled

LEMMA GrowLastTiles ==
    ASSUME List, Callers, NEW t \in Threads, GrowLast(t)
    PROVE  List'
<1> PICK h \in Addr : h = curr[t]
  BY DEF List, TypeOK
<1>0. /\ heads \subseteq Addr /\ size \in [Addr -> Int] /\ Addr \subseteq Nat
      /\ Header \in Nat \ {0} /\ page \in Nat /\ PageSize \in Nat /\ PageSize > 0
      /\ Limit \in Nat
  <2>1. PageSize > 0
    BY HeapConstants
  <2> QED
    BY <2>1, ListFacts
<1>1. /\ h \in heads /\ next[h] = Null /\ End(h) = page
      /\ page + PageSize <= Limit
  BY DEF GrowLast, NewPage, NothingFits, Callers
<1>2. \A g \in heads : g <= h
  BY <1>1, ListFacts
<1>3. /\ size' = [size EXCEPT ![h] = @ + PageSize]
      /\ page' = page + PageSize
      /\ owned' = owned \cup page .. page + PageSize - 1
      /\ curr' = [curr EXCEPT ![t] = 0]
      /\ UNCHANGED <<free, next, heads, op, req, buffers, overlap>>
  BY DEF GrowLast, NewPage
<1>4. TypeOK'
  <2>1. size' \in [Addr -> Int]
    BY <1>0, <1>1, <1>3
  <2>2. page' \in FirstSize .. Limit /\ owned' \subseteq Addr
    BY <1>0, <1>1, <1>3, HeapConstants DEF List, TypeOK, Addr
  <2>3. 0 \in Addr
    BY HeapConstants DEF Addr
  <2>4. curr' \in [Threads -> Addr]
    BY <1>3, <2>3 DEF List, TypeOK
  <2> QED
    BY <1>3, <2>1, <2>2, <2>4 DEF List, TypeOK
<1>5. /\ size'[h] = size[h] + PageSize
      /\ \A g \in heads : g # h => size'[g] = size[g]
  BY <1>0, <1>1, <1>3
<1>6. /\ End(h)' = page + PageSize
      /\ \A g \in heads : g # h => End(g)' = End(g)
  <2>1. size[h] \in Int /\ h \in Int /\ h + Header + size[h] = page
    BY <1>0, <1>1 DEF End
  <2>2. h + Header + (size[h] + PageSize) = page + PageSize
    BY <1>0, <2>1
  <2> QED
    BY <1>5, <2>2 DEF End
<1>7. Blocks'
  <2>1. \A g \in heads : size'[g] >= 1
    BY <1>0, <1>5 DEF List, Blocks
  <2>2. \A g \in heads : End(g)' <= page'
    BY <1>0, <1>3, <1>6, ListFacts
  <2>3. \A w \in owned' : w < page'
    BY <1>0, <1>3 DEF List, Blocks, TypeOK
  <2> QED
    BY <1>3, <2>1, <2>2, <2>3 DEF List, Blocks
<1>8. Listed'
  BY <1>3 DEF List, Tiled, Listed
<1>9. \A w \in Addr : w \in owned' <=> \E g \in heads' : Covers(g, w)'
  <2> SUFFICES ASSUME NEW w \in Addr
               PROVE  w \in owned' <=> \E g \in heads : Covers(g, w)'
    BY <1>3
  <2>1. w \in owned <=> \E g \in heads : Covers(g, w)
    BY DEF List, Tiled
  <2>2. Covers(h, w)' <=> Covers(h, w) \/ w \in page .. page + PageSize - 1
    <3>1. w \in Int /\ h \in Int /\ h < page
      BY <1>0, <1>1, ListFacts
    <3> QED
      BY <1>0, <1>1, <1>6, <3>1 DEF Covers
  <2>3. \A g \in heads : g # h => (Covers(g, w) <=> Covers(g, w)')
    BY <1>6 DEF Covers
  <2> QED
    BY <1>1, <1>3, <2>1, <2>2, <2>3
<1>10. \A f, g \in heads' : f < g => End(f)' <= g
  <2> SUFFICES ASSUME NEW f \in heads, NEW g \in heads, f < g
               PROVE  End(f)' <= g
    BY <1>3
  <2>1. f # h
    BY <1>0, <1>2
  <2> QED
    BY <1>6, <2>1, ListFacts
<1> QED
  BY <1>4, <1>7, <1>8, <1>9, <1>10 DEF List, Tiled

LEMMA GrowNewTiles ==
    ASSUME List, Callers, NEW t \in Threads, GrowNew(t)
    PROVE  List'
<1> PICK h \in Addr : h = curr[t]
  BY DEF List, TypeOK
<1> PICK new : new = page
  OBVIOUS
<1>0. /\ heads \subseteq Addr /\ size \in [Addr -> Int] /\ Addr \subseteq Nat
      /\ next \in [Addr -> Addr \cup {Null}] /\ free \in [Addr -> BOOLEAN]
      /\ Header \in Nat \ {0} /\ new \in Nat /\ PageSize \in Nat
      /\ PageSize > Header /\ Limit \in Nat /\ Null \notin Addr
  BY ListFacts
<1>1. h \in heads /\ next[h] = Null /\ new + PageSize <= Limit
  BY DEF GrowNew, NewPage, NothingFits, Callers
<1>2. /\ \A g \in heads : g <= h /\ g < new /\ End(g) <= new /\ End(g) \in Int
      /\ new \notin heads /\ new \in Addr
  <2>1. \A g \in heads : g <= h /\ g < new /\ End(g) <= new /\ End(g) \in Int
    BY <1>1, ListFacts
  <2> QED
    BY <1>0, <1>1, <2>1 DEF Addr
<1>3. /\ size' = [size EXCEPT ![new] = PageSize - Header]
      /\ free' = [free EXCEPT ![new] = TRUE]
      /\ next' = [next EXCEPT ![new] = Null, ![h] = new]
      /\ heads' = heads \cup {new}
      /\ page' = new + PageSize
      /\ owned' = owned \cup new .. new + PageSize - 1
      /\ curr' = [curr EXCEPT ![t] = 0]
      /\ UNCHANGED <<op, req, buffers, overlap>>
  BY DEF GrowNew, NewPage
<1>4. TypeOK'
  <2>1. size' \in [Addr -> Int] /\ free' \in [Addr -> BOOLEAN]
    BY <1>0, <1>2, <1>3
  <2>2. next' \in [Addr -> Addr \cup {Null}]
    BY <1>0, <1>2, <1>3
  <2>3. page' \in FirstSize .. Limit /\ owned' \subseteq Addr
    BY <1>0, <1>1, <1>3, HeapConstants DEF List, TypeOK, Addr
  <2>4. 0 \in Addr
    BY HeapConstants DEF Addr
  <2>5. curr' \in [Threads -> Addr]
    BY <1>3, <2>4 DEF List, TypeOK
  <2> QED
    BY <1>2, <1>3, <2>1, <2>2, <2>3, <2>5 DEF List, TypeOK
<1>5. /\ size'[new] = PageSize - Header /\ next'[new] = Null /\ next'[h] = new
      /\ \A g \in heads : size'[g] = size[g] /\ (g # h => next'[g] = next[g])
  BY <1>0, <1>1, <1>2, <1>3
<1>6. End(new)' = new + PageSize /\ \A g \in heads : End(g)' = End(g)
  <2>1. new + Header + (PageSize - Header) = new + PageSize
    BY <1>0
  <2> QED
    BY <1>5, <2>1 DEF End
<1>7. Blocks'
  <2>1. size'[new] >= 1
    BY <1>0, <1>5
  <2>2. \A g \in heads : size'[g] >= 1
    BY <1>5 DEF List, Blocks
  <2>3. \A g \in heads' : End(g)' <= page'
    BY <1>0, <1>2, <1>3, <1>6
  <2>4. \A w \in owned' : w < page'
    BY <1>0, <1>3 DEF List, Blocks, TypeOK
  <2> QED
    BY <1>3, <2>1, <2>2, <2>3, <2>4 DEF List, Blocks
<1>8. Listed'
  <2> SUFFICES ASSUME NEW g \in heads'
               PROVE  IF next'[g] = Null THEN \A f \in heads' : f <= g
                      ELSE /\ next'[g] \in heads' /\ next'[g] > g
                           /\ \A f \in heads' : f <= g \/ f >= next'[g]
    BY DEF Listed
  <2>1. CASE g = new
    <3>1. \A f \in heads' : f <= new
      BY <1>0, <1>2, <1>3
    <3> QED
      BY <1>5, <2>1, <3>1
  <2>2. CASE g = h
    <3>1. new \in heads' /\ new > h /\ new # Null
      BY <1>0, <1>1, <1>2, <1>3
    <3>2. \A f \in heads' : f <= h \/ f >= new
      BY <1>0, <1>2, <1>3
    <3> QED
      BY <1>5, <2>2, <3>1, <3>2
  <2>3. CASE g \in heads /\ g # h
    <3>0. next'[g] = next[g] /\ heads' = heads \cup {new}
      BY <1>3, <1>5, <2>3
    <3>1. next[g] # Null
      BY <1>0, <1>1, <1>2, <2>3, ListFacts
    <3>2. /\ next[g] \in heads /\ next[g] > g
          /\ \A f \in heads : f <= g \/ f >= next[g]
      BY <2>3, <3>1, ListFacts
    <3>3. new >= next[g]
      <4>1. next[g] < new /\ next[g] \in Nat
        BY <1>0, <1>2, <3>2
      <4> QED
        BY <1>0, <4>1
    <3>4. next'[g] # Null /\ next'[g] \in heads' /\ next'[g] > g
      BY <3>0, <3>1, <3>2
    <3>5. \A f \in heads' : f <= g \/ f >= next'[g]
      BY <3>0, <3>2, <3>3
    <3> QED
      BY <3>4, <3>5
  <2> QED
    BY <1>3, <2>1, <2>2, <2>3
<1>9. \A w \in Addr : w \in owned' <=> \E g \in heads' : Covers(g, w)'
  <2> SUFFICES ASSUME NEW w \in Addr
               PROVE  w \in owned' <=> \E g \in heads' : Covers(g, w)'
    OBVIOUS
  <2>1. w \in owned <=> \E g \in heads : Covers(g, w)
    BY DEF List, Tiled
  <2>2. Covers(new, w)' <=> w \in new .. new + PageSize - 1
    BY <1>0, <1>6 DEF Covers
  <2>3. \A g \in heads : Covers(g, w) <=> Covers(g, w)'
    BY <1>6 DEF Covers
  <2> QED
    BY <1>3, <2>1, <2>2, <2>3
<1>10. \A f, g \in heads' : f < g => End(f)' <= g
  <2>1. \A f, g \in heads : f < g => End(f) <= g
    BY ListFacts
  <2> QED
    BY <1>0, <1>2, <1>3, <1>6, <2>1
<1> QED
  BY <1>4, <1>7, <1>8, <1>9, <1>10 DEF List, Tiled

\* A step that leaves the list alone.
LEMMA ListKept ==
    ASSUME List, TypeOK', UNCHANGED <<size, next, heads, owned>>, page <= page'
    PROVE  List'
<1>1. Listed'
  BY DEF List, Tiled, Listed
<1>2. /\ \A w \in Addr : w \in owned' <=> \E h \in heads' : Covers(h, w)'
      /\ \A g, h \in heads' : g < h => End(g)' <= h
  BY DEF List, Tiled, Covers, End
<1>3. Blocks'
  <2>1. page \in Nat /\ page' \in Nat /\ \A h \in heads : End(h) \in Int
    BY HeapConstants, ListFacts DEF TypeOK
  <2>2. \A h \in heads : End(h)' = End(h)
    BY DEF End
  <2>3. \A h \in heads' : size'[h] >= 1 /\ End(h)' <= page'
    BY <2>1, <2>2 DEF List, Blocks
  <2>4. \A w \in owned' : w < page'
    BY <2>1 DEF List, Blocks, TypeOK, Addr
  <2> QED
    BY <2>3, <2>4 DEF List, Blocks
<1> QED
  BY <1>1, <1>2, <1>3 DEF List, Tiled

-----------------------------------------------------------------------------
(* Every step keeps the heap sound, unless a second call begins.           *)

\* The others are idle while t is inside.
LEMMA Alone ==
    ASSUME Sound, NEW t \in Threads, op[t] # "idle"
    PROVE  \A u \in Threads : u # t => op[u] = "idle"
BY DEF Sound, Solo

LEMMA SoundMalloc ==
    ASSUME Sound, NEW t \in Threads, NEW bytes \in Requests,
           Malloc(t, bytes), ~ overlap'
    PROVE  Sound'
<1>1. /\ op' = [op EXCEPT ![t] = "look"] /\ curr' = [curr EXCEPT ![t] = 0]
      /\ req' = [req EXCEPT ![t] = bytes] /\ overlap' \in BOOLEAN
      /\ UNCHANGED <<size, free, next, page, buffers, heads, owned>>
  BY DEF Malloc, Begin, Sound, List, TypeOK
<1>2. \A u \in Threads : u # t => op[u] = "idle"
  BY DEF Malloc, Begin
<1>3. /\ op'[t] = "look" /\ curr'[t] = 0 /\ req'[t] = bytes
      /\ \A u \in Threads : u # t => op'[u] = "idle"
  BY <1>1, <1>2 DEF Sound, List, TypeOK
<1>4. 0 \in Addr /\ 0 \in heads /\ heads \subseteq Nat
  BY HeapConstants DEF Sound, List, TypeOK, Blocks, Addr
<1>5. List'
  <2>1. TypeOK'
    BY <1>1, <1>4 DEF Sound, List, TypeOK, Ops
  <2>2. page <= page'
    BY <1>1, ListFacts DEF Sound
  <2> QED
    BY <1>1, <2>1, <2>2, ListKept DEF Sound
<1>6. Solo'
  BY <1>3 DEF Solo
<1>7. Callers'
  BY <1>1, <1>3, <1>4 DEF Callers
<1>8. Passed'
  BY <1>1, <1>3, <1>4 DEF Passed
<1>9. Seam'
  <2>1. \A h \in heads : ~ Mergeable(h)
    BY <1>2, <1>1 DEF Sound, Seam, Malloc
  <2> QED
    BY <1>1, <2>1 DEF Seam, Mergeable, End
<1>10. BuffersOK'
  BY <1>1 DEF Sound, BuffersOK
<1> QED
  BY <1>5, <1>6, <1>7, <1>8, <1>9, <1>10 DEF Sound

LEMMA SoundFind ==
    ASSUME Sound, NEW t \in Threads, Find(t)
    PROVE  Sound'
<1>1. /\ op' = [op EXCEPT ![t] = IF size[curr[t]] >= Need(t) + Header + 1
                                 THEN "split" ELSE "take"]
      /\ op[t] = "look" /\ Fits(curr[t], Need(t))
      /\ UNCHANGED <<size, free, next, page, curr, req, buffers, heads, owned,
                     overlap>>
  BY DEF Find
<1>2. \A u \in Threads : u # t => op[u] = "idle"
  BY <1>1, Alone
<1>3. /\ op'[t] \in {"split", "take"}
      /\ op'[t] = "split" => size[curr[t]] >= Need(t) + Header + 1
      /\ \A u \in Threads : u # t => op'[u] = "idle"
  BY <1>1, <1>2 DEF Sound, List, TypeOK
<1>4. List'
  <2>1. TypeOK'
    BY <1>1 DEF Sound, List, TypeOK, Ops
  <2>2. page <= page'
    BY <1>1, ListFacts DEF Sound
  <2> QED
    BY <1>1, <2>1, <2>2, ListKept DEF Sound
<1>5. Solo'
  BY <1>3 DEF Solo
<1>6. Callers'
  BY <1>1, <1>3 DEF Sound, Callers, Fits, Need
<1>7. Passed'
  BY <1>3 DEF Passed
<1>8. Seam'
  <2>1. \A h \in heads : ~ Mergeable(h)
    BY <1>1, <1>2 DEF Sound, Seam
  <2> QED
    BY <1>1, <2>1 DEF Seam, Mergeable, End
<1>9. BuffersOK'
  BY <1>1 DEF Sound, BuffersOK
<1> QED
  BY <1>4, <1>5, <1>6, <1>7, <1>8, <1>9 DEF Sound

LEMMA SoundPass ==
    ASSUME Sound, NEW t \in Threads, Pass(t)
    PROVE  Sound'
<1>1. /\ curr' = [curr EXCEPT ![t] = next[curr[t]]]
      /\ op[t] = "look" /\ ~ Fits(curr[t], Need(t)) /\ next[curr[t]] # Null
      /\ UNCHANGED <<size, free, next, page, op, req, buffers, heads, owned,
                     overlap>>
  BY DEF Pass
<1>2. \A u \in Threads : u # t => op[u] = "idle"
  BY <1>1, Alone
<1>3. /\ curr[t] \in heads /\ next[curr[t]] \in heads
      /\ \A g \in heads : g <= curr[t] \/ g >= next[curr[t]]
  BY <1>1, ListFacts DEF Sound, Callers
<1>4. curr'[t] = next[curr[t]] /\ heads \subseteq Addr /\ Addr \subseteq Nat
  BY <1>1, ListFacts DEF Sound, List, TypeOK
<1>5. List'
  <2>1. TypeOK'
    BY <1>1, <1>3, <1>4 DEF Sound, List, TypeOK
  <2>2. page <= page'
    BY <1>1, ListFacts DEF Sound
  <2> QED
    BY <1>1, <2>1, <2>2, ListKept DEF Sound
<1>6. Solo'
  BY <1>1 DEF Sound, Solo
<1>7. Callers'
  BY <1>1, <1>2, <1>3, <1>4 DEF Sound, Callers
<1>8. Passed'
  <2>1. \A g \in heads : g < next[curr[t]] => ~ Fits(g, Need(t))
    <3> SUFFICES ASSUME NEW g \in heads, g < next[curr[t]]
                 PROVE  ~ Fits(g, Need(t))
      OBVIOUS
    <3>1. g \in Nat /\ curr[t] \in Nat /\ next[curr[t]] \in Nat
      BY <1>3, <1>4
    <3>2. g = curr[t] \/ g < curr[t]
      BY <1>3, <3>1
    <3> QED
      BY <1>1, <3>2 DEF Sound, Passed
  <2> QED
    BY <1>1, <1>2, <1>4, <2>1 DEF Passed, Fits, Need
<1>9. Seam'
  <2>1. \A h \in heads : ~ Mergeable(h)
    BY <1>1, <1>2 DEF Sound, Seam
  <2> QED
    BY <1>1, <2>1 DEF Seam, Mergeable, End
<1>10. BuffersOK'
  BY <1>1 DEF Sound, BuffersOK
<1> QED
  BY <1>5, <1>6, <1>7, <1>8, <1>9, <1>10 DEF Sound

LEMMA SoundTake ==
    ASSUME Sound, NEW t \in Threads, Take(t)
    PROVE  Sound'
<1> PICK h \in Addr : h = curr[t]
  BY DEF Sound, List, TypeOK
<1>1. /\ op[t] = "take" /\ free' = [free EXCEPT ![h] = FALSE]
      /\ buffers' = buffers \cup {<<t, h + Header, req[t]>>}
      /\ op' = [op EXCEPT ![t] = "idle"] /\ curr' = [curr EXCEPT ![t] = 0]
      /\ req' = [req EXCEPT ![t] = 0]
      /\ UNCHANGED <<size, next, page, heads, owned, overlap>>
  BY DEF Take, Return
<1>2. \A u \in Threads : u # t => op[u] = "idle"
  BY <1>1, Alone
<1>3. \A u \in Threads : op'[u] = "idle"
  BY <1>1, <1>2 DEF Sound, List, TypeOK
<1>4. /\ h \in heads /\ req[t] \in Requests /\ free[h]
      /\ size[h] >= Words(req[t])
  BY <1>1 DEF Sound, Callers, Fits, Need
<1>5. /\ heads \subseteq Addr /\ Addr \subseteq Nat /\ free \in [Addr -> BOOLEAN]
      /\ Header \in Nat /\ buffers \subseteq Threads \X Addr \X Requests
      /\ h + Header \in Addr
  <2>1. /\ heads \subseteq Addr /\ Addr \subseteq Nat /\ free \in [Addr -> BOOLEAN]
        /\ Header \in Nat /\ buffers \subseteq Threads \X Addr \X Requests
    BY ListFacts DEF Sound, List, TypeOK
  <2>2. h + Header < Limit
    BY <1>4, ListFacts DEF Sound
  <2> QED
    BY <2>1, <2>2, ListFacts DEF Sound, Addr
<1>6. ~ free'[h] /\ \A g \in heads : g # h => free'[g] = free[g]
  BY <1>1, <1>5
<1>7. List'
  <2>1. 0 \in Addr
    BY HeapConstants DEF Addr
  <2>2. TypeOK'
    BY <1>1, <1>4, <1>5, <2>1 DEF Sound, List, TypeOK, Ops
  <2>3. page <= page'
    BY <1>1, ListFacts DEF Sound
  <2> QED
    BY <1>1, <2>2, <2>3, ListKept DEF Sound
<1>8. Solo' /\ Callers' /\ Passed'
  BY <1>3 DEF Solo, Callers, Passed
<1>9. Seam'
  <2>1. \A g \in heads : g # h => ~ Mergeable(g)
    BY <1>1, <1>2 DEF Sound, Seam
  <2>2. \A g \in heads : Mergeable(g)' => g # h /\ free[g] /\ free[next[g]]
    BY <1>1, <1>4, <1>5, <1>6, ListFacts DEF Sound, Mergeable
  <2>3. \A g \in heads : ~ Mergeable(g)'
    BY <1>1, <2>1, <2>2 DEF Mergeable, End
  <2> QED
    BY <1>1, <2>3 DEF Seam
<1>10. BuffersOK'
  <2>1. \A b \in buffers : b[2] - Header \in heads /\ b[2] - Header # h /\ b[2] \in Nat
    BY <1>4, <1>5 DEF Sound, BuffersOK
  <2>2. <<t, h + Header, req[t]>>[2] - Header = h
    BY <1>5
  <2>3. \A b \in buffers' : LET g == b[2] - Header
                            IN  /\ g \in heads' /\ ~ free'[g]
                                /\ size'[g] >= Words(b[3])
    BY <1>1, <1>4, <1>6, <2>1, <2>2 DEF Sound, BuffersOK
  <2>4. \A g \in heads' : ~ free'[g] => \E b \in buffers' : b[2] = g + Header
    <3>1. \E b \in buffers' : b[2] = h + Header
      <4> DEFINE new == <<t, h + Header, req[t]>>
      <4>1. new \in buffers' /\ new[2] = h + Header
        BY <1>1
      <4> QED
        BY <4>1
    <3>2. \A g \in heads : ~ free[g] => \E b \in buffers : b[2] = g + Header
      BY DEF Sound, BuffersOK
    <3> QED
      BY <1>1, <1>6, <3>1, <3>2
  <2>5. \A b, c \in buffers' : b # c => b[2] # c[2]
    BY <1>1, <1>5, <2>1, <2>2 DEF Sound, BuffersOK
  <2> QED
    BY <2>3, <2>4, <2>5 DEF BuffersOK
<1> QED
  BY <1>7, <1>8, <1>9, <1>10 DEF Sound

LEMMA SoundSplit ==
    ASSUME Sound, NEW t \in Threads, Split(t)
    PROVE  Sound'
<1> PICK h \in Addr : h = curr[t]
  BY DEF Sound, List, TypeOK
<1> PICK n : n = Need(t)
  OBVIOUS
<1> PICK rest : rest = h + Header + n
  OBVIOUS
<1>1. /\ op[t] = "split"
      /\ size' = [size EXCEPT ![rest] = size[h] - n - Header, ![h] = n]
      /\ free' = [free EXCEPT ![rest] = TRUE]
      /\ next' = [next EXCEPT ![rest] = next[h], ![h] = rest]
      /\ heads' = heads \cup {rest}
      /\ op' = [op EXCEPT ![t] = "take"]
      /\ UNCHANGED <<page, curr, req, buffers, owned, overlap>>
  BY DEF Split
<1>2. List'
  BY SplitTiles DEF Sound
<1>3. \A u \in Threads : u # t => op[u] = "idle"
  BY <1>1, Alone
<1>4. op'[t] = "take" /\ \A u \in Threads : u # t => op'[u] = "idle"
  BY <1>1, <1>3 DEF Sound, List, TypeOK
<1>5. /\ h \in heads /\ free[h] /\ size[h] >= n + Header + 1
      /\ req[t] \in Requests /\ n \in Nat /\ n >= 1
  <2>1. /\ h \in heads /\ free[h] /\ size[h] >= n + Header + 1
        /\ req[t] \in Requests
    BY <1>1 DEF Sound, Callers, Fits
  <2> QED
    BY <2>1, WordsPositive, HeapConstants DEF Need
<1>6. /\ heads \subseteq Addr /\ Addr \subseteq Nat /\ free \in [Addr -> BOOLEAN]
      /\ size \in [Addr -> Int] /\ next \in [Addr -> Addr \cup {Null}]
      /\ Header \in Nat \ {0}
  BY ListFacts DEF Sound
<1>7. rest \in Nat /\ h < rest /\ rest + Header < End(h)
  BY <1>5, <1>6 DEF End
<1>8. rest \in Addr /\ rest \notin heads
  <2>1. rest \in Addr
    BY <1>1, <1>2 DEF List, TypeOK
  <2>2. \A g \in heads : g <= h \/ g >= End(h)
    BY <1>5, <1>6, ListFacts DEF Sound
  <2> QED
    BY <1>5, <1>6, <1>7, <2>1, <2>2, ListFacts DEF Sound
<1>9. /\ size'[h] = n /\ size'[rest] = size[h] - n - Header
      /\ next'[h] = rest /\ next'[rest] = next[h] /\ free'[rest]
      /\ free'[h] = free[h]
      /\ \A g \in heads : /\ g # h => size'[g] = size[g] /\ next'[g] = next[g]
                          /\ free'[g] = free[g]
  BY <1>1, <1>5, <1>6, <1>7, <1>8
<1>10. Solo'
  BY <1>4 DEF Solo
<1>11. Callers'
  BY <1>1, <1>4, <1>5, <1>6, <1>9 DEF Callers, Fits, Need
<1>12. Passed'
  BY <1>4 DEF Passed
<1>13. Seam'
  <2>1. \A g \in heads : ~ Mergeable(g)
    BY <1>1, <1>3 DEF Sound, Seam
  <2>2. \A g \in heads : g # h => ~ Mergeable(g)'
    <3> SUFFICES ASSUME NEW g \in heads, g # h, Mergeable(g)'
                 PROVE  FALSE
      OBVIOUS
    <3>1. next'[g] = next[g] /\ size'[g] = size[g] /\ free'[g] = free[g]
      BY <1>9
    <3>2. next[g] # Null /\ next[g] \in heads /\ free[next[g]]
      BY <1>9, <3>1, ListFacts DEF Sound, Mergeable
    <3> QED
      BY <2>1, <3>1, <3>2 DEF Mergeable, End
  <2>3. ~ Mergeable(rest)'
    <3> SUFFICES ASSUME Mergeable(rest)'
                 PROVE  FALSE
      OBVIOUS
    <3>1. next[h] # Null /\ next[h] \in heads /\ free[next[h]]
      BY <1>5, <1>9, ListFacts DEF Sound, Mergeable
    <3>2. rest + Header + (size[h] - n - Header) = next[h]
      BY <1>9 DEF Mergeable, End
    <3>3. size[h] \in Int /\ h \in Nat /\ next[h] \in Nat
      BY <1>5, <1>6, <3>1
    <3>4. h + Header + size[h] = next[h]
      BY <1>5, <1>6, <1>7, <3>2, <3>3
    <3> QED
      BY <1>5, <2>1, <3>1, <3>4 DEF Mergeable, End
  <2>4. \A g \in heads' : Mergeable(g)' => g = h
    BY <1>1, <2>2, <2>3
  <2>5. op'[t] = "take" /\ curr'[t] = h
    BY <1>1, <1>4
  <2> QED
    BY <2>4, <2>5 DEF Seam
<1>14. BuffersOK'
  <2>1. \A b \in buffers : b[2] - Header # h
    BY <1>5 DEF Sound, BuffersOK
  <2>2. \A b \in buffers : /\ b[2] - Header \in heads
                           /\ ~ free[b[2] - Header]
                           /\ size[b[2] - Header] >= Words(b[3])
    BY DEF Sound, BuffersOK
  <2>3. \A b \in buffers' : LET g == b[2] - Header
                            IN  /\ g \in heads' /\ ~ free'[g]
                                /\ size'[g] >= Words(b[3])
    BY <1>1, <1>9, <2>1, <2>2
  <2>4. \A g \in heads' : ~ free'[g] => \E b \in buffers' : b[2] = g + Header
    BY <1>1, <1>9 DEF Sound, BuffersOK
  <2> QED
    BY <1>1, <2>3, <2>4 DEF Sound, BuffersOK
<1> QED
  BY <1>2, <1>10, <1>11, <1>12, <1>13, <1>14 DEF Sound

LEMMA SoundGrowLast ==
    ASSUME Sound, NEW t \in Threads, GrowLast(t)
    PROVE  Sound'
<1> PICK h \in Addr : h = curr[t]
  BY DEF Sound, List, TypeOK
<1>1. /\ op[t] = "look" /\ next[h] = Null /\ free[h]
      /\ size' = [size EXCEPT ![h] = @ + PageSize]
      /\ curr' = [curr EXCEPT ![t] = 0]
      /\ UNCHANGED <<free, next, heads, op, req, buffers, overlap>>
  BY DEF GrowLast, NewPage, NothingFits
<1>2. List'
  BY GrowLastTiles DEF Sound
<1>3. \A u \in Threads : u # t => op[u] = "idle"
  BY <1>1, Alone
<1>4. curr'[t] = 0 /\ 0 \in heads /\ heads \subseteq Nat /\ heads \subseteq Addr
  BY <1>1, ListFacts DEF Sound, List, TypeOK, Blocks
<1>5. /\ \A g \in heads : g # h => size'[g] = size[g]
      /\ \A b \in buffers : b[2] - Header \in heads /\ b[2] - Header # h
  <2>1. \A g \in heads : g # h => size'[g] = size[g]
    BY <1>1, <1>4, ListFacts DEF Sound
  <2>2. \A b \in buffers : b[2] - Header \in heads /\ b[2] - Header # h
    BY <1>1 DEF Sound, BuffersOK
  <2> QED
    BY <2>1, <2>2
<1>6. Solo'
  BY <1>1 DEF Sound, Solo
<1>7. Callers'
  BY <1>1, <1>3, <1>4 DEF Sound, Callers
<1>8. Passed'
  BY <1>1, <1>3, <1>4 DEF Passed
<1>9. Seam'
  <2>1. \A g \in heads : ~ Mergeable(g)
    BY <1>1, <1>3 DEF Sound, Seam
  <2>2. \A g \in heads : ~ Mergeable(g)'
    BY <1>1, <1>5, <2>1 DEF Mergeable, End
  <2> QED
    BY <1>1, <2>2 DEF Seam
<1>10. BuffersOK'
  BY <1>1, <1>5 DEF Sound, BuffersOK
<1> QED
  BY <1>2, <1>6, <1>7, <1>8, <1>9, <1>10 DEF Sound

LEMMA SoundGrowNew ==
    ASSUME Sound, NEW t \in Threads, GrowNew(t)
    PROVE  Sound'
<1> PICK h \in Addr : h = curr[t]
  BY DEF Sound, List, TypeOK
<1> PICK new : new = page
  OBVIOUS
<1>1. /\ op[t] = "look" /\ next[h] = Null
      /\ ~ (free[h] /\ End(h) = new)
      /\ size' = [size EXCEPT ![new] = PageSize - Header]
      /\ free' = [free EXCEPT ![new] = TRUE]
      /\ next' = [next EXCEPT ![new] = Null, ![h] = new]
      /\ heads' = heads \cup {new}
      /\ curr' = [curr EXCEPT ![t] = 0]
      /\ UNCHANGED <<op, req, buffers, overlap>>
  BY DEF GrowNew, NewPage, NothingFits
<1>2. List'
  BY GrowNewTiles DEF Sound
<1>3. \A u \in Threads : u # t => op[u] = "idle"
  BY <1>1, Alone
<1>4. /\ curr'[t] = 0 /\ 0 \in heads /\ heads \subseteq Nat /\ heads \subseteq Addr
      /\ h \in heads /\ new \in Addr /\ new \notin heads /\ Null \notin Addr
  <2>1. new \in Addr
    BY <1>1, <1>2 DEF List, TypeOK
  <2>2. h \in heads
    BY <1>1 DEF Sound, Callers
  <2> QED
    BY <1>1, <2>1, <2>2, ListFacts DEF Sound, List, TypeOK, Blocks
<1>5. /\ next'[new] = Null /\ next'[h] = new /\ free'[new]
      /\ \A g \in heads : /\ size'[g] = size[g] /\ free'[g] = free[g]
                          /\ g # h => next'[g] = next[g]
  BY <1>1, <1>4, ListFacts DEF Sound
<1>6. Solo'
  BY <1>1 DEF Sound, Solo
<1>7. Callers'
  BY <1>1, <1>3, <1>4 DEF Sound, Callers
<1>8. Passed'
  <2>1. heads' \subseteq Nat
    BY <1>1, <1>4, ListFacts DEF Sound
  <2> QED
    BY <1>1, <1>3, <1>4, <2>1 DEF Passed
<1>9. Seam'
  <2>1. \A g \in heads : ~ Mergeable(g)
    BY <1>1, <1>3 DEF Sound, Seam
  <2>2. \A g \in heads : g # h => ~ Mergeable(g)'
    <3> SUFFICES ASSUME NEW g \in heads, g # h, Mergeable(g)'
                 PROVE  FALSE
      OBVIOUS
    <3>1. next'[g] = next[g] /\ size'[g] = size[g] /\ free'[g] = free[g]
      BY <1>5
    <3>2. next[g] # Null /\ next[g] \in heads /\ free[next[g]]
      BY <1>5, <3>1, ListFacts DEF Sound, Mergeable
    <3> QED
      BY <2>1, <3>1, <3>2 DEF Mergeable, End
  <2>3. ~ Mergeable(h)' /\ ~ Mergeable(new)'
    BY <1>1, <1>4, <1>5 DEF Mergeable, End
  <2> QED
    BY <1>1, <2>2, <2>3 DEF Seam
<1>10. BuffersOK'
  <2>1. \A b \in buffers' : LET g == b[2] - Header
                            IN  /\ g \in heads' /\ ~ free'[g]
                                /\ size'[g] >= Words(b[3])
    BY <1>1, <1>5 DEF Sound, BuffersOK
  <2>2. \A g \in heads' : ~ free'[g] => \E b \in buffers' : b[2] = g + Header
    BY <1>1, <1>5 DEF Sound, BuffersOK
  <2> QED
    BY <1>1, <2>1, <2>2 DEF Sound, BuffersOK
<1> QED
  BY <1>2, <1>6, <1>7, <1>8, <1>9, <1>10 DEF Sound

\* A call that returns with the list at rest: Fail, and Done at the last block.
LEMMA SoundReturn ==
    ASSUME Sound, NEW t \in Threads, Fail(t) \/ Done(t)
    PROVE  Sound'
<1>1. /\ op[t] \in {"look", "coalesce"} /\ next[curr[t]] = Null
      /\ op' = [op EXCEPT ![t] = "idle"] /\ curr' = [curr EXCEPT ![t] = 0]
      /\ req' = [req EXCEPT ![t] = 0]
      /\ UNCHANGED <<size, free, next, page, buffers, heads, owned, overlap>>
  BY DEF Fail, Done, NothingFits, Return
<1>2. \A u \in Threads : u # t => op[u] = "idle"
  BY <1>1, Alone
<1>3. \A u \in Threads : op'[u] = "idle"
  BY <1>1, <1>2 DEF Sound, List, TypeOK
<1>4. List'
  <2>1. 0 \in Addr
    BY HeapConstants DEF Addr
  <2>2. TypeOK'
    BY <1>1, <2>1 DEF Sound, List, TypeOK, Ops
  <2>3. page <= page'
    BY <1>1, ListFacts DEF Sound
  <2> QED
    BY <1>1, <2>2, <2>3, ListKept DEF Sound
<1>5. Solo' /\ Callers' /\ Passed'
  BY <1>3 DEF Solo, Callers, Passed
<1>6. Seam'
  <2> SUFFICES ASSUME NEW h \in heads, Mergeable(h)
               PROVE  FALSE
    BY <1>1 DEF Seam, Mergeable, End
  <2>1. op[t] = "coalesce" /\ curr[t] <= h
    BY <1>1, <1>2 DEF Sound, Seam
  <2>2. curr[t] \in heads /\ heads \subseteq Addr /\ Addr \subseteq Nat
    BY <1>1, ListFacts DEF Sound, Callers
  <2>3. h <= curr[t]
    BY <1>1, <2>2, ListFacts DEF Sound
  <2>4. h \in Nat /\ curr[t] \in Nat
    BY <2>2
  <2>5. h = curr[t]
    BY <2>1, <2>3, <2>4
  <2> QED
    BY <1>1, <2>5 DEF Mergeable
<1>7. BuffersOK'
  BY <1>1 DEF Sound, BuffersOK
<1> QED
  BY <1>4, <1>5, <1>6, <1>7 DEF Sound

LEMMA SoundFree ==
    ASSUME Sound, NEW t \in Threads, NEW b \in buffers, Free(t, b), ~ overlap'
    PROVE  Sound'
<1> PICK h : h = b[2] - Header
  OBVIOUS
<1>1. /\ op[t] = "idle" /\ free' = [free EXCEPT ![h] = TRUE]
      /\ buffers' = buffers \ {b}
      /\ op' = [op EXCEPT ![t] = "coalesce"] /\ curr' = [curr EXCEPT ![t] = 0]
      /\ overlap' \in BOOLEAN
      /\ UNCHANGED <<size, next, page, req, heads, owned>>
  BY DEF Free, Begin, Sound, List, TypeOK
<1>2. \A u \in Threads : u # t => op[u] = "idle"
  BY DEF Free, Begin
<1>3. /\ op'[t] = "coalesce" /\ curr'[t] = 0
      /\ \A u \in Threads : u # t => op'[u] = "idle"
  BY <1>1, <1>2 DEF Sound, List, TypeOK
<1>4. /\ 0 \in Addr /\ 0 \in heads /\ heads \subseteq Nat /\ heads \subseteq Addr
      /\ h \in heads
  BY ListFacts, HeapConstants DEF Sound, List, TypeOK, Blocks, Addr, BuffersOK
<1>5. free'[h] /\ \A g \in heads : g # h => free'[g] = free[g]
  BY <1>1, <1>4 DEF Sound, List, TypeOK
<1>6. List'
  <2>1. TypeOK'
    BY <1>1, <1>4 DEF Sound, List, TypeOK, Ops
  <2>2. page <= page'
    BY <1>1, ListFacts DEF Sound
  <2> QED
    BY <1>1, <2>1, <2>2, ListKept DEF Sound
<1>7. Solo'
  BY <1>3 DEF Solo
<1>8. Callers'
  BY <1>1, <1>3, <1>4 DEF Callers
<1>9. Passed'
  BY <1>3 DEF Passed
<1>10. Seam'
  BY <1>1, <1>3, <1>4 DEF Seam
<1>11. BuffersOK'
  <2>1. \A c \in buffers : /\ c[2] - Header \in heads /\ ~ free[c[2] - Header]
                           /\ size[c[2] - Header] >= Words(c[3])
    BY DEF Sound, BuffersOK
  <2>2. \A c \in buffers' : c \in buffers /\ c[2] # b[2] /\ c[2] \in Nat
    BY <1>1, ListFacts DEF Sound, BuffersOK, List, TypeOK
  <2>3. b[2] \in Nat /\ Header \in Nat
    BY ListFacts DEF Sound, List, TypeOK
  <2>4. \A c \in buffers' : c[2] - Header # h
    BY <2>2, <2>3
  <2>5. \A g \in heads' : ~ free'[g] => \E c \in buffers' : c[2] = g + Header
    <3> SUFFICES ASSUME NEW g \in heads, ~ free'[g]
                 PROVE  \E c \in buffers' : c[2] = g + Header
      BY <1>1
    <3>1. g # h /\ ~ free[g]
      BY <1>5
    <3>2. PICK c \in buffers : c[2] = g + Header
      BY <3>1 DEF Sound, BuffersOK
    <3>3. c # b
      BY <1>4, <2>3, <3>1, <3>2
    <3> QED
      BY <1>1, <3>2, <3>3
  <2> QED
    BY <1>1, <1>5, <2>1, <2>2, <2>4, <2>5 DEF Sound, BuffersOK
<1> QED
  BY <1>6, <1>7, <1>8, <1>9, <1>10, <1>11 DEF Sound

LEMMA SoundMerge ==
    ASSUME Sound, NEW t \in Threads, Merge(t)
    PROVE  Sound'
<1> PICK h \in Addr : h = curr[t]
  BY DEF Sound, List, TypeOK
<1> PICK gone : gone = next[h]
  OBVIOUS
<1>1. /\ op[t] = "coalesce" /\ Mergeable(h)
      /\ size' = [size EXCEPT ![h] = @ + Header + size[gone], ![gone] = 0]
      /\ next' = [next EXCEPT ![h] = next[gone], ![gone] = Null]
      /\ free' = [free EXCEPT ![gone] = FALSE]
      /\ heads' = heads \ {gone}
      /\ UNCHANGED <<page, op, curr, req, buffers, owned, overlap>>
  BY DEF Merge
<1>2. List'
  BY MergeTiles DEF Sound
<1>3. \A u \in Threads : u # t => op[u] = "idle"
  BY <1>1, Alone
<1>4. /\ heads \subseteq Nat /\ heads \subseteq Addr /\ h \in heads
      /\ gone \in heads /\ gone > h /\ free[h] /\ free[gone]
      /\ \A f \in heads : f <= h \/ f >= gone
  BY <1>1, ListFacts DEF Sound, Callers, Mergeable
<1>5. gone # h
  BY <1>4
<1>6. /\ \A g \in heads' : /\ g \in heads /\ g # gone /\ free'[g] = free[g]
                           /\ g # h => size'[g] = size[g] /\ next'[g] = next[g]
  BY <1>1, <1>4, <1>5, ListFacts DEF Sound
<1>7. Solo'
  BY <1>1 DEF Sound, Solo
<1>8. Callers'
  BY <1>1, <1>3, <1>4, <1>5 DEF Callers
<1>9. Passed'
  BY <1>1, <1>3 DEF Passed
<1>10. Seam'
  <2> SUFFICES ASSUME NEW g \in heads', Mergeable(g)'
               PROVE  curr'[t] <= g
    BY <1>1 DEF Seam
  <2>1. CASE g >= h
    BY <1>1, <2>1
  <2>2. CASE g < h
    <3>1. g \in heads /\ g # h /\ next'[g] = next[g] /\ size'[g] = size[g]
          /\ free[g]
      BY <1>4, <1>6, <2>2 DEF Mergeable
    <3>2. next[g] # Null /\ next[g] \in heads'
      BY <1>2, <3>1 DEF List, Tiled, Listed, Mergeable
    <3>3. free[next[g]] /\ End(g) = next[g]
      BY <1>6, <3>1, <3>2 DEF Mergeable, End
    <3>4. Mergeable(g)
      BY <3>1, <3>2, <3>3 DEF Mergeable
    <3>5. curr[t] <= g
      BY <1>1, <1>3, <3>1, <3>4 DEF Sound, Seam
    <3> QED
      BY <1>1, <3>5
  <2>3. g \in Nat /\ h \in Nat
    BY <1>4, <1>6
  <2> QED
    BY <2>1, <2>2, <2>3
<1>11. BuffersOK'
  <2>1. \A b \in buffers : /\ b[2] - Header \in heads /\ ~ free[b[2] - Header]
                           /\ size[b[2] - Header] >= Words(b[3])
                           /\ b[2] - Header # gone /\ b[2] - Header # h
    BY <1>4 DEF Sound, BuffersOK
  <2>2. \A b \in buffers' : LET g == b[2] - Header
                            IN  /\ g \in heads' /\ ~ free'[g]
                                /\ size'[g] >= Words(b[3])
    BY <1>1, <1>6, <2>1
  <2>3. \A g \in heads' : ~ free'[g] => \E b \in buffers' : b[2] = g + Header
    BY <1>1, <1>6 DEF Sound, BuffersOK
  <2> QED
    BY <1>1, <2>2, <2>3 DEF Sound, BuffersOK
<1> QED
  BY <1>2, <1>7, <1>8, <1>9, <1>10, <1>11 DEF Sound

LEMMA SoundOnward ==
    ASSUME Sound, NEW t \in Threads, Onward(t)
    PROVE  Sound'
<1>1. /\ op[t] = "coalesce" /\ ~ Mergeable(curr[t]) /\ next[curr[t]] # Null
      /\ curr' = [curr EXCEPT ![t] = next[curr[t]]]
      /\ UNCHANGED <<size, free, next, page, op, req, buffers, heads, owned,
                     overlap>>
  BY DEF Onward
<1>2. \A u \in Threads : u # t => op[u] = "idle"
  BY <1>1, Alone
<1>3. /\ curr[t] \in heads /\ next[curr[t]] \in heads
      /\ \A g \in heads : g <= curr[t] \/ g >= next[curr[t]]
  BY <1>1, ListFacts DEF Sound, Callers
<1>4. curr'[t] = next[curr[t]] /\ heads \subseteq Addr /\ heads \subseteq Nat
  BY <1>1, ListFacts DEF Sound, List, TypeOK
<1>5. List'
  <2>1. TypeOK'
    BY <1>1, <1>3, <1>4 DEF Sound, List, TypeOK
  <2>2. page <= page'
    BY <1>1, ListFacts DEF Sound
  <2> QED
    BY <1>1, <2>1, <2>2, ListKept DEF Sound
<1>6. Solo'
  BY <1>1 DEF Sound, Solo
<1>7. Callers'
  BY <1>1, <1>2, <1>3, <1>4 DEF Callers
<1>8. Passed'
  BY <1>1, <1>2 DEF Passed
<1>9. Seam'
  <2> SUFFICES ASSUME NEW g \in heads, Mergeable(g)
               PROVE  curr'[t] <= g
    BY <1>1 DEF Seam, Mergeable, End
  <2>1. curr[t] <= g /\ g # curr[t]
    BY <1>1, <1>2 DEF Sound, Seam
  <2>2. g \in Nat /\ curr[t] \in Nat /\ next[curr[t]] \in Nat
    BY <1>3, <1>4
  <2>3. g >= next[curr[t]]
    BY <1>3, <2>1, <2>2
  <2> QED
    BY <1>4, <2>2, <2>3
<1>10. BuffersOK'
  BY <1>1 DEF Sound, BuffersOK
<1> QED
  BY <1>5, <1>6, <1>7, <1>8, <1>9, <1>10 DEF Sound

LEMMA SoundOtherPage ==
    ASSUME Sound, OtherPage
    PROVE  Sound'
<1>1. /\ page' = page + PageSize /\ page + PageSize <= Limit
      /\ UNCHANGED <<size, free, next, op, curr, req, buffers, heads, owned,
                     overlap>>
  BY DEF OtherPage
<1>2. List'
  <2>1. page <= page' /\ TypeOK'
    BY <1>1, HeapConstants, ListFacts DEF Sound, List, TypeOK
  <2> QED
    BY <1>1, <2>1, ListKept DEF Sound
<1> QED
  BY <1>1, <1>2
  DEF Sound, Solo, Callers, Fits, Need, Passed, Seam, Mergeable, End, BuffersOK

-----------------------------------------------------------------------------
(* The invariant.                                                          *)

LEMMA HeapInit == Init => HeapInv
<1> SUFFICES ASSUME Init
             PROVE  Sound /\ overlap \in BOOLEAN
  BY DEF HeapInv
<1>1. /\ size = [a \in Addr |-> IF a = 0 THEN FirstSize - Header ELSE 0]
      /\ free = [a \in Addr |-> a = 0] /\ next = [a \in Addr |-> Null]
      /\ page = FirstSize /\ buffers = {} /\ heads = {0}
      /\ owned = 0 .. FirstSize - 1 /\ overlap = FALSE
      /\ op = [t \in Threads |-> "idle"] /\ curr = [t \in Threads |-> 0]
      /\ req = [t \in Threads |-> 0]
  BY DEF Init
<1>2. /\ 0 \in Addr /\ FirstSize \in Nat /\ Header \in Nat \ {0}
      /\ FirstSize > Header /\ Limit \in Nat /\ FirstSize <= Limit
  BY HeapConstants DEF Addr
<1>3. size[0] = FirstSize - Header /\ free[0] /\ next[0] = Null
  BY <1>1, <1>2
<1>4. End(0) = FirstSize
  BY <1>2, <1>3 DEF End
<1>5. TypeOK
  <2>1. size \in [Addr -> Int] /\ free \in [Addr -> BOOLEAN]
    BY <1>1, <1>2
  <2>2. next \in [Addr -> Addr \cup {Null}] /\ page \in FirstSize .. Limit
    BY <1>1, <1>2
  <2>3. heads \subseteq Addr /\ owned \subseteq Addr
    BY <1>1, <1>2 DEF Addr
  <2>4. op \in [Threads -> Ops] /\ curr \in [Threads -> Addr]
        /\ req \in [Threads -> Requests \cup {0}]
    BY <1>1, <1>2 DEF Ops
  <2> QED
    BY <1>1, <2>1, <2>2, <2>3, <2>4 DEF TypeOK
<1>6. Blocks
  BY <1>1, <1>2, <1>3, <1>4 DEF Blocks
<1>7. Tiled
  BY <1>1, <1>2, <1>3, <1>4 DEF Tiled, Listed, Covers, Addr
<1>8. Solo /\ Callers /\ Passed
  BY <1>1 DEF Solo, Callers, Passed
<1>9. Seam /\ BuffersOK
  BY <1>1, <1>3 DEF Seam, BuffersOK, Mergeable
<1> QED
  BY <1>1, <1>5, <1>6, <1>7, <1>8, <1>9 DEF Sound, List

LEMMA HeapStep == HeapInv /\ [Next]_vars => HeapInv'
<1> SUFFICES ASSUME HeapInv, [Next]_vars
             PROVE  HeapInv'
  OBVIOUS
<1>1. CASE UNCHANGED vars
  BY <1>1 DEF HeapInv, vars, Sound, List, TypeOK, Blocks, Tiled, Listed, Covers,
     End, Solo, Callers, Fits, Need, Passed, Seam, Mergeable, BuffersOK
<1>2. CASE OtherPage
  BY <1>2, SoundOtherPage DEF HeapInv, OtherPage
<1>3. ASSUME NEW t \in Threads, Call(t)
      PROVE  HeapInv'
  <2>1. ~ overlap /\ Sound
    BY <1>3 DEF Call, HeapInv
  <2>2. CASE \E bytes \in Requests : Malloc(t, bytes)
    BY <2>1, <2>2, SoundMalloc DEF HeapInv, Malloc, Begin
  <2>3. CASE \E b \in buffers : Free(t, b)
    BY <2>1, <2>3, SoundFree DEF HeapInv, Free, Begin
  <2> QED
    BY <1>3, <2>2, <2>3 DEF Call
<1>4. ASSUME NEW t \in Threads, Step(t)
      PROVE  HeapInv'
  <2>1. overlap' = overlap
    BY <1>4 DEF Step, Find, Pass, Split, Take, GrowLast, GrowNew, NewPage, Fail,
       Merge, Onward, Done
  <2> SUFFICES ASSUME Sound
               PROVE  Sound'
    BY <2>1 DEF HeapInv
  <2> QED
    BY <1>4, SoundFind, SoundPass, SoundSplit, SoundTake, SoundGrowLast,
       SoundGrowNew, SoundReturn, SoundMerge, SoundOnward DEF Step
<1> QED
  BY <1>1, <1>2, <1>3, <1>4 DEF Next, Beyond

LEMMA HeapInvariant == Spec => []HeapInv
BY HeapInit, HeapStep, PTL DEF Spec

\* While no two calls overlap, the list of blocks is a tiling of the pages of
\* the heap in address order: kmalloc's split, its two ways to grow and kfree's
\* merge lose no word and put none into two blocks.
THEOREM HeapTiledCorrect == Spec => []HeapTiled
<1>1. HeapInv => HeapTiled
  BY DEF HeapInv, HeapTiled, Sound, List
<1> QED
  BY <1>1, HeapInvariant, PTL

\* While no two calls overlap, every buffer kmalloc handed out is the body of a
\* block of its own that is large enough, and no block in use is forgotten.
THEOREM BuffersCorrect == Spec => []BuffersOwnBlocks
<1>1. HeapInv => BuffersOwnBlocks
  BY DEF HeapInv, BuffersOwnBlocks, Sound, BuffersOK
<1> QED
  BY <1>1, HeapInvariant, PTL

\* While no two calls overlap, the one pass of kfree leaves no two free
\* neighbours when it returns.
THEOREM CoalescedCorrect == Spec => []Coalesced
<1>1. HeapInv => Coalesced
  BY DEF HeapInv, Coalesced, Sound, Seam
<1> QED
  BY <1>1, HeapInvariant, PTL

\* While no two calls overlap, kmalloc takes a page only if no block of the whole
\* list could meet the request.
THEOREM GrowthCorrect == Spec => GrowsOnlyWhenFull
<1>1. HeapInv /\ [Next]_vars =>
        [owned' # owned /\ ~ overlap =>
            \E t \in Threads : \A h \in heads : ~ Fits(h, Need(t))]_vars
  <2> SUFFICES ASSUME Sound, Next, owned' # owned
               PROVE  \E t \in Threads : \A h \in heads : ~ Fits(h, Need(t))
    BY DEF HeapInv, vars
  <2>1. PICK t \in Threads : NewPage(t)
    BY DEF Next, OtherPage, Beyond, vars, Call, Malloc, Free, Step, Find, Pass,
       Split, Take, GrowLast, GrowNew, Fail, Merge, Onward, Done
  <2>2. /\ op[t] = "look" /\ ~ Fits(curr[t], Need(t)) /\ next[curr[t]] = Null
        /\ curr[t] \in heads
    BY <2>1 DEF NewPage, NothingFits, Sound, Callers
  <2>3. \A h \in heads : h \in Nat /\ curr[t] \in Nat /\ h <= curr[t]
    BY <2>2, ListFacts DEF Sound
  <2>4. \A h \in heads : h = curr[t] \/ h < curr[t]
    BY <2>3
  <2> QED
    BY <2>2, <2>4 DEF Sound, Passed
<1> QED
  BY <1>1, HeapInvariant, PTL DEF Spec, GrowsOnlyWhenFull

-----------------------------------------------------------------------------
(* After an overlap, up to Damaged, nothing of the list can be counted on   *)
(* but this: no header says that its block ends beyond memory, and what is  *)
(* no header is not free, so no walk merges with it.                        *)

Bounded ==
    /\ \A h \in heads : End(h) <= Limit
    /\ \A a \in Addr : free[a] => a \in heads
    /\ \A t \in Threads :
         /\ op[t] \in {"look", "split", "take"} => req[t] \in Requests
         /\ op[t] = "split" => curr[t] + Header + Need(t) < Limit
         /\ op[t] = "take" => curr[t] + Header < Limit

RangeInv == TypeOK /\ Bounded

\* A step of a thread that stands on a header with a size.
Undamaged(t) == curr[t] \in heads /\ \A h \in heads : size[h] >= 0

LEMMA RangeFacts ==
    ASSUME RangeInv
    PROVE  /\ heads \subseteq Addr /\ size \in [Addr -> Int] /\ Addr \subseteq Nat
           /\ next \in [Addr -> Addr \cup {Null}] /\ free \in [Addr -> BOOLEAN]
           /\ Header \in Nat \ {0} /\ page \in Nat /\ page <= Limit /\ Limit \in Nat
           /\ PageSize \in Nat /\ PageSize > Header
           /\ \A h \in Addr : End(h) \in Int
           /\ \A t \in Threads : curr[t] \in Addr
           /\ \A t \in Threads : op[t] \in {"look", "split", "take"} =>
                req[t] \in Requests /\ Need(t) \in Nat /\ Need(t) >= 1
<1>1. /\ heads \subseteq Addr /\ size \in [Addr -> Int] /\ Addr \subseteq Nat
      /\ next \in [Addr -> Addr \cup {Null}] /\ free \in [Addr -> BOOLEAN]
      /\ Header \in Nat \ {0} /\ page \in Nat /\ page <= Limit /\ Limit \in Nat
      /\ PageSize \in Nat /\ PageSize > Header
      /\ \A t \in Threads : curr[t] \in Addr
  BY HeapConstants DEF RangeInv, TypeOK, Addr
<1>2. \A h \in Addr : End(h) \in Int
  BY <1>1 DEF End
<1>3. \A t \in Threads : op[t] \in {"look", "split", "take"} => req[t] \in Requests
  BY DEF RangeInv, Bounded
<1>4. \A t \in Threads : op[t] \in {"look", "split", "take"} =>
        Need(t) \in Nat /\ Need(t) >= 1
  BY <1>3, WordsPositive, HeapConstants DEF Need
<1> QED
  BY <1>1, <1>2, <1>3, <1>4

LEMMA RangeFind ==
    ASSUME RangeInv, NEW t \in Threads, Undamaged(t), Find(t)
    PROVE  RangeInv'
<1>1. /\ op[t] = "look" /\ Fits(curr[t], Need(t))
      /\ op' = [op EXCEPT ![t] = IF size[curr[t]] >= Need(t) + Header + 1
                                 THEN "split" ELSE "take"]
      /\ UNCHANGED <<size, free, next, page, curr, req, buffers, heads, owned, overlap>>
  BY DEF Find
<1>2. TypeOK'
  BY <1>1 DEF RangeInv, TypeOK, Ops
<1>3. curr[t] + Header + size[curr[t]] <= Limit
  BY DEF RangeInv, Bounded, Undamaged, End
<1>4. size[curr[t]] >= Need(t) /\ size[curr[t]] \in Int /\ curr[t] \in Nat
  BY <1>1, RangeFacts DEF Fits
<1>5. Need(t) \in Nat /\ Need(t) >= 1 /\ req[t] \in Requests
  BY <1>1, RangeFacts
<1>6. op'[t] = "split" => curr[t] + Header + Need(t) < Limit
  BY <1>1, <1>3, <1>4, <1>5, RangeFacts DEF RangeInv, TypeOK
<1>7. curr[t] + Header < Limit
  BY <1>3, <1>4, <1>5, RangeFacts
<1>8. \A u \in Threads : op'[u] # op[u] => u = t
  BY <1>1 DEF RangeInv, TypeOK
<1>9. \A u \in Threads : Need(u)' = Need(u)
  BY <1>1 DEF Need
<1> QED
  BY <1>1, <1>2, <1>5, <1>6, <1>7, <1>8, <1>9 DEF RangeInv, Bounded, End

LEMMA RangeSplit ==
    ASSUME RangeInv, NEW t \in Threads, Undamaged(t), Split(t)
    PROVE  RangeInv'
<1> PICK h : h = curr[t]
  OBVIOUS
<1> PICK rest : rest = h + Header + Need(t)
  OBVIOUS
<1>1. /\ op[t] = "split"
      /\ size' = [size EXCEPT ![rest] = size[h] - Need(t) - Header, ![h] = Need(t)]
      /\ free' = [free EXCEPT ![rest] = TRUE]
      /\ next' = [next EXCEPT ![rest] = next[h], ![h] = rest]
      /\ heads' = heads \cup {rest}
      /\ op' = [op EXCEPT ![t] = "take"]
      /\ UNCHANGED <<page, curr, req, buffers, owned, overlap>>
  BY DEF Split
<1>2. /\ Need(t) \in Nat /\ Need(t) >= 1 /\ h \in Nat /\ h \in Addr /\ h \in heads
      /\ rest < Limit /\ req[t] \in Requests
  BY <1>1, RangeFacts DEF RangeInv, Bounded, Undamaged
<1>3. rest \in Addr /\ rest # h /\ h + Header < Limit
  <2>1. Header \in Nat /\ Header >= 1 /\ Limit \in Nat
    BY HeapConstants
  <2> QED
    BY <1>2, <2>1 DEF Addr
<1>4. TypeOK'
  <2>1. size' \in [Addr -> Int] /\ free' \in [Addr -> BOOLEAN]
    BY <1>1, <1>2, <1>3, RangeFacts
  <2>2. next' \in [Addr -> Addr \cup {Null}] /\ op' \in [Threads -> Ops]
    BY <1>1, <1>2, <1>3, RangeFacts DEF RangeInv, TypeOK, Ops
  <2> QED
    BY <1>1, <1>3, <2>1, <2>2 DEF RangeInv, TypeOK
<1>5. \A g \in heads' : End(g)' <= Limit
  <2>1. size'[h] = Need(t) /\ size'[rest] = size[h] - Need(t) - Header
    BY <1>1, <1>2, <1>3, RangeFacts
  <2>2. End(h)' = rest /\ End(rest)' = End(h)
    BY <1>2, <1>3, <2>1, RangeFacts DEF End
  <2>3. \A g \in heads : g # h /\ g # rest => End(g)' = End(g)
    BY <1>1, RangeFacts DEF End
  <2> QED
    BY <1>1, <1>2, <1>3, <2>2, <2>3, RangeFacts DEF RangeInv, Bounded
<1>6. \A a \in Addr : free'[a] => a \in heads'
  BY <1>1, <1>3, RangeFacts DEF RangeInv, Bounded
<1>7. \A u \in Threads : Need(u)' = Need(u) /\ (op'[u] # op[u] => u = t)
  BY <1>1 DEF Need, RangeInv, TypeOK
<1> QED
  BY <1>1, <1>2, <1>3, <1>4, <1>5, <1>6, <1>7 DEF RangeInv, Bounded

LEMMA RangeGrow ==
    ASSUME RangeInv, NEW t \in Threads, Undamaged(t), GrowLast(t) \/ GrowNew(t)
    PROVE  RangeInv'
<1> PICK h : h = curr[t]
  OBVIOUS
<1> PICK p : p = page
  OBVIOUS
<1>1. /\ op[t] = "look" /\ page + PageSize <= Limit
      /\ page' = page + PageSize
      /\ owned' = owned \cup page .. page + PageSize - 1
      /\ curr' = [curr EXCEPT ![t] = 0]
      /\ UNCHANGED <<op, req, buffers, overlap>>
  BY DEF GrowLast, GrowNew, NewPage, NothingFits
<1>2. h \in Addr /\ h \in heads /\ page \in Addr /\ 0 \in Addr
  BY <1>1, RangeFacts, HeapConstants DEF Undamaged, Addr
<1>3. /\ page' \in FirstSize .. Limit /\ owned' \subseteq Addr
      /\ curr' \in [Threads -> Addr]
  <2>1. page \in FirstSize .. Limit /\ PageSize \in Nat /\ FirstSize \in Nat /\ Limit \in Nat
    BY HeapConstants DEF RangeInv, TypeOK
  <2>2. page' \in FirstSize .. Limit /\ page .. page + PageSize - 1 \subseteq Addr
    BY <1>1, <2>1 DEF Addr
  <2>3. owned \subseteq Addr /\ curr \in [Threads -> Addr]
    BY DEF RangeInv, TypeOK
  <2> QED
    BY <1>1, <1>2, <2>2, <2>3
<1>4. \A u \in Threads : Need(u)' = Need(u) /\ (curr'[u] # curr[u] => u = t)
  BY <1>1 DEF Need, RangeInv, TypeOK
<1>5. CASE GrowLast(t)
  <2>1. /\ End(h) = page /\ size' = [size EXCEPT ![h] = @ + PageSize]
        /\ UNCHANGED <<free, next, heads>>
    BY <1>5 DEF GrowLast
  <2>2. TypeOK'
    BY <1>1, <1>2, <1>3, <2>1, RangeFacts DEF RangeInv, TypeOK
  <2>3. End(h)' = page + PageSize
    BY <1>2, <2>1, RangeFacts DEF End
  <2>4. \A g \in heads : g # h => End(g)' = End(g)
    BY <2>1, RangeFacts DEF End
  <2>5. \A g \in heads' : End(g)' <= Limit
    BY <1>1, <2>1, <2>3, <2>4 DEF RangeInv, Bounded
  <2> QED
    BY <1>1, <1>4, <2>1, <2>2, <2>5 DEF RangeInv, Bounded
<1>6. CASE GrowNew(t)
  <2>1. /\ size' = [size EXCEPT ![page] = PageSize - Header]
        /\ free' = [free EXCEPT ![page] = TRUE]
        /\ next' = [next EXCEPT ![page] = Null, ![h] = page]
        /\ heads' = heads \cup {page}
    BY <1>6 DEF GrowNew
  <2>2. /\ size' \in [Addr -> Int] /\ free' \in [Addr -> BOOLEAN]
        /\ next' \in [Addr -> Addr \cup {Null}]
    BY <1>2, <2>1, RangeFacts
  <2>3. TypeOK'
    BY <1>1, <1>2, <1>3, <2>1, <2>2 DEF RangeInv, TypeOK
  <2>4. End(p)' = page + PageSize
    BY <1>1, <1>2, <2>1, RangeFacts DEF End
  <2>5. \A g \in heads : g # p => End(g)' = End(g)
    BY <2>1, RangeFacts DEF End
  <2>6. \A g \in heads' : End(g)' <= Limit
    <3>1. \A g \in heads : End(g) <= Limit
      BY DEF RangeInv, Bounded
    <3> SUFFICES ASSUME NEW g \in heads' PROVE End(g)' <= Limit
      OBVIOUS
    <3>2. CASE g = p
      <4>1. End(g)' = End(p)'
        BY <3>2 DEF End
      <4> QED
        BY <1>1, <2>4, <4>1
    <3>3. CASE g # p
      BY <2>1, <2>5, <3>1, <3>3
    <3> QED
      BY <3>2, <3>3
  <2>7. \A a \in Addr : free'[a] => a \in heads'
    BY <1>2, <2>1, RangeFacts DEF RangeInv, Bounded
  <2> QED
    BY <1>1, <1>4, <2>3, <2>6, <2>7 DEF RangeInv, Bounded
<1> QED
  BY <1>5, <1>6

LEMMA RangeMerge ==
    ASSUME RangeInv, NEW t \in Threads, Undamaged(t), Merge(t)
    PROVE  RangeInv'
<1> PICK h : h = curr[t]
  OBVIOUS
<1> PICK gone : gone = next[h]
  OBVIOUS
<1>1. /\ op[t] = "coalesce" /\ Mergeable(h)
      /\ size' = [size EXCEPT ![h] = @ + Header + size[gone], ![gone] = 0]
      /\ next' = [next EXCEPT ![h] = next[gone], ![gone] = Null]
      /\ free' = [free EXCEPT ![gone] = FALSE]
      /\ heads' = heads \ {gone}
      /\ UNCHANGED <<page, op, curr, req, buffers, owned, overlap>>
  BY DEF Merge
<1>2. h \in heads /\ h \in Addr /\ gone \in Addr /\ free[gone] /\ End(h) = gone
  BY <1>1, RangeFacts DEF Mergeable, Undamaged
<1>3. gone \in heads /\ size[h] >= 0
  BY <1>2 DEF RangeInv, Bounded, Undamaged
<1>4. gone # h
  BY <1>2, <1>3, RangeFacts DEF End
<1>5. TypeOK'
  <2>1. /\ size' \in [Addr -> Int] /\ free' \in [Addr -> BOOLEAN]
        /\ next' \in [Addr -> Addr \cup {Null}]
    BY <1>1, <1>2, RangeFacts
  <2> QED
    BY <1>1, <2>1 DEF RangeInv, TypeOK
<1>6. \A g \in heads' : End(g)' <= Limit
  <2>1. size'[h] = size[h] + Header + size[gone]
    BY <1>1, <1>2, <1>4, RangeFacts
  <2>2. End(h)' = End(gone)
    BY <1>2, <2>1, RangeFacts DEF End
  <2>3. \A g \in heads' : g # h => End(g)' = End(g)
    BY <1>1, RangeFacts DEF End
  <2> QED
    BY <1>1, <1>3, <2>2, <2>3 DEF RangeInv, Bounded
<1>7. \A a \in Addr : free'[a] => a \in heads'
  BY <1>1, <1>2, RangeFacts DEF RangeInv, Bounded
<1>8. \A u \in Threads : Need(u)' = Need(u)
  BY <1>1 DEF Need
<1> QED
  BY <1>1, <1>5, <1>6, <1>7, <1>8 DEF RangeInv, Bounded

\* The other steps of a thread move it along the list, or end its call.
LEMMA RangeMove ==
    ASSUME RangeInv, NEW t \in Threads, Undamaged(t),
           Pass(t) \/ Take(t) \/ Fail(t) \/ Onward(t) \/ Done(t)
    PROVE  RangeInv'
<1>1. CASE Pass(t) \/ Onward(t)
  <2>1. /\ op[t] # "split" /\ op[t] # "take" /\ next[curr[t]] # Null
        /\ curr' = [curr EXCEPT ![t] = next[@]]
        /\ UNCHANGED <<size, free, next, page, op, req, buffers, heads, owned, overlap>>
    BY <1>1 DEF Pass, Onward
  <2>2. next[curr[t]] \in Addr
    BY <2>1, RangeFacts
  <2>3. TypeOK'
    BY <2>1, <2>2 DEF RangeInv, TypeOK
  <2>4. \A u \in Threads : Need(u)' = Need(u) /\ (curr'[u] # curr[u] => u = t)
    BY <2>1 DEF Need, RangeInv, TypeOK
  <2> QED
    BY <2>1, <2>3, <2>4 DEF RangeInv, Bounded, End
<1>2. CASE Fail(t) \/ Done(t)
  <2>1. /\ Return(t)
        /\ UNCHANGED <<size, free, next, page, buffers, heads, owned, overlap>>
    BY <1>2 DEF Fail, Done
  <2>2. 0 \in Addr
    BY HeapConstants DEF Addr
  <2>3. TypeOK'
    BY <2>1, <2>2 DEF RangeInv, TypeOK, Return, Ops
  <2>4. \A u \in Threads : /\ op'[u] # "idle" => u # t
                           /\ u # t => /\ op'[u] = op[u] /\ Need(u)' = Need(u)
                                       /\ curr'[u] = curr[u] /\ req'[u] = req[u]
    BY <2>1 DEF Return, Need, RangeInv, TypeOK
  <2> QED
    BY <2>1, <2>3, <2>4 DEF RangeInv, Bounded, End
<1>3. CASE Take(t)
  <2>1. /\ op[t] = "take" /\ free' = [free EXCEPT ![curr[t]] = FALSE]
        /\ buffers' = buffers \cup {<<t, curr[t] + Header, req[t]>>}
        /\ Return(t)
        /\ UNCHANGED <<size, next, page, heads, owned, overlap>>
    BY <1>3 DEF Take
  <2>2. 0 \in Addr /\ curr[t] + Header \in Addr /\ req[t] \in Requests
    <3>1. curr[t] + Header < Limit /\ req[t] \in Requests
      BY <2>1 DEF RangeInv, Bounded
    <3>2. curr[t] \in Addr /\ Header \in Nat /\ Limit \in Nat
      BY RangeFacts
    <3> QED
      BY <3>1, <3>2 DEF Addr
  <2>3. TypeOK'
    BY <2>1, <2>2 DEF RangeInv, TypeOK, Return, Ops
  <2>4. \A u \in Threads : /\ op'[u] # "idle" => u # t
                           /\ u # t => /\ op'[u] = op[u] /\ Need(u)' = Need(u)
                                       /\ curr'[u] = curr[u] /\ req'[u] = req[u]
    BY <2>1 DEF Return, Need, RangeInv, TypeOK
  <2>5. \A a \in Addr : free'[a] => a \in heads
    BY <2>1, RangeFacts DEF RangeInv, Bounded
  <2> QED
    BY <2>1, <2>3, <2>4, <2>5 DEF RangeInv, Bounded, End
<1> QED
  BY <1>1, <1>2, <1>3

\* A call begins only at a heap that no two calls have entered at once.
LEMMA RangeCall ==
    ASSUME HeapInv, RangeInv, NEW t \in Threads, Call(t)
    PROVE  RangeInv'
<1>1. ~ overlap /\ Sound
  BY DEF Call, HeapInv
<1>2. 0 \in Addr
  BY HeapConstants DEF Addr
<1>3. ASSUME NEW bytes \in Requests, Malloc(t, bytes)
      PROVE  RangeInv'
  <2>1. /\ op' = [op EXCEPT ![t] = "look"] /\ curr' = [curr EXCEPT ![t] = 0]
        /\ req' = [req EXCEPT ![t] = bytes] /\ Begin(t)
        /\ UNCHANGED <<size, free, next, page, buffers, heads, owned>>
    BY <1>3 DEF Malloc
  <2>2. TypeOK'
    BY <1>1, <1>2, <2>1 DEF RangeInv, TypeOK, Ops, Begin
  <2>3. /\ op'[t] = "look" /\ req'[t] = bytes
        /\ \A u \in Threads : u # t => /\ op'[u] = op[u] /\ Need(u)' = Need(u)
                                       /\ curr'[u] = curr[u] /\ req'[u] = req[u]
    BY <2>1 DEF Need, RangeInv, TypeOK
  <2> QED
    BY <2>1, <2>2, <2>3 DEF RangeInv, Bounded, End
<1>4. ASSUME NEW b \in buffers, Free(t, b)
      PROVE  RangeInv'
  <2>1. /\ free' = [free EXCEPT ![b[2] - Header] = TRUE]
        /\ buffers' = buffers \ {b}
        /\ op' = [op EXCEPT ![t] = "coalesce"] /\ curr' = [curr EXCEPT ![t] = 0]
        /\ Begin(t)
        /\ UNCHANGED <<size, next, page, req, heads, owned>>
    BY <1>4 DEF Free
  <2>2. b[2] - Header \in heads
    BY <1>1, <1>4 DEF Sound, BuffersOK
  <2>3. TypeOK'
    BY <1>1, <1>2, <2>1 DEF RangeInv, TypeOK, Ops, Begin
  <2>4. /\ op'[t] = "coalesce"
        /\ \A u \in Threads : u # t => /\ op'[u] = op[u] /\ Need(u)' = Need(u)
                                       /\ curr'[u] = curr[u] /\ req'[u] = req[u]
    BY <2>1 DEF Need, RangeInv, TypeOK
  <2>5. \A a \in Addr : free'[a] => a \in heads
    BY <2>1, <2>2, RangeFacts DEF RangeInv, Bounded
  <2> QED
    BY <2>1, <2>3, <2>4, <2>5 DEF RangeInv, Bounded, End
<1> QED
  BY <1>3, <1>4 DEF Call

LEMMA RangeStep == HeapInv /\ RangeInv /\ [Next]_vars => RangeInv'
<1> SUFFICES ASSUME HeapInv, RangeInv, [Next]_vars
             PROVE  RangeInv'
  OBVIOUS
<1>1. CASE UNCHANGED vars
  BY <1>1 DEF vars, RangeInv, TypeOK, Bounded, End, Need
<1>2. CASE OtherPage
  <2>1. page' \in FirstSize .. Limit
    BY <1>2, RangeFacts, HeapConstants DEF OtherPage, RangeInv, TypeOK
  <2>2. UNCHANGED <<size, free, next, op, curr, req, buffers, heads, owned, overlap>>
    BY <1>2 DEF OtherPage
  <2> QED
    BY <2>1, <2>2 DEF RangeInv, TypeOK, Bounded, End, Need
<1>3. ASSUME NEW t \in Threads, Call(t)
      PROVE  RangeInv'
  BY <1>3, RangeCall
<1>4. ASSUME NEW t \in Threads, Step(t)
      PROVE  RangeInv'
  <2>1. op[t] # "idle"
    BY <1>4 DEF Step, Find, Pass, Split, Take, GrowLast, GrowNew, NewPage,
       NothingFits, Fail, Merge, Onward, Done
  <2>2. Undamaged(t)
    <3>1. ~ Damaged
      BY <1>4 DEF Step
    <3>2. \A h \in heads : ~ (size[h] < 0) /\ size[h] \in Int
      BY <3>1, RangeFacts DEF Damaged
    <3> QED
      BY <2>1, <3>1, <3>2 DEF Damaged, Undamaged
  <2> QED
    BY <1>4, <2>2, RangeFind, RangeSplit, RangeGrow, RangeMerge, RangeMove DEF Step
<1> QED
  BY <1>1, <1>2, <1>3, <1>4 DEF Next, Beyond

LEMMA RangeInit == Init => RangeInv
<1> SUFFICES ASSUME Init
             PROVE  RangeInv
  OBVIOUS
<1>1. TypeOK
  BY HeapInit DEF HeapInv, Sound, List, Init
<1>2. End(0) = FirstSize /\ heads = {0}
  BY HeapConstants DEF Init, End, Addr
<1>3. Bounded
  BY <1>2, HeapConstants DEF Init, Bounded
<1> QED
  BY <1>1, <1>3 DEF RangeInv

\* Whatever calls overlap, until one has damaged the heap: addresses in headers and
\* walks stay in memory, and every buffer handed out begins there.
THEOREM HeapTypeCorrect == Spec => []TypeOK
<1>1. RangeInv => TypeOK
  BY DEF RangeInv
<1>2. Spec => []RangeInv
  BY HeapInvariant, RangeInit, RangeStep, PTL DEF Spec
<1> QED
  BY <1>1, <1>2, PTL

=============================================================================
