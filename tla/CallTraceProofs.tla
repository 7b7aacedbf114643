-------------------------- MODULE CallTraceProofs --------------------------
(***************************************************************************)
(* Proofs about the recursive queries of CallTrace.                        *)
(***************************************************************************)
EXTENDS CallTrace, SequenceTheorems, WellFoundedInduction, TLAPS

(* What RowsArePaths says of one row, which starts at the root. *)
IsRow(path) ==
  /\ path \in Seq(Nodes) /\ path # <<>> /\ path[1] = root
  /\ HopsOf(path) <= maxDepth
  /\ \A i, j \in DOMAIN path : path[i] = path[j] => i = j
  /\ \A i \in 2 .. Len(path) : path[i] \in Neighbours(path[i - 1])

IInv ==
  /\ alike \in Likes /\ root \in Nodes
  /\ maxDepth \in Nat
  /\ \A path \in rows \union level : IsRow(path)

(* A row is extended by a neighbour that LIKE tells from all nodes on it: so *)
(* no node comes twice, and the limit is kept.                               *)
LEMMA ExtensionIsRow ==
  ASSUME IInv, NEW path \in level, NEW longer \in Extensions(path)
  PROVE  IsRow(longer)
<1>1. IsRow(path)
  BY DEF IInv
<1>2. PICK n \in Nodes : /\ longer = Append(path, n)
                         /\ n \in Neighbours(Last(path))
                         /\ BelowLimit(path) /\ Fresh(path, n)
  BY DEF Extensions, Neighbours
<1>3. /\ longer \in Seq(Nodes) /\ Len(longer) = Len(path) + 1
      /\ longer[Len(path) + 1] = n
      /\ \A i \in 1 .. Len(path) : longer[i] = path[i]
      /\ Len(path) \in Nat \ {0} /\ DOMAIN path = 1 .. Len(path)
      /\ DOMAIN longer = 1 .. Len(path) + 1
  BY <1>1, <1>2, EmptySeq DEF IsRow
<1>4. \A i \in 1 .. Len(path) : path[i] # n
  <2> SUFFICES ASSUME NEW i \in 1 .. Len(path), path[i] = n PROVE FALSE
    OBVIOUS
  <2>1. <<n, n>> \notin alike
    BY <1>2, <1>3 DEF Fresh
  <2> QED
    BY <2>1, LikeAssumption DEF IInv
<1>5. HopsOf(longer) <= maxDepth
  BY <1>2, <1>3 DEF BelowLimit, HopsOf, IInv
<1>6. \A i, j \in DOMAIN longer : longer[i] = longer[j] => i = j
  <2> SUFFICES ASSUME NEW i \in DOMAIN longer, NEW j \in DOMAIN longer, longer[i] = longer[j]
               PROVE  i = j
    OBVIOUS
  <2>1. CASE i \in 1 .. Len(path) /\ j \in 1 .. Len(path)
    BY <2>1, <1>1, <1>3 DEF IsRow
  <2>2. CASE i = Len(path) + 1 \/ j = Len(path) + 1
    BY <2>2, <1>3, <1>4
  <2> QED
    BY <2>1, <2>2, <1>3
<1>7. \A i \in 2 .. Len(longer) : longer[i] \in Neighbours(longer[i - 1])
  <2> SUFFICES ASSUME NEW i \in 2 .. Len(longer) PROVE longer[i] \in Neighbours(longer[i - 1])
    OBVIOUS
  <2>1. CASE i <= Len(path)
    BY <2>1, <1>1, <1>3 DEF IsRow
  <2>2. CASE i = Len(path) + 1
    <3>1. Last(path) = path[Len(path)] /\ longer[i - 1] = path[Len(path)]
      BY <2>2, <1>3 DEF Last
    <3> QED
      BY <3>1, <2>2, <1>2, <1>3
  <2> QED
    BY <2>1, <2>2, <1>3
<1>8. longer # <<>> /\ longer[1] = root
  <2>1. 1 \in 1 .. Len(path) /\ path[1] = root
    BY <1>1, <1>3 DEF IsRow
  <2>2. longer[1] = path[1]
    BY <1>3, <2>1
  <2> QED
    BY <1>3, <2>1, <2>2, EmptySeq
<1> QED
  BY <1>3, <1>5, <1>6, <1>7, <1>8 DEF IsRow

(* The invariant holds at the start and is kept by every level. *)
LEMMA InvHolds == Spec => []IInv
<1>1. ASSUME Init PROVE IInv
  <2>1. IsRow(<<root>>)
    <3>1. <<root>> \in Seq(Nodes) /\ Len(<<root>>) = 1 /\ <<root>> # <<>>
      BY <1>1 DEF Init
    <3>2. maxDepth \in Nat
      BY <1>1, DepthsAssumption DEF Init
    <3> QED
      BY <3>1, <3>2 DEF IsRow, HopsOf
  <2> QED
    BY <1>1, <2>1, DepthsAssumption DEF Init, IInv
<1>2. ASSUME IInv, [Next]_vars PROVE IInv'
  <2>1. CASE Next
    <3> USE <2>1 DEF Next, Expand
    <3>1. /\ alike' = alike /\ edges' = edges /\ upstream' = upstream
          /\ maxDepth' = maxDepth /\ root' = root
      OBVIOUS
    <3>2. \A path \in (rows \union level)' : IsRow(path)
      <4> SUFFICES ASSUME NEW path \in (rows \union level)' PROVE IsRow(path)
        OBVIOUS
      <4>1. CASE path \in rows \union level
        BY <4>1, <1>2 DEF IInv
      <4>2. CASE path \in UNION {Extensions(p) : p \in level}
        BY <4>2, <1>2, ExtensionIsRow
      <4> QED
        BY <4>1, <4>2
    <3>3. ASSUME NEW path \in (rows \union level)' PROVE IsRow(path)'
      <4>1. IsRow(path)
        BY <3>2
      <4>2. \A n : Neighbours(n)' = Neighbours(n)
        BY <3>1 DEF Neighbours
      <4> QED
        BY <3>1, <4>1, <4>2 DEF IsRow, HopsOf
    <3> QED
      BY <1>2, <3>1, <3>3 DEF IInv
  <2>2. CASE UNCHANGED vars
    BY <1>2, <2>2 DEF vars, IInv, IsRow, HopsOf, Neighbours
  <2> QED
    BY <1>2, <2>1, <2>2
<1> QED
  BY <1>1, <1>2, PTL DEF Spec

(* Whatever LIKE takes for equal, on every graph and for every limit, no row *)
(* of the queries is beyond the limit, none runs in a circle, and every row  *)
(* is a path (db.go:161-162).                                                *)
THEOREM RowsCorrect == Spec => []RowsArePaths
<1>1. IInv => RowsArePaths
  BY DEF IInv, IsRow, RowsArePaths
<1> QED
  BY <1>1, InvHolds, PTL

(***************************************************************************)
(* Nothing is lost.  Where no two ids are alike, every simple path within  *)
(* the limit is a row, or a part of it from the root is being expanded; at *)
(* the end it is a row.  And a shortest walk to a node is a simple path.   *)
(***************************************************************************)
Covered ==
  LikeIsEquality => \A path : IsRow(path) => \/ path \in rows
                                             \/ \E k \in 1 .. Len(path) : SubSeq(path, 1, k) \in level

LEMMA PrefixFacts ==
  ASSUME NEW path \in Seq(Nodes), NEW k \in 1 .. Len(path)
  PROVE  /\ SubSeq(path, 1, k) \in Seq(Nodes) /\ Len(SubSeq(path, 1, k)) = k
         /\ \A i \in 1 .. k : SubSeq(path, 1, k)[i] = path[i]
         /\ k < Len(path) => SubSeq(path, 1, k + 1) = Append(SubSeq(path, 1, k), path[k + 1])
         /\ SubSeq(path, 1, Len(path)) = path
<1>1. Len(path) \in Nat /\ \A i \in 1 .. Len(path) : path[i] \in Nodes
  OBVIOUS
<1>2. /\ SubSeq(path, 1, k) \in Seq(Nodes) /\ Len(SubSeq(path, 1, k)) = k
      /\ \A i \in 1 .. k : SubSeq(path, 1, k)[i] = path[i]
  BY <1>1
<1>3. ASSUME k < Len(path)
      PROVE  SubSeq(path, 1, k + 1) = Append(SubSeq(path, 1, k), path[k + 1])
  BY <1>1, <1>2, <1>3
<1>4. SubSeq(path, 1, Len(path)) = path
  BY <1>1
<1> QED
  BY <1>2, <1>3, <1>4

(* The part of a simple path that is being expanded grows by its next node: *)
(* the limit is not reached, and the node is none of those before it.       *)
LEMMA PrefixGrows ==
  ASSUME IInv, LikeIsEquality, NEW path, IsRow(path),
         NEW k \in 1 .. Len(path), SubSeq(path, 1, k) \in level, k < Len(path)
  PROVE  SubSeq(path, 1, k + 1) \in UNION {Extensions(p) : p \in level}
<1> DEFINE p == SubSeq(path, 1, k)
           n == path[k + 1]
<1>1. path \in Seq(Nodes) /\ Len(path) \in Nat /\ k \in Nat /\ k >= 1 /\ k + 1 \in 2 .. Len(path)
  BY DEF IsRow
<1>2. /\ p \in Seq(Nodes) /\ Len(p) = k /\ \A i \in 1 .. k : p[i] = path[i]
      /\ SubSeq(path, 1, k + 1) = Append(p, n)
  BY <1>1, PrefixFacts
<1> HIDE DEF p
<1>3. n \in Neighbours(Last(p))
  <2>1. Last(p) = path[(k + 1) - 1]
    BY <1>1, <1>2 DEF Last
  <2> QED
    BY <1>1, <2>1 DEF IsRow
<1>4. BelowLimit(p)
  BY <1>1, <1>2 DEF IsRow, BelowLimit, HopsOf, IInv
<1>5. Fresh(p, n)
  <2> SUFFICES ASSUME NEW i \in DOMAIN p, <<n, p[i]>> \in alike PROVE FALSE
    BY DEF Fresh
  <2>1. i \in 1 .. k /\ p[i] = path[i] /\ n = p[i]
    BY <1>2 DEF LikeIsEquality
  <2>2. i \in DOMAIN path /\ k + 1 \in DOMAIN path
    BY <1>1, <2>1
  <2> QED
    BY <1>1, <2>1, <2>2 DEF IsRow
<1>6. Append(p, n) \in Extensions(p)
  BY <1>3, <1>4, <1>5 DEF Extensions
<1>7. p \in level
  BY DEF p
<1> QED
  BY <1>2, <1>6, <1>7

LEMMA CoveredHolds == Spec => [](IInv /\ Covered)
<1>1. ASSUME Init PROVE Covered
  <2> SUFFICES ASSUME NEW path, IsRow(path)
               PROVE  \E k \in 1 .. Len(path) : SubSeq(path, 1, k) \in level
    BY DEF Covered
  <2>1. path \in Seq(Nodes) /\ Len(path) \in Nat /\ Len(path) >= 1 /\ path[1] = root
    BY EmptySeq DEF IsRow
  <2>2. SubSeq(path, 1, 1) = <<root>>
    <3> DEFINE first == SubSeq(path, 1, 1)
    <3>1. first \in Seq(Nodes) /\ Len(first) = 1 /\ first[1] = root
      BY <2>1, PrefixFacts
    <3>2. root \in Nodes
      BY <1>1 DEF Init
    <3>3. \A s \in Seq(Nodes) : Len(s) = 1 /\ s[1] = root => s = <<root>>
      BY <3>2
    <3> QED
      BY <3>1, <3>3
  <2> QED
    BY <1>1, <2>1, <2>2 DEF Init
<1>2. ASSUME IInv, Covered, [Next]_vars PROVE Covered'
  <2>1. CASE Next
    <3>1. /\ alike' = alike /\ edges' = edges /\ upstream' = upstream
          /\ maxDepth' = maxDepth /\ root' = root
          /\ rows' = rows \union level /\ level' = UNION {Extensions(path) : path \in level}
      BY <2>1 DEF Next, Expand
    <3>2. \A n : Neighbours(n)' = Neighbours(n)
      BY <3>1 DEF Neighbours
    <3>3. LikeIsEquality' = LikeIsEquality
      BY <3>1 DEF LikeIsEquality
    <3> SUFFICES ASSUME LikeIsEquality, NEW path, IsRow(path)'
                 PROVE  path \in rows' \/ \E k \in 1 .. Len(path) : SubSeq(path, 1, k) \in level'
      BY <3>3 DEF Covered
    <3>4. IsRow(path)
      BY <3>1, <3>2 DEF IsRow, HopsOf
    <3>5. CASE path \in rows
      BY <3>1, <3>5
    <3>6. ASSUME NEW k \in 1 .. Len(path), SubSeq(path, 1, k) \in level
          PROVE  path \in rows' \/ \E l \in 1 .. Len(path) : SubSeq(path, 1, l) \in level'
      <4>1. path \in Seq(Nodes) /\ Len(path) \in Nat
        BY <3>4 DEF IsRow
      <4>2. CASE k = Len(path)
        BY <3>1, <3>6, <4>1, <4>2, PrefixFacts
      <4>3. CASE k < Len(path)
        <5>1. SubSeq(path, 1, k + 1) \in level'
          BY <1>2, <3>1, <3>4, <3>6, <4>3, PrefixGrows
        <5> QED
          BY <4>1, <4>3, <5>1
      <4> QED
        BY <4>1, <4>2, <4>3
    <3> QED
      BY <1>2, <3>4, <3>5, <3>6 DEF Covered
  <2>2. CASE UNCHANGED vars
    BY <1>2, <2>2 DEF vars, Covered, LikeIsEquality, IsRow, HopsOf, Neighbours
  <2> QED
    BY <1>2, <2>1, <2>2
<1> QED
  BY <1>1, <1>2, InvHolds, PTL DEF Spec

LEMMA HasLeast == ASSUME NEW S, S \subseteq Nat, S # {} PROVE \E x \in S : \A y \in S : x <= y
<1> DEFINE R == OpToRel(<, Nat)
<1>1. IsWellFoundedOn(R, Nat)
  BY NatLessThanWellFounded
<1>2. \A x, y \in Nat : <<x, y>> \in R <=> x < y
  BY DEF OpToRel
<1> HIDE DEF R
<1>3. PICK x \in S : \A y \in S : <<y, x>> \notin R
  BY <1>1, WFMin
<1>4. ASSUME NEW y \in S PROVE x <= y
  <2>1. x \in Nat /\ y \in Nat /\ <<y, x>> \notin R
    BY <1>3
  <2>2. ~(y < x)
    BY <1>2, <2>1
  <2> QED
    BY <2>1, <2>2
<1> QED
  BY <1>3, <1>4

IsWalk(walk) ==
  /\ walk \in Seq(Nodes) /\ walk # <<>> /\ walk[1] = root
  /\ \A i \in 2 .. Len(walk) : walk[i] \in Neighbours(walk[i - 1])

LEMMA WalksAre ==
  ASSUME NEW d \in Nat, NEW walk
  PROVE  walk \in Walks(d) <=> IsWalk(walk) /\ HopsOf(walk) <= d
<1>1. walk \in SeqOf(Nodes, d + 1) <=> walk \in Seq(Nodes) /\ Len(walk) <= d + 1
  <2>1. ASSUME walk \in SeqOf(Nodes, d + 1) PROVE walk \in Seq(Nodes) /\ Len(walk) <= d + 1
    <3>1. PICK m \in 0 .. d + 1 : walk \in [1 .. m -> Nodes]
      BY <2>1 DEF SeqOf
    <3> QED
      BY <3>1
  <2>2. ASSUME walk \in Seq(Nodes), Len(walk) <= d + 1 PROVE walk \in SeqOf(Nodes, d + 1)
    <3>1. Len(walk) \in 0 .. d + 1 /\ walk \in [1 .. Len(walk) -> Nodes]
      BY <2>2
    <3> QED
      BY <3>1 DEF SeqOf
  <2> QED
    BY <2>1, <2>2
<1>2. walk \in Seq(Nodes) => (Len(walk) <= d + 1 <=> HopsOf(walk) <= d)
  BY DEF HopsOf
<1> QED
  BY <1>1, <1>2 DEF Walks, IsWalk

(* A walk that comes to a node twice has a shorter one to its end. *)
LEMMA Shortcut ==
  ASSUME NEW walk, IsWalk(walk), NEW i \in 1 .. Len(walk), NEW j \in 1 .. Len(walk),
         i < j, walk[i] = walk[j]
  PROVE  \E cut : IsWalk(cut) /\ Len(cut) < Len(walk) /\ Last(cut) = Last(walk)
<1> DEFINE less == Len(walk) - (j - i)
           cut == [x \in 1 .. less |-> IF x <= i THEN walk[x] ELSE walk[x + (j - i)]]
<1>1. /\ walk \in Seq(Nodes) /\ Len(walk) \in Nat /\ i \in Nat /\ j \in Nat /\ i >= 1
      /\ less \in Nat /\ less >= i /\ less < Len(walk) /\ j <= Len(walk)
  BY DEF IsWalk
<1>2. \A x \in 1 .. Len(walk) : walk[x] \in Nodes
  BY <1>1
<1>3. cut \in [1 .. less -> Nodes]
  <2> SUFFICES ASSUME NEW x \in 1 .. less
               PROVE  (IF x <= i THEN walk[x] ELSE walk[x + (j - i)]) \in Nodes
    OBVIOUS
  <2>1. CASE x <= i
    BY <1>1, <1>2, <2>1
  <2>2. CASE ~(x <= i)
    <3>1. x + (j - i) \in 1 .. Len(walk)
      BY <1>1, <2>2
    <3> QED
      BY <1>2, <2>2, <3>1
  <2> QED
    BY <2>1, <2>2
<1>4. cut \in Seq(Nodes) /\ Len(cut) = less /\ cut # <<>> /\ cut[1] = root
  <2>1. cut \in Seq(Nodes) /\ Len(cut) = less
    BY <1>1, <1>3
  <2>2. cut[1] = walk[1]
    BY <1>1
  <2> HIDE DEF cut
  <2> QED
    BY <1>1, <2>1, <2>2 DEF IsWalk
<1>5. ASSUME NEW x \in 2 .. less PROVE cut[x] \in Neighbours(cut[x - 1])
  <2>1. CASE x <= i
    <3>1. cut[x] = walk[x] /\ cut[x - 1] = walk[x - 1]
      BY <1>1, <2>1
    <3>2. x \in 2 .. Len(walk)
      BY <1>1
    <3> QED
      BY <3>1, <3>2 DEF IsWalk
  <2>2. CASE x > i
    <3>1. cut[x] = walk[x + (j - i)]
      BY <1>1, <2>2
    <3>2. cut[x - 1] = walk[(x + (j - i)) - 1]
      <4>1. CASE x - 1 = i
        <5>1. cut[x - 1] = walk[i] /\ (x + (j - i)) - 1 = j
          BY <1>1, <4>1
        <5> QED
          BY <5>1
      <4>2. CASE x - 1 > i
        <5>1. cut[x - 1] = walk[(x - 1) + (j - i)] /\ (x - 1) + (j - i) = (x + (j - i)) - 1
          BY <1>1, <4>2
        <5> QED
          BY <5>1
      <4> QED
        BY <1>1, <2>2, <4>1, <4>2
    <3>3. x + (j - i) \in 2 .. Len(walk)
      BY <1>1, <2>2
    <3> HIDE DEF cut
    <3> QED
      BY <3>1, <3>2, <3>3 DEF IsWalk
  <2> QED
    BY <1>1, <2>1, <2>2
<1>6. Last(cut) = Last(walk)
  <2>1. cut[less] = walk[Len(walk)]
    <3>1. CASE less = i
      <4>1. cut[less] = walk[i] /\ j = Len(walk)
        BY <1>1, <3>1
      <4> QED
        BY <4>1
    <3>2. CASE less > i
      <4>1. cut[less] = walk[less + (j - i)] /\ less + (j - i) = Len(walk)
        BY <1>1, <3>2
      <4> QED
        BY <4>1
    <3> QED
      BY <1>1, <3>1, <3>2
  <2> QED
    BY <1>4, <2>1 DEF Last
<1> HIDE DEF cut, less
<1> QED
  BY <1>1, <1>4, <1>5, <1>6 DEF IsWalk

(* So where a walk leads, a simple path leads that is not longer. *)
LEMMA ShortestIsSimple ==
  ASSUME NEW walk, IsWalk(walk)
  PROVE  \E path : /\ IsWalk(path) /\ Len(path) <= Len(walk) /\ Last(path) = Last(walk)
                   /\ \A i, j \in DOMAIN path : path[i] = path[j] => i = j
<1> DEFINE Ls == {l \in Nat : \E w : IsWalk(w) /\ Len(w) = l /\ Last(w) = Last(walk)}
<1>1. Len(walk) \in Ls
  BY DEF IsWalk
<1>2. PICK least \in Ls : \A l \in Ls : least <= l
  BY <1>1, HasLeast
<1>3. PICK path : IsWalk(path) /\ Len(path) = least /\ Last(path) = Last(walk)
  OBVIOUS
<1>4. Len(path) <= Len(walk)
  BY <1>1, <1>2, <1>3
<1>5. Len(path) \in Nat /\ DOMAIN path = 1 .. Len(path)
  BY <1>3 DEF IsWalk
<1>6. ASSUME NEW i \in 1 .. Len(path), NEW j \in 1 .. Len(path), i < j, path[i] = path[j]
      PROVE  FALSE
  <2>1. PICK cut : IsWalk(cut) /\ Len(cut) < Len(path) /\ Last(cut) = Last(path)
    BY <1>3, <1>6, Shortcut
  <2>2. Len(cut) \in Nat
    BY <2>1 DEF IsWalk
  <2>3. Len(cut) \in Ls
    BY <1>3, <2>1, <2>2
  <2> QED
    BY <1>2, <1>3, <1>5, <2>1, <2>2, <2>3
<1>7. \A i, j \in DOMAIN path : path[i] = path[j] => i = j
  <2> SUFFICES ASSUME NEW i \in DOMAIN path, NEW j \in DOMAIN path, path[i] = path[j], i # j
               PROVE  FALSE
    OBVIOUS
  <2>1. i < j \/ j < i
    BY <1>5
  <2> QED
    BY <1>5, <1>6, <2>1
<1> QED
  BY <1>3, <1>4, <1>7

(* What is found is in reach: a row is a walk. *)
LEMMA FoundIsReached == ASSUME IInv, NEW d \in Nat PROVE Found(d) \subseteq Reach(d)
<1> SUFFICES ASSUME NEW path \in rows, HopsOf(path) <= d PROVE Last(path) \in Reach(d)
  BY DEF Found
<1>1. IsWalk(path)
  BY DEF IInv, IsRow, IsWalk
<1> QED
  BY <1>1, WalksAre DEF Reach

(* What is in reach is found, when the query has ended. *)
LEMMA ReachedIsFound ==
  ASSUME IInv, Covered, Done, LikeIsEquality, NEW d \in 0 .. maxDepth
  PROVE  Reach(d) \subseteq Found(d)
<1> SUFFICES ASSUME NEW walk \in Walks(d) PROVE Last(walk) \in Found(d)
  BY DEF Reach
<1>1. IsWalk(walk) /\ HopsOf(walk) <= d /\ d \in Nat /\ maxDepth \in Nat
  BY WalksAre DEF IInv
<1>2. PICK path : /\ IsWalk(path) /\ Len(path) <= Len(walk) /\ Last(path) = Last(walk)
                  /\ \A i, j \in DOMAIN path : path[i] = path[j] => i = j
  BY <1>1, ShortestIsSimple
<1>3. HopsOf(path) <= d /\ HopsOf(path) <= maxDepth
  <2>1. Len(path) \in Nat /\ Len(walk) \in Nat
    BY <1>1, <1>2 DEF IsWalk
  <2> QED
    BY <1>1, <1>2, <2>1 DEF HopsOf
<1>4. IsRow(path)
  BY <1>2, <1>3 DEF IsRow, IsWalk
<1>5. path \in rows
  BY <1>4 DEF Covered, Done
<1> QED
  BY <1>2, <1>3, <1>5 DEF Found

(* On every graph and for every limit, a query that has ended has returned   *)
(* no node beyond its distance from the root, and every node within the      *)
(* limit at its distance where LIKE is equality (db.go:149-187).             *)
THEOREM FindsExactly == Spec => []FindsExactlyTheReachable
<1>1. IInv /\ Covered => FindsExactlyTheReachable
  <2> SUFFICES ASSUME IInv, Covered, Done, NEW d \in 0 .. maxDepth
               PROVE  Found(d) \subseteq Reach(d) /\ (LikeIsEquality => Found(d) = Reach(d))
    BY DEF FindsExactlyTheReachable
  <2>1. d \in Nat
    BY DEF IInv
  <2> QED
    BY <2>1, FoundIsReached, ReachedIsFound
<1> QED
  BY <1>1, CoveredHolds, PTL

(* The verdict on a flagged function: said to be reachable, it is reached   *)
(* from an entry point within the limit; and every such function is said to *)
(* be where LIKE is equality (indexer.go:144-168).                          *)
THEOREM VerdictSound == Spec => []VerdictIsSound
<1>1. IInv /\ Covered => VerdictIsSound
  <2> SUFFICES ASSUME IInv, Covered, Done, upstream
               PROVE  /\ Reachable => Reach(maxDepth) \intersect Entries # {}
                      /\ (Reach(maxDepth) \intersect Entries # {} /\ LikeIsEquality) => Reachable
    BY DEF VerdictIsSound
  <2>1. maxDepth \in Nat /\ maxDepth \in 0 .. maxDepth
    BY DEF IInv
  <2>2. ASSUME Reachable PROVE Reach(maxDepth) \intersect Entries # {}
    <3>1. PICK path \in rows : Last(path) \in Entries
      BY <2>2 DEF Reachable
    <3>2. HopsOf(path) <= maxDepth
      BY DEF IInv, IsRow
    <3>3. Last(path) \in Found(maxDepth)
      BY <3>2 DEF Found
    <3> QED
      BY <2>1, <3>1, <3>3, FoundIsReached
  <2>3. ASSUME LikeIsEquality, NEW n \in Reach(maxDepth), n \in Entries PROVE Reachable
    <3>1. n \in Found(maxDepth)
      BY <2>1, <2>3, ReachedIsFound
    <3> QED
      BY <2>3, <3>1 DEF Found, Reachable
  <2> QED
    BY <2>2, <2>3
<1> QED
  BY <1>1, CoveredHolds, PTL
=============================================================================
