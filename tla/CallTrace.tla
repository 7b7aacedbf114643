----------------------------- MODULE CallTrace -----------------------------
(***************************************************************************)
(* The recursive queries of src/cpg/db.go: GetCallers (upstream along      *)
(* CALLS edges) and TraceDataFlow (downstream along data edges), which     *)
(* differ only in their direction; and ReverseAuditTrace of                *)
(* src/scout/indexer.go, which judges by the callers whether a suspected   *)
(* bug can be reached.                                                     *)
(*                                                                         *)
(* A row of the query is the path to its node, from the root: its depth is *)
(* the number of hops, its path_trail the nodes on it.  SQLite's queue     *)
(* yields the rows level by level.  The cycle check is a LIKE on the       *)
(* trail: it also matches ids that differ in case, or where the pattern    *)
(* has a `_', so alike relates a pattern to the ids it matches.            *)
(***************************************************************************)
EXTENDS Naturals, Sequences, SequencesExt

CONSTANTS Nodes,     \* node ids
          Likes,     \* what LIKE may be: sets of pairs <<pattern, id>>
          Depths,    \* depth limits to consider
          Entries    \* nodes whose name is main or init or speaks of a handler or serving

ASSUME DepthsAssumption == Depths \subseteq Nat
ASSUME LikeAssumption == \A like \in Likes : \A n \in Nodes : <<n, n>> \in like

VARIABLES alike,     \* the pairs of ids for which LIKE holds
          edges,     \* the edges of the type the query follows
          upstream,  \* GetCallers, or TraceDataFlow
          maxDepth,
          root,
          level,     \* the rows of the level being expanded
          rows       \* the rows so far

vars == <<alike, edges, upstream, maxDepth, root, level, rows>>

Neighbours(n) == IF upstream THEN {m \in Nodes : <<m, n>> \in edges}
                             ELSE {m \in Nodes : <<n, m>> \in edges}

Init ==
  /\ alike \in Likes
  /\ edges \in SUBSET (Nodes \X Nodes)
  /\ upstream \in BOOLEAN
  /\ maxDepth \in Depths
  /\ root \in Nodes
  /\ level = {<<root>>}
  /\ rows = {}

HopsOf(path) == Len(path) - 1

(* Mutant: one hop short of the limit is too far. *)
OneHopShort(path) == HopsOf(path) + 1 < maxDepth

BelowLimit(path) == HopsOf(path) < maxDepth

(* Mutant: the check against the previous node only. *)
NotLast(path, n) == <<n, Last(path)>> \notin alike

Fresh(path, n) == \A i \in DOMAIN path : <<n, path[i]>> \notin alike

Extensions(path) ==
  {Append(path, n) : n \in {m \in Neighbours(Last(path)) : BelowLimit(path) /\ Fresh(path, m)}}

Expand ==
  /\ level # {}
  /\ rows' = rows \union level
  /\ level' = UNION {Extensions(path) : path \in level}
  /\ UNCHANGED <<alike, edges, upstream, maxDepth, root>>

Next == Expand

Spec == Init /\ [][Next]_vars

Done == level = {}

(* Mutant: the flagged function itself does not count. *)
CallersOnly == \E path \in rows : Len(path) > 1 /\ Last(path) \in Entries

(* The verdict of ReverseAuditTrace. *)
Reachable == \E path \in rows : Last(path) \in Entries

-----------------------------------------------------------------------------
(* Properties.  The reference: where the walks of at most d hops end,       *)
(* whatever nodes they pass, and however often.                             *)

Walks(d) ==
  {walk \in SeqOf(Nodes, d + 1) :
     /\ walk # <<>>
     /\ walk[1] = root
     /\ \A i \in 2 .. Len(walk) : walk[i] \in Neighbours(walk[i - 1])}

Reach(d) == {Last(walk) : walk \in Walks(d)}

Found(d) == {Last(path) : path \in {r \in rows : HopsOf(r) <= d}}

(* No two ids are taken for one another. *)
LikeIsEquality == \A pair \in alike : pair[1] = pair[2]

(* The query returns no node beyond its distance; and every node within the  *)
(* depth limit, at its distance from the root among others, where no two ids *)
(* are alike, for pruning cycles path by path loses no node                  *)
(* (db.go:149-187).                                                          *)
FindsExactlyTheReachable ==
  Done => \A d \in 0 .. maxDepth : /\ Found(d) \subseteq Reach(d)
                                   /\ LikeIsEquality => Found(d) = Reach(d)

(* A bug is said to be reachable only if an entry point does call it, in no  *)
(* more hops than the limit; and it is said so of every such bug where no    *)
(* two ids are alike (indexer.go:144-168, db.go:149-168).                    *)
VerdictIsSound ==
  (Done /\ upstream) => LET entered == Reach(maxDepth) \intersect Entries # {} IN
                          /\ Reachable => entered
                          /\ (entered /\ LikeIsEquality) => Reachable

(* Whatever LIKE takes for equal, no row is beyond the limit, none runs in a *)
(* circle, so the query ends, and every row is a path (db.go:161-162).       *)
RowsArePaths ==
  \A path \in rows \union level :
    /\ HopsOf(path) <= maxDepth
    /\ \A i, j \in DOMAIN path : path[i] = path[j] => i = j
    /\ \A i \in 2 .. Len(path) : path[i] \in Neighbours(path[i - 1])
=============================================================================
