------------------------- MODULE AuditIndexingProofs -------------------------
(***************************************************************************)
(* Proofs about the indexer's passes over the connection pool and the      *)
(* audit tasks that start them, for any workspaces, any number of passes   *)
(* and requests, over the connections the model gives the pool.            *)
(***************************************************************************)
EXTENDS AuditIndexing, SequenceTheorems, FiniteSetTheorems, TLAPS

(* Call k of declaration i, or its node if k is 0, is still to come in p. *)
Ahead(p, i, k) == at[p] # Idle /\ (at[p][1] < i \/ (at[p][1] = i /\ at[p][2] <= k))

(* What CalledLast says of the declaration i of a call e. *)
LastCall(e, i) ==
  /\ e[2] \in found.nodes \/ \E m \in 1 .. i : ws[m].id = e[2]
  /\ \A m \in i + 1 .. Len(ws) : ~Touches(e, ws[m].id)

CallOf(i, k) == <<ws[i].id, ws[i].calls[k]>>

Graphs == [nodes : SUBSET STRING, edges : SUBSET (STRING \X STRING)]

IndexerType ==
  /\ ws \in Seq([id : STRING, calls : Seq(STRING)]) /\ skipped \in BOOLEAN
  /\ graph \in Graphs /\ found \in Graphs
  /\ at \in [Passes -> Nat \X Nat] /\ runs \in [Passes -> Nat]
  /\ conn \in [Users -> Conns \union {None}] /\ open \in SUBSET Conns
  /\ lost \in SUBSET Passes /\ batch \in SUBSET Passes /\ keyless \in BOOLEAN

(* A walking pass is at a declaration of the workspace and at a call of it. *)
Places ==
  \A p \in Passes : at[p] # Idle =>
    /\ at[p][1] \in Decls /\ at[p][2] \in 0 .. Len(ws[at[p][1]].calls)
    /\ runs[p] > 0 /\ ~skipped

Pooled == \A p \in Passes : conn[p] # None => at[p] # Idle

(* What the passes at work have done to the graph they found. *)
Followed ==
  /\ \A p \in Passes : at[p] # Idle => p \in batch
  /\ found.nodes \subseteq graph.nodes /\ graph.nodes \subseteq found.nodes \union Declared
  /\ ~keyless => \A e \in graph.edges :
                   e \in found.edges \/ (e[1] \in graph.nodes /\ e[2] \in graph.nodes)

(* The nodes of a pass that lost nothing are there up to where it is. *)
NodesInv ==
  ~skipped =>
    \A p \in Passes, i \in Decls :
      runs[p] > 0 /\ p \notin lost /\ ~Ahead(p, i, 0) => ws[i].id \in graph.nodes

(* A last call is there unless some pass is still to insert it. *)
CallsInv ==
  Clean /\ ~skipped /\ batch # {} =>
    \A i \in Decls : \A k \in 1 .. Len(ws[i].calls) :
      LastCall(CallOf(i, k), i) =>
        CallOf(i, k) \in graph.edges \/ \E p \in Passes : Ahead(p, i, k)

(* An edge that the cascade of a declaration still to come takes away. *)
Doomed(e) ==
  \E p \in Passes, m \in Decls :
    Ahead(p, m, 0) /\ Touches(e, ws[m].id) /\ ws[m].id \in graph.nodes

(* Any other edge at a declaration is doomed. *)
EdgesInv ==
  Clean /\ ~skipped /\ batch # {} /\ ~keyless =>
    \A e \in graph.edges, d \in Declared :
      Touches(e, d) => (e \in Calls /\ CalledLast(e)) \/ FoundHanging(e) \/ Doomed(e)

IndexerInv ==
  IndexerType /\ Places /\ Pooled /\ Followed /\ NodesInv /\ CallsInv /\ EdgesInv

LEMMA AfterIs ==
  ASSUME NEW i, NEW j
  PROVE  \/ j < Len(ws[i].calls) /\ After(i, j) = <<i, j + 1>>
         \/ ~(j < Len(ws[i].calls)) /\ i < Len(ws) /\ After(i, j) = <<i + 1, 0>>
         \/ ~(j < Len(ws[i].calls)) /\ ~(i < Len(ws)) /\ After(i, j) = Idle
BY DEF After

LEMMA WorkspaceType ==
  ASSUME IndexerType
  PROVE  /\ Len(ws) \in Nat
         /\ \A i \in Decls : /\ ws[i].id \in STRING /\ ws[i].calls \in Seq(STRING)
                             /\ Len(ws[i].calls) \in Nat
                             /\ DOMAIN ws[i].calls = 1 .. Len(ws[i].calls)
                             /\ \A k \in 1 .. Len(ws[i].calls) : ws[i].calls[k] \in STRING
<1>1. ws \in Seq([id : STRING, calls : Seq(STRING)])
  BY DEF IndexerType
<1>2. Len(ws) \in Nat /\ \A i \in Decls : ws[i] \in [id : STRING, calls : Seq(STRING)]
  <2> DEFINE D == [id : STRING, calls : Seq(STRING)]
  <2>1. ws \in Seq(D)
    BY <1>1
  <2> HIDE DEF D
  <2>2. Len(ws) \in Nat /\ \A i \in 1 .. Len(ws) : ws[i] \in D
    BY <2>1
  <2> QED
    BY <2>2 DEF D, Decls
<1> QED
  BY <1>2

(* A finished statement is behind its pass, and nothing else moves. *)
LEMMA FinishMoves ==
  ASSUME IndexerType, Places, NEW p \in Passes, at[p] # Idle, Finish(p)
  PROVE  /\ Places'
         /\ \A q \in Passes, i \in Decls : \A k \in 0 .. Len(ws[i].calls) :
              Ahead(q, i, k)' <=> Ahead(q, i, k) /\ ~(q = p /\ at[p] = <<i, k>>)
         /\ at' \in [Passes -> Nat \X Nat]
         /\ Pooled => \A q \in Passes : conn'[q] # None => at'[q] # Idle
<1> DEFINE a == at[p][1]
           b == at[p][2]
<1>1. /\ a \in Decls /\ b \in 0 .. Len(ws[a].calls) /\ Len(ws) \in Nat /\ Len(ws[a].calls) \in Nat
      /\ a \in Nat /\ b \in Nat /\ at[p] = <<a, b>> /\ runs[p] > 0 /\ ~skipped
      /\ a <= Len(ws) /\ b <= Len(ws[a].calls)
  BY WorkspaceType DEF Places, IndexerType, Decls
<1>2. /\ at' = [at EXCEPT ![p] = After(a, b)]
      /\ ws' = ws /\ runs' = runs /\ skipped' = skipped /\ at \in [Passes -> Nat \X Nat]
  BY DEF Finish, IndexerType
<1>3. /\ at'[p] = After(a, b) /\ \A q \in Passes \ {p} : at'[q] = at[q]
  BY <1>2
<1> HIDE DEF a, b
<1>4. After(a, b) \in Nat \X Nat
  BY <1>1, AfterIs DEF Idle
<1>5. at' \in [Passes -> Nat \X Nat]
  BY <1>2, <1>4
<1>6. ASSUME at'[p] # Idle
      PROVE  at'[p][1] \in Decls /\ at'[p][2] \in 0 .. Len(ws[at'[p][1]].calls)
  <2>1. CASE b < Len(ws[a].calls) /\ After(a, b) = <<a, b + 1>>
    <3>1. at'[p][1] = a /\ at'[p][2] = b + 1
      BY <1>3, <2>1
    <3> QED
      BY <1>1, <2>1, <3>1
  <2>2. CASE a < Len(ws) /\ After(a, b) = <<a + 1, 0>>
    <3>1. at'[p][1] = a + 1 /\ at'[p][2] = 0 /\ a + 1 \in Decls
      BY <1>1, <1>3, <2>2 DEF Decls
    <3>2. Len(ws[a + 1].calls) \in Nat
      BY <3>1, WorkspaceType
    <3> QED
      BY <3>1, <3>2
  <2> QED
    BY <1>3, <1>6, <2>1, <2>2, AfterIs
<1>7. Places'
  <2> SUFFICES ASSUME NEW q \in Passes, at'[q] # Idle
               PROVE  /\ at'[q][1] \in Decls /\ at'[q][2] \in 0 .. Len(ws[at'[q][1]].calls)
                      /\ runs[q] > 0 /\ ~skipped
    BY <1>2 DEF Places, Decls
  <2>1. CASE q = p
    BY <1>1, <1>6, <2>1
  <2>2. CASE q # p
    BY <1>3, <2>2 DEF Places
  <2> QED
    BY <2>1, <2>2
<1>8. ASSUME NEW i \in Decls, NEW k \in 0 .. Len(ws[i].calls)
      PROVE  Ahead(p, i, k)' <=> Ahead(p, i, k) /\ at[p] # <<i, k>>
  <2>1. i \in Nat /\ k \in Nat /\ i <= Len(ws) /\ (i = a => k <= Len(ws[a].calls))
    BY <1>1, WorkspaceType DEF Decls
  <2>2. Ahead(p, i, k) /\ at[p] # <<i, k>> <=> a < i \/ (a = i /\ b < k)
    <3>1. Ahead(p, i, k) <=> a < i \/ (a = i /\ b <= k)
      BY DEF Ahead, a, b
    <3>2. at[p] = <<i, k>> <=> a = i /\ b = k
      BY <1>1
    <3> QED
      BY <1>1, <2>1, <3>1, <3>2
  <2>3. Ahead(p, i, k)' <=> at'[p] # Idle /\ (at'[p][1] < i \/ (at'[p][1] = i /\ at'[p][2] <= k))
    BY DEF Ahead, Idle
  <2>4. CASE b < Len(ws[a].calls) /\ After(a, b) = <<a, b + 1>>
    <3>1. at'[p][1] = a /\ at'[p][2] = b + 1 /\ at'[p] # Idle
      BY <1>1, <1>3, <2>4 DEF Idle, Decls
    <3> QED
      BY <1>1, <2>1, <2>2, <2>3, <3>1
  <2>5. CASE ~(b < Len(ws[a].calls)) /\ a < Len(ws) /\ After(a, b) = <<a + 1, 0>>
    <3>1. at'[p][1] = a + 1 /\ at'[p][2] = 0 /\ at'[p] # Idle
      BY <1>1, <1>3, <2>5 DEF Idle
    <3> QED
      BY <1>1, <2>1, <2>2, <2>3, <2>5, <3>1
  <2>6. CASE ~(b < Len(ws[a].calls)) /\ ~(a < Len(ws)) /\ After(a, b) = Idle
    <3>1. ~(a < i \/ (a = i /\ b < k))
      BY <1>1, <2>1, <2>6
    <3> QED
      BY <1>3, <2>2, <2>3, <2>6, <3>1
  <2> QED
    BY <2>4, <2>5, <2>6, AfterIs
<1>9. ASSUME NEW q \in Passes, q # p, NEW i, NEW k
      PROVE  Ahead(q, i, k)' <=> Ahead(q, i, k)
  BY <1>3, <1>9 DEF Ahead, Idle
<1>10. ASSUME Pooled, NEW q \in Passes, conn'[q] # None PROVE at'[q] # Idle
  <2>1. conn' = [conn EXCEPT ![p] = None] /\ conn \in [Users -> Conns \union {None}] /\ q \in Users
    BY DEF Finish, IndexerType, Users
  <2>2. q # p /\ conn[q] # None
    BY <1>10, <2>1
  <2> QED
    BY <1>3, <1>10, <2>2 DEF Pooled
<1> QED
  BY <1>5, <1>7, <1>8, <1>9, <1>10

-----------------------------------------------------------------------------
(* The statements. *)

LEMMA GraphType == ASSUME IndexerType PROVE
  /\ graph.nodes \subseteq STRING /\ graph.edges \subseteq STRING \X STRING
  /\ graph = [nodes |-> graph.nodes, edges |-> graph.edges]
BY DEF IndexerType, Graphs

(* What the workspace and the history alone say. *)
LEMMA Unmoved ==
  ASSUME UNCHANGED <<ws, found, lost, batch>>
  PROVE  /\ Decls' = Decls /\ Declared' = Declared /\ Calls' = Calls /\ (Clean' <=> Clean)
         /\ \A e : (CalledLast(e)' <=> CalledLast(e)) /\ (FoundHanging(e)' <=> FoundHanging(e))
<1>1. Decls' = Decls /\ Declared' = Declared /\ Calls' = Calls /\ (Clean' <=> Clean)
  BY DEF Decls, Declared, Calls, Clean
<1>2. ASSUME NEW e PROVE CalledLast(e)' <=> CalledLast(e)
  BY <1>1 DEF CalledLast
<1>3. ASSUME NEW e PROVE FoundHanging(e)' <=> FoundHanging(e)
  BY <1>1 DEF FoundHanging
<1> QED
  BY <1>1, <1>2, <1>3

LEMMA CallIsCalled ==
  ASSUME IndexerType, NEW i \in Decls, NEW k \in 1 .. Len(ws[i].calls)
  PROVE  CallOf(i, k) \in Calls /\ (LastCall(CallOf(i, k), i) => CalledLast(CallOf(i, k)))
<1>1. k \in DOMAIN ws[i].calls
  BY WorkspaceType
<1>2. CallOf(i, k)[1] = ws[i].id /\ CallOf(i, k)[2] = ws[i].calls[k]
  BY DEF CallOf
<1>3. CallOf(i, k) \in Calls
  BY <1>1 DEF Calls, CallOf
<1> QED
  BY <1>1, <1>2, <1>3 DEF LastCall, CalledLast

LEMMA LastCallOfCall ==
  ASSUME IndexerType, NEW e \in Calls, CalledLast(e)
  PROVE  \E i \in Decls : \E k \in 1 .. Len(ws[i].calls) : e = CallOf(i, k) /\ LastCall(e, i)
<1>1. PICK i \in Decls : /\ ws[i].id = e[1]
                         /\ \E k \in DOMAIN ws[i].calls : ws[i].calls[k] = e[2]
                         /\ LastCall(e, i)
  BY DEF CalledLast, LastCall
<1>2. PICK k \in 1 .. Len(ws[i].calls) : ws[i].calls[k] = e[2]
  BY <1>1, WorkspaceType
<1>3. e = <<e[1], e[2]>>
  BY DEF Calls
<1> QED
  BY <1>1, <1>2, <1>3 DEF CallOf

LEMMA NodeKeeps ==
  ASSUME IndexerInv, NEW p \in Passes, at[p] # Idle, NodeStatement(p)
  PROVE  IndexerInv'
<1> DEFINE a == at[p][1]
<1>1. /\ IndexerType /\ Places /\ Pooled /\ Followed /\ NodesInv /\ CallsInv /\ EdgesInv
      /\ a \in Decls /\ a \in Nat /\ at[p] = <<a, 0>> /\ runs[p] > 0 /\ p \in Users
      /\ conn[p] # None /\ Finish(p)
  BY DEF IndexerInv, Places, NodeStatement, Decls, IndexerType, Users
<1>2. /\ graph'.nodes = graph.nodes \union {ws[a].id}
      /\ graph'.edges = IF HasForeignKeys(p) /\ ws[a].id \in graph.nodes
                        THEN {e \in graph.edges : ~Touches(e, ws[a].id)} ELSE graph.edges
      /\ graph' = [nodes |-> graph'.nodes, edges |-> graph'.edges]
  BY DEF NodeStatement, InsertNode
<1>3. /\ UNCHANGED <<ws, skipped, runs, open, lost, batch, found>>
      /\ conn' = [conn EXCEPT ![p] = None] /\ keyless' = (keyless \/ ~HasForeignKeys(p))
  BY DEF NodeStatement, Finish
<1>4. /\ Places' /\ at' \in [Passes -> Nat \X Nat]
      /\ \A q \in Passes : conn'[q] # None => at'[q] # Idle
      /\ \A q \in Passes, i \in Decls : \A k \in 0 .. Len(ws[i].calls) :
           Ahead(q, i, k)' <=> Ahead(q, i, k) /\ ~(q = p /\ i = a /\ k = 0)
  BY <1>1, FinishMoves
<1>5. \A q \in Passes, i \in Decls : Ahead(q, i, 0)' <=> Ahead(q, i, 0) /\ ~(q = p /\ i = a)
  BY <1>1, <1>4, WorkspaceType
<1>6. Len(ws) \in Nat /\ graph'.edges \subseteq graph.edges /\ graph.nodes \subseteq graph'.nodes
  BY <1>1, <1>2, WorkspaceType
<1> HIDE DEF a
<1>7. IndexerType'
  <2>1. conn' \in [Users -> Conns \union {None}] /\ keyless' \in BOOLEAN
    BY <1>1, <1>3 DEF IndexerType
  <2>2. graph' \in Graphs
    BY <1>1, <1>2, <1>6, GraphType, WorkspaceType DEF Graphs
  <2> QED
    BY <1>1, <1>3, <1>4, <2>1, <2>2 DEF IndexerType
<1>8. Pooled'
  BY <1>4 DEF Pooled, Idle
<1>9. Followed'
  <2>1. \A q \in Passes : at'[q] # Idle => q \in batch
    <3>1. \A q \in Passes : q # p => at'[q] = at[q]
      BY <1>1 DEF Finish, IndexerType
    <3> QED
      BY <1>1, <3>1 DEF Followed, Places
  <2>2. found.nodes \subseteq graph'.nodes /\ graph'.nodes \subseteq found.nodes \union Declared
    BY <1>1, <1>2 DEF Followed, Declared
  <2>3. ASSUME ~keyless', NEW e \in graph'.edges
        PROVE  e \in found.edges \/ (e[1] \in graph'.nodes /\ e[2] \in graph'.nodes)
    BY <1>1, <1>3, <1>6, <2>3 DEF Followed
  <2> QED
    BY <1>3, <2>1, <2>2, <2>3 DEF Followed, Declared, Decls, Idle
<1>10. NodesInv'
  <2>1. ASSUME ~skipped, NEW q \in Passes, NEW i \in Decls, runs[q] > 0, q \notin lost,
               ~Ahead(q, i, 0)'
        PROVE  ws[i].id \in graph'.nodes
    BY <1>1, <1>2, <1>5, <2>1 DEF NodesInv
  <2> QED
    BY <1>3, <2>1 DEF NodesInv, Decls
<1>11. CallsInv'
  <2> SUFFICES ASSUME Clean, ~skipped, batch # {},
                      NEW i \in Decls, NEW k \in 1 .. Len(ws[i].calls), LastCall(CallOf(i, k), i)
               PROVE  CallOf(i, k) \in graph'.edges \/ \E q \in Passes : Ahead(q, i, k)'
    BY <1>3 DEF CallsInv, LastCall, CallOf, Decls, Clean
  <2> DEFINE e == CallOf(i, k)
  <2>1. e \in graph.edges \/ \E q \in Passes : Ahead(q, i, k)
    BY <1>1 DEF CallsInv
  <2>2. k \in 0 .. Len(ws[i].calls) /\ k # 0 /\ i \in Nat /\ k \in Nat
    BY WorkspaceType, <1>1 DEF Decls
  <2>3. ASSUME NEW q \in Passes, Ahead(q, i, k) PROVE Ahead(q, i, k)'
    BY <1>4, <2>2, <2>3
  <2>4. CASE e \in graph.edges /\ e \notin graph'.edges
    <3>1. Touches(e, ws[a].id)
      BY <1>2, <2>4
    <3>2. a <= i
      <4>1. a \in Nat /\ a <= Len(ws) /\ i \in Nat
        BY <1>1, <1>6, <2>2 DEF Decls
      <4>2. a \notin i + 1 .. Len(ws)
        BY <3>1 DEF LastCall
      <4> QED
        BY <1>6, <4>1, <4>2
    <3>3. at[p][1] = a /\ at[p][2] = 0
      BY <1>1
    <3>4. Ahead(p, i, k)
      <4>1. a < i \/ (a = i /\ 0 <= k)
        BY <1>1, <2>2, <3>2
      <4> QED
        BY <3>3, <4>1 DEF Ahead
    <3> QED
      BY <2>3, <3>4
  <2> QED
    BY <2>1, <2>3, <2>4
<1>12. EdgesInv'
  <2> SUFFICES ASSUME Clean, ~skipped, batch # {}, ~keyless, HasForeignKeys(p),
                      NEW e \in graph'.edges, NEW d \in Declared, Touches(e, d)
               PROVE  \/ (e \in Calls /\ CalledLast(e)) \/ FoundHanging(e)
                      \/ \E q \in Passes, m \in Decls :
                           Ahead(q, m, 0)' /\ Touches(e, ws[m].id) /\ ws[m].id \in graph'.nodes
    BY <1>3, Unmoved DEF EdgesInv, Doomed
  <2>1. e \in graph.edges
    BY <1>6
  <2>2. ws[a].id \in graph.nodes => ~Touches(e, ws[a].id)
    BY <1>2
  <2>3. ASSUME NEW q \in Passes, NEW m \in Decls, Ahead(q, m, 0), Touches(e, ws[m].id),
               ws[m].id \in graph.nodes
        PROVE  Ahead(q, m, 0)' /\ ws[m].id \in graph'.nodes
    BY <1>5, <1>6, <2>2, <2>3
  <2> QED
    BY <1>1, <2>1, <2>3 DEF EdgesInv, Doomed
<1> QED
  BY <1>4, <1>7, <1>8, <1>9, <1>10, <1>11, <1>12 DEF IndexerInv

LEMMA EdgeKeeps ==
  ASSUME IndexerInv, NEW p \in Passes, at[p] # Idle, EdgeStatement(p)
  PROVE  IndexerInv'
<1> DEFINE a == at[p][1]
           b == at[p][2]
           new == CallOf(a, b)
<1>1. /\ IndexerType /\ Places /\ Pooled /\ Followed /\ NodesInv /\ CallsInv /\ EdgesInv
      /\ a \in Decls /\ a \in Nat /\ b \in 1 .. Len(ws[a].calls) /\ b \in Nat
      /\ at[p] = <<a, b>> /\ runs[p] > 0 /\ ~skipped /\ p \in batch
      /\ p \in Users /\ conn[p] # None /\ Finish(p) /\ Len(ws) \in Nat /\ Len(ws[a].calls) \in Nat
  <2>1. IndexerType /\ Places /\ Pooled /\ Followed /\ NodesInv /\ CallsInv /\ EdgesInv
    BY DEF IndexerInv
  <2>2. a \in Decls /\ b \in 0 .. Len(ws[a].calls) /\ b > 0 /\ runs[p] > 0 /\ ~skipped /\ p \in batch
    BY <2>1 DEF Places, EdgeStatement, Followed
  <2>3. Len(ws) \in Nat /\ Len(ws[a].calls) \in Nat /\ a \in Nat /\ at[p] = <<a, b>>
    BY <2>1, <2>2, WorkspaceType DEF IndexerType, Decls
  <2>4. p \in Users /\ conn[p] # None /\ Finish(p)
    BY DEF EdgeStatement, Users
  <2> QED
    BY <2>1, <2>2, <2>3, <2>4
<1>2. graph' = InsertEdge(graph, new, HasForeignKeys(p))
  BY DEF EdgeStatement, CallOf
<1>3. /\ UNCHANGED <<ws, skipped, runs, open, lost, batch, found>>
      /\ conn' = [conn EXCEPT ![p] = None] /\ keyless' = (keyless \/ ~HasForeignKeys(p))
  BY DEF EdgeStatement, Finish
<1>4. /\ Places' /\ at' \in [Passes -> Nat \X Nat]
      /\ \A q \in Passes : conn'[q] # None => at'[q] # Idle
      /\ \A q \in Passes, i \in Decls : \A k \in 0 .. Len(ws[i].calls) :
           Ahead(q, i, k)' <=> Ahead(q, i, k) /\ ~(q = p /\ i = a /\ k = b)
  BY <1>1, FinishMoves
<1>5. \A q \in Passes, i \in Decls : Ahead(q, i, 0)' <=> Ahead(q, i, 0)
  <2>1. b # 0 /\ \A i \in Decls : 0 \in 0 .. Len(ws[i].calls)
    BY <1>1, WorkspaceType
  <2> QED
    BY <1>4, <2>1
<1>6. new \in STRING \X STRING /\ new[1] = ws[a].id /\ new[2] = ws[a].calls[b]
  BY <1>1, WorkspaceType DEF CallOf
<1> HIDE DEF a, b, new
<1>7. /\ graph'.nodes = graph.nodes
      /\ graph'.edges = IF EdgeAllowed(graph, new, HasForeignKeys(p))
                        THEN graph.edges \union {new} ELSE graph.edges
      /\ graph' = [nodes |-> graph'.nodes, edges |-> graph'.edges]
  BY <1>1, <1>2 DEF InsertEdge, IndexerType, Graphs
<1>8. IndexerType'
  <2>1. conn' \in [Users -> Conns \union {None}] /\ keyless' \in BOOLEAN
    BY <1>1, <1>3 DEF IndexerType
  <2>2. graph' \in Graphs
    <3>1. graph'.nodes \in SUBSET STRING /\ graph'.edges \in SUBSET (STRING \X STRING)
      BY <1>1, <1>6, <1>7, GraphType
    <3> QED
      BY <1>7, <3>1 DEF Graphs
  <2> QED
    BY <1>1, <1>3, <1>4, <2>1, <2>2 DEF IndexerType
<1>9. Pooled'
  BY <1>4 DEF Pooled, Idle
<1>10. Followed'
  <2>1. \A q \in Passes : at'[q] # Idle => q \in batch
    <3>1. \A q \in Passes : q # p => at'[q] = at[q]
      BY <1>1 DEF Finish, IndexerType
    <3> QED
      BY <1>1, <3>1 DEF Followed
  <2>2. ASSUME ~keyless', NEW e \in graph'.edges
        PROVE  e \in found.edges \/ (e[1] \in graph.nodes /\ e[2] \in graph.nodes)
    BY <1>1, <1>3, <1>7, <2>2 DEF Followed, EdgeAllowed
  <2> QED
    BY <1>1, <1>3, <1>7, <2>1, <2>2 DEF Followed, Declared, Decls, Idle
<1>11. NodesInv'
  BY <1>1, <1>3, <1>5, <1>7 DEF NodesInv, Decls
<1>12. CallsInv'
  <2> SUFFICES ASSUME Clean, ~skipped, batch # {},
                      NEW i \in Decls, NEW k \in 1 .. Len(ws[i].calls), LastCall(CallOf(i, k), i)
               PROVE  CallOf(i, k) \in graph'.edges \/ \E q \in Passes : Ahead(q, i, k)'
    BY <1>3 DEF CallsInv, LastCall, CallOf, Decls, Clean
  <2>1. CallOf(i, k) \in graph.edges \/ \E q \in Passes : Ahead(q, i, k)
    BY <1>1 DEF CallsInv
  <2>2. k \in 0 .. Len(ws[i].calls)
    BY WorkspaceType, <1>1
  <2>3. CASE i = a /\ k = b
    <3>1. new = CallOf(i, k)
      BY <2>3 DEF new
    <3>2. \A m \in 1 .. a : m \in Decls /\ ~Ahead(p, m, 0)
      <4> SUFFICES ASSUME NEW m \in 1 .. a PROVE m \in Decls /\ ~Ahead(p, m, 0)
        OBVIOUS
      <4>1. m \in Decls
        BY <1>1 DEF Decls
      <4>2. at[p][1] = a /\ at[p][2] = b /\ m \in Nat /\ m <= a /\ b > 0
        BY <1>1
      <4>3. ~(a < m) /\ ~(b <= 0)
        BY <1>1, <4>2
      <4> QED
        BY <4>1, <4>2, <4>3 DEF Ahead
    <3>3. \A m \in 1 .. a : ws[m].id \in graph.nodes
      BY <1>1, <3>2 DEF NodesInv, Clean
    <3>4. a \in 1 .. a /\ (new[2] \in found.nodes \/ \E m \in 1 .. a : ws[m].id = new[2])
      BY <1>1, <2>3, <3>1 DEF LastCall, Decls
    <3>5. found.nodes \subseteq graph.nodes
      BY <1>1 DEF Followed
    <3>6. EdgeAllowed(graph, new, HasForeignKeys(p))
      BY <1>6, <3>3, <3>4, <3>5 DEF EdgeAllowed
    <3> QED
      BY <1>7, <3>1, <3>6
  <2>4. CASE ~(i = a /\ k = b)
    BY <1>4, <1>7, <2>1, <2>2, <2>4
  <2> QED
    BY <2>3, <2>4
<1>13. EdgesInv'
  <2> SUFFICES ASSUME Clean, ~skipped, batch # {}, ~keyless, HasForeignKeys(p),
                      NEW e \in graph'.edges, NEW d \in Declared, Touches(e, d)
               PROVE  \/ (e \in Calls /\ CalledLast(e)) \/ FoundHanging(e)
                      \/ \E q \in Passes, m \in Decls :
                           Ahead(q, m, 0)' /\ Touches(e, ws[m].id) /\ ws[m].id \in graph.nodes
    BY <1>3, <1>7, Unmoved DEF EdgesInv, Doomed
  <2>1. CASE e \in graph.edges
    BY <1>1, <1>5, <2>1 DEF EdgesInv, Doomed
  <2>2. CASE e = new /\ EdgeAllowed(graph, new, HasForeignKeys(p))
    <3>1. new \in Calls /\ (LastCall(new, a) => CalledLast(new))
      BY <1>1, CallIsCalled DEF new
    <3>2. new[1] \in graph.nodes /\ new[2] \in graph.nodes
      BY <2>2 DEF EdgeAllowed
    <3>3. CASE \E m \in a + 1 .. Len(ws) : Touches(new, ws[m].id)
      <4>1. PICK m \in a + 1 .. Len(ws) : Touches(new, ws[m].id)
        BY <3>3
      <4>2. m \in Decls /\ a < m
        BY <1>1 DEF Decls
      <4>3. Ahead(p, m, 0)
        BY <4>2, <1>1 DEF Ahead, a
      <4>4. ws[m].id \in graph.nodes
        BY <3>2, <4>1 DEF Touches
      <4> QED
        BY <1>5, <2>2, <4>1, <4>2, <4>3, <4>4
    <3>4. CASE \A m \in a + 1 .. Len(ws) : ~Touches(new, ws[m].id)
      <4>1. new[2] \in found.nodes \/ \E m \in 1 .. a : ws[m].id = new[2]
        <5>1. CASE new[2] \in Declared
          <6>1. PICK m \in Decls : ws[m].id = new[2]
            BY <5>1 DEF Declared
          <6>2. m \notin a + 1 .. Len(ws)
            BY <3>4, <6>1 DEF Touches
          <6>3. m \in 1 .. a
            BY <1>1, <6>2 DEF Decls
          <6> QED
            BY <6>1, <6>3
        <5> QED
          BY <1>1, <3>2, <5>1 DEF Followed
      <4>2. LastCall(new, a)
        BY <3>4, <4>1 DEF LastCall
      <4> QED
        BY <2>2, <3>1, <4>2
    <3> QED
      BY <3>3, <3>4
  <2> QED
    BY <1>7, <2>1, <2>2
<1> QED
  BY <1>4, <1>8, <1>9, <1>10, <1>11, <1>12, <1>13 DEF IndexerInv

(* A pass that has lost a statement is one of those since which it counts. *)
LEMMA FailsKeeps == ASSUME IndexerInv, NEW p \in Passes, at[p] # Idle, Fails(p) PROVE IndexerInv'
<1>1. /\ IndexerType /\ Places /\ Pooled /\ Followed /\ NodesInv
      /\ p \in Users /\ p \in batch /\ Finish(p) /\ conn[p] # None
  BY DEF IndexerInv, Fails, Users, Followed
<1>2. /\ UNCHANGED <<ws, skipped, runs, open, graph, batch, found, keyless>>
      /\ conn' = [conn EXCEPT ![p] = None] /\ lost' = lost \union {p}
  BY DEF Fails, Finish
<1>3. /\ Places' /\ at' \in [Passes -> Nat \X Nat]
      /\ \A q \in Passes : conn'[q] # None => at'[q] # Idle
      /\ \A q \in Passes, i \in Decls : \A k \in 0 .. Len(ws[i].calls) :
           Ahead(q, i, k)' <=> Ahead(q, i, k) /\ ~(q = p /\ at[p] = <<i, k>>)
  BY <1>1, FinishMoves
<1>4. \A q \in Passes : q # p => at'[q] = at[q]
  BY <1>1 DEF Finish, IndexerType
<1>5. IndexerType'
  <2>1. conn' \in [Users -> Conns \union {None}]
    BY <1>1, <1>2 DEF IndexerType
  <2> QED
    BY <1>1, <1>2, <1>3, <2>1 DEF IndexerType
<1>6. Pooled'
  BY <1>3 DEF Pooled, Idle
<1>7. Followed'
  BY <1>1, <1>2, <1>4 DEF Followed, Declared, Decls, Idle
<1>8. NodesInv'
  <2>1. \A i \in Decls : 0 \in 0 .. Len(ws[i].calls)
    BY <1>1, WorkspaceType
  <2>2. ASSUME ~skipped, NEW q \in Passes, NEW i \in Decls, runs[q] > 0, q \notin lost', ~Ahead(q, i, 0)'
        PROVE  ws[i].id \in graph.nodes
    BY <1>1, <1>2, <1>3, <2>1, <2>2 DEF NodesInv
  <2> QED
    BY <1>2, <2>2 DEF NodesInv, Decls
<1>9. ~Clean'
  BY <1>1, <1>2 DEF Clean
<1>10. CallsInv' /\ EdgesInv'
  BY <1>9 DEF CallsInv, EdgesInv
<1> QED
  BY <1>3, <1>5, <1>6, <1>7, <1>8, <1>10 DEF IndexerInv

(* Everything is ahead of a pass that starts, and what it will not take away *)
(* was found hanging.                                                        *)
LEMMA StartKeeps == ASSUME IndexerInv, NEW p \in Passes, StartRun(p) PROVE IndexerInv'
<1>1. /\ IndexerType /\ Places /\ Pooled /\ Followed /\ NodesInv
      /\ Len(ws) \in Nat
  BY WorkspaceType DEF IndexerInv
<1>2. /\ UNCHANGED <<ws, skipped, graph, conn, open>> /\ at[p] = Idle
      /\ at' = [at EXCEPT ![p] = IF skipped \/ ws = <<>> THEN Idle ELSE <<1, 0>>]
      /\ runs' = [runs EXCEPT ![p] = @ + 1] /\ lost' = lost \ {p}
      /\ IF Working = {}
         THEN batch' = {p} /\ found' = graph /\ keyless' = FALSE
         ELSE batch' = batch \union {p} /\ UNCHANGED <<found, keyless>>
  BY DEF StartRun
<1>3. /\ at'[p] = IF skipped \/ ws = <<>> THEN Idle ELSE <<1, 0>>
      /\ runs'[p] > 0
      /\ \A q \in Passes : q # p => at'[q] = at[q] /\ runs'[q] = runs[q]
  BY <1>1, <1>2 DEF IndexerType
<1>4. IndexerType'
  <2>1. at' \in [Passes -> Nat \X Nat] /\ runs' \in [Passes -> Nat]
    BY <1>1, <1>2 DEF IndexerType, Idle
  <2>2. found' \in Graphs /\ lost' \in SUBSET Passes /\ batch' \in SUBSET Passes /\ keyless' \in BOOLEAN
    BY <1>1, <1>2 DEF IndexerType
  <2> QED
    BY <1>1, <1>2, <2>1, <2>2 DEF IndexerType
<1>5. ws # <<>> => 1 \in Decls
  BY <1>1 DEF Decls, IndexerType
<1>6. Places'
  <2> SUFFICES ASSUME NEW q \in Passes, at'[q] # Idle
               PROVE  /\ at'[q][1] \in Decls /\ at'[q][2] \in 0 .. Len(ws[at'[q][1]].calls)
                      /\ runs'[q] > 0 /\ ~skipped
    BY <1>2 DEF Places, Decls
  <2>1. CASE q = p
    <3>1. ~skipped /\ at'[q][1] = 1 /\ at'[q][2] = 0 /\ 1 \in Decls
      BY <1>3, <1>5, <2>1
    <3>2. Len(ws[1].calls) \in Nat
      BY <1>1, <3>1, WorkspaceType
    <3> QED
      BY <1>3, <2>1, <3>1, <3>2
  <2>2. CASE q # p
    BY <1>1, <1>3, <2>2 DEF Places
  <2> QED
    BY <2>1, <2>2
<1>7. Pooled'
  <2>1. conn[p] = None
    BY <1>1, <1>2 DEF Pooled
  <2> QED
    BY <1>1, <1>2, <1>3, <2>1 DEF Pooled, Idle
<1>8. ASSUME ~skipped, NEW i \in Decls, NEW k \in 0 .. Len(ws[i].calls) PROVE Ahead(p, i, k)'
  <2>1. ws # <<>> /\ i \in Nat /\ 1 <= i /\ Len(ws[i].calls) \in Nat
    BY <1>1, WorkspaceType DEF Decls
  <2>2. at'[p] = <<1, 0>>
    BY <1>3, <1>8, <2>1
  <2>3. Ahead(p, i, k)' <=> at'[p] # Idle /\ (at'[p][1] < i \/ (at'[p][1] = i /\ at'[p][2] <= k))
    BY DEF Ahead, Idle
  <2>4. 1 < i \/ (1 = i /\ 0 <= k)
    BY <2>1
  <2>5. at'[p] # Idle /\ at'[p][1] = 1 /\ at'[p][2] = 0
    BY <2>2 DEF Idle
  <2> QED
    BY <2>3, <2>4, <2>5
<1>9. ASSUME NEW q \in Passes, q # p, NEW i, NEW k PROVE Ahead(q, i, k)' <=> Ahead(q, i, k)
  BY <1>3, <1>9 DEF Ahead, Idle
<1>10. \A i \in Decls : 0 \in 0 .. Len(ws[i].calls)
  BY <1>1, WorkspaceType
<1>11. Followed'
  <2>1. \A q \in Passes : at'[q] # Idle => q \in batch'
    BY <1>1, <1>2, <1>3 DEF Followed, Working
  <2>2. found'.nodes \subseteq graph.nodes /\ graph.nodes \subseteq found'.nodes \union Declared
    BY <1>1, <1>2 DEF Followed
  <2>3. ~keyless' => \A e \in graph.edges :
          e \in found'.edges \/ (e[1] \in graph.nodes /\ e[2] \in graph.nodes)
    BY <1>1, <1>2 DEF Followed
  <2> QED
    BY <1>2, <2>1, <2>2, <2>3 DEF Followed, Declared, Decls, Idle
<1>12. NodesInv'
  <2>1. ASSUME ~skipped, NEW q \in Passes, NEW i \in Decls, runs'[q] > 0, q \notin lost',
               ~Ahead(q, i, 0)'
        PROVE  ws[i].id \in graph.nodes
    BY <1>1, <1>2, <1>3, <1>8, <1>9, <1>10, <2>1 DEF NodesInv
  <2> QED
    BY <1>2, <2>1 DEF NodesInv, Decls
<1>13. CallsInv'
  <2> SUFFICES ASSUME ~skipped, NEW i \in Decls, NEW k \in 1 .. Len(ws[i].calls)
               PROVE  \E q \in Passes : Ahead(q, i, k)'
    BY <1>2 DEF CallsInv, Decls
  <2>1. k \in 0 .. Len(ws[i].calls)
    BY <1>1, WorkspaceType
  <2> QED
    BY <1>8, <2>1
<1>14. EdgesInv'
  <2> SUFFICES ASSUME ~skipped, ~keyless', NEW e \in graph.edges, NEW d \in Declared, Touches(e, d),
                      ~ \E m \in Decls : Touches(e, ws[m].id) /\ ws[m].id \in graph.nodes
               PROVE  e \in found'.edges /\ \A c \in Declared : Touches(e, c) => c \notin found'.nodes
    <3>1. \A m \in Decls : Ahead(p, m, 0)' <=> ~skipped
      BY <1>2, <1>3, <1>8, <1>10 DEF Ahead
    <3> QED
      BY <1>2, <1>8, <1>10 DEF EdgesInv, Doomed, FoundHanging, Declared, Decls
  <2>1. \A c \in Declared : Touches(e, c) => c \notin graph.nodes
    BY DEF Declared
  <2>2. found'.nodes \subseteq graph.nodes
    BY <1>11, <1>2 DEF Followed
  <2>3. e \in found'.edges
    <3>1. d \notin graph.nodes /\ (e[1] = d \/ e[2] = d)
      BY <2>1 DEF Touches
    <3>2. e \in found'.edges \/ (e[1] \in graph.nodes /\ e[2] \in graph.nodes)
      BY <1>2, <1>11 DEF Followed
    <3> QED
      BY <3>1, <3>2
  <2> QED
    BY <2>1, <2>2, <2>3
<1> QED
  BY <1>4, <1>6, <1>7, <1>11, <1>12, <1>13, <1>14 DEF IndexerInv

(* Taking a connection and giving it back leave the rest of the invariant. *)
LEMMA PoolKeeps ==
  ASSUME IndexerInv, UNCHANGED <<ws, skipped, graph, at, runs, lost, history>>, NEW u \in Users,
         (Take(u) /\ (u \in Passes => at[u] # Idle)) \/ (conn' = [conn EXCEPT ![u] = None] /\ open' = open)
  PROVE  IndexerInv'
<1>1. /\ IndexerType /\ Places /\ Pooled /\ Followed /\ NodesInv /\ CallsInv /\ EdgesInv
      /\ UNCHANGED <<ws, skipped, graph, at, runs, lost, batch, found, keyless>>
  BY DEF IndexerInv, history
<1>2. conn' \in [Users -> Conns \union {None}] /\ open' \in SUBSET Conns
  BY <1>1 DEF Take, Available, IndexerType
<1>3. Pooled'
  <2>1. CASE Take(u) /\ (u \in Passes => at[u] # Idle)
    <3>1. PICK k \in Available : conn' = [conn EXCEPT ![u] = k] /\ open' = open \union {k}
      BY <2>1 DEF Take
    <3> QED
      BY <1>1, <2>1, <3>1 DEF Pooled, IndexerType, Users
  <2>2. CASE conn' = [conn EXCEPT ![u] = None] /\ open' = open
    BY <1>1, <2>2 DEF Pooled, IndexerType, Users
  <2> QED
    BY <2>1, <2>2
<1>4. IndexerType' /\ Places' /\ Followed'
  BY <1>1, <1>2 DEF IndexerType, Places, Followed, Declared, Decls
<1>5. NodesInv'
  BY <1>1 DEF NodesInv, Decls, Ahead
<1>6. CallsInv'
  BY <1>1 DEF CallsInv, LastCall, CallOf, Decls, Ahead, Clean
<1>7. EdgesInv'
  BY <1>1 DEF EdgesInv, Calls, CalledLast, FoundHanging, Doomed, Declared, Decls, Ahead, Clean
<1> QED
  BY <1>3, <1>4, <1>5, <1>6, <1>7 DEF IndexerInv

LEMMA IndexerInvHolds == Spec => []IndexerInv
<1>1. ASSUME Init PROVE IndexerInv
  <2>1. /\ ws \in Seq([id : STRING, calls : Seq(STRING)]) /\ skipped \in BOOLEAN
        /\ graph \in Graphs /\ found = graph /\ batch = {} /\ keyless = FALSE
        /\ at = [p \in Passes |-> Idle] /\ runs = [p \in Passes |-> 0]
        /\ conn = [u \in Users |-> None] /\ open = {First} /\ lost = {}
    BY <1>1, WorkspacesAssumption, RootsAssumption, StoredAssumption DEF Init, Graphs
  <2>2. IndexerType
    BY <2>1 DEF IndexerType, Idle, Conns
  <2>3. Places /\ Pooled /\ Followed
    BY <2>1 DEF Places, Pooled, Users, Followed
  <2>4. NodesInv /\ CallsInv /\ EdgesInv
    BY <2>1 DEF NodesInv, CallsInv, EdgesInv
  <2> QED
    BY <2>2, <2>3, <2>4 DEF IndexerInv
<1>2. ASSUME IndexerInv, [Next]_vars PROVE IndexerInv'
  <2>1. ASSUME NEW p \in Passes, PassStep(p) PROVE IndexerInv'
    <3>1. conn[p] # None => at[p] # Idle
      BY <1>2 DEF IndexerInv, Pooled
    <3>2. CASE Begin(p)
      <4>1. p \in Users /\ Take(p) /\ at[p] # Idle /\ UNCHANGED <<ws, skipped, graph, at, runs, lost, history>>
        BY <3>2 DEF Begin, Users
      <4> QED
        BY <1>2, <4>1, PoolKeeps
    <3>3. CASE NodeStatement(p)
      BY <1>2, <3>1, <3>3, NodeKeeps DEF NodeStatement
    <3>4. CASE EdgeStatement(p)
      BY <1>2, <3>1, <3>4, EdgeKeeps DEF EdgeStatement
    <3>5. CASE Fails(p)
      BY <1>2, <3>1, <3>5, FailsKeeps DEF Fails
    <3> QED
      BY <1>2, <2>1, <3>2, <3>3, <3>4, <3>5, StartKeeps DEF PassStep
  <2>2. ASSUME NEW r \in Readers, StatsBegin(r) \/ StatsEnd(r) PROVE IndexerInv'
    <3>1. /\ r \in Users /\ r \notin Passes /\ UNCHANGED <<ws, skipped, graph, at, runs, lost, history>>
          /\ Take(r) \/ (conn' = [conn EXCEPT ![r] = None] /\ open' = open)
      BY <2>2, UsersAssumption DEF StatsBegin, StatsEnd, Users
    <3> QED
      BY <1>2, <3>1, PoolKeeps
  <2>3. CASE UNCHANGED vars
    <3>1. UNCHANGED <<ws, skipped, graph, at, runs, conn, open, lost, batch, found, keyless>>
      BY <2>3 DEF vars, history
    <3>2. IndexerType' /\ Places' /\ Pooled' /\ Followed'
      BY <1>2, <3>1 DEF IndexerInv, IndexerType, Places, Pooled, Followed, Declared, Decls
    <3>3. NodesInv'
      BY <1>2, <3>1 DEF IndexerInv, NodesInv, Decls, Ahead
    <3>4. CallsInv'
      BY <1>2, <3>1 DEF IndexerInv, CallsInv, LastCall, CallOf, Decls, Ahead, Clean
    <3>5. EdgesInv'
      BY <1>2, <3>1 DEF IndexerInv, EdgesInv, Calls, CalledLast, FoundHanging, Doomed, Declared, Decls,
         Ahead, Clean
    <3> QED
      BY <3>2, <3>3, <3>4, <3>5 DEF IndexerInv
  <2> QED
    BY <1>2, <2>1, <2>2, <2>3 DEF Next
<1> QED
  BY <1>1, <1>2, PTL DEF Spec

(* Whatever they found, passes that overlap keep the last calls, on any      *)
(* connections, if none of them lost a statement (indexer.go:198-231).       *)
THEOREM CallsSurvive == Spec => []OverlapKeepsCalls
<1>1. ASSUME IndexerInv PROVE OverlapKeepsCalls
  <2> SUFFICES ASSUME Quiet, ~skipped, Clean, NEW e \in Calls, CalledLast(e)
               PROVE  e \in graph.edges
    BY DEF OverlapKeepsCalls
  <2>1. PICK i \in Decls : \E k \in 1 .. Len(ws[i].calls) : e = CallOf(i, k) /\ LastCall(e, i)
    BY <1>1, LastCallOfCall DEF IndexerInv
  <2>2. PICK k \in 1 .. Len(ws[i].calls) : e = CallOf(i, k) /\ LastCall(e, i)
    BY <2>1
  <2>3. \A p \in Passes : ~Ahead(p, i, k)
    BY DEF Quiet, Working, Ahead
  <2> QED
    BY <1>1, <2>2, <2>3 DEF IndexerInv, CallsInv, Quiet
<1> QED
  BY <1>1, IndexerInvHolds, PTL

(* After passes that stored all they had with the pragmas, the edges at the  *)
(* workspace's functions are its calls, whatever the database held before:   *)
(* the cascades have taken the others (indexer.go:198-231, db.go:86-109).    *)
THEOREM StaleCallsGo == Spec => []NoStaleCalls
<1>1. ASSUME IndexerInv PROVE NoStaleCalls
  <2> SUFFICES ASSUME Quiet, ~skipped, Clean, ~keyless,
                      NEW e \in graph.edges, NEW d \in Declared, Touches(e, d)
               PROVE  (e \in Calls /\ CalledLast(e)) \/ FoundHanging(e)
    BY DEF NoStaleCalls
  <2>1. ~Doomed(e)
    BY DEF Quiet, Working, Doomed, Ahead
  <2> QED
    BY <1>1, <2>1 DEF IndexerInv, EdgesInv, Quiet
<1> QED
  BY <1>1, IndexerInvHolds, PTL

-----------------------------------------------------------------------------
(* The audit tasks on top of the indexer. *)

(* Every step of the composition is one of the indexer or leaves it alone,   *)
(* and one of the tasks or leaves them alone.                                *)
LEMMA StepsOfBoth ==
  [AuditNext]_allvars => [Next]_vars /\ [Audits!Next]_(Audits!vars)
<1> SUFFICES ASSUME [AuditNext]_allvars PROVE [Next]_vars /\ [Audits!Next]_(Audits!vars)
  OBVIOUS
<1>1. CASE UNCHANGED allvars
  BY <1>1 DEF allvars, auditvars, Audits!vars
<1>2. CASE Handler
  BY <1>2 DEF Handler, Audits!Next
<1>3. ASSUME NEW g \in Passes, Walk(g) PROVE [Next]_vars /\ [Audits!Next]_(Audits!vars)
  BY <1>3 DEF Walk, Next, auditvars, Audits!vars
<1>4. ASSUME NEW g \in Passes, Return(g) \/ Record(g)
      PROVE  [Next]_vars /\ [Audits!Next]_(Audits!vars)
  BY <1>4 DEF Return, Record, Dispatched, Audits!Next
<1>5. ASSUME NEW r \in Readers, Status(r) PROVE [Next]_vars /\ [Audits!Next]_(Audits!vars)
  BY <1>5 DEF Status, Next, auditvars, Audits!vars
<1> QED
  BY <1>1, <1>2, <1>3, <1>4, <1>5 DEF AuditNext

(* Audits and requests together are behaviours of the indexer and of the     *)
(* task list, each as specified alone (handlers.go:343-403).                 *)
THEOREM AuditsImplementBoth == AuditSpec => Spec /\ Audits!Spec
<1>1. AuditInit => Init /\ Audits!Init
  BY DEF AuditInit
<1> QED
  BY <1>1, StepsOfBoth, PTL DEF AuditSpec, Spec, Audits!Spec

TaskStatus == {"running", "cancelled"} \union Results
PassStatus == {"running", "recorded"} \union Results

AuditType ==
  /\ now \in Nat
  /\ tasks \in Seq([id : Nat, status : TaskStatus]) /\ pass \in Seq(PassStatus)
  /\ Len(pass) = Len(tasks) /\ Len(tasks) <= MaxTasks

(* A pass that has come back has walked to the end, once. *)
Returned == \A g \in DOMAIN pass : pass[g] # "running" => WalkIsOver(g)

(* Ids are told apart when no two audits start within a second; then a       *)
(* record with an outcome has that of its own pass.                          *)
OwnRecords ==
  /\ \A i \in DOMAIN tasks : tasks[i].id <= now
  /\ \A i, j \in DOMAIN tasks : tasks[i].id = tasks[j].id => i = j
  /\ \A i \in DOMAIN tasks : tasks[i].status \in Results => pass[i] = "recorded"

LEMMA SameCardinality == ASSUME NEW S PROVE Audits!Cardinality(S) = Cardinality(S)
BY DEF Audits!Cardinality, Cardinality

LEMMA TaskDomains ==
  ASSUME AuditType
  PROVE  /\ Len(tasks) \in Nat /\ DOMAIN tasks = 1 .. Len(tasks) /\ DOMAIN pass = 1 .. Len(tasks)
         /\ Audits!Dispatched = 1 .. Len(tasks) /\ 1 .. Len(tasks) \subseteq Passes
         /\ \A i \in 1 .. Len(tasks) : /\ tasks[i].id \in Nat /\ tasks[i].status \in TaskStatus
                                       /\ tasks[i] = [id |-> tasks[i].id, status |-> tasks[i].status]
                                       /\ pass[i] \in PassStatus
<1>1. /\ Len(tasks) \in Nat /\ DOMAIN tasks = 1 .. Len(tasks)
      /\ DOMAIN pass = 1 .. Len(tasks)
      /\ \A i \in 1 .. Len(tasks) : tasks[i] \in [id : Nat, status : TaskStatus]
      /\ \A i \in 1 .. Len(tasks) : pass[i] \in PassStatus
  <2> DEFINE D == [id : Nat, status : TaskStatus]
  <2>1. tasks \in Seq(D) /\ pass \in Seq(PassStatus) /\ Len(pass) = Len(tasks)
    BY DEF AuditType
  <2> HIDE DEF D
  <2>2. /\ Len(tasks) \in Nat /\ DOMAIN tasks = 1 .. Len(tasks)
        /\ DOMAIN pass = 1 .. Len(tasks)
        /\ \A i \in 1 .. Len(tasks) : tasks[i] \in D
        /\ \A i \in 1 .. Len(tasks) : pass[i] \in PassStatus
    BY <2>1
  <2> QED
    BY <2>2 DEF D
<1>2. 1 .. Len(tasks) \subseteq Passes
  BY <1>1, PassesAssumption, BoundsAssumption DEF AuditType
<1> QED
  BY <1>1, <1>2 DEF Audits!Dispatched

(* What a step of the tasks does to them. *)
LEMMA RunAppends ==
  ASSUME AuditType, Audits!RunAuditTask
  PROVE  /\ AuditType' /\ now' = now /\ Len(tasks') = Len(tasks) + 1 /\ Len(tasks) \in Nat
         /\ \A i \in 1 .. Len(tasks) : tasks'[i] = tasks[i] /\ pass'[i] = pass[i]
         /\ tasks'[Len(tasks) + 1] = [id |-> now, status |-> "running"]
         /\ pass'[Len(tasks) + 1] = "running"
         /\ PerSecond = 1 => \A i \in DOMAIN tasks : tasks[i].id # now
<1> DEFINE D == [id : Nat, status : TaskStatus]
           new == [id |-> now, status |-> "running"]
<1>1. /\ tasks \in Seq(D) /\ pass \in Seq(PassStatus) /\ Len(pass) = Len(tasks) /\ now \in Nat
      /\ Len(tasks) \in Nat /\ MaxTasks \in Nat /\ Len(tasks) < MaxTasks
      /\ tasks' = Append(tasks, new) /\ pass' = Append(pass, "running") /\ now' = now
  BY BoundsAssumption DEF AuditType, Audits!RunAuditTask
<1>2. new \in D /\ "running" \in PassStatus
  BY <1>1 DEF TaskStatus, PassStatus
<1> HIDE DEF D, new
<1>3. /\ tasks' \in Seq(D) /\ Len(tasks') = Len(tasks) + 1 /\ tasks'[Len(tasks) + 1] = new
      /\ \A i \in 1 .. Len(tasks) : tasks'[i] = tasks[i]
  BY <1>1, <1>2
<1>4. /\ pass' \in Seq(PassStatus) /\ Len(pass') = Len(tasks) + 1
      /\ pass'[Len(tasks) + 1] = "running" /\ \A i \in 1 .. Len(tasks) : pass'[i] = pass[i]
  BY <1>1, <1>2
<1>5. AuditType'
  <2>1. Len(tasks) + 1 <= MaxTasks
    BY <1>1
  <2> QED
    BY <1>1, <1>3, <1>4, <2>1 DEF AuditType, D
<1>6. ASSUME PerSecond = 1, NEW i \in DOMAIN tasks, tasks[i].id = now PROVE FALSE
  <2> DEFINE S == {j \in 1 .. Len(tasks) : tasks[j].id = now}
  <2>1. Cardinality(S) < 1
    BY <1>6, TaskDomains, SameCardinality DEF Audits!RunAuditTask
  <2>2. IsFiniteSet(S) /\ i \in S
    <3>1. IsFiniteSet(1 .. Len(tasks)) /\ S \subseteq 1 .. Len(tasks)
      BY <1>1, FS_Interval
    <3>2. DOMAIN tasks = 1 .. Len(tasks)
      BY TaskDomains
    <3> QED
      BY <1>6, <3>1, <3>2, FS_Subset
  <2>3. Cardinality(S) \in Nat /\ Cardinality(S) # 0
    BY <2>2, FS_CardinalityType, FS_EmptySet
  <2> QED
    BY <2>1, <2>3
<1> QED
  BY <1>1, <1>3, <1>4, <1>5, <1>6 DEF new

LEMMA CancelMarks ==
  ASSUME AuditType, Audits!CancelAuditTask
  PROVE  /\ AuditType' /\ UNCHANGED <<now, pass>> /\ DOMAIN tasks' = DOMAIN tasks
         /\ \A i \in DOMAIN tasks :
              /\ tasks'[i].id = tasks[i].id
              /\ tasks'[i].status = IF tasks[i].status = "running" THEN "cancelled" ELSE tasks[i].status
<1>1. /\ tasks' = [i \in 1 .. Len(tasks) |-> [tasks[i] EXCEPT !.status = Audits!Cancelled(i)]]
      /\ UNCHANGED <<now, pass>> /\ Len(tasks) \in Nat
  BY TaskDomains DEF Audits!CancelAuditTask
<1>2. \A i \in 1 .. Len(tasks) :
        /\ tasks'[i] = [id |-> tasks[i].id, status |-> Audits!Cancelled(i)]
        /\ tasks'[i] \in [id : Nat, status : TaskStatus]
  BY <1>1, TaskDomains DEF Audits!Cancelled, TaskStatus
<1>3. tasks' \in Seq([id : Nat, status : TaskStatus]) /\ Len(tasks') = Len(tasks)
  <2> DEFINE D == [id : Nat, status : TaskStatus]
  <2>1. tasks' \in [1 .. Len(tasks) -> D]
    BY <1>1, <1>2
  <2> HIDE DEF D
  <2>2. tasks' \in Seq(D) /\ Len(tasks') = Len(tasks)
    <3>1. tasks' \in Seq(D)
      BY <1>1, <2>1, SeqDef
    <3> QED
      BY <1>1, <2>1, <3>1, LenProperties
  <2> QED
    BY <2>2 DEF D
<1> QED
  BY <1>1, <1>2, <1>3, TaskDomains DEF AuditType, Audits!Cancelled

LEMMA EndSets ==
  ASSUME AuditType, NEW g \in Audits!Dispatched, Audits!PassEnds(g)
  PROVE  /\ AuditType' /\ UNCHANGED <<now, tasks>> /\ DOMAIN pass' = DOMAIN pass
         /\ pass[g] = "running" /\ pass'[g] \in Results
         /\ \A h \in DOMAIN pass : h # g => pass'[h] = pass[h]
<1>1. PICK o \in Results : pass' = [pass EXCEPT ![g] = o]
  BY DEF Audits!PassEnds
<1>2. UNCHANGED <<now, tasks>> /\ pass[g] = "running" /\ pass \in Seq(PassStatus)
  BY DEF Audits!PassEnds, AuditType
<1>3. pass' \in Seq(PassStatus) /\ Len(pass') = Len(pass)
  BY <1>1, <1>2, TaskDomains, ExceptSeq DEF PassStatus
<1> QED
  BY <1>1, <1>2, <1>3, TaskDomains DEF AuditType

LEMMA RecordSets ==
  ASSUME AuditType, NEW g \in Audits!Dispatched, Audits!Record(g)
  PROVE  /\ AuditType' /\ now' = now /\ DOMAIN pass' = DOMAIN pass /\ DOMAIN tasks' = DOMAIN tasks
         /\ pass[g] \in Results /\ pass'[g] = "recorded"
         /\ \A h \in DOMAIN pass : h # g => pass'[h] = pass[h]
         /\ \A j \in DOMAIN tasks : tasks'[j].id = tasks[j].id
         /\ \E i \in DOMAIN tasks :
              /\ tasks[i].id = tasks[g].id /\ tasks'[i].status = pass[g]
              /\ \A j \in DOMAIN tasks : j # i => tasks'[j] = tasks[j]
<1>1. PICK i \in Audits!Dispatched :
        Audits!IsFirstRecord(g, i) /\ tasks' = [tasks EXCEPT ![i].status = pass[g]]
  BY DEF Audits!Record
<1>2. /\ now' = now /\ pass' = [pass EXCEPT ![g] = "recorded"] /\ pass[g] \in Results
      /\ pass \in Seq(PassStatus) /\ g \in 1 .. Len(tasks) /\ i \in 1 .. Len(tasks)
      /\ tasks[i].id = tasks[g].id
  BY <1>1, TaskDomains DEF Audits!Record, AuditType, Audits!IsFirstRecord
<1>3. pass' \in Seq(PassStatus) /\ Len(pass') = Len(pass)
  BY <1>2, TaskDomains, ExceptSeq DEF PassStatus
<1> DEFINE D == [id : Nat, status : TaskStatus]
           new == [id |-> tasks[i].id, status |-> pass[g]]
<1>4. tasks' = [tasks EXCEPT ![i] = new] /\ new \in D
  <2>1. tasks[i] = [id |-> tasks[i].id, status |-> tasks[i].status] /\ tasks[i].id \in Nat
    BY <1>2, TaskDomains
  <2>2. new = [tasks[i] EXCEPT !.status = pass[g]]
    BY <2>1
  <2>3. tasks' = [tasks EXCEPT ![i] = [tasks[i] EXCEPT !.status = pass[g]]]
    BY <1>1
  <2>4. new \in D
    BY <1>2, <2>1 DEF TaskStatus
  <2> QED
    BY <2>2, <2>3, <2>4
<1> HIDE DEF D, new
<1>5. tasks \in Seq(D) /\ Len(tasks) \in Nat
  BY TaskDomains DEF D, AuditType
<1>6. /\ tasks' \in Seq(D) /\ Len(tasks') = Len(tasks) /\ tasks'[i] = new
      /\ \A j \in 1 .. Len(tasks) : j # i => tasks'[j] = tasks[j]
  BY <1>2, <1>4, <1>5, ExceptSeq
<1>7. new.id = tasks[i].id /\ new.status = pass[g]
  BY DEF new
<1>8. AuditType'
  BY <1>2, <1>3, <1>6 DEF AuditType, D
<1> QED
  BY <1>2, <1>3, <1>6, <1>7, <1>8, TaskDomains

LEMMA TasksTyped == Audits!Spec => []AuditType
<1>1. ASSUME Audits!Init PROVE AuditType
  BY <1>1, BoundsAssumption DEF Audits!Init, AuditType
<1>2. ASSUME AuditType, [Audits!Next]_(Audits!vars) PROVE AuditType'
  <2>1. CASE Audits!Tick \/ UNCHANGED Audits!vars
    BY <1>2, <2>1 DEF Audits!Tick, Audits!vars, AuditType
  <2>2. CASE Audits!RunAuditTask
    BY <1>2, <2>2, RunAppends
  <2>3. CASE Audits!CancelAuditTask
    BY <1>2, <2>3, CancelMarks
  <2>4. ASSUME NEW g \in Audits!Dispatched, Audits!PassEnds(g) \/ Audits!Record(g) PROVE AuditType'
    BY <1>2, <2>4, EndSets, RecordSets
  <2> QED
    BY <1>2, <2>1, <2>2, <2>3, <2>4 DEF Audits!Next
<1> QED
  BY <1>1, <1>2, PTL DEF Audits!Spec

LEMMA OwnRecordsHold == ASSUME PerSecond = 1 PROVE Audits!Spec => []OwnRecords
<1>1. ASSUME Audits!Init PROVE OwnRecords
  BY <1>1 DEF Audits!Init, OwnRecords
<1>2. ASSUME AuditType, OwnRecords, [Audits!Next]_(Audits!vars) PROVE OwnRecords'
  <2>0. /\ Len(tasks) \in Nat /\ DOMAIN tasks = 1 .. Len(tasks) /\ DOMAIN pass = 1 .. Len(tasks)
        /\ Audits!Dispatched = 1 .. Len(tasks) /\ now \in Nat
        /\ \A i \in 1 .. Len(tasks) : tasks[i].id \in Nat
    BY <1>2, TaskDomains DEF AuditType
  <2>1. CASE Audits!Tick \/ UNCHANGED Audits!vars
    <3>1. UNCHANGED <<tasks, pass>> /\ now' \in Nat /\ now <= now'
      BY <2>0, <2>1 DEF Audits!Tick, Audits!vars
    <3> QED
      BY <1>2, <2>0, <3>1 DEF OwnRecords
  <2>2. CASE Audits!RunAuditTask
    <3>1. /\ AuditType' /\ Len(tasks') = Len(tasks) + 1 /\ now' = now
          /\ \A i \in 1 .. Len(tasks) : tasks'[i] = tasks[i] /\ pass'[i] = pass[i]
          /\ tasks'[Len(tasks) + 1].status = "running" /\ tasks'[Len(tasks) + 1].id = now
          /\ \A i \in DOMAIN tasks : tasks[i].id # now
      BY <1>2, <2>2, RunAppends
    <3>2. /\ DOMAIN tasks' = 1 .. Len(tasks) + 1
          /\ \A i \in DOMAIN tasks' : i \in 1 .. Len(tasks) \/ i = Len(tasks) + 1
      BY <2>0, <3>1 DEF AuditType
    <3>3. "running" \notin Results
      BY ResultsAssumption
    <3> QED
      BY <1>2, <2>0, <3>1, <3>2, <3>3 DEF OwnRecords
  <2>3. CASE Audits!CancelAuditTask
    <3>1. "cancelled" \notin Results
      BY ResultsAssumption
    <3> QED
      BY <1>2, <2>3, <3>1, CancelMarks DEF OwnRecords
  <2>4. ASSUME NEW g \in Audits!Dispatched, Audits!PassEnds(g) PROVE OwnRecords'
    <3>1. pass[g] # "recorded" /\ tasks[g].status \notin Results
      BY <1>2, <2>0, <2>4, EndSets DEF OwnRecords
    <3> QED
      BY <1>2, <2>0, <2>4, <3>1, EndSets DEF OwnRecords
  <2>5. ASSUME NEW g \in Audits!Dispatched, Audits!Record(g) PROVE OwnRecords'
    <3>1. PICK i \in DOMAIN tasks :
            /\ tasks[i].id = tasks[g].id /\ tasks'[i].status = pass[g]
            /\ \A j \in DOMAIN tasks : j # i => tasks'[j] = tasks[j]
      BY <1>2, <2>5, RecordSets
    <3>2. i = g
      BY <1>2, <2>0, <3>1 DEF OwnRecords
    <3> QED
      <4>1. /\ now' = now /\ DOMAIN tasks' = DOMAIN tasks /\ pass'[g] = "recorded"
            /\ \A j \in DOMAIN tasks : tasks'[j].id = tasks[j].id
            /\ \A j \in DOMAIN tasks : j # g => tasks'[j] = tasks[j] /\ pass'[j] = pass[j]
        BY <1>2, <2>0, <2>5, <3>1, <3>2, RecordSets
      <4>2. \A j \in DOMAIN tasks : tasks'[j].status \in Results => pass'[j] = "recorded"
        BY <1>2, <4>1 DEF OwnRecords
      <4> QED
        BY <1>2, <4>1, <4>2 DEF OwnRecords
  <2> QED
    BY <1>2, <2>1, <2>2, <2>3, <2>4, <2>5 DEF Audits!Next
<1>3. Audits!Spec => []AuditType
  BY TasksTyped
<1> QED
  BY <1>1, <1>2, <1>3, PTL DEF Audits!Spec

(* A walk that is over stays over: a pass runs once. *)
LEMMA WalksEnd ==
  ASSUME IndexerInv, [Next]_vars, NEW g \in Passes, WalkIsOver(g) PROVE WalkIsOver(g)'
<1>1. runs[g] = 1 /\ at[g] = Idle /\ conn[g] = None /\ MaxRuns = 1
  BY PassesAssumption DEF WalkIsOver, IndexerInv, Pooled
<1>2. ASSUME NEW p \in Passes, PassStep(p) PROVE WalkIsOver(g)'
  <2>1. p # g
    BY <1>1, <1>2 DEF PassStep, StartRun, Begin, NodeStatement, EdgeStatement, Fails
  <2>2. at'[g] = at[g] /\ runs'[g] = runs[g]
    BY <1>2, <2>1 DEF PassStep, StartRun, Begin, NodeStatement, EdgeStatement, Fails, Finish,
       IndexerInv, IndexerType
  <2> QED
    BY <1>1, <2>2 DEF WalkIsOver, Idle
<1>3. ASSUME NEW r \in Readers, StatsBegin(r) \/ StatsEnd(r) PROVE WalkIsOver(g)'
  BY <1>1, <1>3 DEF StatsBegin, StatsEnd, WalkIsOver, Idle
<1>4. CASE UNCHANGED vars
  BY <1>1, <1>4 DEF vars, WalkIsOver, Idle
<1> QED
  BY <1>2, <1>3, <1>4 DEF Next

LEMMA ReturnedHolds == AuditSpec => []Returned
<1>1. ASSUME AuditInit PROVE Returned
  BY <1>1 DEF AuditInit, Audits!Init, Returned
<1>2. ASSUME AuditType, IndexerInv, Returned, [AuditNext]_allvars PROVE Returned'
  <2>0. /\ Len(tasks) \in Nat /\ DOMAIN pass = 1 .. Len(tasks)
        /\ Audits!Dispatched = 1 .. Len(tasks) /\ 1 .. Len(tasks) \subseteq Passes
    BY <1>2, TaskDomains
  <2>1. \A g \in DOMAIN pass : WalkIsOver(g) => WalkIsOver(g)'
    BY <1>2, <2>0, StepsOfBoth, WalksEnd
  <2>2. CASE UNCHANGED pass
    BY <1>2, <2>1, <2>2 DEF Returned
  <2>3. CASE Audits!RunAuditTask
    <3>1. /\ AuditType' /\ Len(tasks') = Len(tasks) + 1
          /\ \A i \in 1 .. Len(tasks) : pass'[i] = pass[i]
          /\ pass'[Len(tasks) + 1] = "running"
      BY <1>2, <2>3, RunAppends
    <3>2. \A i \in DOMAIN pass' : i \in 1 .. Len(tasks) \/ i = Len(tasks) + 1
      BY <2>0, <3>1 DEF AuditType
    <3> QED
      BY <1>2, <2>0, <2>1, <3>1, <3>2 DEF Returned
  <2>4. ASSUME NEW g \in Passes, Return(g) PROVE Returned'
    <3>1. g \in Audits!Dispatched /\ Audits!PassEnds(g) /\ WalkIsOver(g)
      BY <2>4 DEF Return, Dispatched
    <3> QED
      BY <1>2, <2>0, <2>1, <3>1, EndSets DEF Returned
  <2>5. ASSUME NEW g \in Passes, Record(g) PROVE Returned'
    <3>1. g \in Audits!Dispatched /\ Audits!Record(g)
      BY <2>5 DEF Record, Dispatched
    <3>2. "running" \notin Results
      BY ResultsAssumption
    <3> QED
      BY <1>2, <2>0, <2>1, <3>1, <3>2, RecordSets DEF Returned
  <2> QED
    BY <1>2, <2>2, <2>3, <2>4, <2>5
    DEF AuditNext, Handler, Walk, Status, Audits!CancelAuditTask, Audits!Tick, allvars, auditvars
<1>3. AuditSpec => []IndexerInv /\ []AuditType
  BY AuditsImplementBoth, IndexerInvHolds, TasksTyped, PTL
<1> QED
  BY <1>1, <1>2, <1>3, PTL DEF AuditSpec

(* When no two audits start within a second, what the list calls completed  *)
(* is in the database, unless the root is skipped or that audit's own pass   *)
(* lost a statement (handlers.go:359-386).                                   *)
THEOREM CompletedHasNodes == ASSUME PerSecond = 1 PROVE AuditSpec => []CompletedIsIndexed
<1>1. ASSUME IndexerInv, AuditType, OwnRecords, Returned PROVE CompletedIsIndexed
  <2> SUFFICES ASSUME NEW i \in DOMAIN tasks, tasks[i].status = "completed", ~skipped, i \notin lost,
                      NEW d \in Decls
               PROVE  ws[d].id \in graph.nodes
    BY DEF CompletedIsIndexed, Declared
  <2>1. pass[i] = "recorded" /\ i \in Passes /\ i \in DOMAIN pass
    <3>1. i \in DOMAIN pass /\ i \in Passes /\ tasks[i].status \in TaskStatus
      BY <1>1, TaskDomains
    <3>2. tasks[i].status \in Results
      BY <3>1 DEF TaskStatus
    <3> QED
      BY <1>1, <3>1, <3>2 DEF OwnRecords
  <2>2. runs[i] = 1 /\ at[i] = Idle
    BY <1>1, <2>1 DEF Returned, WalkIsOver
  <2>3. ~Ahead(i, d, 0) /\ runs[i] > 0
    BY <2>2 DEF Ahead
  <2> QED
    BY <1>1, <2>1, <2>3 DEF IndexerInv, NodesInv
<1> QED
  BY <1>1, AuditsImplementBoth, IndexerInvHolds, TasksTyped, OwnRecordsHold, ReturnedHolds, PTL

(* Then an outcome is given to the record of its own task only, when its     *)
(* pass is over (handlers.go:359-386).                                       *)
THEOREM OutcomesAreOwn == ASSUME PerSecond = 1 PROVE AuditSpec => OutcomeIsOwn
<1>1. ASSUME AuditType, OwnRecords, [Audits!Next]_(Audits!vars), NEW g \in Audits!Dispatched,
             tasks'[g].status # tasks[g].status, tasks'[g].status \in Results
      PROVE  tasks'[g].status = pass[g] /\ pass'[g] = "recorded"
  <2>0. /\ Len(tasks) \in Nat /\ DOMAIN tasks = 1 .. Len(tasks) /\ DOMAIN pass = 1 .. Len(tasks)
        /\ Audits!Dispatched = 1 .. Len(tasks)
    BY <1>1, TaskDomains
  <2>1. ~Audits!RunAuditTask
    BY <1>1, <2>0, RunAppends
  <2>2. ~Audits!CancelAuditTask
    BY <1>1, <2>0, CancelMarks, ResultsAssumption
  <2>3. PICK h \in Audits!Dispatched : Audits!Record(h)
    BY <1>1, <2>1, <2>2 DEF Audits!Next, Audits!Tick, Audits!PassEnds, Audits!vars
  <2>4. PICK i \in DOMAIN tasks :
          /\ tasks[i].id = tasks[h].id /\ tasks'[i].status = pass[h]
          /\ \A j \in DOMAIN tasks : j # i => tasks'[j] = tasks[j]
    BY <1>1, <2>3, RecordSets
  <2>5. i = h /\ i = g
    BY <1>1, <2>0, <2>4 DEF OwnRecords
  <2> QED
    BY <1>1, <2>3, <2>4, <2>5, RecordSets
<1>2. AuditSpec => [](AuditType /\ OwnRecords) /\ [][Audits!Next]_(Audits!vars)
  BY AuditsImplementBoth, TasksTyped, OwnRecordsHold, PTL DEF Audits!Spec
<1>3. AuditType /\ OwnRecords /\ [Audits!Next]_(Audits!vars) =>
        [\A g \in Audits!Dispatched :
           (tasks'[g].status # tasks[g].status /\ tasks'[g].status \in Results)
             => tasks'[g].status = pass[g] /\ pass'[g] = "recorded"]_(Audits!vars)
  BY <1>1
<1> QED
  BY <1>2, <1>3, PTL DEF OutcomeIsOwn, Audits!OutcomeIsOwn

(* Then an outcome stays as it was written, also under a cancel              *)
(* (handlers.go:364-403).                                                    *)
THEOREM OutcomesAreFinal == ASSUME PerSecond = 1 PROVE AuditSpec => OutcomeIsFinal
<1>1. ASSUME AuditType, OwnRecords, [Audits!Next]_(Audits!vars),
             NEW g \in Audits!Dispatched, tasks[g].status \in Results
      PROVE  tasks'[g].status = tasks[g].status
  <2>0. /\ Len(tasks) \in Nat /\ DOMAIN tasks = 1 .. Len(tasks) /\ DOMAIN pass = 1 .. Len(tasks)
        /\ Audits!Dispatched = 1 .. Len(tasks)
    BY <1>1, TaskDomains
  <2>1. "running" \notin Results /\ "recorded" \notin Results /\ pass[g] = "recorded"
    BY <1>1, <2>0, ResultsAssumption DEF OwnRecords
  <2>2. CASE Audits!RunAuditTask
    BY <1>1, <2>0, <2>2, RunAppends
  <2>3. CASE Audits!CancelAuditTask
    BY <1>1, <2>0, <2>1, <2>3, CancelMarks
  <2>4. ASSUME NEW h \in Audits!Dispatched, Audits!Record(h) PROVE tasks'[g].status = tasks[g].status
    <3>1. PICK i \in DOMAIN tasks :
            /\ tasks[i].id = tasks[h].id
            /\ \A j \in DOMAIN tasks : j # i => tasks'[j] = tasks[j]
      BY <1>1, <2>4, RecordSets
    <3>2. i = h /\ h # g
      BY <1>1, <2>0, <2>1, <2>4, <3>1, RecordSets DEF OwnRecords
    <3> QED
      BY <2>0, <3>1, <3>2
  <2>5. CASE UNCHANGED tasks
    BY <2>5
  <2> QED
    BY <1>1, <2>2, <2>3, <2>4, <2>5
    DEF Audits!Next, Audits!Tick, Audits!PassEnds, Audits!vars
<1>2. AuditSpec => [](AuditType /\ OwnRecords) /\ [][Audits!Next]_(Audits!vars)
  BY AuditsImplementBoth, TasksTyped, OwnRecordsHold, PTL DEF Audits!Spec
<1>3. AuditType /\ OwnRecords /\ [Audits!Next]_(Audits!vars) =>
        [\A g \in Audits!Dispatched :
           tasks[g].status \in Results => tasks'[g].status = tasks[g].status]_(Audits!vars)
  BY <1>1
<1> QED
  BY <1>2, <1>3, PTL DEF OutcomeIsFinal, Audits!OutcomeIsFinal
=============================================================================
