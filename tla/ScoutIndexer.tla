---------------------------- MODULE ScoutIndexer ----------------------------
(***************************************************************************)
(* scout.Indexer's Pass1MapWorkspace (src/scout/indexer.go) writing the    *)
(* code graph through the connection pool of database/sql.                 *)
(*                                                                         *)
(* A workspace is the sequence of its declarations in walk order: the id   *)
(* of each and the ids it calls, in order, as extractCalleeName makes them.*)
(* A pass inserts the node of a declaration, then an edge per call, and    *)
(* goes on past a statement that fails.  The walk is over at once when the *)
(* base name of the root is one it skips: "." is, and main passes ".".     *)
(* Passes run concurrently, each started by a RunAuditTask, and so do the  *)
(* counts of GetDaemonStatus.  They meet what earlier daemons left in the  *)
(* database, which is a file that Open keeps.                              *)
(***************************************************************************)
EXTENDS CodeGraph, Naturals, Sequences

CONSTANTS Workspaces,   \* the workspaces to consider
          Stored,       \* what cpg.db may hold when the daemon starts
          Passes,       \* background passes
          Readers,      \* status requests
          SkippedRoots, \* whether the root may be a directory the walk skips
          MaxRuns       \* bound: runs of each pass

ASSUME WorkspacesAssumption == Workspaces \subseteq Seq([id : STRING, calls : Seq(STRING)])
ASSUME StoredAssumption ==
  Stored \subseteq [nodes : SUBSET STRING, edges : SUBSET (STRING \X STRING)]
ASSUME RunsAssumption == MaxRuns \in Nat
ASSUME RootsAssumption == SkippedRoots \subseteq BOOLEAN
ASSUME UsersAssumption == Passes \intersect Readers = {}

Users == Passes \union Readers

(* Bound: the connections the pool may have open at once.  The first one    *)
(* opened got the pragmas, every other one would be like the second.        *)
First == "first"
Conns == {First, "second"}
None == "none"

VARIABLES ws,      \* the workspace
          skipped, \* the walk skips the root
          graph,   \* the database
          at,      \* each pass: the declaration and the call it is at
          runs,    \* runs each pass has started
          conn,    \* the connection each user holds
          open,    \* the connections the pool has opened
          lost,    \* the passes whose last run has lost a statement
          batch,   \* the passes started since none was at work ...
          found,   \* ... what the first of them found ...
          keyless  \* ... and whether they stored anything without foreign keys

history == <<batch, found, keyless>>
vars == <<ws, skipped, graph, at, runs, conn, open, lost, history>>

Decls == 1 .. Len(ws)
Idle == <<0, 0>>

Init ==
  /\ ws \in Workspaces /\ skipped \in SkippedRoots
  /\ graph \in Stored
  /\ at = [p \in Passes |-> Idle]
  /\ runs = [p \in Passes |-> 0]
  /\ conn = [u \in Users |-> None]
  /\ open = {First}
  /\ lost = {}
  /\ batch = {} /\ found = graph /\ keyless = FALSE

-----------------------------------------------------------------------------
(* The pool: an idle connection if there is one, else a new one. *)

InUse == {conn[u] : u \in Users} \ {None}
Available == IF open \ InUse # {} THEN open \ InUse ELSE Conns \ open

Take(u) ==
  /\ conn[u] = None
  /\ \E k \in Available : conn' = [conn EXCEPT ![u] = k] /\ open' = open \union {k}

HasForeignKeys(u) == conn[u] = First

Working == {p \in Passes : at[p] # Idle}

StartRun(p) ==
  /\ at[p] = Idle /\ runs[p] < MaxRuns
  /\ at' = [at EXCEPT ![p] = IF skipped \/ ws = <<>> THEN Idle ELSE <<1, 0>>]
  /\ runs' = [runs EXCEPT ![p] = @ + 1]
  /\ lost' = lost \ {p}
  /\ IF Working = {}
     THEN batch' = {p} /\ found' = graph /\ keyless' = FALSE
     ELSE batch' = batch \union {p} /\ UNCHANGED <<found, keyless>>
  /\ UNCHANGED <<ws, skipped, graph, conn, open>>

Begin(p) ==
  /\ at[p] # Idle
  /\ Take(p)
  /\ UNCHANGED <<ws, skipped, graph, at, runs, lost, history>>

(* Mutant: the last call of every function left out. *)
OneCallShort(i, j) ==
  IF j + 1 < Len(ws[i].calls) THEN <<i, j + 1>>
  ELSE IF i < Len(ws) THEN <<i + 1, 0>> ELSE Idle

(* The next statement of the walk. *)
After(i, j) ==
  IF j < Len(ws[i].calls) THEN <<i, j + 1>>
  ELSE IF i < Len(ws) THEN <<i + 1, 0>> ELSE Idle

Finish(p) ==
  /\ at' = [at EXCEPT ![p] = After(at[p][1], at[p][2])]
  /\ conn' = [conn EXCEPT ![p] = None]
  /\ UNCHANGED <<ws, skipped, runs, open, batch, found>>

NodeStatement(p) ==
  /\ conn[p] # None /\ at[p][2] = 0
  /\ graph' = InsertNode(graph, ws[at[p][1]].id, HasForeignKeys(p))
  /\ keyless' = (keyless \/ ~HasForeignKeys(p))
  /\ UNCHANGED lost
  /\ Finish(p)

EdgeStatement(p) ==
  /\ conn[p] # None /\ at[p][2] > 0
  /\ LET d == ws[at[p][1]]
     IN  graph' = InsertEdge(graph, <<d.id, d.calls[at[p][2]]>>, HasForeignKeys(p))
  /\ keyless' = (keyless \/ ~HasForeignKeys(p))
  /\ UNCHANGED lost
  /\ Finish(p)

(* A statement fails, as on a database busy for longer than the connection *)
(* waits, a full disk or an I/O error.  It is lost, and the pass goes on.    *)
Fails(p) ==
  /\ conn[p] # None
  /\ lost' = lost \union {p}
  /\ UNCHANGED <<graph, keyless>>
  /\ Finish(p)

(* Stats: a query takes a connection and gives it back. *)
StatsBegin(r) == Take(r) /\ UNCHANGED <<ws, skipped, graph, at, runs, lost, history>>

StatsEnd(r) ==
  /\ conn[r] # None
  /\ conn' = [conn EXCEPT ![r] = None]
  /\ UNCHANGED <<ws, skipped, graph, at, runs, open, lost, history>>

PassStep(p) == StartRun(p) \/ Begin(p) \/ NodeStatement(p) \/ EdgeStatement(p) \/ Fails(p)

Next == \/ \E p \in Passes : PassStep(p)
        \/ \E r \in Readers : StatsBegin(r) \/ StatsEnd(r)

Spec == Init /\ [][Next]_vars

-----------------------------------------------------------------------------
(* Properties. *)

Declared == {ws[i].id : i \in Decls}

Calls == UNION {{<<ws[i].id, ws[i].calls[k]>> : k \in DOMAIN ws[i].calls} : i \in Decls}

(* Passes have run, and none is at work. *)
Quiet == Working = {} /\ batch # {}

(* The last run of each of them stored all its statements. *)
Clean == batch \intersect lost = {}

(* The call e is made by a declaration after which neither end is declared  *)
(* again, and its target was found in the graph or is declared no later.    *)
CalledLast(e) ==
  \E i \in Decls :
    /\ ws[i].id = e[1]
    /\ \E k \in DOMAIN ws[i].calls : ws[i].calls[k] = e[2]
    /\ e[2] \in found.nodes \/ \E k \in 1 .. i : ws[k].id = e[2]
    /\ \A k \in i + 1 .. Len(ws) : ~Touches(e, ws[k].id)

(* Whatever the database held and whatever earlier passes lost, passes that  *)
(* overlap do not lose those calls on any connections, unless one of them    *)
(* lost a statement since: the cascade of a REPLACE in one takes away what   *)
(* the other inserted, and the other or it inserts it again                  *)
(* (indexer.go:198-231, db.go:86-109).                                       *)
OverlapKeepsCalls ==
  (Quiet /\ ~skipped /\ Clean) => \A e \in Calls : CalledLast(e) => e \in graph.edges

(* Hung in the air when the passes began, at each end the workspace declares. *)
FoundHanging(e) ==
  e \in found.edges /\ \A d \in Declared : Touches(e, d) => d \notin found.nodes

(* No statement of the code removes what the workspace no longer says; the   *)
(* cascades do, where they reach.  After passes that stored all they had on  *)
(* the connection with the pragmas, an edge at a declared function is a call *)
(* of the workspace, also if an earlier daemon or a pass that failed left    *)
(* the function with others, but for an edge that was found without the      *)
(* function itself (indexer.go:198-231, db.go:57-62, 86-109).                *)
NoStaleCalls ==
  (Quiet /\ ~skipped /\ Clean /\ ~keyless) =>
    \A e \in graph.edges, d \in Declared :
      Touches(e, d) => (e \in Calls /\ CalledLast(e)) \/ FoundHanging(e)

(* "walks the codebase, parses Go ASTs, and inserts function/type/variable   *)
(* nodes [...] into the CPG database" (indexer.go:40-42): the declarations   *)
(* are there after a pass in which no statement failed.                      *)
EveryDeclarationHasNode == (Quiet /\ Clean) => Declared \subseteq graph.nodes
=============================================================================
