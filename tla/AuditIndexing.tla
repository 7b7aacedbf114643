--------------------------- MODULE AuditIndexing ---------------------------
(***************************************************************************)
(* AuditTasks and ScoutIndexer together: RunAuditTask                      *)
(* (src/endpoints/handlers.go) starts a goroutine that runs                *)
(* Pass1MapWorkspace once and then records how it ended; status requests   *)
(* and further audits go on meanwhile.  The pass of the g-th task is the   *)
(* indexer's pass g.                                                       *)
(***************************************************************************)
EXTENDS ScoutIndexer

CONSTANTS MaxTasks, MaxTime, PerSecond, Results

ASSUME BoundsAssumption == MaxTasks \in Nat /\ MaxTime \in Nat /\ PerSecond \in Nat
ASSUME PassesAssumption == Passes = 1 .. MaxTasks /\ MaxRuns = 1
ASSUME ResultsAssumption == Results \subseteq {"completed", "failed"}

VARIABLES now, tasks, pass

Audits == INSTANCE AuditTasks

auditvars == <<now, tasks, pass>>
allvars == <<vars, auditvars>>

AuditInit == Init /\ Audits!Init

Dispatched(g) == g \in Audits!Dispatched

(* GetDaemonStatus holds the read lock of stateMu while it counts, so the   *)
(* critical sections below wait for it.                                     *)
StateLockFree == \A r \in Readers : conn[r] = None

Handler == /\ \/ StateLockFree /\ (Audits!RunAuditTask \/ Audits!CancelAuditTask)
              \/ Audits!Tick
           /\ UNCHANGED vars

(* The goroutine of a task is inside Pass1MapWorkspace. *)
Walk(g) == Dispatched(g) /\ PassStep(g) /\ UNCHANGED auditvars

(* Mutant: the walk left to yet another goroutine. *)
DoesNotWait(g) == runs[g] = 1

WalkIsOver(g) == runs[g] = 1 /\ at[g] = Idle

Return(g) == Dispatched(g) /\ WalkIsOver(g) /\ Audits!PassEnds(g) /\ UNCHANGED vars

Record(g) == StateLockFree /\ Dispatched(g) /\ Audits!Record(g) /\ UNCHANGED vars

Status(r) == (StatsBegin(r) \/ StatsEnd(r)) /\ UNCHANGED auditvars

AuditNext == \/ Handler
             \/ \E g \in Passes : Walk(g) \/ Return(g) \/ Record(g)
             \/ \E r \in Readers : Status(r)

(* A goroutine goes on, and a query of GetDaemonStatus comes back.  Strong  *)
(* fairness of Record: a waiting Lock of Go's RWMutex keeps new readers out.*)
AuditFairness ==
  /\ \A g \in Passes : WF_allvars(Walk(g) \/ Return(g)) /\ SF_allvars(Record(g))
  /\ \A r \in Readers : WF_allvars(StatsEnd(r) /\ UNCHANGED auditvars)

AuditSpec == AuditInit /\ [][AuditNext]_allvars /\ AuditFairness

-----------------------------------------------------------------------------
(* Properties. *)

(* What the audit list calls completed is in the database: every declaration *)
(* of the workspace, also while other passes replace rows or lose theirs,    *)
(* unless the root is skipped or that audit's own pass lost a statement      *)
(* (handlers.go:359-386, indexer.go:43-109).                                 *)
CompletedIsIndexed ==
  \A i \in DOMAIN tasks :
    tasks[i].status = "completed" /\ ~skipped /\ i \notin lost
      => Declared \subseteq graph.nodes

(* A record that is given an outcome is given that of its own pass, and when *)
(* the pass has come back, whatever passes and cancels go on meanwhile       *)
(* (handlers.go:359-386).                                                    *)
OutcomeIsOwn == Audits!OutcomeIsOwn

(* A recorded outcome is never changed again, by another pass or a cancel    *)
(* (handlers.go:364-403).                                                    *)
OutcomeIsFinal == Audits!OutcomeIsFinal

(* No task is shown as running for ever: its walk ends, whatever the pool    *)
(* and the other passes do, and the record follows (handlers.go:359-386).    *)
EveryTaskEnds == Audits!EveryTaskEnds
=============================================================================
