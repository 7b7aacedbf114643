----------------------------- MODULE AuditTasks -----------------------------
(***************************************************************************)
(* The audit tasks of src/endpoints/handlers.go: RunAuditTask appends a    *)
(* record and starts a background pass, whose end is written back to the   *)
(* first record with the task's id; CancelAuditTask marks records but      *)
(* stops no pass.  An id is the wall clock in whole seconds.  Every        *)
(* handler, and the pass's last step, is one critical section of stateMu.  *)
(***************************************************************************)
EXTENDS Naturals, Sequences, FiniteSets

CONSTANTS MaxTasks,    \* bound: audits started
          MaxTime,     \* bound: seconds
          PerSecond,   \* bound: audits a client starts within one second
          Results      \* how a pass may end: "completed", or "failed" with an error

VARIABLES now,         \* the clock, in seconds
          tasks,       \* Handlers.activeTasks: id and status
          pass         \* the background pass of each task

vars == <<now, tasks, pass>>

Ended == Results \union {"cancelled"}

Dispatched == 1 .. Len(tasks)

Init == now = 0 /\ tasks = <<>> /\ pass = <<>>

Tick == now < MaxTime /\ now' = now + 1 /\ UNCHANGED <<tasks, pass>>

(* The position of the task is remembered by the model only, to name its pass. *)
RunAuditTask ==
  /\ Len(tasks) < MaxTasks
  /\ Cardinality({i \in Dispatched : tasks[i].id = now}) < PerSecond
  /\ tasks' = Append(tasks, [id |-> now, status |-> "running"])
  /\ pass' = Append(pass, "running")
  /\ UNCHANGED now

(* Pass1MapWorkspace returns, with or without an error. *)
PassEnds(g) ==
  /\ pass[g] = "running"
  /\ \E o \in Results : pass' = [pass EXCEPT ![g] = o]
  /\ UNCHANGED <<now, tasks>>

(* Mutant: the first record, whatever its id. *)
AnyRecord(g, i) == i = 1

(* Mutant: the newest record, whatever its id. *)
NewestRecord(g, i) == i = Len(tasks)

IsFirstRecord(g, i) ==
  /\ tasks[i].id = tasks[g].id
  /\ \A j \in 1 .. i - 1 : tasks[j].id # tasks[g].id

(* The outcome overwrites whatever status the first record of that id has. *)
Record(g) ==
  /\ pass[g] \in Results
  /\ \E i \in Dispatched : /\ IsFirstRecord(g, i)
                           /\ tasks' = [tasks EXCEPT ![i].status = pass[g]]
  /\ pass' = [pass EXCEPT ![g] = "recorded"]
  /\ UNCHANGED now

(* Mutant: every record is marked, not the running ones only. *)
MarkAll(i) == "cancelled"

Cancelled(i) == IF tasks[i].status = "running" THEN "cancelled" ELSE tasks[i].status

CancelAuditTask ==
  /\ \E i \in Dispatched : tasks[i].status = "running"
  /\ tasks' = [i \in Dispatched |-> [tasks[i] EXCEPT !.status = Cancelled(i)]]
  /\ UNCHANGED <<now, pass>>

Next == \/ Tick \/ RunAuditTask \/ CancelAuditTask
        \/ \E g \in Dispatched : PassEnds(g) \/ Record(g)

Spec == Init /\ [][Next]_vars

(* A pass over a finite tree ends, and then gets the mutex. *)
Fairness == \A g \in 1 .. MaxTasks : WF_vars(g \in Dispatched /\ (PassEnds(g) \/ Record(g)))

LiveSpec == Spec /\ Fairness

-----------------------------------------------------------------------------
(* Properties. *)

(* A record that is given an outcome is given that of its own pass, and when *)
(* the pass has come back, whatever passes and cancels go on meanwhile       *)
(* (handlers.go:359-386).                                                    *)
OutcomeIsOwn ==
  [][\A g \in Dispatched :
       (tasks'[g].status # tasks[g].status /\ tasks'[g].status \in Results)
         => tasks'[g].status = pass[g] /\ pass'[g] = "recorded"]_vars

(* A recorded outcome is never changed again, by another pass or a cancel    *)
(* (handlers.go:364-403).                                                    *)
OutcomeIsFinal ==
  [][\A g \in Dispatched :
       tasks[g].status \in Results => tasks'[g].status = tasks[g].status]_vars

(* "Terminate currently running audit process", "cancels the currently       *)
(* active audit", "Force termination and rollback" (handlers.go:100, 391,    *)
(* 627): an audit shown as cancelled does not complete after all.            *)
CancelIsFinal ==
  [][\A g \in Dispatched :
       tasks[g].status = "cancelled" => tasks'[g].status = "cancelled"]_vars

(* No task is shown as running for ever (handlers.go:27-30, 359-386).        *)
EveryTaskEnds ==
  \A g \in 1 .. MaxTasks :
    (g \in Dispatched /\ tasks[g].status = "running")
      ~> (g \in Dispatched /\ tasks[g].status \in Ended)
=============================================================================
