--------------------------- MODULE AdaptController ---------------------------
(***************************************************************************)
(* The ADaPT controller of src/adapt/orchestrator.go: Execute runs a task  *)
(* with the executor and, when that fails, asks the planner for sub-tasks  *)
(* and runs those in turn, recursively.  The call stack of executeTask is  *)
(* the path from the root to cur[e].  Calls of Execute on one controller   *)
(* share its task counter; the mutex covers single accesses to it.         *)
(*                                                                         *)
(* t.Attempts is not kept: executeTask runs once per task, so the counter  *)
(* is 1 at the only place that reads it.                                   *)
(***************************************************************************)
EXTENDS Naturals, Sequences, FiniteSetsExt

CONSTANTS Calls,         \* calls of Execute
          MaxDepth,      \* Controller.maxDepth
          MaxAttempts,   \* Controller.maxAttempts
          MaxPlan        \* bound: sub-tasks of one plan

VARIABLES counter,       \* Controller.taskCounter
          root,          \* Controller.root: the call whose tree Root() returns
          tasks,         \* of each call, its tasks in the order of their creation
          pc,            \* of each call, what it does next
          cur,           \* of each call, the task it is at
          left           \* of each call, sub-tasks still to be created

vars == <<counter, root, tasks, pc, cur, left>>

Ended == {"success", "failed"}
Init ==
  /\ counter = 0
  /\ root = {}
  /\ tasks = [e \in Calls |-> <<>>]
  /\ pc = [e \in Calls |-> "idle"]
  /\ cur = [e \in Calls |-> 0]
  /\ left = [e \in Calls |-> 0]

Current(e) == tasks[e][cur[e]]
ChildrenOf(e, i) == {j \in DOMAIN tasks[e] : tasks[e][j].parent = i}
Waiting(e, i) == {j \in ChildrenOf(e, i) : tasks[e][j].status = "pending"}

Goto(e, where) == pc' = [pc EXCEPT ![e] = where]

(* executeTask(t) is called: the task runs, its executor is next. *)
StartTask(e, i) ==
  /\ tasks' = [tasks EXCEPT ![e][i].status = "running"]
  /\ cur' = [cur EXCEPT ![e] = i]
  /\ Goto(e, "attempt")

(* Mutant: the task's status is left alone. *)
LeaveTask(e, i, status) ==
  /\ tasks' = tasks
  /\ cur' = [cur EXCEPT ![e] = i]
  /\ Goto(e, "return")

(* Mutant: the stack is not unwound. *)
StayAtChild(e, i, status) ==
  /\ tasks' = [tasks EXCEPT ![e][i].status = status]
  /\ cur' = cur
  /\ Goto(e, "return")

(* executeTask(t) returns. *)
EndTask(e, i, status) ==
  /\ tasks' = [tasks EXCEPT ![e][i].status = status]
  /\ cur' = [cur EXCEPT ![e] = i]
  /\ Goto(e, "return")

NewTask(e, parent, depth, op) ==
  /\ counter' = counter + 1
  /\ tasks' = [tasks EXCEPT ![e] = Append(@, [id |-> <<counter + 1, depth>>, parent |-> parent,
                                              depth |-> depth, status |-> "pending", op |-> op])]

Execute(e) ==
  /\ pc[e] = "idle"
  /\ counter' = 0
  /\ Goto(e, "root")
  /\ UNCHANGED <<root, tasks, cur, left>>

(* A caller may make the root an OR (orchestrator_test.go does). *)
NewRoot(e) ==
  /\ pc[e] = "root"
  /\ \E op \in {"AND", "OR"} : NewTask(e, 0, 0, op)
  /\ Goto(e, "publish")
  /\ UNCHANGED <<root, cur, left>>

Publish(e) ==
  /\ pc[e] = "publish"
  /\ root' = {e}
  /\ StartTask(e, 1)
  /\ UNCHANGED <<counter, left>>

ExecutorSucceeds(e) ==
  /\ pc[e] = "attempt"
  /\ EndTask(e, cur[e], "success")
  /\ UNCHANGED <<counter, root, left>>

Exhausted(t) == t.depth >= MaxDepth \/ 1 > MaxAttempts

ExecutorFails(e) ==
  /\ pc[e] = "attempt"
  /\ IF Exhausted(Current(e))
     THEN EndTask(e, cur[e], "failed")
     ELSE Goto(e, "plan") /\ UNCHANGED <<tasks, cur>>
  /\ UNCHANGED <<counter, root, left>>

(* The planner returns an error, or an empty plan. *)
NoPlan(e) ==
  /\ pc[e] = "plan"
  /\ EndTask(e, cur[e], "failed")
  /\ UNCHANGED <<counter, root, left>>

Plan(e) ==
  /\ pc[e] = "plan"
  /\ \E n \in 1 .. MaxPlan : left' = [left EXCEPT ![e] = n]
  /\ Goto(e, "spawn")
  /\ UNCHANGED <<counter, root, tasks, cur>>

SpawnChild(e) ==
  /\ pc[e] = "spawn" /\ left[e] > 0
  /\ NewTask(e, cur[e], Current(e).depth + 1, "AND")
  /\ left' = [left EXCEPT ![e] = @ - 1]
  /\ UNCHANGED <<root, pc, cur>>

FirstChild(e) ==
  /\ pc[e] = "spawn" /\ left[e] = 0
  /\ StartTask(e, Min(Waiting(e, cur[e])))
  /\ UNCHANGED <<counter, root, left>>

(* Mutant: the parent's composition is ignored. *)
DecidesAsAnd(op, status) == status = "failed"

(* The child's outcome settles its parent's, whatever comes after it. *)
Decides(op, status) == \/ op = "AND" /\ status = "failed"
                       \/ op = "OR" /\ status = "success"

(* The loop of executeAND or executeOR gets a child back: it ends the      *)
(* parent, with the status of its last child, or tries the next one.       *)
ChildReturns(e) ==
  LET parent == Current(e).parent  status == Current(e).status IN
  /\ pc[e] = "return" /\ parent # 0
  /\ IF Decides(tasks[e][parent].op, status) \/ Waiting(e, parent) = {}
     THEN EndTask(e, parent, status)
     ELSE StartTask(e, Min(Waiting(e, parent)))
  /\ UNCHANGED <<counter, root, left>>

RootReturns(e) ==
  /\ pc[e] = "return" /\ Current(e).parent = 0
  /\ Goto(e, "done")
  /\ UNCHANGED <<counter, root, tasks, cur, left>>

Step(e) == \/ NewRoot(e) \/ Publish(e) \/ ExecutorSucceeds(e) \/ ExecutorFails(e)
           \/ NoPlan(e) \/ Plan(e) \/ SpawnChild(e) \/ FirstChild(e)
           \/ ChildReturns(e) \/ RootReturns(e)

Next == \E e \in Calls : Execute(e) \/ Step(e)

Spec == Init /\ [][Next]_vars

(* A call that has begun goes on: executor and planner return. *)
LiveSpec == Spec /\ \A e \in Calls : WF_vars(Step(e))

-----------------------------------------------------------------------------
(* Properties. *)

OnStack(e, i) == tasks[e][i].status = "running"

(* The tasks shown as running are those on the call stack: the task at hand  *)
(* (unless it just ended), its parent, and so on to the root, one of each    *)
(* depth (orchestrator.go:113-206).                                          *)
RunningIsTheStack ==
  \A e \in Calls :
    /\ pc[e] \in {"attempt", "plan", "spawn"} => OnStack(e, cur[e])
    /\ pc[e] = "return" => ~OnStack(e, cur[e])
    /\ pc[e] = "done" => \A i \in DOMAIN tasks[e] : ~OnStack(e, i)
    /\ \A i, j \in DOMAIN tasks[e] :
         /\ OnStack(e, i) /\ tasks[e][i].parent # 0 => OnStack(e, tasks[e][i].parent)
         /\ OnStack(e, i) /\ OnStack(e, j) /\ tasks[e][i].depth = tasks[e][j].depth => i = j

(* The outcome of a decomposed task is what its composition makes of its     *)
(* children's: an AND succeeds when all did, an OR when one did, and nothing *)
(* is run after the child that settled it (orchestrator.go:209-272).         *)
OutcomesCompose ==
  \A e \in Calls : \A i \in DOMAIN tasks[e] :
    LET t == tasks[e][i]
        Having(s) == {j \in ChildrenOf(e, i) : tasks[e][j].status = s}
    IN t.status \in Ended /\ ChildrenOf(e, i) # {} =>
         /\ Having("running") = {}
         /\ t.op = "AND" => /\ t.status = "success" <=> Having("success") = ChildrenOf(e, i)
                            /\ t.status = "failed" <=> Cardinality(Having("failed")) = 1
         /\ t.op = "OR" => /\ t.status = "success" <=> Cardinality(Having("success")) = 1
                           /\ t.status = "failed" <=> Having("failed") = ChildrenOf(e, i)
         /\ \A j \in Having("pending"), k \in Having("success") \union Having("failed") : k < j

(* The recursion ends, whatever executor and planner answer, because the     *)
(* depth is limited (orchestrator.go:149-157).                               *)
ExecuteEnds == \A e \in Calls : pc[e] = "root" ~> pc[e] = "done"
=============================================================================
