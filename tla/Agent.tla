-------------------------------- MODULE Agent --------------------------------
(***************************************************************************)
(* What an agent of the daemon is built from: the ADaPT controller, which  *)
(* takes a task apart, and the two detectors, which stop an agent that     *)
(* repeats itself.  No code connects them, so a behaviour follows either   *)
(* the controller or a detector while the others rest where they begin.    *)
(***************************************************************************)
EXTENDS Detectors

CONSTANTS Calls, MaxDepth, MaxAttempts, MaxPlan    \* of AdaptController

(* NewController takes ints; a plan has as many sub-tasks as a slice. *)
ASSUME LimitsAssumption == MaxDepth \in Int /\ MaxAttempts \in Int /\ MaxPlan \in Nat

VARIABLES subject, counter, root, tasks, where, cur, left

Controller == INSTANCE AdaptController WITH pc <- where

controllerVars == <<counter, root, tasks, where, cur, left>>
detectorVars == <<detector, clientVars, vars>>
agentVars == <<subject, controllerVars, detectorVars>>

AgentInit ==
  /\ subject \in {"controller", "detector"}
  /\ Controller!Init /\ DetectorInit
  /\ subject = "controller" => detector = "loop" /\ window = 3

DetectorsRest == subject = "controller" /\ UNCHANGED <<subject, detectorVars>>

BeginCall(e) == Controller!Execute(e) /\ DetectorsRest
GoOn(e) == Controller!Step(e) /\ DetectorsRest

DetectorMoves ==
  subject = "detector" /\ (ClientNext \/ LoopNext) /\ UNCHANGED <<subject, controllerVars>>

AgentNext == DetectorMoves \/ \E e \in Calls : BeginCall(e) \/ GoOn(e)

(* Executor and planner return, so a call that has begun goes on. *)
AgentSpec ==
  AgentInit /\ [][AgentNext]_agentVars /\ \A e \in Calls : WF_agentVars(GoOn(e))

-----------------------------------------------------------------------------
(* Properties, as the modules state and explain them; those of the detectors *)
(* are named in Detectors and AgentLoop.                                     *)

(* The tasks shown as running are the call stack (orchestrator.go:113-206).  *)
RunningIsTheStack == Controller!RunningIsTheStack

(* A task's outcome is what its composition makes of its children's          *)
(* (orchestrator.go:209-272).                                                *)
OutcomesCompose == Controller!OutcomesCompose

(* The recursion ends, whatever executor and planner answer                  *)
(* (orchestrator.go:149-157).                                                *)
ExecuteEnds == Controller!ExecuteEnds
=============================================================================
