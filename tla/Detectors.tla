----------------------------- MODULE Detectors -----------------------------
(***************************************************************************)
(* The two detectors of repeated tool calls: that of the daemon's own loop *)
(* and that of the LLM client.  They have only the configuration in        *)
(* common, so a behaviour follows one of them, the detector, and the other *)
(* one rests in one of its initial states.                                 *)
(***************************************************************************)
EXTENDS AgentLoop

CONSTANTS ClientWindows, Sigs, Limits, MaxBatch, MaxChecks   \* of DoomLoop

(* The fields are ints; nothing checks what they hold. *)
ASSUME ClientAssumption == ClientWindows \subseteq Int /\ Limits \subseteq Int

VARIABLES detector, clientWindow, limit, calls, warnings, said, batches

clientVars == <<clientWindow, limit, calls, warnings, said, batches>>

Client == INSTANCE DoomLoop WITH Windows <- ClientWindows, window <- clientWindow, history <- calls

DetectorInit ==
  /\ detector \in {"client", "loop"}
  /\ Client!Init /\ Init
  /\ detector = "client" => window = 3
  /\ detector = "loop" => clientWindow = 3 /\ limit \in {l \in Limits : \A m \in Limits : l <= m}

ClientNext == detector = "client" /\ Client!Next /\ UNCHANGED <<detector, vars>>

LoopNext == detector = "loop" /\ Next /\ UNCHANGED <<detector, clientVars>>

DetectorSpec == DetectorInit /\ [][ClientNext \/ LoopNext]_<<detector, clientVars, vars>>

-----------------------------------------------------------------------------
(* Properties, as the modules state and explain them; PauseIsEarned and     *)
(* NoticedInTime are those of AgentLoop.                                     *)

(* The client warns of repetitions and of nothing else (client.go:229-268).  *)
WarnsOnRepetition == Client!WarnsOnRepetition

(* The client's hard stop follows that many warnings (client.go:259-272).    *)
HardStopIsEarned == Client!HardStopIsEarned
=============================================================================
