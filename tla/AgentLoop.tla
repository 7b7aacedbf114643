----------------------------- MODULE AgentLoop -----------------------------
(***************************************************************************)
(* simulateAgentLoop of src/main.go: the loop that main runs after the     *)
(* servers are up.  Each step records its tool call in the history and     *)
(* looks for a repetition.  Both read DoomLoop.ToolHistoryWindow of the    *)
(* shared configuration, which requests change meanwhile.                  *)
(***************************************************************************)
EXTENDS Integers, Sequences

CONSTANTS Windows,    \* what DoomLoop.ToolHistoryWindow may be: nothing checks it
          LastStep    \* the loop ends after this step, 90

ASSUME LoopAssumption == Windows \subseteq Int /\ LastStep \in Nat \ {0}

VARIABLES window,     \* DoomLoop.ToolHistoryWindow
          step,
          history,    \* the calls that are remembered
          pc,         \* "record", "judge", "paused" or "over"
          settled,    \* how many steps have recorded since the window was changed
          shrunk      \* the window was set below the length of the history, last time

vars == <<window, step, history, pc, settled, shrunk>>

Running == pc \in {"record", "judge"}

Init ==
  /\ window \in Windows
  /\ step = 1 /\ history = <<>> /\ pc = "record"
  /\ settled = 0 /\ shrunk = FALSE

(* getSimulatedToolCall. *)
Call(s) == IF s >= 3 THEN "config.go" ELSE "go.mod"

(* Mutant: one call less is remembered. *)
TrimEarly(h) == IF Len(h) >= window THEN Tail(h) ELSE h

(* One call goes at a time. *)
Trim(h) == IF Len(h) > window THEN Tail(h) ELSE h

Record ==
  /\ pc = "record"
  /\ history' = Trim(Append(history, Call(step)))
  /\ pc' = "judge"
  /\ settled' = settled + 1
  /\ UNCHANGED <<window, step, shrunk>>

(* Mutant: the comparison starts one call too late. *)
AlikeButTheFirst(h) == \A i \in 3 .. Len(h) : h[i] = h[2]

Alike(h) == \A i \in 2 .. Len(h) : h[i] = h[1]

Judge ==
  /\ pc = "judge"
  /\ IF Len(history) = window /\ Alike(history)
       THEN pc' = "paused" /\ UNCHANGED step
       ELSE IF step = LastStep THEN pc' = "over" /\ UNCHANGED step
                               ELSE pc' = "record" /\ step' = step + 1
  /\ UNCHANGED <<window, history, settled, shrunk>>

UpdateConfig ==
  /\ Running
  /\ \E w \in Windows \ {window} : window' = w /\ shrunk' = (w < Len(history))
  /\ settled' = 0
  /\ UNCHANGED <<step, history, pc>>

Next == Record \/ Judge \/ UpdateConfig

Spec == Init /\ [][Next]_vars

-----------------------------------------------------------------------------
(* Properties. *)

(* The loop is paused for a repetition only: the last calls, as many as the  *)
(* window took when they were counted, are the same, however the window was  *)
(* changed on the way (main.go:165-188).                                     *)
PauseIsEarned ==
  pc = "paused" =>
    /\ Len(history) <= step
    /\ \A s \in step - Len(history) + 1 .. step : Call(s) = Call(step)

(* A repetition as long as the window does not go on unnoticed once the      *)
(* window has been left alone for that many steps, unless it was set below   *)
(* the calls remembered at the time: as only one call is dropped a step, the *)
(* history is then longer than the window for good (main.go:169-190).        *)
NoticedInTime ==
  ~ (/\ pc = "record" /\ ~shrunk
     /\ window \in 1 .. settled
     /\ \A s \in step - window .. step - 1 : Call(s) = Call(step - 1))
=============================================================================
