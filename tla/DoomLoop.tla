------------------------------ MODULE DoomLoop ------------------------------
(***************************************************************************)
(* The doom-loop detector of src/llm/client.go.  Every answer of the model *)
(* carries a batch of tool calls; Complete hands it to checkDoomLoop, one  *)
(* critical section, which appends the batch to the history, trims that to *)
(* a window and warns when all calls in it are the same.                   *)
(***************************************************************************)
EXTENDS Integers, Sequences, SequencesExt

CONSTANTS Sigs,       \* signatures of tool calls: name and arguments
          Windows,    \* what DoomLoop.ToolHistoryWindow may be, an integer: nothing checks it
          Limits,     \* what DoomLoop.HardIterationLimit may be
          MaxBatch,   \* bound: tool calls of one answer
          MaxChecks   \* bound: answers

VARIABLES window,     \* DoomLoopState.windowSize, which NewClient copies
          limit,      \* DoomLoop.HardIterationLimit, which is read at every check
          history,    \* DoomLoopState.history
          warnings,   \* DoomLoopState.warningCount
          said,       \* what the last Complete appended to its answer
          batches     \* every answer since the last reset: all calls up to its own,
                      \* whether it had any, what was said, and the limit at that time

vars == <<window, limit, history, warnings, said, batches>>

Batches == UNION {[1 .. n -> Sigs] : n \in 0 .. MaxBatch}

Init ==
  /\ window \in Windows /\ limit \in Limits
  /\ history = <<>> /\ warnings = 0 /\ said = "nothing" /\ batches = <<>>

(* Mutant: the oldest calls are kept. *)
TrimNewest(h) == SubSeq(h, 1, IF Len(h) > window THEN window ELSE Len(h))

(* With a window below zero all calls go, and then the trimming panics.    *)
Trim(h) ==
  IF Len(h) <= window THEN h
  ELSE IF window >= 0 THEN SubSeq(h, Len(h) - window + 1, Len(h)) ELSE <<>>

AllIdentical(h) == Len(h) = window /\ \A i \in DOMAIN h : h[i] = h[1]

(* A warning quotes the first call of the history, which is not there if   *)
(* the window is empty.                                                    *)
Verdict(h, count) ==
  IF count >= limit THEN "hard stop" ELSE IF h # <<>> THEN "warning" ELSE "panic"

(* Mutant: the count is never reset. *)
CountUp(h) == IF AllIdentical(h) THEN warnings + 1 ELSE warnings

NextCount(h) ==
  IF window < 0 THEN warnings ELSE IF AllIdentical(h) THEN warnings + 1 ELSE 0

Said(h, count) ==
  IF window < 0 THEN "panic" ELSE IF AllIdentical(h) THEN Verdict(h, count) ELSE "nothing"

(* All calls since the last reset. *)
Talk == IF batches = <<>> THEN <<>> ELSE Last(batches).talk

(* An answer without tool calls is not checked. *)
Complete(calls) ==
  /\ Len(batches) < MaxChecks
  /\ IF calls = <<>>
     THEN UNCHANGED <<history, warnings>> /\ said' = "nothing"
     ELSE /\ history' = Trim(history \o calls)
          /\ warnings' = NextCount(history')
          /\ said' = Said(history', warnings')
  /\ batches' = Append(batches, [talk |-> Talk \o calls, checked |-> calls # <<>>,
                                  said |-> said', limit |-> limit])
  /\ UNCHANGED <<window, limit>>

ResetDoomLoop ==
  /\ history' = <<>> /\ warnings' = 0
  /\ batches' = <<>>
  /\ UNCHANGED <<window, limit, said>>

(* PUT /api/config changes the configuration that the client points to.    *)
UpdateConfig == limit' \in Limits /\ UNCHANGED <<window, history, warnings, said, batches>>

Next == ResetDoomLoop \/ UpdateConfig \/ \E calls \in Batches : Complete(calls)

Spec == Init /\ [][Next]_vars

-----------------------------------------------------------------------------
(* Properties.  They speak of the whole conversation, not of the window.    *)

Checked(k) == batches[k].checked

(* The calls up to answer k end in as many equal ones as the window takes. *)
EndsInLoop(k) ==
  LET c == batches[k].talk IN
    /\ Len(c) >= window
    /\ \A i \in Len(c) - window + 1 .. Len(c) : c[i] = Last(c)

(* An answer is commented on if and only if the last tool calls of the      *)
(* conversation, as many as the window takes, are the same, however they     *)
(* were batched.  With a window of zero or less, which no check keeps out of *)
(* the configuration, and with no other, the detector panics                 *)
(* (client.go:229-268).                                                      *)
WarnsOnRepetition ==
  \A k \in DOMAIN batches :
    /\ batches[k].said = "panic" => window <= 0
    /\ Checked(k) /\ window >= 0 => (batches[k].said # "nothing" <=> EndsInLoop(k))

(* The checks of the warnings in a row that answer k is the last of. *)
Streak(k) == {j \in 1 .. k : Checked(j) /\ \A i \in j .. k : Checked(i) => EndsInLoop(i)}

(* The hard stop is for as many warnings in a row as the limit says at that  *)
(* time, and not fewer: a check in between that saw no loop starts the count *)
(* anew (client.go:259-272).                                                 *)
HardStopIsEarned ==
  \A k \in DOMAIN batches :
    batches[k].said = "hard stop" <=>
      /\ window >= 0 /\ Checked(k) /\ EndsInLoop(k)
      /\ batches[k].limit <= Cardinality(Streak(k))
=============================================================================
