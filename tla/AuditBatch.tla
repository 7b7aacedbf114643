---------------------------- MODULE AuditBatch ----------------------------
(***************************************************************************)
(* The overnight batch: invocations of run_audits.sh, some of them through *)
(* retry_failed.sh, over one results directory.  An invocation takes the   *)
(* flock of a lock file, then walks the tasks in order: it skips those     *)
(* with a valid report, runs hermes for the others and moves what hermes   *)
(* wrote in place when output_is_valid accepts it.  Scripts can be killed; *)
(* hermes inherits the locked descriptor and may outlive its script.  The  *)
(* user follows the advice "If stale: rm -f" when no script is running.    *)
(* What a file holds is its number of lines and whether the greps of       *)
(* output_is_valid find it sound.                                          *)
(***************************************************************************)
EXTENDS Integers, FiniteSets

CONSTANTS
    Runs,               \* invocations, by process id
    Tasks,              \* length of ORDER
    Options,            \* what the command line and the configuration say
    MinOutputLines,
    MaxRetries,
    Answers,            \* what hermes may leave in its output file
    MaxCrashes,         \* bound: scripts killed
    MaxRemovals,        \* bound: times the user removes the lock file
    Absent              \* no such file

ASSUME BatchAssumption ==
    /\ Tasks \in Nat \ {0}
    /\ MinOutputLines \in Nat
    /\ MaxRetries \in Nat
    /\ Options \subseteq [only : 0..Tasks, resume : BOOLEAN, goOn : BOOLEAN,
                          dryRun : BOOLEAN, savePartial : BOOLEAN, retry : BOOLEAN]
    /\ Answers \subseteq [lines : Nat, sound : BOOLEAN]
    /\ Absent \notin Answers
    /\ MaxCrashes \in Nat /\ MaxRemovals \in Nat

VARIABLES
    pc,         \* where each script is
    opt,        \* its options
    idx,        \* the task it is at
    attempt,
    failed,     \* fail > 0
    exitCode,
    held,       \* the lock file's inode its descriptor 200 has locked, or 0
    fd,         \* the inode its descriptor 200 is open on
    hermes,     \* whether its hermes is running
    tmp,        \* <output>.tmp.$$
    output,     \* <task>.md
    attempts,   \* <task>.attempt<n>.md
    partial,    \* <task>.partial.md
    lockFile,   \* the inode LOCK_FILE names, or 0
    removals, crashes,
    overtaken   \* a report was put where the sweep of each script is about to remove one

script == <<pc, opt, idx, attempt, failed, exitCode>>
lock   == <<held, fd, lockFile, removals>>
files  == <<output, attempts, partial>>
aux    == <<crashes, overtaken>>
vars   == <<script, lock, files, hermes, tmp, aux>>

Attempt == 1..(MaxRetries + 1)
Places  == {"none", "sweep", "remove", "open", "flock", "locked", "main", "wait", "again",
            "judge", "keep", "summary", "ended", "killed"}
Inodes  == 1..(MaxRemovals + 1)
File    == Answers \cup {Absent}

Lines(f) == IF f = Absent THEN 0 ELSE f.lines

OutputIsValid(f) == f # Absent /\ Lines(f) >= MinOutputLines /\ f.sound

Init ==
    /\ pc       = [r \in Runs |-> "none"]
    /\ opt      \in [Runs -> Options]
    /\ idx      = [r \in Runs |-> 1]
    /\ attempt  = [r \in Runs |-> 1]
    /\ failed   = [r \in Runs |-> FALSE]
    /\ exitCode = [r \in Runs |-> 0]
    /\ held     = [r \in Runs |-> 0]
    /\ fd       = [r \in Runs |-> 0]
    /\ hermes   = [r \in Runs |-> FALSE]
    /\ tmp      = [r \in Runs |-> Absent]
    /\ output   \in [1..Tasks -> File]
    /\ attempts = [t \in 1..Tasks |-> [n \in Attempt |-> Absent]]
    /\ partial  = [t \in 1..Tasks |-> Absent]
    /\ lockFile = 0 /\ removals = 0 /\ crashes = 0
    /\ overtaken = [r \in Runs |-> FALSE]

Goto(r, l) == pc' = [pc EXCEPT ![r] = l]

(* The script ends; its descriptor is closed.                              *)
Exit(r, code) ==
    /\ Goto(r, "ended")
    /\ exitCode' = [exitCode EXCEPT ![r] = code]
    /\ held' = [held EXCEPT ![r] = 0]

---------------------------------------------------------------------------
Invoke(r) ==
    /\ pc[r] = "none"
    /\ Goto(r, IF opt[r].retry THEN "sweep" ELSE "open")
    /\ UNCHANGED <<opt, idx, attempt, failed, exitCode, lock, files, hermes, tmp, aux>>

(* Mutant: whatever is there is to be run again.                           *)
IsThere(f) == f # Absent

ToRemove(f) == f # Absent /\ ~ OutputIsValid(f)

(* retry_failed.sh judges one report after the other ...                   *)
SweepLook(r) ==
    /\ pc[r] = "sweep" /\ idx[r] <= Tasks
    /\ IF ToRemove(output[idx[r]])
       THEN Goto(r, "remove") /\ UNCHANGED idx
       ELSE idx' = [idx EXCEPT ![r] = @ + 1] /\ UNCHANGED pc
    /\ UNCHANGED <<opt, attempt, failed, exitCode, lock, files, hermes, tmp, aux>>

(* ... removes the ones it judged invalid, without the lock ...            *)
SweepRemove(r) ==
    /\ pc[r] = "remove"
    /\ output' = [output EXCEPT ![idx[r]] = Absent]
    /\ idx' = [idx EXCEPT ![r] = @ + 1]
    /\ Goto(r, "sweep")
    /\ overtaken' = [overtaken EXCEPT ![r] = FALSE]
    /\ UNCHANGED <<opt, attempt, failed, exitCode, lock, attempts, partial, hermes, tmp, crashes>>

(* ... and becomes run_audits.sh.                                          *)
SweepDone(r) ==
    /\ pc[r] = "sweep" /\ idx[r] > Tasks
    /\ idx' = [idx EXCEPT ![r] = 1]
    /\ Goto(r, "open")
    /\ UNCHANGED <<opt, attempt, failed, exitCode, lock, files, hermes, tmp, aux>>

OpenLock(r) ==
    /\ pc[r] = "open"
    /\ lockFile' = IF lockFile = 0 THEN removals + 1 ELSE lockFile
    /\ fd' = [fd EXCEPT ![r] = lockFile']
    /\ Goto(r, "flock")
    /\ UNCHANGED <<opt, idx, attempt, failed, exitCode, held, removals, files, hermes, tmp, aux>>

(* Mutant: flock's result is not looked at.                                *)
AlwaysFree(i) == i # 0

LockFree(i) == \A q \in Runs : held[q] # i

(* flock -n.                                                               *)
Flock(r) ==
    /\ pc[r] = "flock"
    /\ IF LockFree(fd[r])
       THEN /\ held' = [held EXCEPT ![r] = fd[r]]
            /\ Goto(r, "locked") /\ UNCHANGED exitCode
       ELSE Exit(r, 1)
    /\ UNCHANGED <<opt, idx, attempt, failed, fd, lockFile, removals, files, hermes, tmp, aux>>

(* A dry run ends after its list; without the API no task is tried.        *)
CheckApi(r) ==
    /\ pc[r] = "locked"
    /\ \/ opt[r].dryRun /\ Exit(r, 0)
       \/ ~ opt[r].dryRun /\ Exit(r, 1)
       \/ ~ opt[r].dryRun /\ Goto(r, "main") /\ UNCHANGED <<exitCode, held>>
    /\ UNCHANGED <<opt, idx, attempt, failed, fd, lockFile, removals, files, hermes, tmp, aux>>

---------------------------------------------------------------------------
Selected(r, t) == opt[r].only \in {0, t}

Skips(r, t) == ~ Selected(r, t) \/ (opt[r].resume /\ OutputIsValid(output[t]))

NextTask(r) ==
    /\ idx' = [idx EXCEPT ![r] = @ + 1]
    /\ attempt' = [attempt EXCEPT ![r] = 1]
    /\ Goto(r, "main")

SkipTask(r) ==
    /\ pc[r] = "main" /\ idx[r] <= Tasks
    /\ Skips(r, idx[r])
    /\ NextTask(r)
    /\ UNCHANGED <<opt, failed, exitCode, lock, files, hermes, tmp, aux>>

(* Mutant: going on after a failure forgets it.                            *)
TaskForgotten(r) ==
    IF opt[r].goOn
    THEN NextTask(r) /\ UNCHANGED failed
    ELSE Goto(r, "summary") /\ failed' = [failed EXCEPT ![r] = TRUE] /\ UNCHANGED <<idx, attempt>>

(* run_one_task has returned 1.                                            *)
TaskFailed(r) ==
    /\ failed' = [failed EXCEPT ![r] = TRUE]
    /\ IF opt[r].goOn
       THEN NextTask(r)
       ELSE Goto(r, "summary") /\ UNCHANGED <<idx, attempt>>

(* No prompt, no repository or no API: the task fails without an attempt.  *)
CannotRun(r) ==
    /\ pc[r] = "main" /\ idx[r] <= Tasks
    /\ ~ Skips(r, idx[r])
    /\ TaskFailed(r)
    /\ UNCHANGED <<opt, exitCode, lock, files, hermes, tmp, aux>>

RunHermes(r) ==
    /\ \/ pc[r] = "main" /\ idx[r] <= Tasks /\ ~ Skips(r, idx[r])
       \/ pc[r] = "again"
    /\ tmp' = [tmp EXCEPT ![r] = Absent]
    /\ hermes' = [hermes EXCEPT ![r] = TRUE]
    /\ Goto(r, "wait")
    /\ UNCHANGED <<opt, idx, attempt, failed, exitCode, lock, files, aux>>

(* hermes ends, by itself or by the timeout, whatever its exit code; one   *)
(* that has outlived its script closes the locked descriptor.              *)
Answer(r) ==
    /\ hermes[r]
    /\ \E f \in File : tmp' = [tmp EXCEPT ![r] = f]
    /\ hermes' = [hermes EXCEPT ![r] = FALSE]
    /\ IF pc[r] = "wait"
       THEN Goto(r, "judge") /\ UNCHANGED held
       ELSE held' = [held EXCEPT ![r] = 0] /\ UNCHANGED pc
    /\ UNCHANGED <<opt, idx, attempt, failed, exitCode, fd, lockFile, removals, files, aux>>

(* What a report put in place means to the sweeps about to remove one.      *)
Overtakes(t) ==
    overtaken' = [r \in Runs |-> overtaken[r] \/ (pc[r] = "remove" /\ idx[r] = t)]

Accept(r) ==
    /\ pc[r] = "judge"
    /\ OutputIsValid(tmp[r])
    /\ output' = [output EXCEPT ![idx[r]] = tmp[r]]
    /\ tmp' = [tmp EXCEPT ![r] = Absent]
    /\ Overtakes(idx[r])
    /\ NextTask(r)
    /\ UNCHANGED <<opt, failed, exitCode, lock, attempts, partial, hermes, crashes>>

NextAttempt(r) ==
    IF attempt[r] <= MaxRetries
    THEN /\ attempt' = [attempt EXCEPT ![r] = @ + 1]
         /\ Goto(r, "again") /\ UNCHANGED <<idx, failed>>
    ELSE TaskFailed(r)

Discard(r) ==
    /\ pc[r] = "judge"
    /\ ~ OutputIsValid(tmp[r])
    /\ tmp[r] = Absent \/ ~ opt[r].savePartial
    /\ tmp' = [tmp EXCEPT ![r] = Absent]
    /\ NextAttempt(r)
    /\ UNCHANGED <<opt, exitCode, lock, files, hermes, aux>>

SaveAttempt(r) ==
    /\ pc[r] = "judge"
    /\ ~ OutputIsValid(tmp[r])
    /\ tmp[r] # Absent /\ opt[r].savePartial
    /\ attempts' = [attempts EXCEPT ![idx[r]][attempt[r]] = tmp[r]]
    /\ tmp' = [tmp EXCEPT ![r] = Absent]
    /\ Goto(r, "keep")
    /\ UNCHANGED <<opt, idx, attempt, failed, exitCode, lock, output, partial, hermes, aux>>

(* Mutant: only a first attempt becomes the partial report.                *)
IsFirst(f, t) == f # Absent /\ partial[t] = Absent

IsLongest(f, t) == partial[t] = Absent \/ Lines(f) > Lines(partial[t])

KeepLongest(r) ==
    /\ pc[r] = "keep"
    /\ LET f == attempts[idx[r]][attempt[r]]
       IN  partial' = IF IsLongest(f, idx[r]) THEN [partial EXCEPT ![idx[r]] = f] ELSE partial
    /\ NextAttempt(r)
    /\ UNCHANGED <<opt, exitCode, lock, output, attempts, hermes, tmp, aux>>

Finish(r) ==
    /\ pc[r] = "summary" \/ (pc[r] = "main" /\ idx[r] > Tasks)
    /\ Exit(r, IF failed[r] THEN 1 ELSE 0)
    /\ UNCHANGED <<opt, idx, attempt, failed, fd, lockFile, removals, files, hermes, tmp, aux>>

---------------------------------------------------------------------------
Alive(r) == pc[r] \notin {"none", "ended", "killed"}

(* The lock goes with the last process that has the descriptor.            *)
HeldAfter(r, survives) == [held EXCEPT ![r] = IF survives THEN @ ELSE 0]

(* The script is killed, its hermes with it or not.                        *)
Crash(r) ==
    /\ crashes < MaxCrashes
    /\ Alive(r)
    /\ \E survives \in {FALSE, hermes[r]} :
          /\ hermes' = [hermes EXCEPT ![r] = survives]
          /\ held' = HeldAfter(r, survives)
    /\ Goto(r, "killed")
    /\ crashes' = crashes + 1
    /\ UNCHANGED <<opt, idx, attempt, failed, exitCode, fd, lockFile, removals, files, tmp,
                   overtaken>>

(* rm -f LOCK_FILE, by a user who sees no script running.                  *)
RemoveLock ==
    /\ removals < MaxRemovals
    /\ lockFile # 0
    /\ \A r \in Runs : ~ Alive(r)
    /\ lockFile' = 0
    /\ removals' = removals + 1
    /\ UNCHANGED <<script, held, fd, files, hermes, tmp, aux>>

Step(r) ==
    \/ Invoke(r) \/ SweepLook(r) \/ SweepRemove(r) \/ SweepDone(r)
    \/ OpenLock(r) \/ Flock(r) \/ CheckApi(r)
    \/ SkipTask(r) \/ CannotRun(r) \/ RunHermes(r) \/ Answer(r)
    \/ Accept(r) \/ Discard(r) \/ SaveAttempt(r) \/ KeepLongest(r)
    \/ Finish(r) \/ Crash(r)

Next == (\E r \in Runs : Step(r)) \/ RemoveLock

Spec == Init /\ [][Next]_vars

---------------------------------------------------------------------------
(* Every variable has its type: no task gets more than MaxRetries + 1      *)
(* attempts and files hold what hermes left.                               *)
TypeOK ==
    /\ pc \in [Runs -> Places]
    /\ opt \in [Runs -> Options]
    /\ idx \in [Runs -> 1..(Tasks + 1)]
    /\ attempt \in [Runs -> Attempt]
    /\ failed \in [Runs -> BOOLEAN] /\ hermes \in [Runs -> BOOLEAN]
    /\ exitCode \in [Runs -> {0, 1}]
    /\ held \in [Runs -> Inodes \cup {0}] /\ fd \in [Runs -> Inodes \cup {0}]
    /\ tmp \in [Runs -> File]
    /\ output \in [1..Tasks -> File] /\ partial \in [1..Tasks -> File]
    /\ attempts \in [1..Tasks -> [Attempt -> File]]
    /\ lockFile \in Inodes \cup {0}
    /\ removals \in 0..MaxRemovals /\ crashes \in 0..MaxCrashes
    /\ overtaken \in [Runs -> BOOLEAN]

Working(r) == pc[r] \in {"main", "wait", "again", "judge", "keep", "summary"}

(* "Another run_audits.sh is already running" keeps two scripts out of the *)
(* results at any time, also after kills and removals of a stale lock; and *)
(* as long as nobody removed the lock there is one hermes at most, the one *)
(* that outlived its script included.                                      *)
OneBatchAtATime ==
    /\ \A q, r \in Runs : Working(q) /\ Working(r) => q = r
    /\ removals = 0 => \A q, r \in Runs : hermes[q] /\ hermes[r] => q = r

Lost(t) == OutputIsValid(output[t]) /\ ~ OutputIsValid(output'[t])

(* A retry_failed.sh found an invalid file there, and before it removed it   *)
(* a batch put a report in its place.                                        *)
RemovedLate(t) == \E r \in Runs : pc[r] = "remove" /\ idx[r] = t /\ overtaken[r]

(* A report that was valid when it was looked at stays: no batch replaces   *)
(* it by an invalid one, and a retry_failed.sh removes it only if it came   *)
(* between the sweep's judgement and its rm, which nothing excludes         *)
(* (run_audits.sh:203-208, retry_failed.sh:22-28).                          *)
ReportsSurvive == [][\A t \in 1..Tasks : Lost(t) => RemovedLate(t)]_vars

Complete(r, n) == \A t \in 1..Tasks : t < n /\ Selected(r, t) => OutputIsValid(output[t])

Undisturbed(r) == \A q \in Runs \ {r} : opt[q].retry => pc[q] = "none"

(* A batch that exits with 0 leaves a valid report of every task it was to *)
(* run, unless another invocation came through retry_failed.sh.            *)
CleanExitIsComplete ==
    \A r \in Runs :
       pc[r] = "ended" /\ exitCode[r] = 0 /\ ~ opt[r].dryRun /\ Undisturbed(r) =>
          Complete(r, Tasks + 1)

BeingCompared(t, n) == \E r \in Runs : pc[r] = "keep" /\ idx[r] = t /\ attempt[r] = n

(* "Keep longest attempt as .partial.md for review": without kills, and    *)
(* but for the attempt being compared, no attempt of this or an earlier    *)
(* batch is longer than the partial report.                                *)
LongestIsKept ==
    crashes = 0 =>
       \A t \in 1..Tasks, n \in Attempt :
          Lines(attempts[t][n]) <= Lines(partial[t]) \/ BeingCompared(t, n)
=============================================================================
