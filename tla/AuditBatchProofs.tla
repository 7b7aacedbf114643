-------------------------- MODULE AuditBatchProofs --------------------------
(***************************************************************************)
(* Theorems about AuditBatch, for any number of invocations, tasks,        *)
(* attempts, kills and removals of the lock file.                          *)
(***************************************************************************)
EXTENDS AuditBatch, TLAPS

LEMMA Sizes == /\ Tasks \in Nat /\ Tasks > 0 /\ MaxRetries \in Nat
               /\ MaxCrashes \in Nat /\ MaxRemovals \in Nat
BY BatchAssumption

LEMMA FileFacts ==
  ASSUME NEW f \in File PROVE Lines(f) \in Nat /\ (OutputIsValid(f) => f # Absent)
BY BatchAssumption DEF File, Lines, OutputIsValid

---------------------------------------------------------------------------
(* Types. *)

LEMMA InitType == Init => TypeOK
BY Sizes DEF Init, Places, TypeOK, File, Attempt, Inodes

(* What the failure of a task does to the variables it touches. *)
LEMMA FailType ==
  ASSUME TypeOK, NEW r \in Runs, idx[r] <= Tasks, TaskFailed(r)
  PROVE  /\ pc' \in [Runs -> Places]
         /\ idx' \in [Runs -> 1..(Tasks + 1)]
         /\ attempt' \in [Runs -> Attempt]
         /\ failed' \in [Runs -> BOOLEAN]
<1>1. idx[r] + 1 \in 1..(Tasks + 1) /\ 1 \in Attempt
  BY Sizes DEF Places, TypeOK, Attempt
<1>2. CASE opt[r].goOn
  BY <1>1, <1>2 DEF Places, TypeOK, TaskFailed, NextTask, Goto
<1>3. CASE ~ opt[r].goOn
  BY <1>1, <1>3 DEF Places, TypeOK, TaskFailed, Goto
<1> QED BY <1>2, <1>3

(* While a script is at a task, it is at one of them. *)
AtTask == \A r \in Runs : pc[r] \in {"remove", "wait", "again", "judge", "keep"} => idx[r] <= Tasks

LEMMA AttemptType ==
  ASSUME TypeOK, NEW r \in Runs, idx[r] <= Tasks, NextAttempt(r)
  PROVE  /\ pc' \in [Runs -> Places]
         /\ idx' \in [Runs -> 1..(Tasks + 1)]
         /\ attempt' \in [Runs -> Attempt]
         /\ failed' \in [Runs -> BOOLEAN]
<1>1. CASE attempt[r] <= MaxRetries
  <2>1. attempt[r] + 1 \in Attempt
    BY <1>1, Sizes DEF Places, TypeOK, Attempt
  <2> QED BY <1>1, <2>1 DEF Places, TypeOK, NextAttempt, Goto
<1>2. CASE ~(attempt[r] <= MaxRetries)
  BY <1>2, FailType DEF NextAttempt
<1> QED BY <1>1, <1>2

LEMMA StepType == ASSUME TypeOK, AtTask, NEW r \in Runs, Step(r) PROVE TypeOK'
<1> USE Sizes DEF script, lock, files, aux, Goto
<1>1. CASE Invoke(r)
  BY <1>1 DEF Invoke, Places, TypeOK
<1>2. CASE SweepLook(r)
  <2>1. idx[r] + 1 \in 1..(Tasks + 1)
    BY <1>2 DEF SweepLook, Places, TypeOK
  <2> QED BY <1>2, <2>1 DEF SweepLook, Places, TypeOK
<1>3. CASE SweepRemove(r)
  BY <1>3 DEF SweepRemove, Places, TypeOK, AtTask, File
<1>4. CASE SweepDone(r)
  BY <1>4 DEF SweepDone, Places, TypeOK
<1>5. CASE OpenLock(r)
  <2>1. lockFile' \in Inodes
    BY <1>5 DEF OpenLock, Places, TypeOK, Inodes
  <2> QED BY <1>5, <2>1 DEF OpenLock, Places, TypeOK
<1>6. CASE Flock(r) \/ CheckApi(r)
  BY <1>6 DEF Flock, CheckApi, Exit, Places, TypeOK
<1>7. CASE SkipTask(r)
  BY <1>7 DEF SkipTask, NextTask, Places, TypeOK, Attempt
<1>8. CASE CannotRun(r)
  BY <1>8, FailType DEF CannotRun, Places, TypeOK
<1>9. CASE RunHermes(r)
  BY <1>9 DEF RunHermes, Places, TypeOK, File
<1>10. CASE Answer(r)
  BY <1>10 DEF Answer, Places, TypeOK
<1>11. CASE Accept(r)
  <2>1. tmp[r] \in File /\ Absent \in File /\ idx[r] \in 1..Tasks
    BY <1>11 DEF Accept, Places, TypeOK, AtTask, File
  <2>2. overtaken' \in [Runs -> BOOLEAN]
    BY <1>11 DEF Accept, Overtakes, TypeOK
  <2>3. idx[r] + 1 \in 1..(Tasks + 1) /\ 1 \in Attempt
    BY <2>1 DEF Attempt
  <2>4. /\ pc' \in [Runs -> Places] /\ idx' \in [Runs -> 1..(Tasks + 1)]
        /\ attempt' \in [Runs -> Attempt]
    BY <1>11, <2>3 DEF Accept, NextTask, Places, TypeOK
  <2>5. output' \in [1..Tasks -> File] /\ tmp' \in [Runs -> File]
    BY <1>11, <2>1 DEF Accept, TypeOK
  <2> QED BY <1>11, <2>2, <2>4, <2>5 DEF Accept, TypeOK
<1>12. CASE Discard(r)
  <2>1. Absent \in File /\ idx[r] <= Tasks
    BY <1>12 DEF Discard, AtTask, File
  <2> QED BY <1>12, <2>1, AttemptType DEF Discard, Places, TypeOK
<1>13. CASE SaveAttempt(r)
  <2>1. tmp[r] \in File /\ Absent \in File /\ idx[r] \in 1..Tasks /\ attempt[r] \in Attempt
    BY <1>13 DEF SaveAttempt, Places, TypeOK, AtTask, File
  <2>2. attempts' \in [1..Tasks -> [Attempt -> File]]
    BY <1>13, <2>1 DEF SaveAttempt, Places, TypeOK
  <2> QED BY <1>13, <2>1, <2>2 DEF SaveAttempt, Places, TypeOK
<1>14. CASE KeepLongest(r)
  <2>1. idx[r] \in 1..Tasks /\ attempt[r] \in Attempt /\ attempts[idx[r]][attempt[r]] \in File
    BY <1>14 DEF KeepLongest, Places, TypeOK, AtTask
  <2> QED BY <1>14, <2>1, AttemptType DEF KeepLongest, Places, TypeOK
<1>15. CASE Finish(r)
  BY <1>15 DEF Finish, Exit, Places, TypeOK
<1>16. CASE Crash(r)
  <2>1. PICK survives \in {FALSE, hermes[r]} :
             /\ hermes' = [hermes EXCEPT ![r] = survives]
             /\ held' = HeldAfter(r, survives)
    BY <1>16 DEF Crash
  <2>2. hermes' \in [Runs -> BOOLEAN]
    BY <2>1 DEF Places, TypeOK
  <2>3. held' \in [Runs -> Inodes \cup {0}]
    BY <2>1 DEF Places, TypeOK, HeldAfter
  <2> QED BY <1>16, <2>2, <2>3 DEF Crash, Places, TypeOK
<1> QED
  BY <1>1, <1>2, <1>3, <1>4, <1>5, <1>6, <1>7, <1>8, <1>9, <1>10, <1>11, <1>12, <1>13, <1>14,
     <1>15, <1>16 DEF Step

LEMMA RemoveType == TypeOK /\ RemoveLock => TypeOK'
BY Sizes DEF Places, TypeOK, RemoveLock, script, files, aux, Inodes

LEMMA StepAtTask == ASSUME TypeOK, AtTask, NEW r \in Runs, Step(r) PROVE AtTask'
<1> USE DEF AtTask, Places, TypeOK, script, lock, files, aux, Goto
<1>1. CASE Invoke(r) \/ SweepLook(r) \/ SweepRemove(r) \/ SweepDone(r) \/ OpenLock(r)
  BY <1>1 DEF Invoke, SweepLook, SweepRemove, SweepDone, OpenLock
<1>2. CASE Flock(r) \/ CheckApi(r) \/ Finish(r)
  BY <1>2 DEF Flock, CheckApi, Finish, Exit
<1>3. CASE SkipTask(r) \/ RunHermes(r) \/ Answer(r) \/ Accept(r) \/ SaveAttempt(r) \/ Crash(r)
  BY <1>3 DEF SkipTask, NextTask, RunHermes, Answer, Accept, SaveAttempt, Crash
<1>4. CASE CannotRun(r)
  BY <1>4 DEF CannotRun, TaskFailed, NextTask
<1>5. CASE Discard(r) \/ KeepLongest(r)
  BY <1>5 DEF Discard, KeepLongest, NextAttempt, TaskFailed, NextTask
<1> QED BY <1>1, <1>2, <1>3, <1>4, <1>5 DEF Step

LEMMA Typing == Spec => [](TypeOK /\ AtTask)
<1>1. Init => TypeOK /\ AtTask
  BY InitType DEF Init, AtTask
<1>2. TypeOK /\ AtTask /\ [Next]_vars => (TypeOK /\ AtTask)'
  <2> SUFFICES ASSUME TypeOK, AtTask, [Next]_vars PROVE (TypeOK /\ AtTask)'
      OBVIOUS
  <2>1. CASE \E r \in Runs : Step(r)
    BY <2>1, StepType, StepAtTask
  <2>2. CASE RemoveLock
    BY <2>2, RemoveType DEF RemoveLock, AtTask, script
  <2>3. CASE UNCHANGED vars
    BY <2>3 DEF vars, script, lock, files, aux, TypeOK, AtTask
  <2> QED BY <2>1, <2>2, <2>3 DEF Next
<1> QED BY <1>1, <1>2, PTL DEF Spec

(* Every variable keeps its type: no task gets more attempts than           *)
(* MaxRetries + 1, and files hold what hermes left (run_audits.sh:123-244). *)
THEOREM TypeCorrect == Spec => []TypeOK
BY Typing, PTL

---------------------------------------------------------------------------
(* The lock.  Scripts that are at work hold the inode the lock file names,  *)
(* which cannot change under them, for whoever removes the file sees no     *)
(* script; inodes named before are lower.                                   *)
LockInv ==
  /\ lockFile \in {0, removals + 1}
  /\ \A r \in Runs : held[r] <= removals + 1
  /\ \A q, r \in Runs : held[q] = held[r] /\ held[r] # 0 => q = r
  /\ \A r \in Runs : pc[r] = "flock" => fd[r] = lockFile /\ lockFile # 0
  /\ \A r \in Runs : Working(r) \/ pc[r] = "locked" => held[r] = lockFile /\ lockFile # 0
  /\ \A r \in Runs : hermes[r] => held[r] # 0 /\ pc[r] \in {"wait", "killed"}

(* All of their types that the lock depends on. *)
LockTypes ==
  /\ pc \in [Runs -> Places] /\ hermes \in [Runs -> BOOLEAN]
  /\ held \in [Runs -> Nat] /\ fd \in [Runs -> Nat]
  /\ lockFile \in Nat /\ removals \in Nat

LEMMA TypesOfLock == TypeOK => LockTypes
BY Sizes DEF TypeOK, LockTypes, Inodes

LEMMA StepLock == ASSUME LockTypes, LockInv, NEW r \in Runs, Step(r) PROVE LockInv'
<1> USE DEF LockTypes, LockInv, Working, script, lock, files, aux, Goto
<1>1. CASE Invoke(r) \/ SweepLook(r) \/ SweepRemove(r) \/ SweepDone(r)
  <2>1. /\ UNCHANGED <<held, fd, lockFile, removals, hermes>>
        /\ \E l \in {"sweep", "remove", "open"} : pc' = [pc EXCEPT ![r] = l] \/ pc' = pc
        /\ ~ hermes[r]
    BY <1>1 DEF Invoke, SweepLook, SweepRemove, SweepDone
  <2> QED BY <2>1
<1>2. CASE OpenLock(r)
  BY <1>2 DEF OpenLock
<1>3. CASE Flock(r)
  <2>1. UNCHANGED <<fd, lockFile, removals, hermes>> /\ ~ hermes[r] /\ pc[r] = "flock"
    BY <1>3 DEF Flock
  <2>2. CASE Goto(r, "ended") /\ held' = [held EXCEPT ![r] = 0]
    BY <2>1, <2>2
  <2>3. CASE LockFree(fd[r]) /\ held' = [held EXCEPT ![r] = fd[r]] /\ Goto(r, "locked")
    BY <2>1, <2>3 DEF LockFree
  <2> QED BY <1>3, <2>2, <2>3 DEF Flock, Exit
<1>11. CASE CheckApi(r)
  BY <1>11 DEF CheckApi, Exit
<1>4. CASE SkipTask(r) \/ Accept(r) \/ SaveAttempt(r)
  BY <1>4 DEF SkipTask, NextTask, Accept, SaveAttempt
<1>5. CASE RunHermes(r)
  BY <1>5 DEF RunHermes
<1>6. CASE Answer(r)
  <2>1. hermes[r] /\ hermes' = [hermes EXCEPT ![r] = FALSE] /\ UNCHANGED <<fd, lockFile, removals>>
    BY <1>6 DEF Answer
  <2>2. CASE pc[r] = "wait"
    BY <1>6, <2>1, <2>2 DEF Answer
  <2>3. CASE pc[r] # "wait"
    <3>1. pc[r] = "killed" /\ pc' = pc /\ held' = [held EXCEPT ![r] = 0]
      BY <1>6, <2>1, <2>3 DEF Answer
    <3> QED BY <2>1, <3>1
  <2> QED BY <2>2, <2>3
<1>7. CASE CannotRun(r)
  BY <1>7 DEF CannotRun, TaskFailed, NextTask
<1>8. CASE Discard(r) \/ KeepLongest(r)
  BY <1>8 DEF Discard, KeepLongest, NextAttempt, TaskFailed, NextTask
<1>9. CASE Finish(r)
  BY <1>9 DEF Finish, Exit
<1>10. CASE Crash(r)
  <2>1. UNCHANGED <<fd, lockFile, removals>> /\ pc' = [pc EXCEPT ![r] = "killed"]
    BY <1>10 DEF Crash
  <2>2. CASE hermes' = [hermes EXCEPT ![r] = FALSE] /\ held' = [held EXCEPT ![r] = 0]
    BY <2>1, <2>2
  <2>3. CASE hermes[r] /\ hermes' = hermes /\ held' = held
    BY <2>1, <2>3
  <2> QED BY <1>10, <2>2, <2>3 DEF Crash, HeldAfter
<1> QED BY <1>1, <1>2, <1>3, <1>4, <1>5, <1>6, <1>7, <1>8, <1>9, <1>10, <1>11 DEF Step

LEMMA RemoveLockInv == LockTypes /\ LockInv /\ RemoveLock => LockInv'
<1> SUFFICES ASSUME LockTypes, LockInv, RemoveLock PROVE LockInv'
    OBVIOUS
<1>1. \A r \in Runs : pc[r] \in {"none", "ended", "killed"}
  BY DEF RemoveLock, Alive
<1>2. /\ lockFile' = 0 /\ removals' = removals + 1
      /\ UNCHANGED <<pc, held, fd, hermes>>
  BY DEF RemoveLock, script
<1> QED BY <1>1, <1>2 DEF LockTypes, LockInv, Working

LEMMA LockOne == TypeOK /\ LockInv => OneBatchAtATime
<1> SUFFICES ASSUME TypeOK, LockInv PROVE OneBatchAtATime
    OBVIOUS
<1>1. \A q, r \in Runs : Working(q) /\ Working(r) => q = r
  BY DEF LockInv
<1>2. ASSUME removals = 0, NEW q \in Runs, NEW r \in Runs, hermes[q], hermes[r] PROVE q = r
  <2>1. held[q] = 1 /\ held[r] = 1
    BY <1>2, Sizes DEF LockInv, TypeOK, Inodes
  <2> QED BY <2>1 DEF LockInv
<1> QED BY <1>1, <1>2 DEF OneBatchAtATime

(* The lock keeps two batches out of one directory, after kills and         *)
(* removals of the lock file too; and while nobody removed it there is one  *)
(* hermes at most (run_audits.sh:113-121).                                  *)
THEOREM OneBatch == Spec => []OneBatchAtATime
<1>1. Init => LockInv
  BY InitType, Sizes DEF Init, LockInv, Working
<1>2. TypeOK /\ LockInv /\ [Next]_vars => LockInv'
  <2> SUFFICES ASSUME TypeOK, LockInv, [Next]_vars PROVE LockInv'
      OBVIOUS
  <2>1. CASE (\E r \in Runs : Step(r)) \/ RemoveLock
    BY <2>1, StepLock, RemoveLockInv, TypesOfLock
  <2>2. CASE UNCHANGED vars
    BY <2>2 DEF vars, script, lock, LockInv, Working
  <2> QED BY <2>1, <2>2 DEF Next
<1> QED BY <1>1, <1>2, Typing, LockOne, PTL DEF Spec

---------------------------------------------------------------------------
(* The reports. *)

LEMMA StepKeeps ==
  ASSUME TypeOK, AtTask, NEW r \in Runs, Step(r), NEW t \in 1..Tasks, Lost(t)
  PROVE  pc[r] = "remove" /\ idx[r] = t
<1> USE DEF Lost, TypeOK, script, lock, files, aux
<1>1. CASE SweepRemove(r)
  BY <1>1 DEF SweepRemove
<1>2. CASE Accept(r)
  BY <1>2 DEF Accept
<1>3. CASE output' = output
  BY <1>3
<1>4. SweepRemove(r) \/ Accept(r) \/ output' = output
  BY DEF Step, Invoke, SweepLook, SweepDone, OpenLock, Flock, CheckApi, SkipTask, CannotRun,
         RunHermes, Answer, Discard, SaveAttempt, KeepLongest, Finish, Crash
<1> QED BY <1>1, <1>2, <1>3, <1>4

(* A step moves its own script only. *)
LEMMA StepIsOwn ==
  ASSUME TypeOK, NEW q \in Runs, Step(q)
  PROVE  /\ opt' = opt
         /\ \A r \in Runs \ {q} : /\ pc'[r] = pc[r] /\ idx'[r] = idx[r]
                                  /\ failed'[r] = failed[r] /\ exitCode'[r] = exitCode[r]
                                  /\ attempt'[r] = attempt[r]
         /\ pc[q] # "none" => pc'[q] # "none"
<1> USE DEF TypeOK, script, lock, files, aux, Goto
<1>1. CASE Invoke(q) \/ SweepLook(q) \/ SweepRemove(q) \/ SweepDone(q) \/ OpenLock(q)
  BY <1>1 DEF Invoke, SweepLook, SweepRemove, SweepDone, OpenLock
<1>2. CASE Flock(q) \/ CheckApi(q) \/ Finish(q)
  BY <1>2 DEF Flock, CheckApi, Finish, Exit
<1>3. CASE SkipTask(q) \/ RunHermes(q) \/ Answer(q) \/ Accept(q) \/ SaveAttempt(q) \/ Crash(q)
  BY <1>3 DEF SkipTask, NextTask, RunHermes, Answer, Accept, SaveAttempt, Crash
<1>4. CASE CannotRun(q)
  BY <1>4 DEF CannotRun, TaskFailed, NextTask
<1>5. CASE Discard(q) \/ KeepLongest(q)
  BY <1>5 DEF Discard, KeepLongest, NextAttempt, TaskFailed, NextTask
<1> QED BY <1>1, <1>2, <1>3, <1>4, <1>5 DEF Step

(* A sweep that nobody has overtaken removes a file that is invalid still.  *)
JudgedInv ==
  \A r \in Runs : pc[r] = "remove" /\ ~ overtaken[r] => ~ OutputIsValid(output[idx[r]])

LEMMA StepJudged ==
  ASSUME TypeOK, AtTask, JudgedInv, NEW q \in Runs, Step(q) PROVE JudgedInv'
<1> USE DEF script, lock, files, aux, Goto
<1> SUFFICES ASSUME NEW r \in Runs, pc'[r] = "remove", ~ overtaken'[r]
             PROVE  ~ OutputIsValid(output'[idx'[r]])
    BY DEF JudgedInv
<1>1. CASE SweepLook(q)
  <2>1. output' = output /\ overtaken' = overtaken
    BY <1>1 DEF SweepLook
  <2>2. CASE r = q
    <3>1. ToRemove(output[idx[r]]) /\ idx' = idx
      BY <1>1, <2>2 DEF SweepLook, TypeOK
    <3> QED BY <2>1, <3>1 DEF ToRemove
  <2>3. CASE r # q
    BY <2>1, <2>3, StepIsOwn DEF JudgedInv
  <2> QED BY <2>2, <2>3
<1>2. CASE SweepRemove(q)
  <2>1. r # q
    BY <1>2 DEF SweepRemove, TypeOK
  <2>2. pc[r] = "remove" /\ ~ overtaken[r] /\ idx'[r] = idx[r]
    BY <1>2, <2>1, StepIsOwn DEF SweepRemove, TypeOK
  <2>3. idx[r] \in 1..Tasks
    BY <2>2, Sizes DEF TypeOK, AtTask
  <2>4. output'[idx[r]] = IF idx[r] = idx[q] THEN Absent ELSE output[idx[r]]
    BY <1>2, <2>3 DEF SweepRemove, TypeOK
  <2> QED BY <2>2, <2>4 DEF JudgedInv, OutputIsValid
<1>3. CASE Accept(q)
  <2>1. /\ r # q /\ pc[r] = "remove" /\ idx'[r] = idx[r]
    BY <1>3, StepIsOwn DEF Accept, NextTask, TypeOK
  <2>2. ~ overtaken[r] /\ idx[r] # idx[q]
    BY <1>3, <2>1 DEF Accept, Overtakes
  <2>3. output'[idx[r]] = output[idx[r]]
    BY <1>3, <2>2 DEF Accept, TypeOK
  <2> QED BY <2>1, <2>2, <2>3 DEF JudgedInv
<1>4. CASE ~ SweepLook(q) /\ ~ SweepRemove(q) /\ ~ Accept(q)
  <2>1. output' = output /\ overtaken' = overtaken
    BY <1>4
       DEF Step, Invoke, SweepDone, OpenLock, Flock, CheckApi, SkipTask, CannotRun, RunHermes,
           Answer, Discard, SaveAttempt, KeepLongest, Finish, Crash
  <2>2. r # q \/ (pc[r] = "remove" /\ idx'[r] = idx[r])
    <3>1. CASE Invoke(q) \/ SweepDone(q) \/ OpenLock(q) \/ Flock(q) \/ CheckApi(q) \/ Finish(q)
      BY <3>1 DEF Invoke, SweepDone, OpenLock, Flock, CheckApi, Finish, Exit, TypeOK
    <3>2. CASE SkipTask(q) \/ RunHermes(q) \/ SaveAttempt(q) \/ Crash(q)
      BY <3>2 DEF SkipTask, NextTask, RunHermes, SaveAttempt, Crash, TypeOK
    <3>3. CASE Answer(q)
      BY <3>3 DEF Answer, TypeOK
    <3>4. CASE CannotRun(q)
      BY <3>4 DEF CannotRun, TaskFailed, NextTask, TypeOK
    <3>5. CASE Discard(q) \/ KeepLongest(q)
      BY <3>5 DEF Discard, KeepLongest, NextAttempt, TaskFailed, NextTask, TypeOK
    <3> QED BY <1>4, <3>1, <3>2, <3>3, <3>4, <3>5 DEF Step
  <2> QED BY <2>1, <2>2, StepIsOwn DEF JudgedInv
<1> QED BY <1>1, <1>2, <1>3, <1>4

(* A report that is valid when a sweep looks at it stays; only one that is  *)
(* put in place between the look and the rm is removed                      *)
(* (run_audits.sh:203-208, retry_failed.sh:22-28).                          *)
THEOREM ReportsLast == Spec => ReportsSurvive
<1>1. Init => JudgedInv
  BY DEF Init, JudgedInv
<1>2. TypeOK /\ AtTask /\ JudgedInv /\ [Next]_vars => JudgedInv'
  <2> SUFFICES ASSUME TypeOK, AtTask, JudgedInv, [Next]_vars PROVE JudgedInv'
      OBVIOUS
  <2>1. CASE \E r \in Runs : Step(r)
    BY <2>1, StepJudged
  <2>2. CASE RemoveLock \/ UNCHANGED vars
    BY <2>2 DEF RemoveLock, vars, script, files, aux, JudgedInv
  <2> QED BY <2>1, <2>2 DEF Next
<1>3. TypeOK /\ AtTask /\ JudgedInv /\ [Next]_vars => \A t \in 1..Tasks : Lost(t) => RemovedLate(t)
  <2> SUFFICES ASSUME TypeOK, AtTask, JudgedInv, [Next]_vars, NEW t \in 1..Tasks, Lost(t)
               PROVE  RemovedLate(t)
      OBVIOUS
  <2>1. ASSUME NEW r \in Runs, Step(r) PROVE RemovedLate(t)
    <3>1. pc[r] = "remove" /\ idx[r] = t
      BY <2>1, StepKeeps
    <3>2. overtaken[r]
      BY <3>1 DEF JudgedInv, Lost
    <3> QED BY <3>1, <3>2 DEF RemovedLate
  <2>2. CASE RemoveLock \/ UNCHANGED vars
    BY <2>2 DEF RemoveLock, vars, files, Lost
  <2> QED BY <2>1, <2>2 DEF Next
<1> QED BY <1>1, <1>2, <1>3, Typing, PTL DEF Spec, ReportsSurvive

---------------------------------------------------------------------------
(* The exit code.  A batch that has had no failure has valid reports of the *)
(* tasks behind it.                                                         *)
AtWork == {"main", "wait", "again", "judge", "keep"}

DoneInv ==
  /\ \A r \in Runs : pc[r] \in {"sweep", "remove"} => opt[r].retry
  /\ \A r \in Runs : pc[r] \in {"none", "open", "flock", "locked"} => idx[r] = 1
  /\ \A r \in Runs : pc[r] = "summary" => failed[r]
  /\ \A r \in Runs : pc[r] \in AtWork /\ ~ failed[r] /\ Undisturbed(r) => Complete(r, idx[r])
  /\ CleanExitIsComplete

LEMMA StepDone == ASSUME TypeOK, AtTask, DoneInv, NEW q \in Runs, Step(q) PROVE DoneInv'
<1> USE DEF script, lock, files, aux, Goto
<1> DEFINE Behind(r)   == pc[r] \in AtWork /\ ~ failed[r] /\ Undisturbed(r)
           Finished(r) == pc[r] = "ended" /\ exitCode[r] = 0 /\ ~ opt[r].dryRun /\ Undisturbed(r)
<1>1. ASSUME NEW r \in Runs, r # q
      PROVE  /\ pc'[r] \in {"sweep", "remove"} => opt'[r].retry
             /\ pc'[r] \in {"none", "open", "flock", "locked"} => idx'[r] = 1
             /\ pc'[r] = "summary" => failed'[r]
             /\ Behind(r)' => Complete(r, idx[r])'
             /\ Finished(r)' => Complete(r, Tasks + 1)'
  <2>1. /\ opt' = opt /\ pc'[r] = pc[r] /\ idx'[r] = idx[r]
        /\ failed'[r] = failed[r] /\ exitCode'[r] = exitCode[r]
    BY <1>1, StepIsOwn
  <2>2. ASSUME Behind(r)' PROVE Complete(r, idx[r])'
    <3>1. Undisturbed(r)
      BY <2>2, StepIsOwn DEF Undisturbed
    <3>2. Complete(r, idx[r]) /\ idx[r] \in Nat
      BY <2>1, <2>2, <3>1, Sizes DEF DoneInv, TypeOK
    <3>3. \A t \in 1..Tasks : t < idx[r] /\ Selected(r, t) => OutputIsValid(output'[t])
      BY <2>1, <2>2, <3>1, <3>2, StepKeeps DEF Undisturbed, DoneInv, Complete, Lost, AtWork
    <3> QED BY <2>1, <3>3 DEF Complete, Selected
  <2>3. ASSUME Finished(r)' PROVE Complete(r, Tasks + 1)'
    <3>1. Undisturbed(r)
      BY <2>3, StepIsOwn DEF Undisturbed
    <3>2. Complete(r, Tasks + 1)
      BY <2>1, <2>3, <3>1 DEF DoneInv, CleanExitIsComplete
    <3>3. \A t \in 1..Tasks : t < Tasks + 1 /\ Selected(r, t) => OutputIsValid(output'[t])
      BY <2>1, <2>3, <3>1, <3>2, StepKeeps DEF Undisturbed, DoneInv, Complete, Lost
    <3> QED BY <2>1, <3>3 DEF Complete, Selected
  <2> QED BY <2>1, <2>2, <2>3 DEF DoneInv
<1>2. /\ pc'[q] \in {"sweep", "remove"} => opt'[q].retry
      /\ pc'[q] \in {"none", "open", "flock", "locked"} => idx'[q] = 1
      /\ pc'[q] = "summary" => failed'[q]
  <2> USE DEF TypeOK, DoneInv
  <2>1. CASE Invoke(q) \/ SweepLook(q) \/ SweepRemove(q) \/ SweepDone(q) \/ OpenLock(q)
    BY <2>1 DEF Invoke, SweepLook, SweepRemove, SweepDone, OpenLock
  <2>2. CASE Flock(q) \/ CheckApi(q) \/ Finish(q)
    BY <2>2 DEF Flock, CheckApi, Finish, Exit
  <2>3. CASE SkipTask(q) \/ RunHermes(q) \/ Answer(q) \/ Accept(q) \/ SaveAttempt(q) \/ Crash(q)
    BY <2>3 DEF SkipTask, NextTask, RunHermes, Answer, Accept, SaveAttempt, Crash
  <2>4. CASE CannotRun(q)
    BY <2>4 DEF CannotRun, TaskFailed, NextTask
  <2>5. CASE Discard(q) \/ KeepLongest(q)
    BY <2>5 DEF Discard, KeepLongest, NextAttempt, TaskFailed, NextTask
  <2> QED BY <2>1, <2>2, <2>3, <2>4, <2>5 DEF Step
<1>3. ASSUME Behind(q)' \/ Finished(q)'
      PROVE  (Behind(q)' => Complete(q, idx[q])') /\ (Finished(q)' => Complete(q, Tasks + 1)')
  <2>1. Undisturbed(q) /\ opt' = opt
    BY <1>3, StepIsOwn DEF Undisturbed
  <2>2. \A t \in 1..Tasks : pc[q] # "remove" => ~ Lost(t)
    BY StepKeeps
  <2>3. CASE Flock(q) \/ CheckApi(q)
    <3>1. idx'[q] = 1 /\ (Finished(q)' => FALSE)
      BY <2>1, <2>3 DEF Flock, CheckApi, Exit, DoneInv, TypeOK
    <3> QED BY <3>1 DEF Complete
  <2>4. CASE Finish(q)
    <3>1. pc'[q] = "ended" /\ (exitCode'[q] = 0 => ~ failed[q]) /\ output' = output
      BY <2>4 DEF Finish, Exit, TypeOK
    <3>2. Finished(q)' => pc[q] = "main" /\ idx[q] > Tasks /\ Complete(q, idx[q])
      BY <2>1, <2>4, <3>1 DEF Finish, DoneInv, AtWork
    <3>3. Finished(q)' => Complete(q, Tasks + 1)
      BY <3>2, Sizes DEF Complete, TypeOK
    <3> QED BY <2>1, <3>1, <3>3 DEF Complete, Selected, AtWork
  <2>5. CASE SkipTask(q) \/ Accept(q)
    <3>1. /\ idx[q] \in 1..Tasks /\ idx'[q] = idx[q] + 1
          /\ pc[q] \in AtWork /\ pc'[q] = "main" /\ failed'[q] = failed[q] /\ pc[q] # "remove"
      BY <2>5, Sizes DEF SkipTask, Accept, NextTask, TypeOK, AtTask, AtWork
    <3>2. Selected(q, idx[q]) => OutputIsValid(output'[idx[q]])
      BY <2>5, <3>1 DEF SkipTask, Skips, Accept, TypeOK
    <3>3. Behind(q)' => Complete(q, idx[q])
      BY <2>1, <3>1 DEF DoneInv
    <3>4. Behind(q)' => \A t \in 1..Tasks :
                          t < idx[q] + 1 /\ Selected(q, t) => OutputIsValid(output'[t])
      BY <2>2, <3>1, <3>2, <3>3 DEF Complete, Lost
    <3> QED BY <2>1, <3>1, <3>4 DEF Complete, Selected
  <2>6. CASE CannotRun(q) \/ Discard(q) \/ KeepLongest(q)
    <3>1. /\ output' = output /\ pc[q] \in AtWork /\ pc'[q] # "ended"
          /\ failed'[q] \/ (failed'[q] = failed[q] /\ idx'[q] = idx[q])
      BY <2>6 DEF CannotRun, Discard, KeepLongest, NextAttempt, TaskFailed, NextTask, TypeOK, AtWork
    <3>2. Behind(q)' => Complete(q, idx'[q])
      BY <2>1, <3>1 DEF DoneInv
    <3> QED BY <2>1, <3>1, <3>2 DEF Complete, Selected
  <2>7. CASE RunHermes(q) \/ Answer(q) \/ SaveAttempt(q)
    <3>1. /\ output' = output /\ idx'[q] = idx[q] /\ failed'[q] = failed[q]
          /\ exitCode'[q] = exitCode[q]
          /\ pc'[q] = pc[q] \/ (pc[q] \in AtWork /\ pc'[q] \in AtWork)
      BY <2>7 DEF RunHermes, Answer, SaveAttempt, TypeOK, AtWork
    <3>2. Behind(q)' => Complete(q, idx'[q])
      BY <2>1, <3>1 DEF DoneInv
    <3>3. Finished(q)' => Finished(q)
      BY <2>1, <3>1 DEF AtWork
    <3>4. Finished(q)' => Complete(q, Tasks + 1)
      BY <3>3 DEF DoneInv, CleanExitIsComplete
    <3> QED BY <2>1, <3>1, <3>2, <3>4 DEF Complete, Selected
  <2>8. ~ (Invoke(q) \/ SweepLook(q) \/ SweepRemove(q) \/ SweepDone(q) \/ OpenLock(q) \/ Crash(q))
    BY <1>3
       DEF Invoke, SweepLook, SweepRemove, SweepDone, OpenLock, Crash, TypeOK, AtWork
  <2> QED BY <2>3, <2>4, <2>5, <2>6, <2>7, <2>8 DEF Step
<1>4. \A r \in Runs : (Behind(r)' => Complete(r, idx[r])') /\ (Finished(r)' => Complete(r, Tasks + 1)')
  BY <1>1, <1>3
<1> QED BY <1>1, <1>2, <1>4 DEF DoneInv, CleanExitIsComplete

(* Exit code 0 tells of a complete night, unless a retry_failed.sh ran at   *)
(* the same time (run_audits.sh:287-334).                                   *)
THEOREM CleanExit == Spec => []CleanExitIsComplete
<1>1. Init => DoneInv
  BY DEF Init, DoneInv, CleanExitIsComplete, AtWork
<1>2. TypeOK /\ AtTask /\ DoneInv /\ [Next]_vars => DoneInv'
  <2> SUFFICES ASSUME TypeOK, AtTask, DoneInv, [Next]_vars PROVE DoneInv'
      OBVIOUS
  <2>1. CASE \E r \in Runs : Step(r)
    BY <2>1, StepDone
  <2>2. CASE RemoveLock \/ UNCHANGED vars
    BY <2>2
       DEF RemoveLock, vars, script, files, aux, DoneInv, CleanExitIsComplete, Complete, Selected,
           Undisturbed
  <2> QED BY <2>1, <2>2 DEF Next
<1>3. DoneInv => CleanExitIsComplete
  BY DEF DoneInv
<1> QED BY <1>1, <1>2, <1>3, Typing, PTL DEF Spec

---------------------------------------------------------------------------
(* The partial report. *)

LEMMA StepLongest ==
  ASSUME TypeOK, AtTask, LongestIsKept, NEW r \in Runs, Step(r) PROVE LongestIsKept'
<1> USE DEF script, lock, files, aux, Goto
<1> SUFFICES ASSUME crashes' = 0, NEW t \in 1..Tasks, NEW n \in Attempt,
                    ~ BeingCompared(t, n)'
             PROVE  Lines(attempts'[t][n]) <= Lines(partial'[t])
    BY DEF LongestIsKept
<1>0. ~ Crash(r)
  <2>1. crashes \in Nat
    BY Sizes DEF TypeOK
  <2>2. Crash(r) => crashes' = crashes + 1
    BY DEF Crash
  <2> QED BY <2>1, <2>2
<1>1. crashes = 0
  BY <1>0 DEF Step, Invoke, SweepLook, SweepRemove, SweepDone, OpenLock, Flock, CheckApi, SkipTask,
         CannotRun, RunHermes, Answer, Accept, Discard, SaveAttempt, KeepLongest, Finish
<1>2. Lines(attempts[t][n]) \in Nat /\ Lines(partial[t]) \in Nat
  BY FileFacts DEF TypeOK
<1>3. CASE SaveAttempt(r)
  <2>1. t # idx[r] \/ n # attempt[r]
    BY <1>3 DEF SaveAttempt, BeingCompared, TypeOK
  <2>2. attempts'[t][n] = attempts[t][n] /\ partial' = partial
    BY <1>3, <2>1 DEF SaveAttempt, TypeOK
  <2>3. ~ BeingCompared(t, n)
    BY <1>3, StepIsOwn DEF SaveAttempt, BeingCompared, TypeOK
  <2> QED BY <1>1, <2>2, <2>3 DEF LongestIsKept
<1>4. CASE KeepLongest(r)
  <2>1. /\ attempts' = attempts /\ idx[r] \in 1..Tasks /\ attempt[r] \in Attempt
        /\ pc[r] = "keep"
    BY <1>4, Sizes DEF KeepLongest, TypeOK, AtTask
  <2>2. Lines(attempts[idx[r]][attempt[r]]) \in Nat
    BY <2>1, FileFacts DEF TypeOK
  <2>3. CASE t = idx[r] /\ n = attempt[r]
    <3>1. CASE IsLongest(attempts[t][n], t)
      BY <1>2, <1>4, <2>1, <2>3, <3>1 DEF KeepLongest, TypeOK
    <3>2. CASE ~ IsLongest(attempts[t][n], t)
      BY <1>2, <1>4, <2>1, <2>3, <3>2 DEF KeepLongest, IsLongest
    <3> QED BY <3>1, <3>2
  <2>4. CASE ~ (t = idx[r] /\ n = attempt[r])
    <3>1. Lines(attempts[t][n]) <= Lines(partial[t])
      BY <1>1, <2>4, StepIsOwn DEF LongestIsKept, BeingCompared
    <3>2. CASE partial'[t] = partial[t]
      BY <2>1, <3>1, <3>2
    <3>3. CASE partial'[t] # partial[t]
      <4>1. t = idx[r] /\ IsLongest(attempts[idx[r]][attempt[r]], t)
            /\ partial'[t] = attempts[idx[r]][attempt[r]]
        BY <1>4, <3>3 DEF KeepLongest, TypeOK
      <4>2. Lines(partial[t]) <= Lines(partial'[t])
        BY <1>2, <2>2, <4>1 DEF IsLongest, Lines
      <4> QED BY <1>2, <2>1, <2>2, <3>1, <4>1, <4>2
    <3> QED BY <3>2, <3>3
  <2> QED BY <2>3, <2>4
<1>5. CASE ~ SaveAttempt(r) /\ ~ KeepLongest(r)
  <2>1. /\ attempts' = attempts /\ partial' = partial
        /\ pc[r] = "keep" => UNCHANGED <<pc, idx, attempt>>
    BY <1>0, <1>5
       DEF Step, Invoke, SweepLook, SweepRemove, SweepDone, OpenLock, Flock, CheckApi, SkipTask,
           CannotRun, RunHermes, Answer, Accept, Discard, Finish
  <2>2. ~ BeingCompared(t, n)
    BY <2>1, StepIsOwn DEF BeingCompared
  <2> QED BY <1>1, <2>1, <2>2 DEF LongestIsKept
<1> QED BY <1>3, <1>4, <1>5

(* While no script is killed the partial report is at least as long as      *)
(* every attempt that is left (run_audits.sh:215-223).                      *)
THEOREM LongestStays == Spec => []LongestIsKept
<1>1. Init => LongestIsKept
  BY DEF Init, LongestIsKept, Lines
<1>2. TypeOK /\ AtTask /\ LongestIsKept /\ [Next]_vars => LongestIsKept'
  <2> SUFFICES ASSUME TypeOK, AtTask, LongestIsKept, [Next]_vars PROVE LongestIsKept'
      OBVIOUS
  <2>1. CASE \E r \in Runs : Step(r)
    BY <2>1, StepLongest
  <2>2. CASE RemoveLock \/ UNCHANGED vars
    BY <2>2 DEF RemoveLock, vars, script, files, aux, LongestIsKept, BeingCompared
  <2> QED BY <2>1, <2>2 DEF Next
<1> QED BY <1>1, <1>2, Typing, PTL DEF Spec
=============================================================================
