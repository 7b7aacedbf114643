------------------------- MODULE LlamaRunnerProofs -------------------------
(***************************************************************************)
(* Theorems about LlamaRunner, for any set of callers and any bounds.      *)
(* The record alone does not show that it tracks a watched process: the    *)
(* invariant adds who may change it (the mutex), and what has been born.   *)
(***************************************************************************)
EXTENDS LlamaRunner, TLAPS

(* The mutex is held, across steps, exactly by the Stop in progress ... *)
LockInv == \A c \in Callers : (mu = c) <=> (pc[c] \in InStop)

(* ... and while it is, the record stays. *)
HeldInv == mu # NoOne => state.running

RecordInv == (state.running <=> state.cmd # 0) /\ TrackedIsWatched

(* A monitor that has reaped its process is right about its end. *)
ReapedInv == \A p \in Procs : monitor[p] = "reaped" => proc[p] = "exited"

(* Processes and monitors come with the launches, in order. *)
BirthInv == \A p \in Procs : /\ (proc[p] = "unborn") <=> (p > nproc)
                             /\ (monitor[p] = "none") <=> (p > nproc)

IInv == TypeOK /\ LockInv /\ HeldInv /\ RecordInv /\ ReapedInv /\ BirthInv

LEMMA InitInv == Init => IInv
BY CallersAssumption, BoundsAssumption
   DEF Init, IInv, TypeOK, LockInv, HeldInv, RecordInv, TrackedIsWatched, ReapedInv, BirthInv,
       NoProcess, InStop, Procs

LEMMA RebootInv == IInv /\ Reboot => IInv'
<1> SUFFICES ASSUME IInv, Reboot PROVE IInv'
    OBVIOUS
<1> USE CallersAssumption, BoundsAssumption
    DEF IInv, TypeOK, LockInv, HeldInv, RecordInv, TrackedIsWatched, ReapedInv, BirthInv,
        Procs, InStop, Reboot, NoProcess
<1>1. TypeOK'
  OBVIOUS
<1>2. LockInv' /\ HeldInv' /\ RecordInv'
  OBVIOUS
<1>3. ReapedInv' /\ BirthInv'
  OBVIOUS
<1> QED BY <1>1, <1>2, <1>3

LEMMA CallerInv == ASSUME IInv, NEW c \in Callers, CallerStep(c) PROVE IInv'
<1> USE CallersAssumption, BoundsAssumption
    DEF IInv, TypeOK, LockInv, HeldInv, RecordInv, TrackedIsWatched, ReapedInv, BirthInv,
        Procs, InStop
<1>1. CASE Request(c)
  BY <1>1 DEF Request
<1>2. CASE Reply(c)
  BY <1>2 DEF Reply
<1>3. CASE StartRefused(c)
  BY <1>3 DEF StartRefused
<1>4. CASE Launch(c)
  BY <1>4 DEF Launch, MayStart, Launched, MonitorSpawned
<1>5. CASE StopRefused(c)
  BY <1>5 DEF StopRefused, AfterStop
<1>6. CASE StopSignal(c)
  BY <1>6 DEF StopSignal, MayStop, Signalled, Live
<1>7. CASE StopDone(c)
  BY <1>7 DEF StopDone, StopReset, AfterStop, NoProcess
<1>8. CASE StopTimeout(c)
  BY <1>8 DEF StopTimeout, StopReset, AfterStop, NoProcess, Signalled, Live
<1>9. CASE RestartCheck(c)
  BY <1>9 DEF RestartCheck
<1>10. CASE RestartWake(c)
  BY <1>10 DEF RestartWake
<1> QED
  BY <1>1, <1>2, <1>3, <1>4, <1>5, <1>6, <1>7, <1>8, <1>9, <1>10
     DEF CallerStep, StartStep, StopStep

LEMMA ProcInv == ASSUME IInv, NEW p \in Procs, ProcStep(p) PROVE IInv'
<1> USE CallersAssumption, BoundsAssumption
    DEF IInv, TypeOK, LockInv, HeldInv, RecordInv, TrackedIsWatched, ReapedInv, BirthInv,
        Procs, InStop
<1>1. CASE WaiterRead(p)
  BY <1>1 DEF WaiterRead
<1>2. CASE WaiterPanic(p)
  BY <1>2, RebootInv DEF WaiterPanic
<1>3. CASE MonitorReap(p)
  BY <1>3 DEF MonitorReap
<1>4. CASE MonitorUpdate(p)
  <2>1. /\ state' \in [running : BOOLEAN, pid : 0 .. MaxProc, cmd : 0 .. MaxProc]
        /\ state'.running = FALSE /\ state'.cmd = 0
    BY <1>4 DEF MonitorUpdate, Forgotten
  <2>2. TypeOK' /\ LockInv' /\ HeldInv'
    BY <1>4, <2>1 DEF MonitorUpdate
  <2>3. RecordInv' /\ ReapedInv' /\ BirthInv'
    BY <1>4, <2>1 DEF MonitorUpdate
  <2> QED BY <2>2, <2>3
<1>5. CASE Exit(p)
  BY <1>5 DEF Exit, Live
<1> QED BY <1>1, <1>2, <1>3, <1>4, <1>5 DEF ProcStep

LEMMA NextInv == IInv /\ [Next]_vars => IInv'
<1> SUFFICES ASSUME IInv, [Next]_vars PROVE IInv'
    OBVIOUS
<1>1. CASE Next
  BY <1>1, CallerInv, ProcInv, RebootInv DEF Next
<1>2. CASE UNCHANGED vars
  BY <1>2 DEF vars, IInv, TypeOK, LockInv, HeldInv, RecordInv, TrackedIsWatched, ReapedInv,
              BirthInv, InStop
<1> QED BY <1>1, <1>2

LEMMA Invariance == Spec => []IInv
BY InitInv, NextInv, PTL DEF Spec

(* Every variable keeps its shape. *)
THEOREM TypeCorrect == Spec => []TypeOK
<1>1. IInv => TypeOK
  BY DEF IInv
<1> QED BY <1>1, Invariance, PTL

(* What the record shows as running is watched by a monitor yet to report. *)
THEOREM Watched == Spec => []TrackedIsWatched
<1>1. IInv => TrackedIsWatched
  BY DEF IInv, RecordInv
<1> QED BY <1>1, Invariance, PTL

-----------------------------------------------------------------------------
(* A Stop that lets go of the mutex leaves its process ended or killed.     *)
THEOREM StopEffective == Spec => StopHasEffect
<1>1. ASSUME IInv, [Next]_vars, NEW c \in Callers,
             pc[c] \in InStop, pc'[c] \notin InStop, crashes' = crashes
      PROVE  proc'[state.cmd] \in {"killed", "exited"}
  <2> USE <1>1 DEF IInv, TypeOK, InStop
  <2>1. mu = c /\ mu # NoOne /\ state.running
    BY CallersAssumption DEF LockInv, HeldInv
  <2>2. state.cmd \in Procs /\ state.pid = state.cmd /\ proc[state.cmd] # "unborn"
    BY <2>1, BoundsAssumption DEF RecordInv, TrackedIsWatched, BirthInv, Procs
  <2>3. ASSUME NEW d \in Callers, CallerStep(d)
        PROVE  proc'[state.cmd] \in {"killed", "exited"}
    <3>1. StopDone(d) \/ StopTimeout(d)
      BY <2>1, <2>3, CallersAssumption
         DEF CallerStep, StartStep, StopStep, Request, Reply, StartRefused, Launch,
             StopRefused, StopSignal, RestartCheck, RestartWake, AfterStop
    <3>2. CASE StopDone(d)
      BY <2>2, <3>2 DEF StopDone, Waited
    <3>3. CASE StopTimeout(d)
      BY <2>2, <3>3 DEF StopTimeout, Signalled, Live, Procs
    <3> QED BY <3>1, <3>2, <3>3
  <2>4. ~ \E p \in Procs : ProcStep(p)
    BY BoundsAssumption
       DEF ProcStep, WaiterRead, WaiterPanic, Reboot, MonitorReap, MonitorUpdate, Exit
  <2>5. ~ Reboot /\ ~ UNCHANGED vars
    BY BoundsAssumption DEF Reboot, vars
  <2> QED BY <2>3, <2>4, <2>5 DEF Next
<1>2. IInv /\ [Next]_vars =>
        \A c \in Callers : (pc[c] \in InStop /\ pc'[c] \notin InStop /\ crashes' = crashes)
                             => proc'[state.cmd] \in {"killed", "exited"}
  BY <1>1
<1> QED BY <1>2, Invariance, PTL DEF Spec, StopHasEffect

(* A server nobody signalled is forgotten only by a late monitor or a crash. *)
THEOREM NeverQuietlyLost == Spec => NoQuietLoss
<1>1. ASSUME IInv, [Next]_vars, NEW p \in Procs,
             Loses(p)
      PROVE  crashes' # crashes \/ LateReport(p)
  <2> USE <1>1 DEF IInv, TypeOK, Tracks, Loses
  <2>1. state.running /\ state.cmd = p /\ state.pid = p
    BY DEF RecordInv, TrackedIsWatched
  <2>2. ASSUME NEW c \in Callers, CallerStep(c) PROVE FALSE
    <3>1. StopDone(c) \/ StopTimeout(c)
      BY <2>1, <2>2
         DEF CallerStep, StartStep, StopStep, Request, Reply, StartRefused, Launch, MayStart,
             StopRefused, StopSignal, RestartCheck, RestartWake
    <3>2. CASE StopDone(c)
      BY <2>1, <3>2 DEF StopDone, Waited
    <3>3. CASE StopTimeout(c)
      BY <2>1, <3>3 DEF StopTimeout, Signalled, Live
    <3> QED BY <3>1, <3>2, <3>3
  <2>3. ASSUME NEW q \in Procs, ProcStep(q) PROVE crashes' # crashes \/ LateReport(p)
    <3>1. CASE MonitorUpdate(q)
      <4>1. proc[p] = "alive" /\ monitor[q] = "reaped" /\ monitor'[q] = "done"
        BY <3>1 DEF MonitorUpdate
      <4>2. q # p
        BY <4>1 DEF ReapedInv
      <4> QED BY <4>1, <4>2 DEF LateReport
    <3>2. CASE WaiterPanic(q)
      BY <3>2, BoundsAssumption DEF WaiterPanic, Reboot
    <3>3. CASE WaiterRead(q) \/ MonitorReap(q) \/ Exit(q)
      BY <2>1, <3>3 DEF WaiterRead, MonitorReap, Exit
    <3> QED BY <2>3, <3>1, <3>2, <3>3 DEF ProcStep
  <2>4. CASE Reboot
    BY <2>4, BoundsAssumption DEF Reboot
  <2>5. CASE UNCHANGED vars
    BY <2>5 DEF vars
  <2> QED BY <2>2, <2>3, <2>4, <2>5 DEF Next
<1>2. IInv /\ [Next]_vars => \A p \in Procs : Loses(p) => (crashes' # crashes \/ LateReport(p))
  BY <1>1
<1> QED BY <1>2, Invariance, PTL DEF Spec, NoQuietLoss

-----------------------------------------------------------------------------
(* The record implements the slot: it is filled only when empty and only by *)
(* a process just launched.                                                 *)
THEOREM SlotRefinement == Spec => ImplementsSlot
<1> DEFINE Rec  == IF state.running THEN state.cmd ELSE 0
           Born == 1 .. nproc
<1>1. Init => Slot!SlotInit
  BY DEF Init, Slot!SlotInit, NoProcess
<1>2. ASSUME IInv, [Next]_vars
      PROVE  [Slot!SlotNext]_(Slot!slotVars)
  <2> USE <1>2 DEF IInv, TypeOK
  <2>1. ASSUME NEW c \in Callers, Launch(c)
        PROVE  Slot!Occupy(nproc') /\ nproc' \in Procs
    BY <2>1, BoundsAssumption DEF Launch, MayStart, Launched, Slot!Occupy, Procs
  <2>2. CASE Rec' = 0 /\ nproc' = nproc
    <3>1. CASE Rec = 0
      BY <2>2, <3>1 DEF Slot!slotVars
    <3>2. CASE Rec # 0
      BY <2>2, <3>2 DEF Slot!SlotNext, Slot!Vacate
    <3> QED BY <3>1, <3>2
  <2>3. CASE Rec' = Rec /\ nproc' = nproc
    BY <2>3 DEF Slot!slotVars
  <2>4. ASSUME NEW c \in Callers, CallerStep(c)
        PROVE  Launch(c) \/ (nproc' = nproc /\ (Rec' = 0 \/ Rec' = Rec))
    BY <2>4
       DEF CallerStep, StartStep, StopStep, Request, Reply, StartRefused, StopRefused,
           StopSignal, StopDone, StopTimeout, StopReset, NoProcess, RestartCheck, RestartWake
  <2>5. ASSUME NEW p \in Procs, ProcStep(p)
        PROVE  nproc' = nproc /\ (Rec' = 0 \/ Rec' = Rec)
    BY <2>5
       DEF ProcStep, WaiterRead, WaiterPanic, Reboot, NoProcess, MonitorReap, MonitorUpdate,
           Forgotten, Exit
  <2>6. CASE Reboot \/ UNCHANGED vars
    <3>1. nproc' = nproc /\ (Rec' = 0 \/ Rec' = Rec)
      BY <2>6 DEF Reboot, NoProcess, vars
    <3> QED BY <3>1, <2>2, <2>3
  <2>7. ASSUME NEW c \in Callers, Launch(c)
        PROVE  Slot!SlotNext
    BY <2>1, <2>7 DEF Slot!SlotNext
  <2> QED BY <2>2, <2>3, <2>4, <2>5, <2>6, <2>7 DEF Next
<1>3. IInv /\ [Next]_vars => [Slot!SlotNext]_(Slot!slotVars)
  BY <1>2
<1> QED BY <1>1, <1>3, Invariance, PTL DEF Spec, ImplementsSlot, Slot!SlotSpec
=============================================================================
