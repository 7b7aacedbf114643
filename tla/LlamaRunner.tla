---------------------------- MODULE LlamaRunner ----------------------------
(***************************************************************************)
(* llm.Runner (src/llm/runner.go) and the REST handlers that drive it: one *)
(* mutex, one process record, a monitor goroutine per llama-server, a      *)
(* waiter goroutine per Stop, and the operating system's processes.        *)
(*                                                                         *)
(* A process is named by the order of its launch, so 0 stands for a nil    *)
(* *exec.Cmd and a zero pid.  The profile is not kept: an unknown profile  *)
(* and a failing exec are refusals that may always happen.                 *)
(***************************************************************************)
EXTENDS Integers

CONSTANTS Callers,   \* concurrent REST requests for the model process
          NoOne,     \* the mutex is free
          MaxProc,   \* bound: llama-server launches
          MaxCrash   \* bound: deaths of the daemon

ASSUME CallersAssumption == NoOne \notin Callers
ASSUME BoundsAssumption  == MaxProc \in Nat /\ MaxCrash \in Nat

VARIABLES mu,        \* Runner.mu
          state,     \* Runner.state
          nproc,     \* processes launched so far
          proc,      \* each process as the operating system has it
          monitor,   \* each process's monitor goroutine
          waiter,    \* the goroutine a Stop of the process started
          pc,        \* where each request is
          crashes    \* deaths of the daemon so far

vars == <<mu, state, nproc, proc, monitor, waiter, pc, crashes>>

Procs == 1 .. MaxProc

NoProcess == [running |-> FALSE, pid |-> 0, cmd |-> 0]
Launched(p) == [running |-> TRUE, pid |-> p, cmd |-> p]

Live(p) == proc[p] \in {"alive", "termed", "killed"}

(* TLC also checks the shape of every variable. *)
TypeOK ==
  /\ mu \in Callers \union {NoOne}
  /\ state \in [running : BOOLEAN, pid : 0 .. MaxProc, cmd : 0 .. MaxProc]
  /\ nproc \in 0 .. MaxProc
  /\ proc \in [Procs -> {"unborn", "alive", "termed", "killed", "exited"}]
  /\ monitor \in [Procs -> {"none", "waiting", "reaped", "done"}]
  /\ waiter \in [Procs -> {"none", "spawned", "waiting", "gone"}]
  /\ pc \in [Callers -> {"idle", "start", "stop", "stopwait", "restart",
                         "rstop", "rstopwait", "rsleep", "reply"}]
  /\ crashes \in 0 .. MaxCrash

Init ==
  /\ mu = NoOne
  /\ state = NoProcess
  /\ nproc = 0
  /\ proc = [p \in Procs |-> "unborn"]
  /\ monitor = [p \in Procs |-> "none"]
  /\ waiter = [p \in Procs |-> "none"]
  /\ pc = [c \in Callers |-> "idle"]
  /\ crashes = 0

-----------------------------------------------------------------------------
(* Requests.  "reply" also stands for a request that only reads State().   *)

Request(c) ==
  /\ pc[c] = "idle"
  /\ \E op \in {"start", "stop", "restart", "reply"} : pc' = [pc EXCEPT ![c] = op]
  /\ UNCHANGED <<mu, state, nproc, proc, monitor, waiter, crashes>>

(* State(): the copy is taken under the lock; the handler answers with it. *)
Reply(c) ==
  /\ pc[c] = "reply" /\ mu = NoOne
  /\ pc' = [pc EXCEPT ![c] = "idle"]
  /\ UNCHANGED <<mu, state, nproc, proc, monitor, waiter, crashes>>

-----------------------------------------------------------------------------
(* Start: one critical section. *)

(* Mutant: the check made before the lock, so that it is stale. *)
AlwaysStart == TRUE
MayStart == ~state.running

(* Already running, or unknown profile, or the exec failed. *)
StartRefused(c) ==
  /\ pc[c] = "start" /\ mu = NoOne
  /\ pc' = [pc EXCEPT ![c] = "idle"]
  /\ UNCHANGED <<mu, state, nproc, proc, monitor, waiter, crashes>>

(* Mutant: no monitor goroutine. *)
NoMonitor(p) == monitor

MonitorSpawned(p) == [monitor EXCEPT ![p] = "waiting"]

Launch(c) ==
  /\ pc[c] = "start" /\ mu = NoOne
  /\ MayStart
  /\ nproc < MaxProc
  /\ nproc' = nproc + 1
  /\ proc' = [proc EXCEPT ![nproc'] = "alive"]
  /\ state' = Launched(nproc')
  /\ monitor' = MonitorSpawned(nproc')
  /\ pc' = [pc EXCEPT ![c] = "reply"]
  /\ UNCHANGED <<mu, waiter, crashes>>

-----------------------------------------------------------------------------
(* Stop: holds the mutex from its check to its reset, across the wait for   *)
(* the process.  "rstop" and "rstopwait" are the same code inside Restart.  *)

MayStop == state.running /\ state.cmd # 0

InStop == {"stopwait", "rstopwait"}

AfterStop(c) ==
  [pc EXCEPT ![c] = IF pc[c] \in {"stop", "stopwait"} THEN "idle" ELSE "rsleep"]

StopRefused(c) ==
  /\ pc[c] \in {"stop", "rstop"} /\ mu = NoOne
  /\ ~MayStop
  /\ pc' = AfterStop(c)
  /\ UNCHANGED <<mu, state, nproc, proc, monitor, waiter, crashes>>

(* Mutant: SIGTERM again where SIGKILL is due. *)
TermOnly(p, mark) == [proc EXCEPT ![p] = IF Live(p) THEN "termed" ELSE @]

Signalled(p, mark) == [proc EXCEPT ![p] = IF Live(p) THEN mark ELSE @]

(* The SIGTERM to the process group, and the goroutine that will wait. *)
StopSignal(c) ==
  /\ pc[c] \in {"stop", "rstop"} /\ mu = NoOne
  /\ MayStop
  /\ mu' = c
  /\ proc' = Signalled(state.pid, "termed")
  /\ waiter' = [waiter EXCEPT ![state.cmd] = "spawned"]
  /\ pc' = [pc EXCEPT ![c] = IF @ = "stop" THEN "stopwait" ELSE "rstopwait"]
  /\ UNCHANGED <<state, nproc, monitor, crashes>>

StopReset(c) ==
  /\ state' = NoProcess
  /\ mu' = NoOne
  /\ pc' = AfterStop(c)
  /\ waiter' = [waiter EXCEPT ![state.cmd] = IF @ = "waiting" THEN "gone" ELSE @]

Waited(p) == waiter[p] = "waiting" /\ proc[p] = "exited"

StopDone(c) ==
  /\ pc[c] \in InStop
  /\ Waited(state.cmd)
  /\ StopReset(c)
  /\ UNCHANGED <<nproc, proc, monitor, crashes>>

(* Mutant: the select without its timer. *)
NoTimer(c) == pc[c] \in InStop /\ FALSE

(* The five seconds are up: SIGKILL, and no further wait. *)
StopTimeout(c) ==
  /\ pc[c] \in InStop
  /\ proc' = Signalled(state.pid, "killed")
  /\ StopReset(c)
  /\ UNCHANGED <<nproc, monitor, crashes>>

-----------------------------------------------------------------------------
(* Restart: three critical sections with the lock free in between. *)

RestartCheck(c) ==
  /\ pc[c] = "restart" /\ mu = NoOne
  /\ pc' = [pc EXCEPT ![c] = IF state.running THEN "rstop" ELSE "start"]
  /\ UNCHANGED <<mu, state, nproc, proc, monitor, waiter, crashes>>

RestartWake(c) ==
  /\ pc[c] = "rsleep"
  /\ pc' = [pc EXCEPT ![c] = "start"]
  /\ UNCHANGED <<mu, state, nproc, proc, monitor, waiter, crashes>>

-----------------------------------------------------------------------------
(* The daemon's death, by a panic or otherwise, and its restart: memory is  *)
(* gone, the servers, in process groups of their own, are not.              *)

Reboot ==
  /\ crashes < MaxCrash
  /\ crashes' = crashes + 1
  /\ mu' = NoOne
  /\ state' = NoProcess
  /\ monitor' = [p \in Procs |-> IF monitor[p] = "none" THEN "none" ELSE "done"]
  /\ waiter' = [p \in Procs |-> IF waiter[p] = "none" THEN "none" ELSE "gone"]
  /\ pc' = [c \in Callers |-> "idle"]
  /\ UNCHANGED <<nproc, proc>>

(* Goroutines. *)

(* The Stop's goroutine evaluates r.state.Cmd only now, without the lock.   *)
(* The record it finds is the one being stopped, a later one (whose exit    *)
(* nobody is told), or none at all: then Wait on a nil Cmd panics.          *)
WaiterRead(p) ==
  /\ waiter[p] = "spawned"
  /\ state.cmd # 0
  /\ waiter' = [waiter EXCEPT ![p] = IF state.cmd = p THEN "waiting" ELSE "gone"]
  /\ UNCHANGED <<mu, state, nproc, proc, monitor, pc, crashes>>

WaiterPanic(p) ==
  /\ waiter[p] = "spawned"
  /\ state.cmd = 0
  /\ Reboot

(* monitor: cmd.Wait() returns ... *)
MonitorReap(p) ==
  /\ monitor[p] = "waiting" /\ proc[p] = "exited"
  /\ monitor' = [monitor EXCEPT ![p] = "reaped"]
  /\ UNCHANGED <<mu, state, nproc, proc, waiter, pc, crashes>>

Forgotten == [running |-> FALSE, pid |-> state.pid, cmd |-> 0]

(* ... and the record is cleared, whichever process it is about by then. *)
MonitorUpdate(p) ==
  /\ monitor[p] = "reaped" /\ mu = NoOne
  /\ state' = Forgotten
  /\ monitor' = [monitor EXCEPT ![p] = "done"]
  /\ UNCHANGED <<mu, nproc, proc, waiter, pc, crashes>>

(* The operating system: a server may end at any time, by itself or because *)
(* of a signal.                                                             *)
Exit(p) ==
  /\ Live(p)
  /\ proc' = [proc EXCEPT ![p] = "exited"]
  /\ UNCHANGED <<mu, state, nproc, monitor, waiter, pc, crashes>>

StartStep(c) == Launch(c) \/ StartRefused(c)
StopStep(c)  == StopSignal(c) \/ StopRefused(c)

(* The steps that wait for the mutex, and those that wait for a timer. *)
LockStep(c)  == Reply(c) \/ StartStep(c) \/ StopStep(c) \/ RestartCheck(c)
TimerStep(c) == StopTimeout(c) \/ RestartWake(c)

CallerStep(c) ==
  \/ Request(c) \/ Reply(c) \/ StartStep(c) \/ StopStep(c)
  \/ StopDone(c) \/ StopTimeout(c) \/ RestartCheck(c) \/ RestartWake(c)

ProcStep(p) ==
  \/ WaiterRead(p) \/ WaiterPanic(p) \/ MonitorReap(p) \/ MonitorUpdate(p) \/ Exit(p)

Next ==
  \/ \E c \in Callers : CallerStep(c)
  \/ \E p \in Procs : ProcStep(p)
  \/ Reboot

Spec == Init /\ [][Next]_vars

(* A goroutine blocked on a sync.Mutex gets it in the end (after a          *)
(* millisecond of waiting the mutex is handed over in order), hence strong  *)
(* fairness for the steps that lock.  Timers fire and runnable goroutines   *)
(* run: weak fairness.  Nothing is assumed of the processes but that a      *)
(* SIGKILL works, and nothing of requests or crashes.                       *)
Fairness ==
  /\ \A c \in Callers : SF_vars(LockStep(c)) /\ WF_vars(TimerStep(c))
  /\ \A p \in Procs :
       /\ WF_vars(MonitorReap(p)) /\ SF_vars(MonitorUpdate(p))
       /\ WF_vars(WaiterRead(p))
       /\ WF_vars(proc[p] = "killed" /\ Exit(p))

LiveSpec == Spec /\ Fairness

-----------------------------------------------------------------------------
(* Properties.  The record tracks process p: *)
Tracks(p) == state.running /\ state.cmd = p

(* A process the record shows as running has a monitor that has not yet     *)
(* reported: its end cannot go unnoticed (runner.go:96-109, 165-178).       *)
TrackedIsWatched ==
  state.running =>
    /\ state.cmd \in 1 .. nproc
    /\ state.pid = state.cmd
    /\ monitor[state.cmd] \in {"waiting", "reaped"}

(* When Stop lets go of the mutex, the process it was asked to stop has     *)
(* ended or has been sent SIGKILL, whatever the monitors, the waiters and   *)
(* the other requests did during the wait (runner.go:115-151).              *)
StopHasEffect ==
  [][\A c \in Callers :
       (pc[c] \in InStop /\ pc'[c] \notin InStop /\ crashes' = crashes)
         => proc'[state.cmd] \in {"killed", "exited"}]_vars

(* A server nobody has signalled drops off the record in this step ... *)
Loses(p) == Tracks(p) /\ proc'[p] = "alive" /\ ~(state'.running /\ state'.cmd = p)

(* ... in which another process's monitor reports. *)
LateReport(p) == \E q \in Procs \ {p} : monitor[q] = "reaped" /\ monitor'[q] = "done"

(* The record of a server nobody has signalled is lost only to the daemon's *)
(* death or to a monitor of another process that reports late: never to a   *)
(* Start, a Stop, a Restart or a waiter (runner.go:54, 149, 176).           *)
NoQuietLoss ==
  [][\A p \in Procs : Loses(p) => (crashes' # crashes \/ LateReport(p))]_vars

(* The record behaves as the slot of ServerSlot. *)
Slot == INSTANCE ServerSlot
          WITH Procs  <- Procs,
               Nobody <- 0,
               slot   <- IF state.running THEN state.cmd ELSE 0,
               used   <- 1 .. nproc
ImplementsSlot == Slot!SlotSpec

(* The guard of runner.go:54 is there so that one server runs at a time.    *)
(* It does not keep that promise: see the run runner_one_server.            *)
OneServer == \A p, q \in Procs : (proc[p] = "alive" /\ proc[q] = "alive") => p = q

(* A server that ends does not stay on record as running (runner.go:164).   *)
StatusCatchesUp ==
  \A p \in Procs : (Tracks(p) /\ proc[p] = "exited") ~> ~Tracks(p)

BeingStopped(p) == proc[p] = "termed" /\ mu # NoOne /\ state.cmd = p

(* A server that a Stop has sent its SIGTERM ends, though it may ignore the  *)
(* signal, unless the daemon dies meanwhile (runner.go:123-147).             *)
StoppedEnds ==
  \A p \in Procs, k \in 0 .. MaxCrash :
    (BeingStopped(p) /\ crashes = k) ~> (proc[p] = "exited" \/ crashes > k)

(* Every request is answered, also the ones queueing for the mutex behind a *)
(* Stop that waits for a server that will not end (runner.go:115-162).      *)
RequestsFinish == \A c \in Callers : (pc[c] # "idle") ~> (pc[c] = "idle")
=============================================================================
