# A verification development for the Archangel daemon

Archangel (`src/`) is a Go daemon that runs local language models for code audits: it starts
and stops `llama-server`, streams its log to browsers and gRPC clients, maps a Go workspace
into an SQLite code graph, traces paths in that graph, decomposes tasks (ADaPT) and watches a
model's tool calls for loops. Beside it, `src/hermes_code_audits/` holds the shell batch that
runs audits overnight. This directory models the parts whose correctness depends on order,
concurrency, failure or bounds, checks them with TLC on small instances, and proves the
properties that matter most with TLAPS for every value of the constants.

    tlc -workers 2 -config runner.cfg LlamaRunner.tla      # one run
    tlapm LlamaRunnerProofs.tla                            # one module's proofs

Each run of `PROJECT.json` names its module and its `.cfg`.

## 1. Inventory

| Component | State it keeps | Operations | What is hard | What makes it correct |
|---|---|---|---|---|
| **llama-server runner** `llm/runner.go` | one mutex, one process record (running, pid, `*exec.Cmd`), a monitor goroutine per server, a waiter goroutine per Stop | Start, Stop, Restart, State; monitor | Stop holds the mutex for up to 5 s; Restart is four critical sections; monitors and waiters outlive the record they were started for; the server outlives the daemon (`Setpgid`) | the record follows a live, watched process; Stop has an effect; requests are answered |
| **process control handlers** `endpoints/handlers.go:274-333` | none | StartModelProcess, StopModelProcess, RestartModelProcess, status | concurrent requests | as above |
| **log broadcaster** `config/config.go:97-168` | a queue of 100 lines, the map of listeners, a channel of 50 per listener | Write, Register, Deregister, the hub's select loop | the hub must never wait for a client nor send on a closed channel; queues that fill | order, no unexplained gap, no stuck client, no leak |
| **log streams** `handlers.go:132-157`, `grpc/grpc.go` | one channel per client | SSE and gRPC streams | clients that vanish or stop reading; the two end differently when a send fails | every channel is given up and closed once |
| **audit tasks** `handlers.go:343-412` | the list of task records, under `stateMu` | RunAuditTask and its background pass, CancelAuditTask, GetDaemonStatus | passes end in any order, during cancels, which stop none, and status requests that hold the lock over queries; ids of one second | each task's record gets its own outcome, for good |
| **code graph database** `cpg/db.go`, `cpg/schema.sql` | nodes, edges | InsertNode (INSERT OR REPLACE), InsertEdge, Stats, search | foreign keys and cascades, set per connection of a pool; a file that outlives the daemon, its stale rows included | last calls are kept, stale ones go |
| **recursive traces** `cpg/db.go:148-287` | none (one query) | GetCallers, TraceDataFlow | cycles, depth limit, LIKE as cycle check | exactly what is reachable, once depth-bounded |
| **scout indexer** `scout/indexer.go` | none but the database | Pass1MapWorkspace, indexFunction, Pass2SelectTargets, ReverseAuditTrace | inserts in source order with failures passed over; overlapping passes | what was walked is in the graph |
| **model profile store** `config/config.go:277-356`, handlers, `main.go` | the list of profiles (a Go slice), a file | Create, Update, Delete, List; save; load at boot | change and save are separate critical sections; truncate-then-write; crashes; List reads the slice without the lock while it is overwritten and shifted in place, extended and moved | ids unique, file agrees with memory, a listing shows what is there |
| **ADaPT controller** `adapt/orchestrator.go` | the task tree, a counter | Execute and its recursion | AND/OR composition, depth budget, early decisions | the tree's outcomes compose; the recursion ends |
| **doom-loop detector** `llm/client.go:229-280` | window of tool calls, warning count | checkDoomLoop, ResetDoomLoop | batches against a window trimmed per answer; windows of zero and less; a limit that changes | warns exactly on repetition |
| **agent loop** `main.go:136-200` | a history of tool calls | one loop of 90 steps after boot | the window is read twice a step from a configuration that requests change | pauses for a repetition only, and in time |
| **daemon configuration** `config/config.go:170-275`, `handlers.go:164-184`, `main.go:27-38` | a shared struct, `archangel.yml` | LoadConfig, Save, UpdateConfig, load at boot | written and saved without a lock; truncate-then-write; references to environment variables, expanded or kept; crashes | a boot loads what an undisturbed update left in memory |
| **overnight batch** `hermes_code_audits/run_audits.sh`, `retry_failed.sh`, `scripts/lib/*` | lock file, reports, attempts, partial reports | a run from lock to exit code; removal of invalid reports | kills, an inherited lock descriptor, retries, a check-then-remove without the lock | one batch at a time; valid reports survive; exit code 0 means done |
| LLM HTTP client `llm/client.go` | none beyond the detector | Complete, StripThinking | one request, text handling | *not modelled* |
| router, pages, generated code, backend and benchmark scripts, `apply_profile.sh` | none of the daemon's | – | – | *not modelled*: stateless, generated, or I/O around programs that are not in the repository |

How they interact: the REST handlers call the runner, the profile store, the indexer and the
database directly; `RunAuditTask` starts a goroutine that calls `Pass1MapWorkspace` and then
records its outcome under `stateMu`; every log statement of the daemon is a `Write` of the
broadcaster; `GetDaemonStatus` holds `stateMu` for reading while it asks the runner and the
database. `UpdateConfig` overwrites the struct that the agent loop and the LLM client go on reading.
The batch shares nothing with the daemon but a results directory and an API.

## 2. Modules

| Module | Models | Extends / instantiates |
|---|---|---|
| `ServerSlot` | abstract specification: a slot that is filled only when empty, each time by a new process | – |
| `LlamaRunner` | runner and process handlers | `Slot == INSTANCE ServerSlot` (refinement) |
| `LlamaRunnerProofs` | theorems | `LlamaRunner` |
| `LogBroadcaster`, `LogBroadcasterMC` | broadcaster and streams; the MC module adds a log that never falls silent | – |
| `LogBroadcasterProofs` | theorems | `LogBroadcaster` |
| `CodeGraph` | the database's two statements as operators on a graph | – |
| `ScoutIndexer`, `ScoutIndexerMC` | passes statement by statement over a connection pool | `CodeGraph` |
| `AuditTasks` | the list of audits | – |
| `AuditIndexing`, `AuditIndexingMC` | both together: the goroutine of a task runs a pass | `ScoutIndexer`, `Audits == INSTANCE AuditTasks` |
| `AuditIndexingProofs` | theorems on the indexer, the tasks and both together | `AuditIndexing` |
| `CallTrace`, `CallTraceMC` | the recursive queries, level by level, and the verdict read off them | – |
| `CallTraceProofs` | theorems | `CallTrace` |
| `ProfileStore` | profiles, requests, file, crashes | – |
| `ProfileList` | abstract specification: a list of profiles that each change alters in one step | – |
| `ProfileListing` | the slice of profiles word by word, and the unlocked listing | `Abstract == INSTANCE ProfileList` (refinement) |
| `ConfigStore` | the configuration, its file, unlocked updates, crashes | – |
| `Settings`, `SettingsMC` | the three side by side | `ProfileStore`; instantiates `ProfileListing`, `ConfigStore` |
| `SettingsProofs` | theorems on each of the three and on all | `Settings` |
| `AdaptController` | the recursion of `executeTask` with its stack made explicit | – |
| `AdaptControllerProofs` | theorems on the controller | `Agent` |
| `DoomLoop` | the client's detector with the whole conversation as history variable | – |
| `AgentLoop` | the daemon's own loop | – |
| `Detectors` | both detectors side by side | `AgentLoop`; instantiates `DoomLoop` |
| `Agent`, `AgentMC` | the detectors and the controller side by side | `Detectors`; instantiates `AdaptController` |
| `DetectorProofs` | theorems on each detector, on both and on the composition | `Agent` |
| `AuditBatch`, `AuditBatchMC` | invocations of the overnight batch | – |
| `AuditBatchProofs` | theorems | `AuditBatch` |

### LlamaRunner
A process is named by the order of its launch; 0 stands for a nil `*exec.Cmd`. `mu` is
`Runner.mu`, `state` the record, `proc` what the operating system does with each process
(`alive`, `termed` after SIGTERM, `killed` after SIGKILL, `exited`), `monitor` and `waiter` the
goroutines, `pc` the place of each request. Operations that are one critical section (Start,
State, the monitor's report) are one action; Stop is `StopSignal` (lock, SIGTERM, start the
waiter), then `StopDone` or `StopTimeout` (SIGKILL), with the mutex held from the first to the
last; Restart is `RestartCheck`, Stop, `RestartWake` after its sleep, Start. The waiter reads
`r.state.Cmd` without the lock when it gets to run (`WaiterRead`): it may find the process of
the Stop, or nil, which panics the daemon (`WaiterPanic`, then `Reboot`). An unknown profile and
a failing exec are refusals that may always happen. Mapped to `ServerSlot` by
`slot <- IF state.running THEN state.cmd ELSE 0`, `used <- 1..nproc`.

### LogBroadcaster
The hub's select is `HubRegister`, `HubDeregister`, `HubTake`; a fan-out is one `HubSend` per
listener, in any order (a Go map), during which the streams go on. `Write` never waits. The two
kinds of stream differ where the code does: a failing send ends a gRPC stream, an SSE stream
leaves at its next select. A line is its number, so that order and gaps can be stated.

### CodeGraph, ScoutIndexer, AuditTasks, AuditIndexing
A workspace is a sequence of declarations with their calls, in the order of the walk. The database
is a file that `cpg.Open` opens and nothing in the code empties, so a behaviour begins with any
graph of `Stored`: an empty one, or what an earlier daemon with another workspace left, stale rows
and edges without their nodes included. A pass takes a connection for each statement (`Begin`),
executes it (`NodeStatement`, `EdgeStatement`) and goes on (`After`). `INSERT OR REPLACE` of a node
deletes the old row and by cascade its edges, on a connection that has foreign keys on; only the
connection opened first has (the pragmas are executed once, not per connection). Any statement on
any connection may fail (`Fails`: a database busy for too long, a full disk, an I/O error); the
failure is logged and passed over, which `lost` remembers of the pass. `skipped` says that
the walk skips its root. Three history variables say what the properties are about: `batch`, the
passes started since none was at work, `found`, the graph the first of them found, and
`keyless`, whether any of them stored something without foreign keys.

`AuditTasks` is the list; its ids are the clock in seconds and an outcome goes to the first
record of that id. `AuditIndexing` puts each task's pass to work and lets `RunAuditTask`,
`CancelAuditTask` and `Record` wait while a status request holds `stateMu` over its queries.

### CallTrace
A row is the path from the root, so hops and trail are read off it. `alike` is the relation that
LIKE decides: equality, or with ids that differ in case only. The reference `Reach(d)` is where the
walks of at most d hops end, cycles and detours included, so it shares neither the levels nor
the pruning with the query. `Entries` are the nodes whose names
`ReverseAuditTrace` takes for entry points; `Reachable` is its verdict.

### ProfileStore
Handlers interleave between check, change and save; `SaveOpen` truncates and `SaveWrite` writes,
under the lock. Opening and writing may fail. `bootPath` is what `-models` said, while every
handler saves to `models.yml`.

### ProfileListing, ProfileList
A slice is an array (`arr`, as long as its capacity) and a length; a profile is two words, its id
and the rest of it, each stored and read on its own. Changes hold the mutex and so are steps of one
writer. An update overwrites its cell word by word (`StoreWord`). An append into spare room stores
the length (`Extend`) before it stores the profile; a full list is first moved to an array of
twice the size, whose new cells are blank. A deletion shifts the rest down one word a step
(`ShiftWord`) and then stores the length. `ListProfiles` reads the pointer and the length in either
order, then the words of each profile (`ReadId`, `ReadRest`), without the lock; `old` is the array
it has the pointer of once the list has left it, `gap` the row whose profile was not yet stored
when its length was read. The list that `ProfileList` speaks of is `profiles`, in which a
change counts from its first step.

Four things are taken as given. Stores reach the reader in the order the writer makes them, as
on amd64. The words of one profile may be stored in any order, but a word is whole: a string,
which is itself a pointer and a length, could be torn further. The shift copies from the front,
element by element. And a listing reads each profile once.

### ConfigStore
Three fields stand for the configuration: one text that may refer to the environment, one flag
(`preserve_env_refs`, which decides what becomes of the text), one number (`tool_history_window`).
`LoadConfig` lays what the file says over the defaults; references are kept only if the file
reads as it stands and says so, and expanded otherwise. `UpdateConfig` copies field by field
(`Copy`), marshals the shared struct (`Marshal`), truncates and writes (`Open`, `Write`), each
interleaved with the other request's. A shorter text written over a longer one leaves its end
behind (`rest`), with which the next boot may fail.

### Settings, Detectors, Agent: unrelated components side by side
These hold components that share no variable. A product of their state
spaces would show nothing that the components do not show alone, so a behaviour follows one
component (`subject`, `detector`) and the others rest in one of their initial states: the run
covers the sum of the state spaces, every one of them whole. The theorems are about each
component's own specification; `SettingsCorrect`, `DetectorsCorrect` and `AgentRunsBoth` carry them
over to the compositions that the runs check.

### AdaptController, DoomLoop
The call stack of `executeTask` is the path from the root to `cur`; executor and planner answer
anything. `DoomLoop` keeps every answer since the last reset, so that its properties speak of
the conversation and not of the window the code keeps. Its window is copied when the client is
made, its limit is read at every check and so may change (`UpdateConfig`).

### AgentLoop
Each step records and trims (`Record`), then judges (`Judge`); both read the window, which
`UpdateConfig` sets to anything in between. `settled` counts the steps since it was set, `shrunk`
says that it was set below the length of the history: one call is dropped a step, so the
history then stays longer than the window and the loop is blind for good.

### AuditBatch
`pc` is where a script is, `held` the inode that descriptor 200 has locked (hermes inherits the
descriptor, so a hermes that outlives its script keeps the lock), `lockFile` the inode that the
path names. Opening the lock file and `flock -n` are two steps. What a file holds is its number
of lines and whether the greps of `output_is_valid` accept it; a task runs as in `run_one_task`,
moves of attempt and partial report being separate steps. `main`'s look at an existing report
and the same look at the start of `run_one_task` are one step: nothing but a `retry_failed.sh`
writes in between, and what was invalid at the first look is still so, or gone, at the second. A dry run and a failing check
of the API end with the lock held (`CheckApi`). `overtaken` remembers that a report was put where a
sweep is about to remove one. All invocations share one manifest, one `MinOutputLines` and one
`MaxRetries`; `run_videobytes_marathon.sh:27-30` shows that they can be set per invocation, in which
case a report valid for one may not be for the next. `Crash` kills a script anywhere, its
hermes with it or not. `RemoveLock` is the documented advice "If stale: rm -f", followed when no
script runs.

## 3. Runs

Properties are stated and explained in the modules; here is what each run asks and why its
bounds are enough.

| Run | Bounds (states) | What it shows |
|---|---|---|
| `runner` | 2 requests, 2 launches, 1 death of the daemon (18 thousand) | with two of each, a Stop can wait for one server while another request queues, a Restart can be overtaken in its sleep, and a monitor or waiter of the first server can meet the record of the second. `TrackedIsWatched`, `StopHasEffect`, `NoQuietLoss`, `ImplementsSlot`; live: `StatusCatchesUp`, `StoppedEnds`, `RequestsFinish` |
| `log_safety` | one stream of each kind, queue 2, channels 2, 5 lines (220 thousand) | the queue and the channels overflow, a stream joins or leaves at any point of a fan-out. `ClosedIsForgotten`, `InOrder`, `NoSilentGap` |
| `log_live` | queue 2, channels 1, an endless log (27 thousand) | registration, departure and draining cannot be starved by other clients. `RegisterReturns`, `GoneIsClosed`, `QueueDrains` |
| `audit_indexing` | 2 tasks in different seconds, 2 passes, 1 status request; an empty workspace, one in which calls go both ways and one in which a function is declared twice; a new database, and one with a stale node, a stale edge and an edge without its target (837 thousand) | two passes overlap on one or more connections, any statement fails, stored contents are met. `OverlapKeepsCalls`, `NoStaleCalls`, `CompletedIsIndexed`, `OutcomeIsOwn`, `OutcomeIsFinal`; live: `EveryTaskEnds` |
| `profiles_safety` | store: 2 requests, 2 ids, 2 values, 1 crash, both boot paths; listing: 2 profiles of each of 2 ids, arrays of up to 2; configuration: 2 requests, 3 bodies, 3 files and none, 1 crash (2.9 million, with symmetry) | two saves in either order, a failure of each step, a crash between truncation and write; a listing met, between any two words, by updates, by appends in place and moved, before and after their length, and by a shift; two updates mixed at each field and each write. Shifts over several cells, which two ids do not make, are left to the proofs, which hold for any number of ids. `UniqueIds`, `BootWouldLoadMemory`, `Implements`, `NothingInvented`, `NoneMissing`, `FileMatchesMemory` |
| `trace_exact` | every graph of 3 nodes, every root, depths 0 to 3, both meanings of LIKE (64 thousand) | 3 nodes hold every self-loop, cycle, diamond and detour that the check can meet. `FindsExactlyTheReachable`, `RowsArePaths`, `VerdictIsSound` |
| `agent` | client: windows -1, 0, 2, 3, limits 1 and 2, batches of up to 2, 4 answers; loop: windows -1, 0, 1, 3, 4, all 90 steps; controller: depth 2, plans of up to 3 (445 thousand) | loops that start, end or cross inside a batch; warnings interrupted and resumed; windows changed at every step and between the two reads; a decomposed task inside a decomposed task, with a sub-task before and after it. `WarnsOnRepetition`, `HardStopIsEarned`, `PauseIsEarned`, `NoticedInTime`, `RunningIsTheStack`, `OutcomesCompose`; live: `ExecuteEnds` |
| `batch` | 2 invocations of five kinds, 2 tasks, 2 attempts, 1 kill, 1 removal (3.9 million distinct states, with symmetry) | a killed script with and without its hermes, the next invocation beside it, a `retry_failed.sh` beside a batch. `OneBatchAtATime`, `CleanExitIsComplete`, `LongestIsKept`, `ReportsSurvive` |

A deadlock check is switched off only where the system really stops: no line or stream is left
(`log_safety`), the query, the call or the night is over, the bound of a conversation is reached.

Several properties above hold only as they are phrased, and the phrasing says what the code does
not promise:
- `NoQuietLoss` excepts a late monitor.
- `OverlapKeepsCalls` keeps only calls to what was found or is declared no later, after passes none of
  which lost a statement; `NoStaleCalls` needs the connection with the pragmas besides, and excepts
  edges that were found without their function, for a REPLACE of a row that is not there
  takes no edge away. Stale rows that the workspace does not touch stay for ever.
- `CompletedIsIndexed` is for audits whose own pass lost no statement: the code records
  `completed` of the others, too.
- `ReportsSurvive` excepts a report that came between the judgement of a `retry_failed.sh` and its rm.
- `BootWouldLoadMemory` is for a daemon started from `models.yml`.
- `NothingInvented` holds for words, not for whole profiles, and excepts one row, if the length was
  read between the two stores of an append, and a list that moved between the two reads.
- `NoneMissing` promises what stands in front of the first profile that an update or a deletion
  reached while the listing was under way.
- `FileMatchesMemory` excepts updates that overlapped or whose save failed.
- `NoticedInTime` excepts a window set below the history.

### Disagreements found (runs that end in a violation)

| Run | Property | What happens |
|---|---|---|
| `runner_one_server` | `OneServer` | Stop gives up on a server, Start launches another, then the first one's monitor reports and clears the record (`runner.go:176`); a further Start launches a second server beside the live one, against the guard's "model process already running … stop it first" (`runner.go:55`) |
| `indexer_root` | `EveryDeclarationHasNode` | the walk skips directories whose base name starts with a dot, the root too, and the daemon's root is "." (`main.go:86`, `indexer.go:55`): an audit completes with an empty graph |
| `audit_same_second` | `EveryTaskEnds` | two audits of one second have one id; both outcomes go to the first record, the second is running for ever (`handlers.go:349,364`) |
| `audit_cancelled` | `CancelIsFinal` | a cancel marks the record and stops no pass; the end of the pass overwrites the mark with `completed` (`handlers.go:372`), against "Terminate currently running audit process" (`handlers.go:100`), "cancels the currently active audit" (391) and "Force termination and rollback on currently executing audit" (627) |

Smaller facts met on the way, without a run of their own:
- Calls to a function declared further on are lost on a new database: the foreign key refuses their
  edge, and a second pass loses them again to the cascade (`indexer.go:224`, `db.go:92`).
  `OverlapKeepsCalls` says which calls remain.
- Nothing removes from `cpg.db` the nodes of functions that are gone, nor their calls, unless they
  touch a function that is still there (`db.go:52-71`).
- `executeTrace` does not look at `rows.Err()` (`db.go:279-286`): an error in the midst of the rows
  returns the beginning of a trace as the whole. The model has only traces that are read to the end.
- `UpdateProfile` checks and puts in two critical sections and so can create a profile that was
  just deleted (`handlers.go:227-243`); profiles are saved to `models.yml` whatever `-models` said.
- A listing that a deletion overtakes may show a profile twice, lack one that stayed, or show one
  that is gone; one that meets an update or a shift may show half of one profile and half of
  another; one that meets an append may show a row not yet written, or what a deletion left in that
  cell, or read behind its array (`handlers.go:188`, `config.go:337,341,351`).
- A PUT of `/api/config` replaces the whole struct: fields the body leaves out become zero, and as
  the structs have no json tags the names are Go's. With the window left out, the client's next
  warning indexes an empty history and panics; below zero, its trimming does (`client.go:246,265`).
- Two updates at once can leave in memory, and in the file, a mixture of both; two WriteFiles at
  once can leave a text with the end of another behind it, and the daemon then does not boot. A
  death between truncation and write boots with the defaults (`config.go:269`).
- A file without `preserve_env_refs` has its references expanded, though the default is true, and
  the next save writes the values (`config.go:241-254`; `archangel.yml:39`: "Prevents env variables
  from being overwritten on disk save"). So has one in which a number is written as a reference.
- Lowering the window below the calls remembered blinds the agent loop's detector (`main.go:170`).
- A caller whose id differs in case only from one on the path is pruned, and the verdict can
  call a reachable bug unreachable (`db.go:162`, `indexer.go:144`).
- Two concurrent `Execute` on one controller share the counter that each resets, and ids repeat
  (`orchestrator.go:85`).
- The "HARD STOP" is text appended to an answer, nothing is stopped (`client.go:261`); a loop that
  begins and ends within one batch is not seen (`client.go:244`).
- Foreign keys and the busy timeout hold on one connection of the pool only (`db.go:57-62`).
- `grep -c … || echo 0` yields two lines when there is no heading, on which the comparison
  fails, so a report without headings passes the generic check (`audit_common.sh:98`); no task
  of the manifests reaches it, all have expected sections.
- `run_audits.sh --profile` changes the configuration of hermes before it looks at the lock
  (lines 93-100 and 247).
- A batch killed between lines 217 and 222 leaves its longest attempt where the next batch
  overwrites it.

## 4. Fairness

Liveness is checked only under what the code's scheduling gives:
- *Runner*: strong fairness for steps that take the mutex, for a `sync.Mutex` hands over in order
  after a millisecond; weak fairness for timers and runnable goroutines; a process that was sent
  SIGKILL ends. Nothing is assumed of a server otherwise (it may ignore SIGTERM), of requests or
  of crashes.
- *Broadcaster*: `select` picks among its ready cases at random and senders on a channel queue in
  order: strong fairness for each case; a send to a vanished client fails. Nothing is assumed of
  clients, and the log may be written without end.
- *Audits*: a goroutine goes on and a query comes back (weak); `Record` gets the lock (strong),
  because a waiting `Lock` of a `RWMutex` keeps new readers out.
- *ADaPT*: a call that has begun goes on, that is, executor and planner return.

## 5. Proofs

`tlapm` checks every leaf; the assumptions are the named ASSUMEs of the modules and, for three
theorems of `AuditIndexingProofs`, the hypothesis they state.

**LlamaRunnerProofs.** The properties speak of the record, but the record alone is not
inductive. `IInv` adds to `TypeOK`: `LockInv` (the mutex is held, across steps, exactly by the
Stop in progress), `HeldInv` (while it is, the record stays), `RecordInv` (the record's fields
agree and its process has a monitor), `ReapedInv` (a monitor that has reaped is right about the
end of its process) and `BirthInv` (processes and monitors come with the launches, in order).
Theorems: `TypeCorrect`, `Watched`, `StopEffective`, `NeverQuietlyLost`, `SlotRefinement` (every
step of the runner is a step or a stutter of `ServerSlot`).

**LogBroadcasterProofs.** `ChannelInv` ties the handlers' program counters to the hub's map and to
the closed channels; it gives `ClosedForGood`. `Ordered` needs `OrderInv` besides: lines increase
along the last line taken, the channel, the line in hand and the queue. `Gapless` adds
`GapInv`: a line not refused that the hub has not taken is on the queue, and one the hub has shown
a stream it never skipped, since that stream's first line, is in the stream's channel. With the
order, no line can hide between two neighbours. `TypeCorrect` includes the capacities.

**AuditBatchProofs.** `LockInv` (a script at work holds the inode that the lock file names, which
cannot change while a script is alive; earlier inodes are lower; an inode has one holder; a
running hermes holds its script's inode) gives `OneBatch`. `DoneInv` (a batch without a failure has
valid reports of the tasks behind it) gives `CleanExit`. `JudgedInv` (the file that a sweep is about to
remove is invalid, unless a report was put there since the sweep judged it) gives `ReportsLast`.
`LongestStays` follows from the types and `AtTask` (a script at a task is at one of them).

**CallTraceProofs.** `IInv` (every row is a path from the root within the limit that meets no node
twice) gives `RowsCorrect` for any graph, depth and LIKE that holds of equal ids. For `FindsExactly`
and `VerdictSound` one direction is that such a row is a walk. The other is that pruning loses
nothing where LIKE is equality. `Covered` says that every path with these properties is a row or
has a beginning that is being expanded, so at the end it is a row; and a shortest walk to
a node is such a path, for a walk that comes to a node twice can be cut short (`Shortcut`). The
shortest one exists by `HasLeast`, the least element of a set of naturals, which
stands in for the induction that the provers cannot do.

**DetectorProofs.** The loop: the history is the calls of the last steps, as many as it is long,
whatever was done to the window (`PauseEarned`); for `Noticed` the invariant relates the length of the
history to the window and to the steps since it was set. The client: what it keeps is the end of
the conversation, as long as the window unless the conversation is shorter, and its warning count
is the number of checks in the current streak; with that, what is said of each answer agrees
with the whole conversation (`RepetitionWarned`, `HardStopEarned`). The proof found that the model had
written the code's else-branches as a CASE whose guards overlap; TLC takes the first that holds,
TLA+ does not say which. They are nested IFs now.
`AgentRunsBoth` says that the composition with the controller adds nothing to either.

**SettingsProofs.** *The store*: `IdsAreUnique` needs that requests carry profiles and that every list a
request marshalled, and every file, has unique ids. `SavedIsLoaded` needs that the last writer
holds the lock while the file is truncated, and what each request that has yet to save will see.
*The listing*: `SliceInv` says which cells
the change under way has reached and which words of its cell are still to be stored; with it
each step of the slice is a step of `ProfileList` or a stutter (`SliceImplementsList`).
`NothingIsInvented` needs that every word the listing can still meet was held: in the cells below the
length (`HoldsInv`), below the length it read, behind a list that shrank too, and in all of an
array that the list left, because that was full (`ArrayInv`), but for the one cell that an append has
counted and not stored. `NothingIsMissing` needs that no change reaches the cells in front of it
(`StaysInv`), in the array the list left either.
*The configuration*: an update that is alone is the only one not idle; what it has
marshalled is what memory holds, and the file is empty when it writes (`UpdateLasts`). `LoadIsConfig`
and `LoadedIsSaved` are the two facts on `LoadConfig` it rests on.

**AuditIndexingProofs.** `IndexerInv` relates the graph, whatever it was at first, to where each pass is:
the nodes that a pass without a loss has gone by are there (`NodesInv`); a call whose target was found
or is declared no later, made by a declaration after which neither end is declared again, is there
or some pass has yet to insert it (`CallsInv`); and with foreign keys any other edge at a declared
function hung in the air when it was found, or will be taken away by the cascade of a
declaration some pass has yet to come to (`EdgesInv`). When all passes are over, these say what the
graph is (`CallsSurvive`, `StaleCallsGo`). `AuditsImplementBoth` takes the composition apart, so that
the theorems on the indexer hold of it, and `CompletedHasNodes` adds that a record is completed only
by its own pass, which returns at the end of its walk.
`CompletedHasNodes`, `OutcomesAreOwn` and `OutcomesAreFinal` have the hypothesis `PerSecond = 1`: no two audits are dispatched
in the same second. The code does not ensure that; the run `audit_same_second` shows what
happens otherwise, and `audit_indexing` checks the three properties under the same hypothesis.

**AdaptControllerProofs.** The invariant of one call is a property of its sequence of tasks: a chain of
running tasks from the root (`Chain`); at each of them, the sub-tasks left of the one on the chain
ended in what lets the composition go on, and those right of it are pending (`Inner`,
`Turn`); every ended task that was decomposed was settled by the last of its sub-tasks to run
(`Settled`). Both theorems are read off it. The calls are independent but for the counter of ids.

The type invariants of the runner, the broadcaster and the batch are proved and not listed in
the runs.

Every invariant and every safety property that a passing run checks is proved, under the name
the run uses. Only model-checked: all liveness (`StatusCatchesUp`, `StoppedEnds`, `RequestsFinish`,
`RegisterReturns`, `GoneIsClosed`, `QueueDrains`, `EveryTaskEnds`, `ExecuteEnds`), for fairness and
ENABLED are out of the prover's reach. Recursive definitions and folds cannot be reasoned about
for every input with the installed provers (induction takes an operator as a parameter), so
the modules with theorems define what they need by sets of sequences and least elements.

## 6. Not modelled

Command lines, log texts, HTTP routes and headers, generated code, embedded assets, the text
handling of the LLM client, benchmark scripts. Type and variable declarations of the indexer
are declarations without calls. Search, overlap and summary queries of the database are single
reads. Hermes and `llama-server` are external: they answer anything, or end at any time.

The LLM client's request and the configuration of hermes (`apply_profile.sh`) are I/O around programs
that are not in the repository. Of the configuration, three fields stand for all: the others are
texts, flags and numbers that load and save in the same way.

## 7. Plan

Done: the core (runner, broadcaster, audits over the indexer, batch), traces and their verdict, the
profile store and its listing, the configuration, both detectors, the controller. Left:

1. The daemon's locks together: `stateMu` held while waiting for `Runner.mu`, which a Stop holds
   for five seconds.
2. `Pass2SelectTargets` over the code graph.
3. The abstract specification of a stream (what `Register` promises) as a refinement of the
   broadcaster, proved step by step as `SlotRefinement` and `SliceImplementsList` are.
