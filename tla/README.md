# World Is Agent: TLA+ models of the runtime

World Is Agent is a Go runtime that gives the characters of a game an agent: a
game adapter connects over a gRPC stream, sends events and observations, and
executes the actions the agent decides on. Long-lived goals are *tasks*, kept in
a SQLite store that must survive crashes, saves, loads and reconnects of the
game. A hosted edition runs one such runtime per account behind a gateway. This
directory holds TLA+ models of that system, the TLC runs that check them on small
instances, and TLAPS proofs of the properties that matter most.

## 1. Inventory

| Component (source under `src/runtime/internal`) | State | Operations | What makes it correct | Module |
|---|---|---|---|---|
| Execution lane (`session/lane.go`) | buffered queue, one maintenance slot, one wakeup token, closed flag, context | Enqueue, EnqueueMaintenance, Close, worker loop | no lost wakeup; every accepted task settled exactly once; bounded; a cancelled lane finishes | `ExecutionLane` |
| Task kernel (`task/`) | world head, records, wakes, checkpoints | the mutating `task.Service` methods | recovery refused only for want of room in a row; stale holders fenced; evidence durable; saves atomic | `TaskRecord`, `TaskKernel` |
| World registry (`gateway/world_registry.go`, `task_checkpoint.go`) | slot: owner, head, ready, saving, failed | bind, markReady, UpdateClock, PrepareCheckpoint, FinishCheckpoint, disconnect | work is admitted only when memory and kernel agree; one executor; nothing hangs | `WorldRegistry` |
| Task dispatcher and wake delivery (`task/dispatcher.go`, `gateway/task_dispatch.go`) | one delivery per claim: eligible, ended, failures | scan, claim, enqueue, mark, release, begin, inspect, abort | one owner per wake although a commit may be uncertain; a held wake moves on | `WakeDelivery`, `WakeOwnership` |
| Task execution and stream environment (`gateway/task_execution.go`, `task_control.go`, `task_not_sent.go`, `stream_environment.go`) | operation, send slot, pending tables, single-flight releases | RegisterTaskAction, guarded send, evidence routing, finish, release, Observe, CancelAction | "not sent" is true, also when the binding went stale; one cleanup; close frees everyone | `TaskAction` |
| Gateway dispatch (`gateway/gateway.go`) | seen events, lanes, claimed interactions | connect, dispatchGameEvent, claimTaskInteraction, Close | an event runs once, after its acknowledgement | `GatewayDispatch` |
| Tool batch scheduler (`agent/scheduler.go`) | plan, goroutines, results | preflight, serial and parallel groups | one result per call, in order | `ToolBatch` |
| Agent turn (`agent/loop.go` and helpers) | transcript, budgets, collector | bounded steps, correction, terminal history | the model and the history are told what happened; the turn ends with its stream at the latest | `AgentTurn` |
| Memory and history (`memory/`, `agent/history_*.go`) | sources, summaries, index, leases | append, snapshot, compact, prune, index, search, migrate | nothing forgotten, nothing told twice, receipts durable | `HistoryStore` |
| Context assembly (`context/`) | none beyond one build | Engine.Build | the request fits, keeps what matters, shows a text once | `ContextBudget` |
| Hosted gateway and model proxy (`hosted/gateway.go`, `model.go`, `accounts/usage.go`) | streams, keys, model calls, quota rows | Connect, serveModel, revoke, disable, restart | a request is sent once and billed; no call without a stream; revoked keys disconnect | `HostedRelay` |
| Hosted workers (`hosted/workers.go`) | containers, volumes, allocations | Ensure, Inspect, Close | no crash replaces data or leaves a container its own deployment refuses | `HostedWorkers` |
| Accounts (`accounts/`, `hosted/mail_http.go`) | users, invitations, mail codes | register, verify, reset, enable, invite | the latest code wins; an invitation buys one account | `AccountStore` |
| Tools, LLM clients, trace, config, HTTP, console | mostly none | data shaping and I/O | no protocol state | not modelled |

How they interact: a stream handler goroutine (`Server.connect`) receives adapter
messages. A game event is queued on the lane of its agent, acknowledged, and only
then released to run (the *admission gate*). The dispatcher polls ready worlds,
claims due wakes in the kernel, and queues each on the lane of its agent; the lane
worker begins the wake, runs a turn, and reports the attempt. A turn reads a
snapshot of the history, assembles a request under its limits, calls the model,
runs the tool batch it asks for, and appends what happened. Adapter facts
(evidence) are admitted and reconciled into the record at any time by other
goroutines. A game save is a two-step exchange (prepare, finish) with a barrier in
between; a game load activates the world under a new run, restoring a checkpoint.
In the hosted edition the gateway forwards the stream to the account's worker
container, and the worker's model calls go through the proxy.

What is hard: goroutines interleave between any two transactions; the process may
die between any two of them; a commit may lose its answer; claims, snapshots and
bindings are kept in memory across transactions; the adapter repeats and delays
facts; barriers, waits and challenges expire on timers. `PROJECT.json` lists these
hazards with the lines where they bite and the properties that address them.

## 2. Modules

Every module has one action per operation or per step between two points where the
code gives up a lock, commits, or waits. `MC...` modules are the instances for TLC,
`...Proofs` the theorems. An operator marked *Mutant* or *Faulty variant* is a
plausible bug; no specification uses it. It shows that a property can fail.

### 2.1 ExecutionLane

`queue`, `maintenance`, `activeMaintenance`, `ready`, `closed` are the fields of
the struct; `cancelled` is `ctx.Err() != nil`; `pc` and `current` are the worker's
position in `run`; `outcome` records what happened to each task. `Enqueue` is two
steps, `Enter` (the checks under `mu`) and the push, because cancelling a context
takes no lock and can fall in between; `entering` is the task whose caller holds
`mu`. All other critical sections are one step. `OpenGate` is the caller's
`close(admitted)` in `dispatchGameEvent`. Each task is submitted at most once,
which is how callers use it (a fresh `Task` value per event).

### 2.2 TaskRecord and TaskKernel

One world is modelled, with all its tasks under one owner. `head` is the
`world_heads` row, `rec` and `wake` the tasks and their executable wakes (at most
one per task: the partial unique index), `snaps` the checkpoints. `self`, `issued`
and `begun` belong to the live process: its `claimantID`, the claims `ClaimDue`
returned, and those whose `BeginWake` committed. `Crash` replaces the process.

Each method is one immediate SQLite transaction that rolls back on error, so each
is one atomic action, and a refused call is a stuttering step. What is abstracted:

* Binding, revision and clock arguments must equal the stored values for a call to
  succeed, so a call by a caller holding any value is a call on the current value.
  Claims are the exception and are modelled explicitly. The clock is its tick.
* Exact retries (`Create`, `ApplyIntent`, operations, evidence, `PrepareCheckpoint`,
  `ActivateWorld` by the same instance) return stored answers and change nothing.
* A batch of `ClaimDue` is a sequence of single claims; `retry_after` is any delay.
  A list of final evidence in `PrepareCheckpoint` is a sequence of `AdmitEvidence`
  steps and at most one admission inside the save.
* Consumed wakes are not kept: a wake is identified by its expected revision.
* Barrier expiry, which every mutation performs first, is an action of its own that
  may happen at any time (wall-clock time is not modelled).
* `FinishCheckpoint` ignores its `saved` argument, as the code does.
* Fact provenance, JSON payloads and response caches are left out; a fact is
  identified by its `fact_id` alone.
* The size of a row (`validateTaskMutationCapacity`) is counted in units instead of
  bytes: one for each operation with its cleanup, fact, wake tick and result, twice
  because a response holds a copy, one for each call in the intent history, and the
  reserve that a cancellation needs. Every transaction that rewrites a record has
  `HasCapacity` among its guards, and so has recovery: the record it writes has a wake
  tick more than the running one, which is how an activation can be refused
  (`RecoveryRefusedOnlyForSize`; `restart_test.go` has the case "capacity"). What a
  unit leaves out are the lengths of texts and numbers. `MaxSnapshotBytes` is not
  modelled: it refuses a save and changes nothing.

### 2.3 WorldRegistry

One world and its slot. `slot` is `worldSlot`, `life` the holder of
`slot.lifecycle`, `k` the part of the kernel's head row that the registry depends
on. Every adapter stream has a handler goroutine: `pc` says where it is inside
`bind`, the ready reply, `markReady` or `disconnect`, `req` and `got` are its local
variables. A step is one section under `slot.mu`, one kernel transaction, or the
end of a wait for lanes; that is exactly where the code gives up a lock. `exec`
and `disp` are a task execution and a dispatcher scan: they captured a generation
while the world was admitted, and `PauseWorld` is two steps (memory under the lock,
then the store). `CloseAndWait` waits for `exec`.

The kernel transactions here (`Deactivate`, `UpdateClock`, `SaveWorld`,
`FinishSave`, `ActivateWorld`) are the ones of `TaskKernel` seen by a caller: they
also answer. With `Faults`, each may fail, or commit and lose its answer; a
cancelled stream context is the same to the caller. What is left out: entities and
tool catalog, re-observation after a save, the `authorityEpoch`, messages of other
worlds, and a repeated `CheckpointPrepare`, which is answered from the store. The
generation does the work of the epoch wherever `markReady` opened the admission
(`GenerationOpensOnce`); a takeover that inherits `slot.ready` from the previous
owner's `markReady` (`AnnouncedBeforeReady`, section 4) may be interrupted by another
bind and reopened under the same generation, and only the epoch tells these two
admissions apart. A
connection runs one execution at a time; two concurrent pauses come from the lane
and the dispatcher. `opened` (the greatest generation admitted so far) and `faulted` are
history variables.

### 2.4 WakeDelivery and WakeOwnership

`row` is the wake in the store, `slot` the world as memory knows it. The delivery
of a claim passes from the dispatcher's goroutine (`enq`) over the lane (`queue`)
to the lane worker (`cur`); `dlv` is the `wakeDelivery` record both sides share
under its mutex. Every transaction may succeed, fail, or commit and lose its
answer; the caller of the last two cannot tell them apart and goes to the
inspection steps. The world may be saved, unbound, bound again or lose its stream
at any time. A technical failure is retried at most `Limit` times, the constant of
the code; back-off is not timed.

`WakeOwnership` is the abstract specification: a wake is held by at most one claim,
only the holder begins it, and the agent is invoked at most once per claim.
`WakeDelivery` implements it (`OwnershipSpec`, `INSTANCE WakeOwnership WITH` the
holder read off the stored row). One hole is part of the code: the scan's own
`ClaimDue` has nobody to inspect for it, so a claim whose answer was lost (`lost`)
stays in the store until the world is paused, saved or bound again; `NoOrphanedWake`
excepts exactly these.

### 2.5 TaskAction

One task with one operation on one stream. `lane` runs the turn of the wake, `back`
the observation sweep after a save, and the receive loop answers. A frame waits for
the send slot (`slot`), is checked by its guard once it has it, and is then in the
transport, which may block. Every wait may time out, except that of `CancelAction`
and the completion of a turn, which run under a background context (they end with
the environment). `failObservation` keeps its pending entry, as in the code;
`failAllPending` is called by tests only and is left out. Retries of a store call
are collapsed into a stutter or a commit before the retry.

### 2.6 ToolBatch and AgentTurn

`ToolBatch` is the scheduler: preflight verdicts, groups of neighbouring
parallel-safe calls, up to `MaxParallelToolCalls` goroutines, results received in
any order, the technical error that is preferred, the groups after a failure that
are filled as skipped. `AgentTurn` extends it with the loop: observe, context,
request, decision, batch, argument correction, async actions, settlement, terminal
history and completion. What the model may answer is `Decisions`: every kind of
batch the loop distinguishes, and the responses it must refuse. The turn's context
may expire between any two steps. A tool is exclusive, asynchronous, parallel-safe or
none of these, and may be the environment's, a task tool or the knowledge tool. Two
waits have no timeout. An action whose context is done tells the game before it
returns (`GiveUp`, then `CancelSent`), and the completion of a turn is sent last
(`SendTurnCompletion`); both send under `context.Background()` and wait for the stream
until `CloseEnvironment`, and a completion may be lost in a stream that fails. A turn
whose knowledge tools cannot be admitted returns at once, with no history and no
completion (`RefuseTurn`). Prompts, schemas and the memory of a runtime
without a history store (`updateMemoryForCompletedTurn`, `loadRecentMemories`) are
left out.

### 2.7 HistoryStore

The world database of one owner: `src` (session_history), `sums`
(context_summaries), `indexed`, the schema version, the records an older version
left behind; and the leases of the live store instance. A source is its sequence
number. Up to two turns overlap (the last one of an old stream and the first of its
successor), each reading a snapshot page by page, compacting, searching and
appending, beside the maintenance pass (prune, index rebuild) and the receive loop
(experiences). `writer` is the SQLite write lock, `mu` the lease mutex; WAL reads
wait for nobody. `Crash` drops what is in memory, `LoadSave` rewinds the game clock.
`fork` records that a save was loaded, or that a summary was published upon an older
one than the newest: by a turn that failed to read the newest, or that began before
the game time of what it covers and so may not see it (`sqlite_summary.go:59`). These
are the cases in which the code gives up the guarantee of `NothingForgotten`; a turn
of the second kind (`Overtaken`) is also not told what was pruned, which `ToldOnce`
excepts. The age that makes a source prunable is any.
`ReadExperiences`, the legacy record store and the in-memory stores are left out.

### 2.8 ContextBudget

`Engine.Build` step by step: `ValidInput` (nothing of another session), every
section under its own limit (`Projected`, `Cropped`), then one drop at a time in the
fixed order of `enforceGlobalRequestBudget` until the request fits, then retrieved
history and knowledge into the room that is left. A text is as long as its tokens; a
stored source has two pieces, so that a complete unit, a cropped unit and a snippet
can overlap. Two things of the code that are visible here: transcript messages are in
no user message, so that a user message over its limit drops old exchanges without
gaining anything; and the retrieval drop of the loop never applies, because retrieval
runs after it. Item sizes of definitions, wording and the build report are left out,
and three smaller things: recent memories are a count, already without the records of
the future that `memory_projection.go:55` filters; transcript groups are well formed
(the build fails on an unpaired call, which `RequestsPaired` of `AgentTurn` rules out);
and with two pieces per source what is left of a match is one range, where the code
admits range by range.

### 2.9 GatewayDispatch and the hosted edition

`GatewayDispatch` has two streams of one world: bootstrap, deduplication by the
stream, enqueue, acknowledgement, gate, and the claim of an interaction by its source
and facts, which belongs to the registry and outlives streams. Ordinary events are
deduplicated per stream only. An event that was accepted and then aborted by a rebind
is answered as a duplicate when it is sent again: it runs at most once, not at least
once. What `RegisterEventTarget` checks of the message itself (its world, the scope of
its source, a complete target) is the choice `MayBeForeign`. An event refused for a
full lane leaves its target registered (`RefuseFull`), since the registration and the
evidence come before the enqueue. At most one turn per interaction is promised for interactions that
carry evidence; an `InteractionSource` without evidence is never claimed, and counts as
an ordinary event. `HostedRelay` is the gateway of one account; other accounts appear as a busy
slot or a spent global limit. `HostedWorkers` has the controller die between any two
container commands, and a command take effect although it reported a failure. A
restart may bring another `WorkerImage` (`image`): a container of the former image is
refused until an operator removes it, with its volume intact. A
volume an operator removes is assumed not to vanish during an `Ensure` of that
account. `AccountStore` interleaves web requests transaction by transaction; who has
a session is an input. The four share no state that their properties are about:
`Services` interleaves them, and `MCServices`, which adds `ContextBudget`, moves one
part per behaviour.

## 3. Runs

| Run | Instance | What it shows | States |
|---|---|---|---|
| `lane` | 3 players (one without a gate), 2 maintenance tasks, queue 1, fairness | every interleaving of callers and worker: no lost wakeup, bounded, one place per task; accepted tasks settle, a cancelled lane finishes | 120 thousand |
| `kernel_wake` | 1 task, ticks 0..3, deadline 2, three instances; with less of each (`MCFocus`) 1 operation, 1 fact, 1 save; row limit 9 | claims, failures, pauses, intents, crashes before, at and after the deadline; rows that fill their limit | 1.4 million |
| `kernel_evidence` | 1 task, 2 facts, 1 operation, every evidence kind | order of facts, revalidation, uncertain operations; what a record may never lose | 1.1 million |
| `kernel_checkpoint` | 2 tasks with one equivalence key (symmetry), 1 fact, 1 save, 2 runs, 3 generations | saves, barrier expiry, restores, failed restores, crashes | 0.6 million |
| `registry` | 2 streams (symmetry), 1 run, 1 save, 1 pause code, clocks 0..1, 2 generations, failing transactions | takeover, rebind, clock reports, pause, save, disconnect, shutdown in every order | 2.0 million |
| `registry_restore` | 2 streams (symmetry), 2 runs, 1 save, all reference kinds, 3 generations, failing transactions | barrier, owner and agreement with the kernel across saves, dead streams, restores | 3.1 million |
| `registry_live` | 2 streams, 2 generations, fairness | no bind or disconnect hangs, shutdown completes | 44 thousand |
| `delivery` | 1 wake, 2 claim identities that are used again, 2 generations, fairness | the delivery implements `WakeOwnership`; no wake is without a custodian; a held wake moves on | 0.6 million |
| `action` | 2 goroutines and the receive loop, 2 generations, 2 failures, fairness | the promises of 2.5 under saves, timeouts, late and repeated answers, close | 0.6 million |
| `turn` | 3 steps, 4 calls per turn, 2 parallel, every kind of batch, fairness | requests are paired, one correction, serial calls alone; history true; the turn ends once the stream is closed, and before that only a send holds it | 0.8 million |
| `memory` | 2 turns (symmetry), 1 fact with 2 contents, 3 sources, 2 summaries, 2 game times | nothing forgotten, nothing told twice, receipts durable, leases respected | 3.2 million |
| `services` | the constants in `MCServices.cfg`, narrowed per behaviour | event dispatch, relay, workers, accounts, requests | 0.6 million |

Bounds are the `Max...` constants, chosen so that the interesting cases happen. In
the kernel: a clock beyond the deadline, enough revisions for three consecutive
failures (the pause) and a resume, a further generation after a restart, a resume
and a save, a crash with a claim in every stage. The world clock beyond the deadline
and the third failure need the most steps and are in `kernel_wake`, whose constraint
`MCFocus` bounds the rest more tightly once there is an operation, a fact or a save
(the proofs have no such bound). Its row limit is 9: a waiting task with nothing else
takes five, an operation or a fact two, an intent one, so that a running record can be
left with less than the two its wake tick takes. Elsewhere the limit (40) is out of
reach. Facts are explored with fewer ticks in `kernel_evidence`. `MaxActive` is 0 (no
quota). Two streams are enough for the registry: at most one owns the world and one
holds the lifecycle lock, a third could only wait. Two generations let a save or a
takeover fence what is under way; three let a restore follow a save. Two claim
identities let a claim be made while the delivery of an older one is still under way.
In `turn`, four calls in batches of up to three are one more than can run in
parallel, and three steps let a correction be followed by another batch. In `memory`,
three sources and a tail of one let a summary cover two and a second summary extend
it; `Focus` (a constraint) lets two turns overlap only where no save was loaded and no
experience is stored, and follows an experience only while no save is loaded (the
proofs have no such bound). In `services`, limits from too small to ample are tried for every mix of
sections; the gateway is explored with two streams and interactions (`Claims`) and with
one stream and ordinary events (`Arrivals`), the relay with one device and model calls
(`OneDevice`) and with two devices (`NoCalls`). `CHECK_DEADLOCK FALSE`: a finished lane, turn or build is a terminal state,
and elsewhere the bounds end a behaviour.

Several properties are conjunctions: `AttemptsSettle` (an execution can be settled; a
pause is an exhaustion), `EvidenceSound` (the earliest fact wins; operations are
fenced), `RecordsEvolve` (a revision covers every change; evidence is kept),
`AdmissionSound` (types; memory agrees with the kernel while admitting; a stopped
registry stays so), `NothingHangs` (handlers settle; shutdown completes),
`StepsSound` (the model is shown every call with its result; one correction; a serial
call runs alone; no call identity is sent twice in a turn), `RequestSound` (the parts
named in its module).

Fairness. *Lane*: the Go scheduler runs a goroutine that can run (`WF(Worker)`,
which includes that `Run` callbacks return: they are given the lane's context), a
caller past the check pushes, and a caller whose task was accepted opens the gate or
returns an error, after which the stream handler closes the connection and its lanes
(`AckOrClose`). *Registry*: goroutines run (`WF(Handler)`, `WF(Dispatcher)`), a waiter
for `slot.lifecycle` gets it when it is free again and again (`SF(Lock)`: `sync.Mutex`
hands over to a waiter after 1 ms), executions end (`WF(Lane)`: an assumption about
the turn, which `TurnEnds` supports once the stream is closed, and `bind`,
`disconnect` and `Server.Close` close it before they wait for its lanes), the ready
reply comes through (part of `WF(Handler)`: `gateway.go:290` sends under
`context.Background()`, so a game that stops reading is assumed away until its stream
is closed), a cancelled stream's `Recv` fails sooner or later, and `Server.Close` goes
on once called; nobody is assumed to call it. *Delivery*: the enqueue caller that
holds a delivery and the lane worker run (that the execution itself ends is the same
assumption as in the registry); nobody is assumed to claim, save or rebind.
*Action*: the two goroutines run and their contexts expire; the transport may block
for ever and nothing is assumed of the game. *Turn*: every wait has a timeout of its
own and its step is taken (`WF(Step)`), except the two sends under
`context.Background()`, which are taken for certain only once the environment is
closed (`WF(closed /\ Sends)`); nobody is assumed to close it. *Relay*: each wait of `Connect` ends by a timeout or the
one-second tick.

## 4. Known disagreements between documents and code

Each is a property that TLC refutes; the configuration named runs it by hand.

* `EvidenceHastensWake` (`MCTaskKernelHasten.cfg`): the phase 9.1 design (line 251)
  says new evidence brings the pending wake forward ("新 Evidence 提前已有 pending
  wake"). `admitEvidenceTx` (`task/evidence.go:92`) leaves the wake alone; the evidence
  is folded because callers follow up with `Reconcile`.
* `ProgressLeavesWake` (`MCTaskKernelFollowUp.cfg`): the same document (line 256) says
  a progress transaction produces the follow-up wake. `Reconcile` of plain progress
  (`task/reconcile.go:87`) consumes the only wake of a waiting task;
  `TestReconcileOrdinaryProgressAndNoFactRouting` asserts what the code does.
* `AnnouncedBeforeReady` (`MCWorldRegistryAnnounce.cfg`): the phase 9.2 design (line
  219) lets only a ready binding be scanned. `bind` clears `ready`, unlocks, and
  publishes much later; a `markReady` of the previous owner fits in between and stays
  valid for the new one, before its `WorldBindingReady` is sent (`world_registry.go:356`).
* `LatchNeedsFault` (`MCWorldRegistryLatchPause.cfg`): the same document (line 227)
  names a save barrier or a storage error as what makes unbinding fail.
  `DeactivateWorld` accepts only the reason a world was paused with, and memory may
  hold another one: after a delivery that paused the world while `disconnect` waited
  for its lanes with an older copy of the head (`world_registry.go:448`), or after a
  rebind that was retired but not activated. The refusal sets `slot.failed`, which
  nothing clears.
* `ReconnectNotBlocked` (`MCWorldRegistryReconnect.cfg`): the phase 9.4 design (line
  166) says a barrier never blocks an explicit reconnect for ever. `disconnect` during
  a save keeps the owner, and only a binding that names the new generation gets past it
  (`world_registry.go:266`).
* `SummariesInherit` (`MCHistoryStoreInherit.cfg`): the memory design
  (`docs/summary/Memory/Memory架构设计.md:83`) says a new summary inherits the coverage of
  the one before it. A turn that could not read the previous summary publishes one
  without it (`agent/history_context.go:217`).
* `OneForwarding` of `HostedRelay` (`MCHostedRelayForward.cfg` on `HostedRelay` itself, three streams of one device): the
  phase 11.2 document (line 98) says a reconnect waits for the old stream before it
  forwards. The wait gives up after five seconds and removes its own entry, so the
  stream after it has nobody to wait for (`hosted/gateway.go:127`).

None of them lets task work run without the kernel's agreement (`AdmissionSound`), in
two places at once (`OneExecutor`), or lets an original disappear unsummarised while
every summary is published upon the newest one (`NothingForgotten`).

## 5. Proofs

The theorems hold for every value of the constants, under the assumptions named below
(types of the constants, distinctness of the null values). Each invariant in the list
was first checked by TLC on the instance of its run.

* **Lane** (`LaneAssumption`). `LaneInv` = types, `NoLostWakeup`, `Slots` (how the
  queue and the active task share the capacity, needed for `BoundedPlayers`), `Hands`
  (what the worker's position says about its current task), `Custody` and `Shutdown`
  (what is already ruled out at each stage of closing). `NoLostWakeup` needs `Hands` at
  the dequeue step; `DoneIsFinal` needs `Shutdown`, since a caller between check and
  push holds the mutex that `CloseAdmission` and `Drain` need.
* **Kernel recovery** (`RecordAssumption`, `KernelAssumption`). `RecoveryRefusedOnlyForSize`
  is proved from `RecoveryInv` and `Roomy`. `RecoveryInv`: every task satisfies `TaskInv` (its record is valid and
  fits its wake, the wake is of the head's generation and owner), a world without head
  is empty, a held barrier names a checkpoint of this head, and every stored checkpoint
  is valid. The last part is needed because a restore turns a checkpoint of any age
  into the working set. `RecoveredSound` is the central lemma: whatever a running
  record looks like, the record the recovery writes is valid and fits the new wake,
  also past the deadline. `Roomy` says that every record, also of a checkpoint, passed
  `validateTaskMutationCapacity`: since what `Reconcile` makes of the pending evidence
  already had room, the recovered record has (`RecoveredFits`), unless there is no
  room for its own wake tick. Each action is one step of `RecordActionsStep`,
  `DeliveryStep` or `WorldStep`.
* **Kernel barrier, fence and claims.** `BarrierFreezes` with the types is inductive:
  every transaction that changes the working set needs an open world, or ends the
  barrier. `FenceRises` is an action property proved from the types. `ClaimInv` adds to
  `RecoveryInv` that the head's owner already exists (`OwnerExists`, so a claim made
  before a crash cannot pass for one of the successor) and that a claim of this process
  names what it was issued for.
* **Kernel evidence** (the same assumptions). `EvidenceSound`, `AttemptsSettle`,
  `SnapshotsRestorable` and the action property `RecordsEvolve` rest on `RecoveryInv`
  and `KeptInv`. `KeptInv` says of every record, in the working set and in each
  checkpoint: a terminal fact is still pending as long as its task is active, so when
  one is chosen it is chosen among all of them (`Judged`); everything is dated at or
  before the record's generation, uncertain operations before it (`Dated`); a counter at its
  limit, a pause and a pause reason go together (`Rested`); no row means no evidence
  (`Blank`). `Apart` keeps keys, operations and facts of two tasks distinct, `Unborn` puts a
  world without head in generation zero. Checkpoints are part of the invariant because a
  restore brings their records back under a later generation. Each transaction is a
  step between two records (`Covers` for the revision, `Keeps` for evidence and
  verdict, `Within` for what it takes): `IntentKept`, `AttemptKept`, `OperationsKept`,
  `AdmittedKept`, `ReconciledKept` and `FencedKept` are about one record, `OneTaskKept`
  and `FencesKept` lift them to the world, and `Successive` composes the final evidence
  of a save with its fence. For `ExecutionCanSettle`, `ReconcileDecides` finds the
  terminal fact or the wait (a least element, `LeastOf`) and `ReconciledValid` shows
  that what is written passes `Record.Validate`.
* **Registry** (`RegistryAssumption`): `AdmissionSound`, `OneExecutor`,
  `OwnerlessIsPaused`, `GenerationOpensOnce` and `SaveReleasedByItsFinish` for any
  number of streams, runs, saves and generations, with failing transactions. The
  invariant says who holds `slot.lifecycle` and where in its bind or disconnect it is
  (`LockSound`, `TakeoverSound`), what the owner and `slot.ready` imply about every
  other handler (`OwnerSound`, `ReadySound`), that copies of the head kept across a
  wait are never newer than the slot's (`GenSound`: an older copy after a save slipped
  in is strictly older), which generation captured work has (`WorkSound`), what an
  unread or lost answer of the kernel leaves (`AnswerSound`), and what is left of a
  retired authority (`RetiredSound`). Most steps are *quiet* (`QuietKeeps`: they touch
  neither the slot nor the kernel's head); the rest are shown one by one.
* **Delivery** (`DeliveryAssumption`): `NoOrphanedWake`, and `OwnershipSpec`, the
  refinement of `WakeOwnership` with the holder read off the stored row. The invariant
  ties the stored row to the hands it can be in: the enqueue caller (`EnqSound`), the
  lane (`QueueSound`), the worker (`CurSound`), or a claim whose answer was lost.
* **Action** (`ActionAssumption`): `NotSentIsTrue` and
  `CleanupsAgree`. `SlotHeld` says who may be in the send slot, `HandOverSound` what
  was true when the guard passed and cannot change before the hand-over, `ReleaseSound`
  and `CleanupSound` what the single flight of a release protects.
* **Turn** (`TurnAssumption`): `StepsSound`, `HistoryTruthful` and the budgets
  (`TurnWithinBudgets`) for every set of decisions of the model, every limit and any
  interleaving of the goroutines of a batch. `TurnInv` ties together what three actors know
  of a batch. `GroupPlaced`: the current group is an interval, all before it has an
  outcome, all after it is untouched. `CallAccounted`: goroutine, execution record, result
  and what the environment got agree, call by call. `ChannelSound`: each result in the
  channel belongs to one finished goroutine and is received once, so no result overwrites
  another. The bound on running goroutines is inductive only with the last two, since a
  launch counts those that have not reported. `TranscriptInv` says where the one
  refused batch is, by the state of the correction: `OneCorrection` speaks of positions in
  the transcript and is not inductive without it. `SentInv` (what was sent was seen, the
  running batch was not seen before) gives `SentOnce`, and `BudgetInv` that an
  asynchronous batch was admitted with budget left.
* **Request** (`ContextAssumption`: sizes and limits are numbers, a task without results
  has no evidence of a last result): `RequestSound` (theorem `RequestIsSound`) for every
  session, every limit, and histories, transcripts, experiences, matches and knowledge of
  any length. `BuildInv` adds to its parts `StageSound` (what a stage has not begun is
  still empty; before the sections are cropped the projection is the one computed from
  the input) and `LookedAt` (every match before the cursor is shown, or has no room).
  `LookedAt` is what `FoundTextShown` needs step by step: a match given up early must
  stay without room while later matches are admitted, which holds because a snippet
  only adds tokens (`FoundGrows`, `FitsWithFewer`), and knowledge does not count against
  it. `DroppedInOrder` is kept because a drop takes the first part that still gives
  something and leaves all others as they are (`DropKept`, `FirstDropInOrder`).
  `ShownOnce` is kept because a snippet is what is left of a span after all that the
  final history and the earlier snippets show (`SpansSubtracted`, `SnippetShownOnce`).
  `FitsOrMinimal` of a build that failed in its sections needs that cropping a task
  twice is cropping it once (`BoundTaskFinal`).
  The sums and the one-by-one choices of the code are recursive functions over an
  index. That such a function exists and is unique (`RecursionExists`,
  `RecursionUnique`) follows by a least counterexample instead of the induction
  theorems of the library, and gives `SumsStep`, `TotalAppend` and `PickExists`, which
  is all the proof needs to know of them.
* **Services** (`ServicesAssumption`): `SentOnceAndBilled` and `InFlightHasConnection` of the relay (the null
  value is no stream, call, usage or request), `LatestCodeWins` and
  `InvitationBuysOneAccount` of the accounts (addresses are not the three marks of an
  unused invitation), `WorkersRecoverable` (finitely many accounts, any images), `EventsRunOnce` of
  the gateway (no assumption). Each is proved of its component and carried to `Services`, whose steps leave the
  state of the other parts alone (lemma `PartsApart`). `PlacesHeld` is the interesting part of the workers: a
  container that does not exist yet but will be created already has its place.
* **History** (`HistoryAssumption`): `NothingForgotten`, `ToldOnce`,
  `AckedExperiencesKept` and `LeaseProtects` for any number of turns, sources,
  summaries, game times, and without the constraint of the run. `PassSound`: while the
  pruning transaction has its victims it has both locks, and they are covered sources
  no lease has seen. `ChainSound`: as long as the chain is not forked the newest summary
  covers all that an older one or a pruned source had, and nothing of the future; hence
  every reader of today selects it. `LeaseSound`: what was pruned below the watermark of
  a lease is covered by the revision of that lease, so a turn that can read that
  revision (`CompleteSound`) is told. `SelectSummary` takes a maximum: that a finite set
  of numbers has one follows from the least-element theorem of well-founded relations
  (`LeastNumber`), which needs no induction with an operator parameter.

What the proofs changed in the models: a summary published upon an older parent, and a
turn overtaken by the game time of the newest summary, were missing from the
statements of `NothingForgotten` and `ToldOnce` (TLC shows both once two turns may
overlap while time passes, which the run now allows); the claim that the epoch is
redundant was too strong (2.3); two `CASE` expressions with overlapping guards
(`Inspect` of the workers, `Verdict` of the tool batch) became `IF` chains in the order
of the code; an empty `PauseReason`, result, verdict or error is written `"none"`, like the
other absent values of a record; `TurnAssumption` now says what a call is made of; the
operators of `ContextBudget` take the build input as a parameter and compute sums with
recursive functions instead of folds; and `StepsSound` gained `SentOnce`, which the
proof showed to be what the guard on repeated call identities is for.

Only model-checked:

* liveness (`AcceptedSettles`, `CancelledFinishes`, `NothingHangs`, `HeldWakeMovesOn`,
  `CloseFreesGoroutines`, `TurnEnds`, `RevokedKeyDisconnects`): fairness and `ENABLED`
  are out of the prover's reach.

## 6. Not modelled

* Protobuf field mapping, LLM clients, prompt wording, text search tokenisation, token
  estimates, trace, configuration, bootstrap, HTTP pages and the console: data shaping
  and I/O without protocol state. Generated code.
* Tool schemas and argument checks: pure functions of one call; their verdict is an
  input of `ToolBatch`.
* The web sessions, request limits and usage reports of the hosted edition.
* Wall-clock time: a timeout may always happen; an age is any age.
* The schema of the task store, its limits on snapshots and on tasks per world, file
  locks, and the console queries.

## 7. Plan

Done: all of the above. Next, in this order:

1. The head row of `WorldRegistry` as a refinement of `TaskKernel`'s.
