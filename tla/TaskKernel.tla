----------------------------- MODULE TaskKernel -----------------------------
(***************************************************************************)
(* The durable task kernel: task.Service over one world of its SQLite      *)
(* store.  Each Service method is one immediate transaction that rolls     *)
(* back on error, so each is one action and a refused call is a stutter.   *)
(* head is the world_heads row, rec and wake the working set (tasks and    *)
(* their executable wakes), snaps the task_checkpoints rows; self, issued  *)
(* and begun belong to the live process and are lost when it crashes.      *)
(*                                                                         *)
(* Callers supply bindings, clocks and revisions; a call succeeds only     *)
(* when they equal the stored ones, so a caller that may hold any value is *)
(* a call on the current value.  The exception is the wake protocol, whose *)
(* callers keep a claim across other transactions: issued remembers what   *)
(* every ClaimDue of this process returned.                                *)
(***************************************************************************)
EXTENDS TaskRecord, Sequences, FiniteSets

CONSTANTS Tasks,        \* task identities
          Deadline,     \* Spec.DeadlineAt of each task
          Key,          \* Spec.EquivalenceKey of each task
          Runs,         \* world run identities
          NoRun,        \* RecoveryRunID = ""
          Saves,        \* save request identities (each names one checkpoint)
          NoSave,       \* SaveRequestID = "", CheckpointID = ""
          Reports,      \* the facts adapters may report (EvidenceInput)
          MaxActive,    \* Admission.MaxActivePerOwner, 0 for no limit
          MaxTick,      \* bound on the world clock
          MaxRev,       \* bound on revisions (NextDurableCounter)
          MaxGen,       \* bound on generations (NextDurableCounter)
          MaxInstance,  \* bound on runtime instances
          MaxClaims     \* bound on claims issued by one instance

\* What an adapter reports of a fact; operation facts occur under the binding
\* and start revision of their operation.
EvidenceInput == [ kind : TerminalKinds \cup {"progress"}, op : Ops \cup {NoOp},
                   at : Nat, until : Tick ]

ASSUME KernelAssumption ==
    /\ Reports \subseteq EvidenceInput
    /\ Deadline \in [Tasks -> Nat]
    /\ NoRun \notin Runs
    /\ NoSave \notin Saves
    /\ MaxActive \in Nat
    /\ MaxTick \in Nat
    /\ MaxRev \in Nat
    /\ MaxGen \in Nat
    /\ MaxInstance \in Nat
    /\ MaxClaims \in Nat

VARIABLES
    head,    \* the world head: status, run, gen, tick, inst, barrier, ckpt, recovery
    rec,     \* the task records
    wake,    \* the executable wake of each task
    snaps,   \* the checkpoints
    self,    \* claimantID of the live Service
    issued,  \* claims this process was handed, by claim id
    begun    \* the claims whose BeginWake committed

vars == << head, rec, wake, snaps, self, issued, begun >>

AnyRun == Runs \cup {NoRun}

NoHead == [ status |-> "absent", run |-> NoRun, gen |-> 0, tick |-> 0,
            inst |-> 0, barrier |-> NoSave, ckpt |-> NoSave, recovery |-> NoRun ]

NoSnap == [ taken |-> FALSE, run |-> NoRun, gen |-> 0, tick |-> 0,
            rec |-> [t \in Tasks |-> AbsentRecord(NoRun)],
            wake |-> [t \in Tasks |-> NoWake] ]

Init ==
    /\ head = NoHead
    /\ rec = [t \in Tasks |-> AbsentRecord(NoRun)]
    /\ wake = [t \in Tasks |-> NoWake]
    /\ snaps = [s \in Saves |-> NoSnap]
    /\ self = 1
    /\ issued = << >>
    /\ begun = {}

Ticks == 0 .. MaxTick

-----------------------------------------------------------------------------
(* Authority.                                                               *)

\* Faulty variant: the save barrier is not looked at.
OpenDespiteBarrier == head.status = "ready"

\* validateCreateAuthority, validateEvidenceAuthority: a ready world without a
\* save barrier, a caller with the current binding.
Open == head.status = "ready" /\ head.barrier = NoSave

\* validateWakeWorldAuthority: also the instance that owns the world.
OwnedOpen == Open /\ head.inst = self

\* NextDurableCounter
CanRevise(r) == r.rev < MaxRev

-----------------------------------------------------------------------------
(* Task creation and the owner's intents.                                   *)

ActiveTasks == { t \in Tasks : rec[t].state \in ActiveStates }

\* Faulty variant: creates an equivalent task.
CreateEquivalent(t, wakeAt) ==
    /\ Open
    /\ rec[t].state = "absent"
    /\ head.tick < wakeAt /\ wakeAt <= Deadline[t]
    /\ HasCapacity(CreatedRecord(NoRun, Deadline[t], wakeAt))
    /\ rec' = [rec EXCEPT ![t] = CreatedRecord(NoRun, Deadline[t], wakeAt)]
    /\ wake' = [wake EXCEPT ![t] = PendingWake(1, wakeAt, head.gen)]
    /\ UNCHANGED << head, snaps, self, issued, begun >>

Create(t, wakeAt) ==
    /\ Open
    /\ rec[t].state = "absent"                            \* not an exact retry
    /\ \A u \in ActiveTasks : Key[u] # Key[t]             \* no equivalent task
    /\ MaxActive = 0 \/ Cardinality(ActiveTasks) < MaxActive
    /\ head.tick < wakeAt /\ wakeAt <= Deadline[t]
    /\ HasCapacity(CreatedRecord(NoRun, Deadline[t], wakeAt))
    /\ rec' = [rec EXCEPT ![t] = CreatedRecord(NoRun, Deadline[t], wakeAt)]
    /\ wake' = [wake EXCEPT ![t] = PendingWake(1, wakeAt, head.gen)]
    /\ UNCHANGED << head, snaps, self, issued, begun >>

\* What ApplyIntent demands of the record it was decided on.
IntentApplies(t) ==
    /\ Open
    /\ rec[t].state \in ActiveStates
    /\ ~rec[t].needsReconcile
    /\ Pending(rec[t]) = {}
    /\ CanRevise(rec[t])
    /\ DurableWakeRelation(head.gen, rec[t], wake[t])     \* consumeWakesTx

\* Faulty variant: the failure counters stay.
AfterIntentKeepsCounters(r) == [r EXCEPT !.rev = r.rev + 1, !.pauseReason = "none",
                                         !.calls = r.calls + 1]

AfterIntent(r) == [r EXCEPT !.rev = r.rev + 1, !.pauseReason = "none",
                            !.noProgress = 0, !.reconcile = 0,
                            !.calls = r.calls + 1]

ApplyIntentWait(t, next) ==
    LET q == [AfterIntent(rec[t]) EXCEPT !.state = "waiting", !.nextWake = next]
        w == PendingWake(q.rev, next, head.gen)
    IN  /\ IntentApplies(t)
        /\ head.tick < next /\ next <= rec[t].deadline
        /\ HasCapacity(q)
        /\ TaskWakePair(q, w)                             \* insertWakeTx
        /\ rec' = [rec EXCEPT ![t] = q]
        /\ wake' = [wake EXCEPT ![t] = w]
        /\ UNCHANGED << head, snaps, self, issued, begun >>

ApplyIntentCancel(t) ==
    LET q == [AfterIntent(rec[t]) EXCEPT !.state = "cancelled",
                                         !.nextWake = NoTick,
                                         !.resultAt = head.tick]
    IN  /\ IntentApplies(t)
        /\ ValidRecord(q) /\ HasCapacity(q)
        /\ rec' = [rec EXCEPT ![t] = q]
        /\ wake' = [wake EXCEPT ![t] = NoWake]
        /\ UNCHANGED << head, snaps, self, issued, begun >>

-----------------------------------------------------------------------------
(* The wake protocol: pending -> claimed -> enqueued -> running -> consumed. *)

\* One candidate of ClaimDue.  The wall-clock retry_after is any delay.
ClaimDue(t) ==
    LET id == Len(issued) + 1
    IN  /\ OwnedOpen
        /\ wake[t].status = "pending"
        /\ wake[t].due <= head.tick
        /\ DurableWakeRelation(head.gen, rec[t], wake[t])
        /\ id <= MaxClaims
        /\ wake' = [wake EXCEPT ![t] = [@ EXCEPT !.status = "claimed",
                                                 !.claim = id, !.by = self]]
        /\ issued' = Append(issued, [ task |-> t, exp |-> wake[t].exp,
                                      run |-> head.run, gen |-> head.gen ])
        /\ UNCHANGED << head, rec, snaps, self, begun >>

\* The wake that claim c names is still the one it was issued for.
Holds(c) ==
    LET w == wake[issued[c].task]
    IN  /\ OwnedOpen
        /\ head.run = issued[c].run /\ head.gen = issued[c].gen
        /\ DurableWakeRelation(head.gen, rec[issued[c].task], w)
        /\ w.exp = issued[c].exp /\ w.claim = c /\ w.by = self

MarkEnqueued(c) ==
    /\ Holds(c)
    /\ wake[issued[c].task].status = "claimed"
    /\ wake' = [wake EXCEPT ![issued[c].task].status = "enqueued"]
    /\ UNCHANGED << head, rec, snaps, self, issued, begun >>

ReleaseClaim(c) ==
    LET t == issued[c].task
    IN  /\ Holds(c)
        /\ wake[t].status = "claimed"
        /\ wake' = [wake EXCEPT ![t] = PendingWake(@.exp, @.due, @.gen)]
        /\ UNCHANGED << head, rec, snaps, self, issued, begun >>

BeginWake(c) ==
    LET t == issued[c].task
        q == [rec[t] EXCEPT !.state = "running", !.rev = @ + 1, !.nextWake = NoTick]
    IN  /\ Holds(c)
        /\ wake[t].status = "enqueued"
        /\ wake[t].due <= head.tick
        /\ CanRevise(rec[t])
        /\ ValidRecord(q) /\ HasCapacity(q)
        /\ rec' = [rec EXCEPT ![t] = q]
        /\ wake' = [wake EXCEPT ![t].status = "running"]
        /\ begun' = begun \cup {c}
        /\ UNCHANGED << head, snaps, self, issued >>

\* The execution that BeginWake started reports how it went.  Its wake is
\* still running, or was consumed by a transaction it did not make.
FinishAttempt(c, outcome) ==
    LET t == issued[c].task
        r == rec[t]
        q == AfterAttempt(r, outcome)
        current == wake[t].status = "running" /\ wake[t].exp = issued[c].exp
                     /\ wake[t].by = self
        consumed == wake[t].status = "none"
    IN  /\ OwnedOpen
        /\ c \in begun
        /\ head.run = issued[c].run /\ head.gen = issued[c].gen
        /\ r.state = "running" /\ r.nextWake = NoTick /\ r.pauseReason = "none"
        /\ issued[c].exp < r.rev
        /\ current \/ consumed
        /\ DurableWakeRelation(head.gen, r, wake[t])
        /\ CanRevise(r)
        /\ r.noProgress < MaxAttemptFailures /\ r.reconcile < MaxAttemptFailures
        /\ OutcomeFits(r, outcome)
        /\ ValidRecord(q) /\ HasCapacity(q)
        /\ rec' = [rec EXCEPT ![t] = q]
        /\ wake' = IF q.state = "paused" THEN [wake EXCEPT ![t] = NoWake] ELSE wake
        /\ UNCHANGED << head, snaps, self, issued, begun >>

-----------------------------------------------------------------------------
(* Operations, evidence, cleanup and reconciliation.                        *)

\* A fresh operation: the identity graph of the world knows none of this id.
RegisterOperation(t, o) ==
    LET q == [rec[t] EXCEPT !.ops[o] =
                [ status |-> "registered", run |-> head.run, gen |-> head.gen,
                  start |-> rec[t].rev, cleanup |-> "none" ]]
    IN  /\ Open
        /\ \A u \in Tasks : rec[u].ops[o].status = "none"
        /\ rec[t].state \in ActiveStates
        /\ ~rec[t].needsReconcile
        /\ Pending(rec[t]) = {}
        /\ CanRevise(rec[t])
        /\ ValidRecord(q) /\ HasCapacity(q)
        /\ rec' = [rec EXCEPT ![t] = q]
        /\ UNCHANGED << head, wake, snaps, self, issued, begun >>

\* The transport refused the action before handing it off.
MarkOperationNotSent(t, o) ==
    LET q == [rec[t] EXCEPT !.ops[o].status = "not_sent"]
    IN  /\ OwnedOpen
        /\ rec[t].ops[o].status = "registered"
        /\ rec[t].ops[o].run = head.run /\ rec[t].ops[o].gen = head.gen
        /\ \A f \in Admitted(rec[t]) : rec[t].facts[f].op # o
        /\ ValidRecord(q) /\ HasCapacity(q)
        /\ rec' = [rec EXCEPT ![t] = q]
        /\ UNCHANGED << head, wake, snaps, self, issued, begun >>

RecordCleanup(t, o, status) ==
    LET op == rec[t].ops[o]
        q == [rec[t] EXCEPT !.ops[o].cleanup = status]
    IN  /\ Open
        /\ op.status # "none"
        /\ op.run = head.run /\ op.gen <= head.gen
        /\ \/ op.cleanup = "none"
           \/ op.cleanup = "unconfirmed" /\ status \in { "released", "handed_off" }
        /\ ValidRecord(q) /\ HasCapacity(q)
        /\ rec' = [rec EXCEPT ![t] = q]
        /\ UNCHANGED << head, wake, snaps, self, issued, begun >>

\* validateNewEvidence for an operation's fact: direct from the generation that
\* registered it, or revalidated by the current one within the same run.
Direct(op) == op.status = "registered" /\ op.run = head.run /\ op.gen = head.gen

Revalidated(op) ==
    /\ op.status \in { "registered", "uncertain" }
    /\ op.run = head.run
    /\ op.gen < head.gen \/ (op.gen = head.gen /\ op.status = "uncertain")

EvidenceOf(t, i) ==
    LET op == rec[t].ops[i.op]
    IN  IF i.op = NoOp
          THEN [ kind |-> i.kind, op |-> NoOp, at |-> i.at, until |-> i.until,
                 run |-> head.run, gen |-> head.gen, reval |-> 0,
                 start |-> rec[t].rev, applied |-> FALSE ]
          ELSE [ kind |-> i.kind, op |-> i.op, at |-> i.at, until |-> i.until,
                 run |-> op.run, gen |-> op.gen,
                 reval |-> IF Direct(op) THEN 0 ELSE head.gen,
                 start |-> op.start, applied |-> FALSE ]

WithEvidence(t, f, i) ==
    [rec[t] EXCEPT !.facts[f] = EvidenceOf(t, i), !.needsReconcile = TRUE]

\* Faulty variant: a known fact is admitted again.
EvidenceReadmissible(t, f, i) ==
    /\ rec[t].state \in ActiveStates
    /\ i.at <= head.tick
    /\ i.op # NoOp => Direct(rec[t].ops[i.op]) \/ Revalidated(rec[t].ops[i.op])
    /\ CanRevise(rec[t])
    /\ ValidRecord(WithEvidence(t, f, i)) /\ HasCapacity(WithEvidence(t, f, i))

\* admitEvidenceTx; a fact the world already knows is a duplicate or a conflict.
EvidenceAdmissible(t, f, i) ==
    /\ \A u \in Tasks : rec[u].facts[f].kind = "none"
    /\ rec[t].state \in ActiveStates
    /\ i.at <= head.tick
    /\ i.until # NoTick =>
         i.kind = "progress" /\ i.at < i.until /\ i.until <= rec[t].deadline
    /\ i.op # NoOp => Direct(rec[t].ops[i.op]) \/ Revalidated(rec[t].ops[i.op])
    /\ CanRevise(rec[t])
    /\ ValidRecord(WithEvidence(t, f, i)) /\ HasCapacity(WithEvidence(t, f, i))

AdmitEvidence(t, f, i) ==
    /\ Open
    /\ EvidenceAdmissible(t, f, i)
    /\ rec' = [rec EXCEPT ![t] = WithEvidence(t, f, i)]
    /\ UNCHANGED << head, wake, snaps, self, issued, begun >>

\* Reconcile with pending evidence; without any it only routes the caller.
\* keepRunning spares the running wake of an execution before its deadline.
Reconcile(t) ==
    \E q \in ReconciledRecords(rec[t]) :
      LET keepRunning == /\ q.state = "running"
                         /\ head.tick < rec[t].deadline
                         /\ head.inst = self
                         /\ wake[t].status = "running"
                         /\ wake[t].by = head.inst
          w == IF q.state = "waiting" THEN PendingWake(q.rev, q.nextWake, head.gen)
               ELSE IF keepRunning THEN wake[t] ELSE NoWake
      IN  /\ Open
          /\ rec[t].state \in ActiveStates
          /\ Pending(rec[t]) # {}
          /\ CanRevise(rec[t])
          /\ ValidRecord(q) /\ HasCapacity(q)
          /\ DurableWakeRelation(head.gen, rec[t], wake[t])
          /\ q.state = "waiting" => TaskWakePair(q, w)
          /\ rec' = [rec EXCEPT ![t] = q]
          /\ wake' = [wake EXCEPT ![t] = w]
          /\ UNCHANGED << head, snaps, self, issued, begun >>

-----------------------------------------------------------------------------
(* The clock, and leaving the world.                                        *)

UpdateClock(c) ==
    /\ OwnedOpen
    /\ c > head.tick
    /\ head' = [head EXCEPT !.tick = c]
    /\ UNCHANGED << rec, wake, snaps, self, issued, begun >>

DeactivateWorld ==
    /\ head.status = "ready"
    /\ head.inst = self
    /\ head.barrier = NoSave
    /\ head' = [head EXCEPT !.status = "paused"]
    /\ UNCHANGED << rec, wake, snaps, self, issued, begun >>

-----------------------------------------------------------------------------
(* Fencing: what a save, a restart and a reactivation do to the working set. *)

\* planRestartRecoveryTx and normalizeCheckpointWorkingSetTx accept every task;
\* the recovered record passes prepareReconcileMutation, its size included.
Sound(recs, now) ==
    \A t \in Tasks :
      /\ Plannable(head.gen, head.inst, recs[t], wake[t])
      /\ recs[t].state = "running" =>
           /\ HasCapacity(FencedRecord(recs[t], now))
           /\ TaskWakePair(FencedRecord(recs[t], now),
                           FencedWake(recs[t], wake[t], now, head.gen + 1))

Fenceable(recs, now) ==
    /\ head.gen < MaxGen
    /\ \A t \in Tasks : recs[t].state = "running" => CanRevise(recs[t])
    /\ Sound(recs, now)

FencedRecords(recs, now) == [t \in Tasks |-> FencedRecord(recs[t], now)]

FencedWakes(recs, now, gen) ==
    [t \in Tasks |-> FencedWake(recs[t], wake[t], now, gen)]

\* checkpointSnapshot.validate
SnapshotValid(gen, recs, wakes) ==
    \A t \in Tasks :
      /\ recs[t].state # "running"
      /\ recs[t].state # "absent" => ValidRecord(recs[t])
      /\ IF recs[t].state = "waiting"
           THEN /\ wakes[t].status = "pending"
                /\ wakes[t].gen = gen
                /\ TaskWakePair(recs[t], wakes[t])
           ELSE wakes[t].status = "none"
      /\ \A u \in Tasks \ {t} :
           /\ {recs[t].state, recs[u].state} \subseteq ActiveStates => Key[t] # Key[u]
           /\ \A o \in Ops : recs[t].ops[o].status # "none" => recs[u].ops[o].status = "none"
           /\ \A f \in Facts : recs[t].facts[f].kind # "none" => recs[u].facts[f].kind = "none"

\* The final evidence of a save is admitted in its transaction: none, or one.
FinalEvidence ==
    {rec} \cup { [rec EXCEPT ![x[1]] = WithEvidence(x[1], x[2], x[3])] :
                   x \in { y \in Tasks \X Facts \X Reports :
                             EvidenceAdmissible(y[1], y[2], y[3]) } }

\* A snapshot above MaxSnapshotBytes refuses the save, which changes nothing;
\* its size is not modelled.
PrepareCheckpoint(s) ==
    \E recs \in FinalEvidence :
      LET gen == head.gen + 1
          fenced == FencedRecords(recs, head.tick)
          wakes == FencedWakes(recs, head.tick, gen)
      IN  /\ OwnedOpen
          /\ ~snaps[s].taken
          /\ Fenceable(recs, head.tick)
          /\ SnapshotValid(gen, fenced, wakes)
          /\ rec' = fenced
          /\ wake' = wakes
          /\ snaps' = [snaps EXCEPT ![s] =
                         [ taken |-> TRUE, run |-> head.run, gen |-> gen,
                           tick |-> head.tick, rec |-> fenced, wake |-> wakes ]]
          /\ head' = [head EXCEPT !.gen = gen, !.ckpt = s, !.barrier = s]
          /\ UNCHANGED << self, issued, begun >>

FinishCheckpoint(s) ==
    /\ head.inst = self
    /\ snaps[s].taken
    /\ head.ckpt = s
    /\ head.barrier = s
    /\ head' = [head EXCEPT !.barrier = NoSave]
    /\ UNCHANGED << rec, wake, snaps, self, issued, begun >>

\* validateRestartBarrierTx: a held barrier names a checkpoint of this head.
BarrierIntact ==
    head.barrier # NoSave =>
      LET p == snaps[head.barrier]
      IN  /\ p.taken
          /\ head.status = "ready" /\ head.ckpt = head.barrier
          /\ p.run = head.run /\ p.gen = head.gen /\ p.tick = head.tick

\* releaseExpiredCheckpointBarrierTx, which every mutation runs first
\* (ReadCheckpointBarrier does nothing else).
ExpireBarrier ==
    /\ head.barrier # NoSave
    /\ head.inst = self
    /\ BarrierIntact
    /\ head' = [head EXCEPT !.barrier = NoSave]
    /\ UNCHANGED << rec, wake, snaps, self, issued, begun >>

-----------------------------------------------------------------------------
(* ActivateWorld, by the branch it takes.                                   *)

\* No head row: an empty world starts at generation one.
ActivateFresh(r, c) ==
    /\ head.status = "absent"
    /\ \A t \in Tasks : rec[t].state = "absent"
    /\ head' = [NoHead EXCEPT !.status = "ready", !.run = r, !.gen = 1,
                              !.tick = c, !.inst = self]
    /\ UNCHANGED << rec, wake, snaps, self, issued, begun >>

\* The same run, taken over from the instance that was serving it.
ActivateRestart(c) ==
    LET gen == head.gen + 1
    IN  /\ head.status = "ready"
        /\ head.inst # self
        /\ c >= head.tick
        /\ BarrierIntact
        /\ Fenceable(rec, c)
        /\ rec' = FencedRecords(rec, c)
        /\ wake' = FencedWakes(rec, c, gen)
        /\ head' = [head EXCEPT !.gen = gen, !.tick = c, !.inst = self,
                                !.barrier = NoSave]
        /\ UNCHANGED << snaps, self, issued, begun >>

\* The same run, paused by DeactivateWorld (activatePausedWorkingHead).
ActivatePaused(c) ==
    LET gen == head.gen + 1
    IN  /\ head.status = "paused"
        /\ head.recovery = NoRun
        /\ head.barrier = NoSave
        /\ c >= head.tick
        /\ Fenceable(rec, c)
        /\ rec' = FencedRecords(rec, c)
        /\ wake' = FencedWakes(rec, c, gen)
        /\ head' = [head EXCEPT !.status = "ready", !.gen = gen, !.tick = c,
                                !.inst = self]
        /\ UNCHANGED << snaps, self, issued, begun >>

\* Another run with a confirmed reference: the working set becomes the
\* snapshot, under a generation above both (activateCheckpoint).
ActivateCheckpoint(s, r, c) ==
    LET base == IF head.gen > snaps[s].gen THEN head.gen ELSE snaps[s].gen
    IN  /\ head.status # "absent"
        /\ head.run # r
        /\ snaps[s].taken
        /\ c >= snaps[s].tick
        /\ base < MaxGen
        /\ rec' = snaps[s].rec
        /\ wake' = [t \in Tasks |->
                      IF snaps[s].wake[t].status = "pending"
                        THEN [snaps[s].wake[t] EXCEPT !.gen = base + 1]
                        ELSE snaps[s].wake[t]]
        /\ head' = [ status |-> "ready", run |-> r, gen |-> base + 1, tick |-> c,
                     inst |-> self, barrier |-> NoSave, ckpt |-> s,
                     recovery |-> NoRun ]
        /\ UNCHANGED << snaps, self, issued, begun >>

\* Unusable, unconfirmed or missing reference: the world is latched paused until
\* a confirmed one restores it (pauseWorldForCheckpointFailure).
PauseForCheckpointFailure(r, c) ==
    /\ head.status = "absent" \/ head.recovery # NoRun \/ head.run # r
    /\ head' = IF head.status = "absent"
                 THEN [NoHead EXCEPT !.status = "paused", !.run = r, !.gen = 1,
                                     !.tick = c, !.inst = self, !.recovery = r]
                 ELSE [head EXCEPT !.status = "paused", !.barrier = NoSave,
                                   !.recovery = r]
    /\ UNCHANGED << rec, wake, snaps, self, issued, begun >>

\* The process dies at any point between transactions; another takes its place.
Crash ==
    /\ self < MaxInstance
    /\ self' = self + 1
    /\ issued' = << >>
    /\ begun' = {}
    /\ UNCHANGED << head, rec, wake, snaps >>

-----------------------------------------------------------------------------
Intents(t) == ApplyIntentCancel(t) \/ \E n \in Ticks : Create(t, n) \/ ApplyIntentWait(t, n)

Facting(t) ==
    \/ Reconcile(t)
    \/ \E f \in Facts : \E i \in Reports : AdmitEvidence(t, f, i)
    \/ \E o \in Ops : \/ RegisterOperation(t, o)
                      \/ MarkOperationNotSent(t, o)
                      \/ \E k \in CleanupStatuses : RecordCleanup(t, o, k)

Delivery ==
    \/ \E t \in Tasks : ClaimDue(t)
    \/ \E c \in 1 .. Len(issued) :
         \/ MarkEnqueued(c) \/ ReleaseClaim(c) \/ BeginWake(c)
         \/ \E k \in AttemptOutcomes : FinishAttempt(c, k)

Saving ==
    \/ ExpireBarrier
    \/ \E s \in Saves : PrepareCheckpoint(s) \/ FinishCheckpoint(s)

Activation ==
    \/ DeactivateWorld
    \/ \E c \in Ticks :
         \/ UpdateClock(c) \/ ActivateRestart(c) \/ ActivatePaused(c)
         \/ \E r \in Runs :
              \/ ActivateFresh(r, c)
              \/ PauseForCheckpointFailure(r, c)
              \/ \E s \in Saves : ActivateCheckpoint(s, r, c)

Next ==
    \/ \E t \in Tasks : Intents(t) \/ Facting(t)
    \/ Delivery
    \/ Saving
    \/ Activation
    \/ Crash

Spec == Init /\ [][Next]_vars

-----------------------------------------------------------------------------
(* Properties.                                                              *)

HeadType ==
    [ status : { "absent", "ready", "paused" }, run : AnyRun, gen : Nat,
      tick : Nat, inst : Nat, barrier : Saves \cup {NoSave},
      ckpt : Saves \cup {NoSave}, recovery : AnyRun ]

SnapType ==
    [ taken : BOOLEAN, run : AnyRun, gen : Nat, tick : Nat,
      rec : [Tasks -> Record(AnyRun)], wake : [Tasks -> Wake] ]

ClaimType == [ task : Tasks, exp : Nat, run : AnyRun, gen : Nat ]

TypeOK ==
    /\ head \in HeadType
    /\ rec \in [Tasks -> Record(AnyRun)]
    /\ wake \in [Tasks -> Wake]
    /\ snaps \in [Saves -> SnapType]
    /\ self \in Nat
    /\ issued \in Seq(ClaimType)
    /\ begun \subseteq 1 .. Len(issued)

\* The stored tasks of a world refuse its next activation, or the fence of its
\* next save, for the size of a row and nothing else.  Whatever the process was
\* doing when it died or was paused, records and wakes pass the checks of
\* planRestartRecoveryTx and normalizeCheckpointWorkingSetTx, with the recovered
\* records they would write, unless some running record is so close to
\* MaxTaskBytes that it cannot hold the next_wake_at of its own recovery.
RecoveryRefusedOnlyForSize ==
    head.status # "absent" =>
      /\ \A t \in Tasks : rec[t].state # "absent" => ValidRecord(rec[t])
      /\ \A c \in Ticks : c >= head.tick /\ ~Sound(rec, c) =>
           \E t \in Tasks :
             /\ rec[t].state = "running"
             /\ ~Fits([rec[t] EXCEPT !.nextWake = RecoveryDue(rec[t], c)])
      /\ BarrierIntact

\* What a save would capture now passes checkpointSnapshot.validate, and every
\* stored checkpoint still does: a confirmed reference can always be restored.
SnapshotsRestorable ==
    /\ head.status # "absent" =>
         SnapshotValid(head.gen + 1, FencedRecords(rec, head.tick),
                       FencedWakes(rec, head.tick, head.gen + 1))
    /\ \A s \in Saves : snaps[s].taken =>
         SnapshotValid(snaps[s].gen, snaps[s].rec, snaps[s].wake)

\* While the save barrier is held the working set is exactly the prepared
\* snapshot: nothing commits between PrepareCheckpoint and the game's save.
BarrierFreezes ==
    head.barrier # NoSave =>
      /\ snaps[head.barrier].taken
      /\ snaps[head.barrier].rec = rec
      /\ snaps[head.barrier].wake = wake
      /\ snaps[head.barrier].run = head.run
      /\ snaps[head.barrier].gen = head.gen
      /\ snaps[head.barrier].tick = head.tick

\* A delivered wake belongs to the instance and generation of the head, a claim
\* id names one wake, and a claim this process still holds on a wake was issued
\* under the current binding: no fence leaves a live claim behind.
ClaimsFenced ==
    \A t \in Tasks : wake[t].status \in { "claimed", "enqueued", "running" } =>
      /\ wake[t].by = head.inst
      /\ wake[t].gen = head.gen
      /\ wake[t].by = self =>
           /\ wake[t].claim \in 1 .. Len(issued)
           /\ issued[wake[t].claim] = [ task |-> t, exp |-> wake[t].exp,
                                        run |-> head.run, gen |-> head.gen ]

\* An execution that holds its running wake is never stuck: FinishAttempt takes
\* some report of it, or Reconcile folds the evidence that is in its way, whatever
\* counters earlier pauses, intents and recoveries left behind (its size aside).
ExecutionCanSettle ==
    \A t \in Tasks : wake[t].status = "running" =>
      /\ rec[t].pauseReason = "none"
      /\ rec[t].noProgress < MaxAttemptFailures
      /\ rec[t].reconcile < MaxAttemptFailures
      /\ \/ \E k \in AttemptOutcomes :
              OutcomeFits(rec[t], k) /\ ValidRecord(AfterAttempt(rec[t], k))
         \/ Pending(rec[t]) # {} /\ \E q \in ReconciledRecords(rec[t]) : ValidRecord(q)

\* The verdict of a task is its earliest terminal fact, success first among
\* facts of one tick, in whatever order they were admitted; and a task that has
\* a terminal fact is never cancelled.
EarliestFactWins ==
    \A t \in Tasks :
      LET r == rec[t]
          verdicts == { f \in Facts : r.facts[f].kind \in TerminalKinds }
          won == r.facts[r.resultFact]
      IN  /\ r.state \in { "succeeded", "failed" } =>
               /\ r.resultFact \in verdicts
               /\ \A f \in verdicts :
                    \/ won.at < r.facts[f].at
                    \/ won.at = r.facts[f].at
                       /\ (r.facts[f].kind = "satisfied" => won.kind = "satisfied")
          /\ r.state = "cancelled" => verdicts = {}

\* A task is paused exactly when one of its failure counters reached the limit,
\* so FinishAttempt never meets an exhausted counter on a running task; and a
\* paused task that refuses intents (needsReconcile) has evidence to reconcile.
PauseIsExhaustion ==
    \A t \in Tasks :
      /\ rec[t].state = "paused" <=>
           \/ rec[t].noProgress >= MaxAttemptFailures
           \/ rec[t].reconcile >= MaxAttemptFailures
      /\ rec[t].state = "paused" /\ rec[t].needsReconcile => Pending(rec[t]) # {}

\* No operation or fact is dated after the current generation, and an uncertain
\* operation is of an earlier one: only a revalidated fact can settle it.
OperationsFenced ==
    \A t \in Tasks :
      /\ \A o \in Ops :
           /\ rec[t].ops[o].gen <= head.gen
           /\ rec[t].ops[o].status = "uncertain" => rec[t].ops[o].gen < head.gen
      /\ \A f \in Facts : rec[t].facts[f].gen <= head.gen
                          /\ rec[t].facts[f].reval <= head.gen

\* An execution can always be brought to an end, and a task rests in a pause
\* only for a counter that Resume or evidence clears.
AttemptsSettle == ExecutionCanSettle /\ PauseIsExhaustion

\* Evidence decides by when it happened, not by when it came, and belongs to a
\* generation that was: late and repeated reports change neither.
EvidenceSound == EarliestFactWins /\ OperationsFenced

\* The generation never falls, and it rises whenever the world changes run or
\* instance, comes back from a pause or is saved: holders of the old binding,
\* claims and executions of the process included, are fenced.
FenceRises ==
    [][ head.status # "absent" =>
          /\ head'.gen >= head.gen
          /\ \/ head'.run # head.run
             \/ head'.inst # head.inst
             \/ head.status = "paused" /\ head'.status = "ready"
             \/ snaps' # snaps
             => head'.gen > head.gen ]_vars

\* Every change of what an intent decides on moves the revision, which never
\* falls: a decision on a stale record is detected.
RevisionCovers(t) ==
    /\ rec'[t].rev >= rec[t].rev
    /\ rec'[t].rev = rec[t].rev =>
         rec'[t] = [rec[t] EXCEPT !.ops = rec'[t].ops, !.facts = rec'[t].facts,
                                  !.needsReconcile = rec'[t].needsReconcile]

\* Evidence is never lost, altered or un-applied, and a terminal record keeps
\* its verdict (only the cleanup of its operations may change).
EvidenceKept(t) ==
    /\ \A f \in Admitted(rec[t]) :
         /\ rec'[t].facts[f] = [rec[t].facts[f] EXCEPT !.applied = rec'[t].facts[f].applied]
         /\ rec[t].facts[f].applied => rec'[t].facts[f].applied
    /\ rec[t].state \in TerminalStates => rec'[t] = [rec[t] EXCEPT !.ops = rec'[t].ops]

\* Within a run no transaction changes a record behind the back of who read it
\* and none takes evidence or a verdict back.
RecordsEvolve ==
    [][ head'.run = head.run => \A t \in Tasks : RevisionCovers(t) /\ EvidenceKept(t) ]_vars

-----------------------------------------------------------------------------
(* What the phase 9.1 design states and the code does otherwise: TLC refutes *)
(* both (MCTaskKernelHasten.cfg, MCTaskKernelFollowUp.cfg).                  *)

\* "New evidence brings the pending wake forward": a waiting task whose evidence
\* is still to be reconciled has a wake that is due.  AdmitEvidence leaves the
\* wake where it was.
EvidenceHastensWake ==
    \A t \in Tasks :
      rec[t].state = "waiting" /\ Pending(rec[t]) # {} => wake[t].due <= head.tick

\* "A progress transaction consumes the current wake and produces the next": an
\* active, unpaused task before its deadline does not lose its only wake.
\* Reconcile of plain progress consumes the wake of a waiting task and leaves it
\* running without one.
ProgressLeavesWake ==
    [][ \A t \in Tasks :
          /\ wake[t].status # "none" /\ wake'[t].status = "none"
          /\ head'.tick < rec[t].deadline
          => rec'[t].state \notin { "waiting", "running" } ]_vars
=============================================================================
