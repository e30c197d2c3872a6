----------------------------- MODULE TaskRecord -----------------------------
(***************************************************************************)
(* The durable values of the task kernel (runtime/internal/task) and the   *)
(* pure functions its transactions are built from: what a record may look  *)
(* like, how pending evidence is folded into it, what an attempt's outcome *)
(* does to it, how an interrupted execution is recovered, and how a record *)
(* and its executable wake fit together.                                   *)
(*                                                                         *)
(* Identities, opaque JSON, sources and wording are left out; revisions,   *)
(* generations, ticks, counters and statuses are kept, and of the bytes of *)
(* a row one unit for every part that may be there or not.  Absent         *)
(* optional values are NoTick, NoOp, NoFact and "none".                    *)
(***************************************************************************)
EXTENDS Integers, FiniteSets

CONSTANTS Facts,      \* evidence fact identities, ordered like fact_id
          Ops,        \* operation identities
          NoOp,       \* Evidence.OperationID = ""
          MaxTaskBytes \* Options.MaxTaskBytes less the parts every task has, in units

ASSUME RecordAssumption ==
    Facts \subseteq Nat /\ IsFiniteSet(Facts) /\ IsFiniteSet(Ops)
      /\ NoOp \notin Ops /\ MaxTaskBytes \in Nat

NoTick == -1
NoFact == -1

\* maxConsecutiveAttemptFailures
MaxAttemptFailures == 3

ActiveStates == { "waiting", "running", "paused" }
TerminalStates == { "succeeded", "failed", "cancelled" }
TerminalKinds == { "satisfied", "unsatisfied", "interrupted" }
CleanupStatuses == { "released", "handed_off", "unconfirmed" }
LiveWakes == { "pending", "claimed", "enqueued", "running" }

Tick == Nat \cup {NoTick}

Operation(Run) ==
    [ status : { "none", "registered", "uncertain", "not_sent" },
      run : Run, gen : Nat, start : Nat,
      cleanup : CleanupStatuses \cup {"none"} ]

\* reval is the generation of RevalidatedIn (its run equals the fact's), or 0.
Evidence(Run) ==
    [ kind : TerminalKinds \cup { "none", "progress" },
      op : Ops \cup {NoOp}, at : Nat, until : Tick,
      run : Run, gen : Nat, reval : Nat, start : Nat, applied : BOOLEAN ]

\* state "absent" stands for no row; calls counts the intent history of the row.
Record(Run) ==
    [ state : ActiveStates \cup TerminalStates \cup {"absent"},
      rev : Nat, deadline : Nat, nextWake : Tick, needsReconcile : BOOLEAN,
      pauseReason : { "none", "no_progress", "evidence_unconfirmed" },
      noProgress : Nat, reconcile : Nat,
      resultFact : Facts \cup {NoFact}, resultAt : Tick, calls : Nat,
      ops : [Ops -> Operation(Run)], facts : [Facts -> Evidence(Run)] ]

\* The one wake of a task whose status is not consumed; "none" when there is
\* none.  exp identifies it: a task never has two wakes of one revision.
Wake == [ status : LiveWakes \cup {"none"}, exp : Nat, due : Tick,
          gen : Nat, claim : Nat, by : Nat ]

NoWake == [ status |-> "none", exp |-> 0, due |-> NoTick, gen |-> 0,
            claim |-> 0, by |-> 0 ]

PendingWake(exp, due, gen) ==
    [ status |-> "pending", exp |-> exp, due |-> due, gen |-> gen,
      claim |-> 0, by |-> 0 ]

NoOperation(run) ==
    [ status |-> "none", run |-> run, gen |-> 0, start |-> 0, cleanup |-> "none" ]

NoEvidence(run) ==
    [ kind |-> "none", op |-> NoOp, at |-> 0, until |-> NoTick, run |-> run,
      gen |-> 0, reval |-> 0, start |-> 0, applied |-> FALSE ]

AbsentRecord(run) ==
    [ state |-> "absent", rev |-> 0, deadline |-> 0, nextWake |-> NoTick,
      needsReconcile |-> FALSE, pauseReason |-> "none", noProgress |-> 0,
      reconcile |-> 0, resultFact |-> NoFact, resultAt |-> NoTick, calls |-> 0,
      ops |-> [o \in Ops |-> NoOperation(run)],
      facts |-> [f \in Facts |-> NoEvidence(run)] ]

\* The record Create inserts.
CreatedRecord(run, deadline, wakeAt) ==
    [ AbsentRecord(run) EXCEPT !.state = "waiting", !.rev = 1,
                               !.deadline = deadline, !.nextWake = wakeAt ]

-----------------------------------------------------------------------------
Admitted(r) == { f \in Facts : r.facts[f].kind # "none" }

\* pendingEvidence
Pending(r) == { f \in Admitted(r) : ~r.facts[f].applied }

\* One fact against its record, in Record.Validate.
ValidEvidence(r, f) ==
    LET e == r.facts[f]
        o == r.ops[e.op]
    IN  /\ e.start <= r.rev
        /\ e.until # NoTick =>
             e.kind = "progress" /\ e.at < e.until /\ e.until <= r.deadline
        /\ e.op = NoOp => e.reval = 0
        /\ e.op # NoOp =>
             /\ o.status \in { "registered", "uncertain" }
             /\ e.start = o.start
             /\ e.run = o.run /\ e.gen = o.gen
             /\ e.reval # 0 => \/ e.gen < e.reval
                               \/ o.status = "uncertain" /\ e.gen = e.reval

\* Record.Validate: the result of a terminal record cites an applied fact of
\* the matching kind and time, unless the task was cancelled.
ValidResult(r) ==
    LET e == r.facts[r.resultFact]
    IN  /\ (r.state \in TerminalStates) <=> (r.resultAt # NoTick)
        /\ r.resultFact # NoFact => e.kind # "none" /\ e.applied
        /\ r.state \in { "succeeded", "failed" } =>
             /\ r.resultFact # NoFact
             /\ e.at = r.resultAt
             /\ e.kind \in (IF r.state = "succeeded" THEN {"satisfied"}
                            ELSE { "unsatisfied", "interrupted" })

ValidRecord(r) ==
    /\ r.rev > 0
    /\ \A o \in Ops : r.ops[o].status # "none" => r.ops[o].start <= r.rev
    /\ \A f \in Admitted(r) : ValidEvidence(r, f)
    /\ Pending(r) # {} => r.needsReconcile
    /\ ValidResult(r)
    /\ r.state \in TerminalStates =>
         r.nextWake = NoTick /\ ~r.needsReconcile /\ Pending(r) = {}
    /\ \A o \in Ops : r.ops[o].cleanup # "none" => r.ops[o].status # "none"

-----------------------------------------------------------------------------
(* reconciledRecord: the deterministic fold of pending evidence.            *)

KindPriority(kind) ==
    CASE kind = "satisfied" -> 0 [] kind = "unsatisfied" -> 1 [] OTHER -> 2

\* selectTerminalEvidence: earliest, then by kind, then by fact_id.
TerminalBefore(r, f, g) ==
    LET a == r.facts[f]
        b == r.facts[g]
    IN  \/ a.at < b.at
        \/ a.at = b.at /\ KindPriority(a.kind) < KindPriority(b.kind)
        \/ a.at = b.at /\ a.kind = b.kind /\ f <= g

TerminalPending(r) == { f \in Pending(r) : r.facts[f].kind \in TerminalKinds }

\* Faulty variant: the lowest fact_id wins whatever its date.
FirstIdentityChoice(r, f) ==
    f \in TerminalPending(r) /\ \A g \in TerminalPending(r) : f <= g

IsTerminalChoice(r, f) ==
    /\ f \in TerminalPending(r)
    /\ \A g \in TerminalPending(r) : TerminalBefore(r, f, g)

\* selectWaitEvidence: only the earliest WaitUntil reaches the record.
WaitPending(r) ==
    { f \in Pending(r) : r.facts[f].kind = "progress" /\ r.facts[f].until # NoTick }

IsWaitChoice(r, f) ==
    /\ f \in WaitPending(r)
    /\ \A g \in WaitPending(r) : r.facts[f].until <= r.facts[g].until

Applied(facts) == [f \in Facts |-> [facts[f] EXCEPT
                      !.applied = facts[f].kind # "none"]]

\* The part every branch shares.
Folded(r) == [r EXCEPT !.rev = r.rev + 1, !.facts = Applied(r.facts),
                       !.needsReconcile = FALSE, !.pauseReason = "none",
                       !.noProgress = 0, !.reconcile = 0, !.nextWake = NoTick]

TerminalState(kind) == IF kind = "satisfied" THEN "succeeded" ELSE "failed"

TerminalRecord(r, f) ==
    [Folded(r) EXCEPT !.state = TerminalState(r.facts[f].kind),
                      !.resultFact = f, !.resultAt = r.facts[f].at]

\* The record after Reconcile, as a set with one member: a terminal fact wins
\* over everything, then the earliest wait, else the task goes on running.
ReconciledRecords(r) ==
    IF TerminalPending(r) # {}
      THEN { TerminalRecord(r, f) : f \in { g \in Facts : IsTerminalChoice(r, g) } }
    ELSE IF WaitPending(r) # {}
      THEN { [Folded(r) EXCEPT !.state = "waiting", !.nextWake = r.facts[f].until] :
                 f \in { g \in Facts : IsWaitChoice(r, g) } }
    ELSE { [Folded(r) EXCEPT !.state = "running"] }

-----------------------------------------------------------------------------
(* The size of a row.                                                       *)

\* cleanupCompleteRecordJSON: every operation counts with a cleanup, recorded or
\* still to come; only "released" is as short as the one it will be given.
Size(r) ==
    Cardinality({ o \in Ops : r.ops[o].status # "none" })
      + Cardinality({ o \in Ops : r.ops[o].cleanup \in { "handed_off", "unconfirmed" } })
      + Cardinality(Admitted(r))
      + (IF r.nextWake = NoTick THEN 0 ELSE 1)
      + (IF r.resultAt = NoTick THEN 0 ELSE 1)

\* intentTerminalStructuralReserve: what a short cancel adds, its result in the
\* record and in the response, and its call in the history.
TerminalReserve(r) == IF r.state \in TerminalStates THEN 0 ELSE 3

\* validateCleanupCompleteCapacity: the record, its copy in a response, the
\* intent history and the reserve.
Fits(r) == 2 * Size(r) + r.calls + TerminalReserve(r) <= MaxTaskBytes

\* validateTaskMutationCapacity: the record fits, and what Reconcile will make of
\* its pending evidence does.
HasCapacity(r) ==
    Fits(r) /\ (Pending(r) # {} => \A q \in ReconciledRecords(r) : Fits(q))

-----------------------------------------------------------------------------
(* applyAttemptOutcome.                                                     *)

AttemptOutcomes == { "progress", "no_progress", "reconcile_failed",
                     "observation_failed" }

\* The outcome's own precondition (ErrTaskChanged otherwise).
OutcomeFits(r, outcome) ==
    CASE outcome = "no_progress"        -> ~r.needsReconcile
      [] outcome = "reconcile_failed"   -> r.needsReconcile
      [] outcome = "observation_failed" -> ~r.needsReconcile
      [] outcome = "progress"           -> TRUE

\* A third consecutive failure pauses the task and ends the reconcile demand.
Failed(r, reason, exhausted) ==
    IF exhausted
      THEN [r EXCEPT !.state = "paused", !.pauseReason = reason,
                     !.needsReconcile = FALSE]
      ELSE [r EXCEPT !.needsReconcile = TRUE]

AfterAttempt(r, outcome) ==
    LET n == [r EXCEPT !.rev = r.rev + 1, !.pauseReason = "none"]
    IN  CASE outcome = "no_progress" ->
               Failed([n EXCEPT !.noProgress = r.noProgress + 1, !.reconcile = 0],
                      "no_progress", r.noProgress + 1 = MaxAttemptFailures)
          [] outcome \in { "reconcile_failed", "observation_failed" } ->
               Failed([n EXCEPT !.reconcile = r.reconcile + 1],
                      "evidence_unconfirmed", r.reconcile + 1 = MaxAttemptFailures)
          [] outcome = "progress" ->
               [n EXCEPT !.needsReconcile = FALSE, !.reconcile = 0,
                         !.noProgress = IF r.needsReconcile THEN r.noProgress ELSE 0]

-----------------------------------------------------------------------------
(* recoveredRunningRecord: an execution whose goroutine is gone.            *)

Uncertain(ops) == [o \in Ops |-> [ops[o] EXCEPT
    !.status = IF ops[o].status = "registered" THEN "uncertain" ELSE ops[o].status]]

\* Faulty variant: a wake after the deadline.
RecoveryDueNow(r, now) == now

RecoveryDue(r, now) == IF now > r.deadline THEN r.deadline ELSE now

RecoveredRunningRecord(r, now) ==
    [r EXCEPT !.rev = r.rev + 1, !.state = "waiting", !.needsReconcile = TRUE,
              !.pauseReason = "none", !.nextWake = RecoveryDue(r, now),
              !.ops = Uncertain(r.ops)]

-----------------------------------------------------------------------------
(* A record and its executable wake.                                        *)

\* validateTaskWakePair
TaskWakePair(r, w) ==
    /\ ValidRecord(r)
    /\ w.due <= r.deadline
    /\ w.status \in { "pending", "claimed", "enqueued" } =>
         r.state = "waiting" /\ r.nextWake = w.due /\ r.rev = w.exp
    /\ w.status = "running" =>
         r.state = "running" /\ r.nextWake = NoTick /\ r.rev > w.exp

\* validateDurableWakeRelation, for the generation of the world head.
DurableWakeRelation(gen, r, w) ==
    w.status \in LiveWakes =>
      /\ w.gen = gen
      /\ w.due <= r.deadline
      /\ w.status \in { "pending", "claimed", "enqueued" } =>
           r.state = "waiting" /\ r.nextWake = w.due /\ r.rev = w.exp
      /\ w.status = "running" =>
           r.state = "running" /\ r.nextWake = NoTick /\ r.rev > w.exp

\* The checks of planRestartRecoveryTx and normalizeCheckpointWorkingSetTx on
\* one task: inst is the runtime instance recorded in the world head.
Plannable(gen, inst, r, w) ==
    /\ DurableWakeRelation(gen, r, w)
    /\ w.status \in { "claimed", "enqueued", "running" } => w.by = inst
    /\ r.state = "waiting" => w.status \in { "pending", "claimed", "enqueued" }
    /\ r.state = "running" => w.status \in { "none", "running" }
    /\ r.state \in TerminalStates \cup { "paused", "absent" } => w.status = "none"

\* What both of them do to one task: the delivery of a waiting task becomes
\* pending in the new generation, a running task is recovered under a new wake.
FencedRecord(r, now) ==
    IF r.state = "running" THEN RecoveredRunningRecord(r, now) ELSE r

\* Faulty variant: the claim survives the fence.
FencedWakeKeepsClaim(r, w, now, gen) ==
    IF r.state = "running" THEN PendingWake(r.rev + 1, RecoveryDue(r, now), gen)
    ELSE IF r.state = "waiting" THEN [w EXCEPT !.gen = gen]
    ELSE w

FencedWake(r, w, now, gen) ==
    IF r.state = "running" THEN PendingWake(r.rev + 1, RecoveryDue(r, now), gen)
    ELSE IF r.state = "waiting" THEN PendingWake(w.exp, w.due, gen)
    ELSE w
=============================================================================
