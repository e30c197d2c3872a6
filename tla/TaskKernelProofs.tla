-------------------------- MODULE TaskKernelProofs --------------------------
(***************************************************************************)
(* The task kernel's safety for any number of tasks, facts, operations,    *)
(* runs and saves and any bounds.                                          *)
(***************************************************************************)
EXTENDS TaskKernel, TLAPS, WellFoundedInduction

-----------------------------------------------------------------------------
(* The operators of TaskRecord, for any sets of facts, operations and runs: *)
(* each keeps the type of the record it changes, and what recovery writes   *)
(* passes the checks that recovery makes.                                   *)

\* The fields of a record that operations compute with.
LEMMA RecordFields ==
  ASSUME NEW Run, NEW r \in Record(Run)
  PROVE  /\ r.rev \in Nat /\ r.rev + 1 \in Nat
         /\ r.deadline \in Nat
         /\ r.noProgress \in Nat /\ r.noProgress + 1 \in Nat
         /\ r.reconcile \in Nat /\ r.reconcile + 1 \in Nat
         /\ r.calls \in Nat /\ r.calls + 1 \in Nat
         /\ r.nextWake \in Tick
         /\ r.needsReconcile \in BOOLEAN
         /\ r.ops \in [Ops -> Operation(Run)]
         /\ r.facts \in [Facts -> Evidence(Run)]
<1>1. r.rev \in Nat /\ r.deadline \in Nat /\ r.noProgress \in Nat /\ r.reconcile \in Nat
      /\ r.calls \in Nat
  BY DEF Record
<1>2. r.nextWake \in Tick /\ r.needsReconcile \in BOOLEAN
  BY DEF Record
<1>3. r.ops \in [Ops -> Operation(Run)] /\ r.facts \in [Facts -> Evidence(Run)]
  BY DEF Record
<1>4. QED
  BY <1>1, <1>2, <1>3

\* A record without a row, and the one Create inserts.
LEMMA CreatedType ==
  ASSUME NEW Run, NEW run \in Run, NEW deadline \in Nat, NEW wakeAt \in Nat
  PROVE  /\ AbsentRecord(run) \in Record(Run)
         /\ CreatedRecord(run, deadline, wakeAt) \in Record(Run)
<1>1. NoOperation(run) \in Operation(Run)
  BY DEF NoOperation, Operation
<1>2. NoEvidence(run) \in Evidence(Run)
  BY DEF NoEvidence, Evidence, Tick
<1>3. AbsentRecord(run) \in Record(Run)
  BY <1>1, <1>2 DEF AbsentRecord, Record, Tick
<1>4. QED
  BY <1>3 DEF CreatedRecord, Record, Tick, ActiveStates

\* A pending wake, and the absence of one.
LEMMA WakeType ==
  ASSUME NEW exp \in Nat, NEW due \in Tick, NEW gen \in Nat
  PROVE  PendingWake(exp, due, gen) \in Wake /\ NoWake \in Wake
  BY DEF PendingWake, NoWake, Wake, LiveWakes, Tick

\* Applying facts changes nothing but their mark.
LEMMA AppliedType ==
  ASSUME NEW Run, NEW facts \in [Facts -> Evidence(Run)]
  PROVE  Applied(facts) \in [Facts -> Evidence(Run)]
  BY DEF Applied, Evidence

\* reconciledRecord keeps the type, whatever it selects.
LEMMA ReconciledType ==
  ASSUME NEW Run, NEW r \in Record(Run), NEW q \in ReconciledRecords(r)
  PROVE  q \in Record(Run)
<1>1. Folded(r) \in Record(Run)
  <2> DEFINE rev == r.rev + 1
             facts == Applied(r.facts)
  <2>1. rev \in Nat /\ facts \in [Facts -> Evidence(Run)]
    BY RecordFields, AppliedType
  <2> HIDE DEF rev, facts
  <2>2. [r EXCEPT !.rev = rev, !.facts = facts, !.needsReconcile = FALSE,
                  !.pauseReason = "none", !.noProgress = 0, !.reconcile = 0,
                  !.nextWake = NoTick] \in Record(Run)
    BY <2>1 DEF Record, Tick
  <2>3. QED
    BY <2>2 DEF Folded, rev, facts
<1>2. ASSUME NEW f \in Facts PROVE r.facts[f].at \in Tick /\ r.facts[f].until \in Tick
  BY <1>2 DEF Record, Evidence, Tick
<1>3. ASSUME NEW f \in Facts, q = TerminalRecord(r, f) PROVE q \in Record(Run)
  BY <1>1, <1>2, <1>3 DEF TerminalRecord, TerminalState, Record, TerminalStates
<1>4. ASSUME NEW f \in Facts,
             q = [Folded(r) EXCEPT !.state = "waiting", !.nextWake = r.facts[f].until]
      PROVE  q \in Record(Run)
  BY <1>1, <1>2, <1>4 DEF Record, ActiveStates
<1>5. CASE q = [Folded(r) EXCEPT !.state = "running"]
  BY <1>1, <1>5 DEF Record, ActiveStates
<1>6. QED
  BY <1>3, <1>4, <1>5 DEF ReconciledRecords

\* applyAttemptOutcome keeps the type.
LEMMA AttemptType ==
  ASSUME NEW Run, NEW r \in Record(Run), NEW k \in AttemptOutcomes
  PROVE  AfterAttempt(r, k) \in Record(Run)
<1>1. ASSUME NEW x \in Record(Run), NEW b \in BOOLEAN,
             NEW reason \in { "no_progress", "evidence_unconfirmed" }
      PROVE  Failed(x, reason, b) \in Record(Run)
  BY DEF Failed, Record, ActiveStates
<1> DEFINE n == [r EXCEPT !.rev = r.rev + 1, !.pauseReason = "none"]
<1>2. n \in Record(Run)
  <2>1. ASSUME NEW rev \in Nat PROVE [r EXCEPT !.rev = rev, !.pauseReason = "none"] \in Record(Run)
    BY DEF Record
  <2>2. QED
    BY <2>1, RecordFields
<1> HIDE DEF n
<1>3. /\ [n EXCEPT !.noProgress = r.noProgress + 1, !.reconcile = 0] \in Record(Run)
      /\ [n EXCEPT !.reconcile = r.reconcile + 1] \in Record(Run)
  <2>1. ASSUME NEW i \in Nat
        PROVE  /\ [n EXCEPT !.noProgress = i, !.reconcile = 0] \in Record(Run)
               /\ [n EXCEPT !.reconcile = i] \in Record(Run)
    BY <1>2 DEF Record
  <2>2. QED
    BY <2>1, RecordFields
<1>4. [n EXCEPT !.needsReconcile = FALSE, !.reconcile = 0,
                !.noProgress = IF r.needsReconcile THEN r.noProgress ELSE 0] \in Record(Run)
  <2>1. ASSUME NEW i \in Nat
        PROVE  [n EXCEPT !.needsReconcile = FALSE, !.reconcile = 0,
                         !.noProgress = i] \in Record(Run)
    BY <1>2 DEF Record
  <2>2. QED
    BY <2>1, RecordFields
<1>5. QED
  BY <1>1, <1>3, <1>4 DEF AfterAttempt, AttemptOutcomes, n

\* Recovery keeps the type.
LEMMA FencedType ==
  ASSUME NEW Run, NEW r \in Record(Run), NEW w \in Wake, NEW now \in Nat,
         NEW gen \in Nat
  PROVE  FencedRecord(r, now) \in Record(Run) /\ FencedWake(r, w, now, gen) \in Wake
<1>1. RecoveryDue(r, now) \in Nat
  BY DEF RecoveryDue, Record
<1>2. Uncertain(r.ops) \in [Ops -> Operation(Run)]
  BY DEF Uncertain, Record, Operation
<1>3. FencedRecord(r, now) \in Record(Run)
  <2>1. ASSUME NEW rev \in Nat, NEW due \in Nat, NEW ops \in [Ops -> Operation(Run)]
        PROVE  [r EXCEPT !.rev = rev, !.state = "waiting", !.needsReconcile = TRUE,
                         !.pauseReason = "none", !.nextWake = due, !.ops = ops]
                 \in Record(Run)
    BY DEF Record, ActiveStates, Tick
  <2>2. RecoveredRunningRecord(r, now) \in Record(Run)
    BY <1>1, <1>2, <2>1, RecordFields DEF RecoveredRunningRecord
  <2>3. QED
    BY <2>2 DEF FencedRecord
<1>4. r.rev + 1 \in Nat /\ w.exp \in Nat /\ w.due \in Tick
  BY RecordFields DEF Wake
<1>5. QED
  BY <1>1, <1>3, <1>4, WakeType DEF FencedWake, Tick

-----------------------------------------------------------------------------
(* What the checks of recovery accept.                                      *)

\* One task of a world that the next restart or save will not refuse.
TaskInv(gen, inst, r, w) ==
    /\ r.state # "absent" => ValidRecord(r)
    /\ Plannable(gen, inst, r, w)

\* The record of Create and its first wake.
LEMMA CreatedSound ==
  ASSUME NEW run, NEW deadline \in Nat, NEW wakeAt \in Nat, wakeAt <= deadline,
         NEW gen \in Nat, NEW inst
  PROVE  TaskInv(gen, inst, CreatedRecord(run, deadline, wakeAt),
                 PendingWake(1, wakeAt, gen))
<1> DEFINE r == CreatedRecord(run, deadline, wakeAt)
           w == PendingWake(1, wakeAt, gen)
<1>1. /\ r.state = "waiting" /\ r.rev = 1 /\ r.deadline = deadline
      /\ r.nextWake = wakeAt /\ r.resultAt = NoTick /\ r.resultFact = NoFact
      /\ r.ops = [o \in Ops |-> NoOperation(run)]
      /\ r.facts = [f \in Facts |-> NoEvidence(run)]
  BY DEF CreatedRecord, AbsentRecord
<1>2. w.status = "pending" /\ w.exp = 1 /\ w.due = wakeAt /\ w.gen = gen
  BY DEF PendingWake
<1> HIDE DEF r, w
<1>3. \A f \in Facts : r.facts[f].kind = "none"
  <2>1. NoEvidence(run).kind = "none"
    BY DEF NoEvidence
  <2>2. QED
    BY <1>1, <2>1
<1>4. Admitted(r) = {} /\ Pending(r) = {}
  BY <1>3 DEF Admitted, Pending
<1>5. \A o \in Ops : r.ops[o].status = "none" /\ r.ops[o].cleanup = "none"
  BY <1>1 DEF NoOperation
<1>6. ValidResult(r)
  BY <1>1 DEF ValidResult, TerminalStates, NoTick, NoFact
<1>7. ValidRecord(r)
  BY <1>1, <1>4, <1>5, <1>6 DEF ValidRecord, TerminalStates
<1>8. Plannable(gen, inst, r, w)
  BY <1>1, <1>2 DEF Plannable, DurableWakeRelation, LiveWakes, TerminalStates
<1>9. QED
  BY <1>7, <1>8 DEF TaskInv, r, w

\* Whatever a running task looks like, recoveredRunningRecord makes a record that
\* Record.Validate accepts and the new wake fits: its operations become
\* uncertain, and the facts that cite them stay valid.
LEMMA RecoveredSound ==
  ASSUME NEW Run, NEW r \in Record(Run), NEW now \in Nat, NEW gen \in Nat,
         ValidRecord(r), r.state = "running"
  PROVE  TaskWakePair(RecoveredRunningRecord(r, now),
                      PendingWake(r.rev + 1, RecoveryDue(r, now), gen))
<1> DEFINE q == RecoveredRunningRecord(r, now)
           due == RecoveryDue(r, now)
           w == PendingWake(r.rev + 1, due, gen)
<1>1. /\ q.rev = r.rev + 1 /\ q.state = "waiting" /\ q.needsReconcile = TRUE
      /\ q.nextWake = due /\ q.ops = Uncertain(r.ops) /\ q.facts = r.facts
      /\ q.deadline = r.deadline /\ q.resultFact = r.resultFact
      /\ q.resultAt = r.resultAt
  BY DEF RecoveredRunningRecord, Record
<1>2. due \in Nat /\ due <= r.deadline
  BY RecordFields DEF RecoveryDue
<1>3. w.status = "pending" /\ w.exp = r.rev + 1 /\ w.due = due
  BY DEF PendingWake
<1>4. ASSUME NEW o \in Ops
      PROVE  /\ q.ops[o].start = r.ops[o].start /\ q.ops[o].run = r.ops[o].run
             /\ q.ops[o].gen = r.ops[o].gen /\ q.ops[o].cleanup = r.ops[o].cleanup
             /\ q.ops[o].status = IF r.ops[o].status = "registered" THEN "uncertain"
                                  ELSE r.ops[o].status
             /\ r.ops[o].start \in Nat
  <2>1. r.ops[o] \in Operation(Run)
    BY RecordFields
  <2>2. q.ops[o] = [r.ops[o] EXCEPT !.status = IF r.ops[o].status = "registered"
                                               THEN "uncertain" ELSE r.ops[o].status]
    BY <1>1 DEF Uncertain
  <2>3. QED
    BY <2>1, <2>2 DEF Operation
<1> HIDE DEF q, due, w
<1>5. Admitted(q) = Admitted(r) /\ Pending(q) = Pending(r)
  BY <1>1 DEF Admitted, Pending
<1>6. ASSUME NEW f \in Admitted(q) PROVE ValidEvidence(q, f)
  <2>1. f \in Facts /\ ValidEvidence(r, f)
    BY <1>5, <1>6 DEF ValidRecord, Admitted
  <2>2. r.facts[f].op \in Ops \cup {NoOp} /\ r.facts[f].start \in Nat
    BY <2>1, RecordFields DEF Evidence
  <2>3. r.facts[f].start <= r.rev + 1
    BY <2>1, <2>2, RecordFields DEF ValidEvidence
  <2>4. QED
    BY <1>1, <1>4, <2>1, <2>2, <2>3 DEF ValidEvidence
<1>7. ValidResult(q)
  BY <1>1 DEF ValidRecord, ValidResult, TerminalStates
<1>8. ASSUME NEW o \in Ops, q.ops[o].status # "none" PROVE q.ops[o].start <= q.rev
  <2>1. r.ops[o].status # "none" /\ r.ops[o].start \in Nat
        /\ q.ops[o].start = r.ops[o].start
    BY <1>4, <1>8
  <2>2. r.ops[o].start <= r.rev
    BY <2>1 DEF ValidRecord
  <2>3. QED
    BY <1>1, <2>1, <2>2, RecordFields
<1>9. \A o \in Ops : q.ops[o].cleanup # "none" => q.ops[o].status # "none"
  BY <1>4 DEF ValidRecord
<1>10. q.rev > 0
  BY <1>1, RecordFields
<1>11. ValidRecord(q)
  BY <1>1, <1>6, <1>7, <1>8, <1>9, <1>10 DEF ValidRecord, TerminalStates
<1>12. TaskWakePair(q, w)
  BY <1>1, <1>2, <1>3, <1>11 DEF TaskWakePair
<1>13. QED
  BY <1>12 DEF q, w, due

\* A record and wake that fit together stay so under the fence, in any new
\* generation and for any new owner.
LEMMA FencedSound ==
  ASSUME NEW Run, NEW r \in Record(Run), NEW w \in Wake, NEW now \in Nat,
         NEW gen, NEW inst, NEW gen2 \in Nat, NEW inst2,
         TaskInv(gen, inst, r, w)
  PROVE  TaskInv(gen2, inst2, FencedRecord(r, now), FencedWake(r, w, now, gen2))
<1>1. CASE r.state = "running"
  <2> DEFINE q == RecoveredRunningRecord(r, now)
             p == PendingWake(r.rev + 1, RecoveryDue(r, now), gen2)
  <2>1. FencedRecord(r, now) = q /\ FencedWake(r, w, now, gen2) = p
    BY <1>1 DEF FencedRecord, FencedWake
  <2>2. TaskWakePair(q, p)
    BY <1>1, RecoveredSound DEF TaskInv
  <2>3. q.state = "waiting" /\ p.status = "pending" /\ p.gen = gen2
    BY DEF RecoveredRunningRecord, PendingWake, Record
  <2> HIDE DEF q, p
  <2>4. QED
    BY <2>1, <2>2, <2>3 DEF TaskInv, TaskWakePair, Plannable, DurableWakeRelation,
                            TerminalStates
<1>2. CASE r.state = "waiting"
  <2> DEFINE p == PendingWake(w.exp, w.due, gen2)
  <2>1. FencedRecord(r, now) = r /\ FencedWake(r, w, now, gen2) = p
    BY <1>2 DEF FencedRecord, FencedWake
  <2>2. p.status = "pending" /\ p.gen = gen2 /\ p.exp = w.exp /\ p.due = w.due
    BY DEF PendingWake
  <2>3. w.status \in { "pending", "claimed", "enqueued" }
    BY <1>2 DEF TaskInv, Plannable
  <2> HIDE DEF p
  <2>4. QED
    BY <1>2, <2>1, <2>2, <2>3 DEF TaskInv, Plannable, DurableWakeRelation,
                                  LiveWakes, TerminalStates
<1>3. CASE r.state \notin { "running", "waiting" }
  <2>1. FencedRecord(r, now) = r /\ FencedWake(r, w, now, gen2) = w
    BY <1>3 DEF FencedRecord, FencedWake
  <2>2. w.status = "none"
    BY <1>3 DEF TaskInv, Plannable, Record, ActiveStates
  <2>3. QED
    BY <1>3, <2>1, <2>2 DEF TaskInv, Plannable, DurableWakeRelation, LiveWakes
<1>4. QED
  BY <1>1, <1>2, <1>3

-----------------------------------------------------------------------------
(* The size of a record.                                                    *)

\* Only these parts of a record weigh.
LEMMA SameFit ==
  ASSUME NEW p, NEW q, q.calls = p.calls, Admitted(q) = Admitted(p),
         (q.state \in TerminalStates) <=> (p.state \in TerminalStates),
         (q.nextWake = NoTick) <=> (p.nextWake = NoTick),
         (q.resultAt = NoTick) <=> (p.resultAt = NoTick),
         \A o \in Ops : /\ (q.ops[o].status = "none") <=> (p.ops[o].status = "none")
                        /\ q.ops[o].cleanup = p.ops[o].cleanup,
         Fits(p)
  PROVE  Fits(q)
<1>1. /\ { o \in Ops : q.ops[o].status # "none" } = { o \in Ops : p.ops[o].status # "none" }
      /\ { o \in Ops : q.ops[o].cleanup \in { "handed_off", "unconfirmed" } }
           = { o \in Ops : p.ops[o].cleanup \in { "handed_off", "unconfirmed" } }
  OBVIOUS
<1>2. Size(q) = Size(p)
  BY <1>1 DEF Size
<1>3. TerminalReserve(q) = TerminalReserve(p)
  BY DEF TerminalReserve
<1>4. QED
  BY <1>2, <1>3 DEF Fits

\* The parts that weigh in what Reconcile makes of a record.
LEMMA FoldedWeight ==
  ASSUME NEW Run, NEW r \in Record(Run)
  PROVE  /\ Folded(r) \in Record(Run)
         /\ Folded(r).ops = r.ops /\ Folded(r).facts = Applied(r.facts)
         /\ Folded(r).calls = r.calls /\ Folded(r).nextWake = NoTick
         /\ Folded(r).resultAt = r.resultAt
<1>1. r.rev + 1 \in Nat /\ Applied(r.facts) \in [Facts -> Evidence(Run)]
  BY RecordFields, AppliedType
<1>2. QED
  BY <1>1 DEF Folded, Record, Tick

\* A running record that fits, and still does with the wake of its recovery, is
\* recovered within the limit: its operations become uncertain at no cost, and
\* what its pending evidence will make of it was reserved before.
LEMMA RecoveredFits ==
  ASSUME NEW Run, NEW r \in Record(Run), NEW now \in Nat, r.state = "running",
         HasCapacity(r), Fits([r EXCEPT !.nextWake = RecoveryDue(r, now)])
  PROVE  HasCapacity(RecoveredRunningRecord(r, now))
<1> DEFINE q == RecoveredRunningRecord(r, now)
           due == RecoveryDue(r, now)
           p == [r EXCEPT !.nextWake = due]
<1>1. due \in Nat /\ due # NoTick
  BY RecordFields DEF RecoveryDue, NoTick
<1>2. /\ q.state = "waiting" /\ q.nextWake = due /\ q.ops = Uncertain(r.ops)
      /\ q.facts = r.facts /\ q.resultAt = r.resultAt /\ q.calls = r.calls
  BY DEF RecoveredRunningRecord, Record
<1>3. /\ p.state = "running" /\ p.nextWake = due /\ p.ops = r.ops
      /\ p.facts = r.facts /\ p.resultAt = r.resultAt /\ p.calls = r.calls
  BY DEF Record
<1>4. q \in Record(Run)
  BY FencedType, WakeType DEF FencedRecord, Tick
<1>5. ASSUME NEW o \in Ops
      PROVE  /\ (q.ops[o].status = "none") <=> (r.ops[o].status = "none")
             /\ q.ops[o].cleanup = r.ops[o].cleanup
  <2>1. r.ops[o] \in Operation(Run)
    BY RecordFields
  <2>2. q.ops[o] = [r.ops[o] EXCEPT !.status = IF r.ops[o].status = "registered"
                                               THEN "uncertain" ELSE r.ops[o].status]
    BY <1>2 DEF Uncertain
  <2>3. QED
    BY <2>1, <2>2 DEF Operation
<1>6. Fits(p)
  OBVIOUS
<1> HIDE DEF q, due, p
<1>7. Admitted(q) = Admitted(r) /\ Admitted(p) = Admitted(r) /\ Pending(q) = Pending(r)
  BY <1>2, <1>3 DEF Admitted, Pending
<1>8. Fits(q)
  <2>1. \A o \in Ops : /\ (q.ops[o].status = "none") <=> (p.ops[o].status = "none")
                       /\ q.ops[o].cleanup = p.ops[o].cleanup
    BY <1>3, <1>5
  <2>2. QED
    BY <1>2, <1>3, <1>6, <1>7, <2>1, SameFit DEF TerminalStates
<1>9. ASSUME NEW x, NEW y, x.calls = q.calls, y.calls = r.calls, x.ops = q.ops, y.ops = r.ops,
             x.facts = Applied(q.facts), y.facts = Applied(r.facts), x.state = y.state,
             x.nextWake = y.nextWake, x.resultAt = y.resultAt, Fits(y)
      PROVE  Fits(x)
  <2>1. Admitted(x) = Admitted(y)
    BY <1>2, <1>9 DEF Admitted
  <2>2. \A o \in Ops : /\ (x.ops[o].status = "none") <=> (y.ops[o].status = "none")
                       /\ x.ops[o].cleanup = y.ops[o].cleanup
    BY <1>5, <1>9
  <2>3. x.calls = y.calls
    BY <1>2, <1>9
  <2>4. QED
    BY <1>9, <2>1, <2>2, <2>3, SameFit
<1>10. TerminalPending(q) = TerminalPending(r) /\ WaitPending(q) = WaitPending(r)
  BY <1>2, <1>7 DEF TerminalPending, WaitPending
<1>11. \A f \in Facts : IsTerminalChoice(q, f) <=> IsTerminalChoice(r, f)
  BY <1>2, <1>10 DEF IsTerminalChoice, TerminalBefore
<1>12. \A f \in Facts : IsWaitChoice(q, f) <=> IsWaitChoice(r, f)
  BY <1>2, <1>10 DEF IsWaitChoice
<1>13. /\ Folded(q) \in Record(Run) /\ Folded(q).ops = q.ops
       /\ Folded(q).facts = Applied(q.facts) /\ Folded(q).calls = q.calls
       /\ Folded(q).nextWake = NoTick /\ Folded(q).resultAt = q.resultAt
  BY <1>4, FoldedWeight
<1>14. /\ Folded(r) \in Record(Run) /\ Folded(r).ops = r.ops
       /\ Folded(r).facts = Applied(r.facts) /\ Folded(r).calls = r.calls
       /\ Folded(r).nextWake = NoTick /\ Folded(r).resultAt = r.resultAt
  BY FoldedWeight
<1>15. ASSUME NEW x \in ReconciledRecords(q), Pending(r) # {} PROVE Fits(x)
  <2>1. \A y \in ReconciledRecords(r) : Fits(y)
    BY <1>15 DEF HasCapacity
  <2>2. CASE TerminalPending(r) # {}
    <3>1. PICK f \in Facts : IsTerminalChoice(q, f) /\ x = TerminalRecord(q, f)
      BY <1>10, <1>15, <2>2 DEF ReconciledRecords
    <3> DEFINE y == TerminalRecord(r, f)
    <3>2. y \in ReconciledRecords(r)
      BY <1>11, <2>2, <3>1 DEF ReconciledRecords
    <3>3. /\ x.calls = q.calls /\ x.ops = q.ops /\ x.facts = Applied(q.facts)
          /\ x.state = TerminalState(q.facts[f].kind) /\ x.nextWake = NoTick
          /\ x.resultAt = q.facts[f].at
      BY <1>13, <3>1 DEF TerminalRecord, Record
    <3>4. /\ y.calls = r.calls /\ y.ops = r.ops /\ y.facts = Applied(r.facts)
          /\ y.state = TerminalState(r.facts[f].kind) /\ y.nextWake = NoTick
          /\ y.resultAt = r.facts[f].at
      BY <1>14 DEF TerminalRecord, Record
    <3> HIDE DEF y
    <3>5. QED
      BY <1>2, <1>9, <2>1, <3>2, <3>3, <3>4
  <2>3. CASE TerminalPending(r) = {} /\ WaitPending(r) # {}
    <3>1. PICK f \in Facts :
            /\ IsWaitChoice(q, f)
            /\ x = [Folded(q) EXCEPT !.state = "waiting", !.nextWake = q.facts[f].until]
      BY <1>10, <1>15, <2>3 DEF ReconciledRecords
    <3> DEFINE y == [Folded(r) EXCEPT !.state = "waiting", !.nextWake = r.facts[f].until]
    <3>2. y \in ReconciledRecords(r)
      BY <1>12, <2>3, <3>1 DEF ReconciledRecords
    <3>3. /\ x.calls = q.calls /\ x.ops = q.ops /\ x.facts = Applied(q.facts)
          /\ x.state = "waiting" /\ x.nextWake = q.facts[f].until
          /\ x.resultAt = q.resultAt
      BY <1>13, <3>1 DEF Record
    <3>4. /\ y.calls = r.calls /\ y.ops = r.ops /\ y.facts = Applied(r.facts)
          /\ y.state = "waiting" /\ y.nextWake = r.facts[f].until
          /\ y.resultAt = r.resultAt
      BY <1>14 DEF Record
    <3> HIDE DEF y
    <3>5. QED
      BY <1>2, <1>9, <2>1, <3>2, <3>3, <3>4
  <2>4. CASE TerminalPending(r) = {} /\ WaitPending(r) = {}
    <3>1. x = [Folded(q) EXCEPT !.state = "running"]
      BY <1>10, <1>15, <2>4 DEF ReconciledRecords
    <3> DEFINE y == [Folded(r) EXCEPT !.state = "running"]
    <3>2. y \in ReconciledRecords(r)
      BY <2>4 DEF ReconciledRecords
    <3>3. /\ x.calls = q.calls /\ x.ops = q.ops /\ x.facts = Applied(q.facts)
          /\ x.state = "running" /\ x.nextWake = NoTick /\ x.resultAt = q.resultAt
      BY <1>13, <3>1 DEF Record
    <3>4. /\ y.calls = r.calls /\ y.ops = r.ops /\ y.facts = Applied(r.facts)
          /\ y.state = "running" /\ y.nextWake = NoTick /\ y.resultAt = r.resultAt
      BY <1>14 DEF Record
    <3> HIDE DEF y
    <3>5. QED
      BY <1>2, <1>9, <2>1, <3>2, <3>3, <3>4
  <2>5. QED
    BY <2>2, <2>3, <2>4
<1>16. HasCapacity(q)
  BY <1>7, <1>8, <1>15 DEF HasCapacity
<1>17. QED
  BY <1>16 DEF q

-----------------------------------------------------------------------------
(* Types.                                                                   *)

\* The fact AdmitEvidence and PrepareCheckpoint write.
LEMMA EvidenceType ==
  ASSUME TypeOK, NEW t \in Tasks, NEW f \in Facts, NEW i \in Reports
  PROVE  WithEvidence(t, f, i) \in Record(AnyRun)
<1>1. /\ i.kind \in TerminalKinds \cup {"progress"} /\ i.op \in Ops \cup {NoOp}
      /\ i.at \in Nat /\ i.until \in Tick
  BY KernelAssumption DEF EvidenceInput
<1>2. head.run \in AnyRun /\ head.gen \in Nat
  BY DEF TypeOK, HeadType
<1>3. rec[t] \in Record(AnyRun)
  BY DEF TypeOK
<1>4. EvidenceOf(t, i) \in Evidence(AnyRun)
  <2>1. CASE i.op = NoOp
    <3>1. rec[t].rev \in Nat
      BY <1>3, RecordFields
    <3>2. QED
      BY <1>1, <1>2, <2>1, <3>1 DEF EvidenceOf, Evidence
  <2>2. CASE i.op # NoOp
    <3>1. rec[t].ops[i.op] \in Operation(AnyRun)
      BY <1>1, <1>3, <2>2, RecordFields
    <3>2. /\ rec[t].ops[i.op].run \in AnyRun /\ rec[t].ops[i.op].gen \in Nat
          /\ rec[t].ops[i.op].start \in Nat
      BY <3>1 DEF Operation
    <3>3. (IF Direct(rec[t].ops[i.op]) THEN 0 ELSE head.gen) \in Nat
      BY <1>2
    <3>4. QED
      BY <1>1, <2>2, <3>2, <3>3 DEF EvidenceOf, Evidence
  <2>3. QED
    BY <2>1, <2>2
<1>5. ASSUME NEW e \in Evidence(AnyRun)
      PROVE  [rec[t] EXCEPT !.facts[f] = e, !.needsReconcile = TRUE] \in Record(AnyRun)
  BY <1>3 DEF Record
<1>6. QED
  BY <1>4, <1>5 DEF WithEvidence

\* An update of one operation's field.
LEMMA OperationType ==
  ASSUME NEW r \in Record(AnyRun), NEW o \in Ops
  PROVE  /\ \A x \in Operation(AnyRun) : [r EXCEPT !.ops[o] = x] \in Record(AnyRun)
         /\ [r EXCEPT !.ops[o].status = "not_sent"] \in Record(AnyRun)
         /\ \A k \in CleanupStatuses : [r EXCEPT !.ops[o].cleanup = k] \in Record(AnyRun)
<1>1. r.ops \in [Ops -> Operation(AnyRun)]
  BY RecordFields
<1>2. ASSUME NEW ops \in [Ops -> Operation(AnyRun)]
      PROVE  [r EXCEPT !.ops = ops] \in Record(AnyRun)
  BY DEF Record
<1>3. ASSUME NEW x \in Operation(AnyRun) PROVE [r EXCEPT !.ops[o] = x] \in Record(AnyRun)
  <2>1. [r.ops EXCEPT ![o] = x] \in [Ops -> Operation(AnyRun)]
    BY <1>1
  <2>2. [r EXCEPT !.ops[o] = x] = [r EXCEPT !.ops = [r.ops EXCEPT ![o] = x]]
    BY DEF Record
  <2>3. QED
    BY <1>2, <2>1, <2>2
<1>4. [r.ops[o] EXCEPT !.status = "not_sent"] \in Operation(AnyRun)
  BY <1>1 DEF Operation
<1>5. ASSUME NEW k \in CleanupStatuses
      PROVE  [r.ops[o] EXCEPT !.cleanup = k] \in Operation(AnyRun)
  BY <1>1 DEF Operation
<1>6. [r EXCEPT !.ops[o].status = "not_sent"]
        = [r EXCEPT !.ops[o] = [r.ops[o] EXCEPT !.status = "not_sent"]]
  BY DEF Record
<1>7. \A k : [r EXCEPT !.ops[o].cleanup = k]
               = [r EXCEPT !.ops[o] = [r.ops[o] EXCEPT !.cleanup = k]]
  BY DEF Record
<1>8. QED
  BY <1>3, <1>4, <1>5, <1>6, <1>7

\* The empty store.
LEMMA KernelTypeInit == Init => TypeOK
<1> SUFFICES ASSUME Init PROVE TypeOK
  OBVIOUS
<1>1. NoRun \in AnyRun /\ NoSave \in Saves \cup {NoSave}
  BY DEF AnyRun
<1>2. NoHead \in HeadType
  BY <1>1 DEF NoHead, HeadType
<1>3. AbsentRecord(NoRun) \in Record(AnyRun)
  BY <1>1, CreatedType
<1>4. NoWake \in Wake
  BY WakeType DEF Tick
<1>5. NoSnap \in SnapType
  BY <1>1, <1>3, <1>4 DEF NoSnap, SnapType
<1>6. issued \in Seq(ClaimType) /\ begun \subseteq 1 .. Len(issued)
  BY DEF Init
<1>7. QED
  BY <1>2, <1>3, <1>4, <1>5, <1>6 DEF Init, TypeOK

\* A transaction on one task's record and wake.
LEMMA TaskUpdateType ==
  ASSUME TypeOK, NEW t \in Tasks, NEW q \in Record(AnyRun), NEW w \in Wake,
         rec' = [rec EXCEPT ![t] = q] \/ rec' = rec,
         wake' = [wake EXCEPT ![t] = w] \/ wake' = wake,
         UNCHANGED << head, snaps, self >>
  PROVE  /\ head' \in HeadType /\ rec' \in [Tasks -> Record(AnyRun)]
         /\ wake' \in [Tasks -> Wake] /\ snaps' \in [Saves -> SnapType] /\ self' \in Nat
  BY DEF TypeOK

\* The intents of a task's owner, its operations and facts keep the types.
LEMMA RecordActionsType ==
  ASSUME TypeOK, NEW t \in Tasks, Intents(t) \/ Facting(t)
  PROVE  TypeOK'
<1>1. rec[t] \in Record(AnyRun) /\ wake[t] \in Wake /\ head.gen \in Nat
      /\ head.run \in AnyRun /\ head.tick \in Nat
  BY DEF TypeOK, HeadType
<1>2. NoWake \in Wake
  BY WakeType DEF Tick
<1>3. /\ issued' = issued /\ begun' = begun => issued' \in Seq(ClaimType)
      /\ issued' = issued /\ begun' = begun => begun' \subseteq 1 .. Len(issued')
  BY DEF TypeOK
<1>4. Ticks \subseteq Nat /\ Nat \subseteq Tick /\ NoTick \in Tick
  BY DEF Ticks, Tick
<1>5. AfterIntent(rec[t]) \in Record(AnyRun)
  <2>1. ASSUME NEW rev \in Nat, NEW calls \in Nat
        PROVE  [rec[t] EXCEPT !.rev = rev, !.pauseReason = "none", !.noProgress = 0,
                              !.reconcile = 0, !.calls = calls] \in Record(AnyRun)
    BY <1>1 DEF Record
  <2>2. QED
    BY <1>1, <2>1, RecordFields DEF AfterIntent
<1>6. ASSUME NEW n \in Ticks, Create(t, n) PROVE TypeOK'
  <2>1. Deadline[t] \in Nat /\ NoRun \in AnyRun
    BY KernelAssumption DEF AnyRun
  <2>2. CreatedRecord(NoRun, Deadline[t], n) \in Record(AnyRun)
    BY <1>4, <2>1, CreatedType
  <2>3. PendingWake(1, n, head.gen) \in Wake
    BY <1>1, <1>4, WakeType
  <2>4. QED
    BY <1>3, <1>6, <2>2, <2>3, TaskUpdateType DEF Create, TypeOK
<1>7. ASSUME NEW n \in Ticks, ApplyIntentWait(t, n) PROVE TypeOK'
  <2> DEFINE q == [AfterIntent(rec[t]) EXCEPT !.state = "waiting", !.nextWake = n]
             w == PendingWake(q.rev, n, head.gen)
  <2>1. q \in Record(AnyRun)
    BY <1>4, <1>5 DEF Record, ActiveStates
  <2>2. w \in Wake
    BY <1>1, <1>4, <2>1, WakeType, RecordFields
  <2>3. rec' = [rec EXCEPT ![t] = q] /\ wake' = [wake EXCEPT ![t] = w]
        /\ UNCHANGED << head, snaps, self, issued, begun >>
    BY <1>7 DEF ApplyIntentWait
  <2> HIDE DEF q, w
  <2>4. QED
    BY <1>3, <2>1, <2>2, <2>3, TaskUpdateType DEF TypeOK
<1>8. ASSUME ApplyIntentCancel(t) PROVE TypeOK'
  <2> DEFINE q == [AfterIntent(rec[t]) EXCEPT !.state = "cancelled",
                       !.nextWake = NoTick, !.resultAt = head.tick]
  <2>1. q \in Record(AnyRun)
    BY <1>1, <1>4, <1>5 DEF Record, TerminalStates
  <2>2. rec' = [rec EXCEPT ![t] = q] /\ wake' = [wake EXCEPT ![t] = NoWake]
        /\ UNCHANGED << head, snaps, self, issued, begun >>
    BY <1>8 DEF ApplyIntentCancel
  <2> HIDE DEF q
  <2>3. QED
    BY <1>2, <1>3, <2>1, <2>2, TaskUpdateType DEF TypeOK
<1>9. ASSUME Reconcile(t) PROVE TypeOK'
  <2>1. PICK q \in ReconciledRecords(rec[t]) :
          /\ rec' = [rec EXCEPT ![t] = q]
          /\ \/ wake' = [wake EXCEPT ![t] = PendingWake(q.rev, q.nextWake, head.gen)]
             \/ wake' = [wake EXCEPT ![t] = wake[t]]
             \/ wake' = [wake EXCEPT ![t] = NoWake]
          /\ UNCHANGED << head, snaps, self, issued, begun >>
    BY <1>9 DEF Reconcile
  <2>2. q \in Record(AnyRun)
    BY <1>1, ReconciledType
  <2>3. PendingWake(q.rev, q.nextWake, head.gen) \in Wake
    BY <1>1, <2>2, WakeType, RecordFields
  <2>4. QED
    BY <1>1, <1>2, <1>3, <2>1, <2>2, <2>3, TaskUpdateType DEF TypeOK
<1>10. ASSUME NEW f \in Facts, NEW i \in Reports, AdmitEvidence(t, f, i) PROVE TypeOK'
  BY <1>2, <1>3, <1>10, EvidenceType, TaskUpdateType DEF AdmitEvidence, TypeOK
<1>11. ASSUME NEW o \in Ops, RegisterOperation(t, o) PROVE TypeOK'
  <2> DEFINE x == [ status |-> "registered", run |-> head.run, gen |-> head.gen,
                    start |-> rec[t].rev, cleanup |-> "none" ]
  <2>1. x \in Operation(AnyRun)
    BY <1>1, RecordFields DEF Operation
  <2>2. rec' = [rec EXCEPT ![t] = [rec[t] EXCEPT !.ops[o] = x]]
        /\ UNCHANGED << head, wake, snaps, self, issued, begun >>
    BY <1>11 DEF RegisterOperation
  <2> HIDE DEF x
  <2>3. [rec[t] EXCEPT !.ops[o] = x] \in Record(AnyRun)
    BY <1>1, <2>1, OperationType
  <2>4. QED
    BY <1>2, <1>3, <2>2, <2>3, TaskUpdateType DEF TypeOK
<1>12. ASSUME NEW o \in Ops, MarkOperationNotSent(t, o) PROVE TypeOK'
  BY <1>1, <1>2, <1>3, <1>12, OperationType, TaskUpdateType
     DEF MarkOperationNotSent, TypeOK
<1>13. ASSUME NEW o \in Ops, NEW k \in CleanupStatuses, RecordCleanup(t, o, k)
       PROVE  TypeOK'
  BY <1>1, <1>2, <1>3, <1>13, OperationType, TaskUpdateType
     DEF RecordCleanup, TypeOK
<1>14. QED
  BY <1>6, <1>7, <1>8, <1>9, <1>10, <1>11, <1>12, <1>13 DEF Intents, Facting

\* What a claim of this process names.
LEMMA ClaimFields ==
  ASSUME TypeOK, NEW c \in 1 .. Len(issued)
  PROVE  issued[c] \in ClaimType /\ issued[c].task \in Tasks /\ issued[c].exp \in Nat
<1>1. issued \in Seq(ClaimType)
  BY DEF TypeOK
<1>2. issued[c] \in ClaimType
  BY <1>1
<1>3. QED
  BY <1>2 DEF ClaimType

\* The wake protocol keeps the types.
LEMMA DeliveryType == TypeOK /\ Delivery => TypeOK'
<1> SUFFICES ASSUME TypeOK, Delivery PROVE TypeOK'
  OBVIOUS
<1>1. self \in Nat /\ head.run \in AnyRun /\ head.gen \in Nat
  BY DEF TypeOK, HeadType
<1>2. NoWake \in Wake
  BY WakeType DEF Tick
<1>3. issued' = issued /\ begun' = begun
        => issued' \in Seq(ClaimType) /\ begun' \subseteq 1 .. Len(issued')
  BY DEF TypeOK
<1>4. ASSUME NEW t \in Tasks, ClaimDue(t) PROVE TypeOK'
  <2> DEFINE id == Len(issued) + 1
             w == [wake[t] EXCEPT !.status = "claimed", !.claim = id, !.by = self]
             c == [ task |-> t, exp |-> wake[t].exp, run |-> head.run, gen |-> head.gen ]
  <2>1. id \in Nat /\ wake[t] \in Wake /\ rec[t] \in Record(AnyRun)
    BY DEF TypeOK
  <2>2. wake' = [wake EXCEPT ![t] = w] /\ issued' = Append(issued, c)
        /\ UNCHANGED << head, rec, snaps, self, begun >>
    BY <1>4 DEF ClaimDue
  <2>3. w \in Wake /\ c \in ClaimType
    <3>1. ASSUME NEW n \in Nat
          PROVE  [wake[t] EXCEPT !.status = "claimed", !.claim = n, !.by = self] \in Wake
      BY <1>1, <2>1 DEF Wake, LiveWakes
    <3>2. wake[t].exp \in Nat
      BY <2>1 DEF Wake
    <3>3. QED
      BY <1>1, <2>1, <3>1, <3>2 DEF ClaimType
  <2> HIDE DEF id, w, c
  <2>4. issued' \in Seq(ClaimType) /\ Len(issued') = Len(issued) + 1 /\ Len(issued) \in Nat
    BY <2>2, <2>3 DEF TypeOK
  <2>5. begun' \subseteq 1 .. Len(issued')
    BY <2>2, <2>4 DEF TypeOK
  <2>6. QED
    BY <2>1, <2>2, <2>3, <2>4, <2>5, TaskUpdateType DEF TypeOK
<1>5. ASSUME NEW c \in 1 .. Len(issued), MarkEnqueued(c) PROVE TypeOK'
  <2>1. issued[c].task \in Tasks
    BY ClaimFields
  <2>2. ASSUME NEW t \in Tasks PROVE [wake[t] EXCEPT !.status = "enqueued"] \in Wake
    BY DEF TypeOK, Wake, LiveWakes
  <2>3. wake' \in [Tasks -> Wake]
    BY <1>5, <2>1, <2>2 DEF MarkEnqueued, TypeOK
  <2>4. QED
    BY <1>3, <1>5, <2>3 DEF MarkEnqueued, TypeOK
<1>6. ASSUME NEW c \in 1 .. Len(issued), ReleaseClaim(c) PROVE TypeOK'
  <2>1. issued[c].task \in Tasks
    BY ClaimFields
  <2>2. ASSUME NEW t \in Tasks
        PROVE  PendingWake(wake[t].exp, wake[t].due, wake[t].gen) \in Wake
    <3>1. wake[t].exp \in Nat /\ wake[t].due \in Tick /\ wake[t].gen \in Nat
      BY DEF TypeOK, Wake
    <3>2. QED
      BY <3>1, WakeType
  <2>3. wake' \in [Tasks -> Wake]
    BY <1>6, <2>1, <2>2 DEF ReleaseClaim, TypeOK
  <2>4. QED
    BY <1>3, <1>6, <2>3 DEF ReleaseClaim, TypeOK
<1>7. ASSUME NEW c \in 1 .. Len(issued), BeginWake(c) PROVE TypeOK'
  <2> DEFINE t == issued[c].task
             q == [rec[t] EXCEPT !.state = "running", !.rev = @ + 1, !.nextWake = NoTick]
  <2>1. t \in Tasks
    BY ClaimFields
  <2>2. /\ rec' = [rec EXCEPT ![t] = q] /\ wake' = [wake EXCEPT ![t].status = "running"]
        /\ begun' = begun \cup {c} /\ UNCHANGED << head, snaps, self, issued >>
    BY <1>7 DEF BeginWake
  <2> HIDE DEF t
  <2>3. rec[t] \in Record(AnyRun) /\ wake[t] \in Wake
    BY <2>1 DEF TypeOK
  <2>4. q \in Record(AnyRun)
    <3>1. ASSUME NEW rev \in Nat
          PROVE  [rec[t] EXCEPT !.state = "running", !.rev = rev, !.nextWake = NoTick]
                   \in Record(AnyRun)
      BY <2>3 DEF Record, ActiveStates, Tick
    <3>2. q = [rec[t] EXCEPT !.state = "running", !.rev = rec[t].rev + 1, !.nextWake = NoTick]
      BY <2>3 DEF Record
    <3>3. QED
      BY <2>3, <3>1, <3>2, RecordFields
  <2>5. [wake[t] EXCEPT !.status = "running"] \in Wake
    BY <2>3 DEF Wake, LiveWakes
  <2> HIDE DEF q
  <2>6. rec' \in [Tasks -> Record(AnyRun)] /\ wake' \in [Tasks -> Wake]
    BY <2>1, <2>2, <2>4, <2>5 DEF TypeOK
  <2>7. QED
    BY <2>2, <2>6 DEF TypeOK
<1>8. ASSUME NEW c \in 1 .. Len(issued), NEW k \in AttemptOutcomes, FinishAttempt(c, k)
      PROVE  TypeOK'
  <2> DEFINE t == issued[c].task
             q == AfterAttempt(rec[t], k)
  <2>1. t \in Tasks
    BY ClaimFields
  <2>2. q \in Record(AnyRun)
    BY <2>1, AttemptType DEF TypeOK
  <2>3. /\ rec' = [rec EXCEPT ![t] = q]
        /\ wake' = [wake EXCEPT ![t] = NoWake] \/ wake' = wake
        /\ UNCHANGED << head, snaps, self, issued, begun >>
    BY <1>8 DEF FinishAttempt
  <2> HIDE DEF t, q
  <2>4. QED
    BY <1>2, <1>3, <2>1, <2>2, <2>3, TaskUpdateType DEF TypeOK
<1>9. QED
  BY <1>4, <1>5, <1>6, <1>7, <1>8 DEF Delivery

\* Saves and activations keep the types.
LEMMA WorldActionsType == TypeOK /\ (Saving \/ Activation \/ Crash) => TypeOK'
<1> SUFFICES ASSUME TypeOK, Saving \/ Activation \/ Crash PROVE TypeOK'
  OBVIOUS
<1>1. /\ head \in HeadType /\ head.gen \in Nat /\ head.gen + 1 \in Nat
      /\ head.tick \in Nat /\ head.run \in AnyRun /\ self \in Nat
  BY DEF TypeOK, HeadType
<1>2. Ticks \subseteq Nat
  BY DEF Ticks
<1>3. issued' = issued /\ begun' = begun
        => issued' \in Seq(ClaimType) /\ begun' \subseteq 1 .. Len(issued')
  BY DEF TypeOK
<1>4. \A s \in Saves : /\ snaps[s].rec \in [Tasks -> Record(AnyRun)]
                       /\ snaps[s].wake \in [Tasks -> Wake]
                       /\ snaps[s].gen \in Nat
  BY DEF TypeOK, SnapType
<1>5. ASSUME NEW recs \in [Tasks -> Record(AnyRun)], NEW c \in Nat
      PROVE  /\ FencedRecords(recs, c) \in [Tasks -> Record(AnyRun)]
             /\ FencedWakes(recs, c, head.gen + 1) \in [Tasks -> Wake]
  BY <1>1, FencedType DEF FencedRecords, FencedWakes, TypeOK
<1>6. rec \in [Tasks -> Record(AnyRun)] /\ wake \in [Tasks -> Wake]
      /\ snaps \in [Saves -> SnapType]
  BY DEF TypeOK
<1>7. CASE ExpireBarrier \/ (\E s \in Saves : FinishCheckpoint(s)) \/ DeactivateWorld
  BY <1>1, <1>3, <1>6, <1>7
     DEF ExpireBarrier, FinishCheckpoint, DeactivateWorld, TypeOK, HeadType
<1>8. ASSUME NEW s \in Saves, PrepareCheckpoint(s) PROVE TypeOK'
  <2>1. PICK recs \in FinalEvidence :
          /\ rec' = FencedRecords(recs, head.tick)
          /\ wake' = FencedWakes(recs, head.tick, head.gen + 1)
          /\ snaps' = [snaps EXCEPT ![s] =
               [ taken |-> TRUE, run |-> head.run, gen |-> head.gen + 1,
                 tick |-> head.tick, rec |-> rec', wake |-> wake' ]]
          /\ head' = [head EXCEPT !.gen = head.gen + 1, !.ckpt = s, !.barrier = s]
          /\ UNCHANGED << self, issued, begun >>
    BY <1>8 DEF PrepareCheckpoint
  <2>2. recs \in [Tasks -> Record(AnyRun)]
    BY <1>6, EvidenceType DEF FinalEvidence
  <2>3. rec' \in [Tasks -> Record(AnyRun)] /\ wake' \in [Tasks -> Wake]
    BY <1>1, <1>5, <2>1, <2>2
  <2>4. snaps' \in [Saves -> SnapType]
    BY <1>1, <1>6, <2>1, <2>3 DEF SnapType
  <2>5. head' \in HeadType
    BY <1>1, <2>1 DEF HeadType
  <2>6. QED
    BY <1>1, <1>3, <2>1, <2>3, <2>4, <2>5 DEF TypeOK
<1>9. ASSUME NEW c \in Ticks, UpdateClock(c) PROVE TypeOK'
  BY <1>1, <1>2, <1>3, <1>6, <1>9 DEF UpdateClock, TypeOK, HeadType
<1>10. ASSUME NEW c \in Ticks, ActivateRestart(c) \/ ActivatePaused(c) PROVE TypeOK'
  <2>1. /\ rec' = FencedRecords(rec, c) /\ wake' = FencedWakes(rec, c, head.gen + 1)
        /\ \/ head' = [head EXCEPT !.gen = head.gen + 1, !.tick = c, !.inst = self,
                                   !.barrier = NoSave]
           \/ head' = [head EXCEPT !.status = "ready", !.gen = head.gen + 1,
                                   !.tick = c, !.inst = self]
        /\ UNCHANGED << snaps, self, issued, begun >>
    BY <1>10 DEF ActivateRestart, ActivatePaused
  <2>2. head' \in HeadType
    BY <1>1, <1>2, <2>1 DEF HeadType
  <2>3. QED
    BY <1>1, <1>2, <1>3, <1>5, <1>6, <2>1, <2>2 DEF TypeOK
<1>11. ASSUME NEW c \in Ticks, NEW r \in Runs,
              ActivateFresh(r, c) \/ PauseForCheckpointFailure(r, c)
       PROVE  TypeOK'
  <2>1. r \in AnyRun /\ NoRun \in AnyRun
    BY DEF AnyRun
  <2>2. NoHead \in HeadType /\ c \in Nat
    BY <1>2, <2>1 DEF HeadType, NoHead
  <2>3. /\ [NoHead EXCEPT !.status = "ready", !.run = r, !.gen = 1, !.tick = c,
                          !.inst = self] \in HeadType
        /\ [NoHead EXCEPT !.status = "paused", !.run = r, !.gen = 1, !.tick = c,
                          !.inst = self, !.recovery = r] \in HeadType
        /\ [head EXCEPT !.status = "paused", !.barrier = NoSave, !.recovery = r]
             \in HeadType
    BY <1>1, <2>1, <2>2 DEF HeadType
  <2>4. head' \in HeadType
    BY <1>11, <2>3 DEF ActivateFresh, PauseForCheckpointFailure
  <2>5. QED
    BY <1>1, <1>3, <1>6, <1>11, <2>4 DEF ActivateFresh, PauseForCheckpointFailure, TypeOK
<1>12. ASSUME NEW c \in Ticks, NEW r \in Runs, NEW s \in Saves,
              ActivateCheckpoint(s, r, c)
       PROVE  TypeOK'
  <2> DEFINE base == IF head.gen > snaps[s].gen THEN head.gen ELSE snaps[s].gen
             gen == base + 1
  <2>1. gen \in Nat
    BY <1>1, <1>4
  <2>2. /\ rec' = snaps[s].rec
        /\ wake' = [t \in Tasks |-> IF snaps[s].wake[t].status = "pending"
                                      THEN [snaps[s].wake[t] EXCEPT !.gen = gen]
                                      ELSE snaps[s].wake[t]]
        /\ head' = [ status |-> "ready", run |-> r, gen |-> gen, tick |-> c,
                     inst |-> self, barrier |-> NoSave, ckpt |-> s,
                     recovery |-> NoRun ]
        /\ UNCHANGED << snaps, self, issued, begun >>
    BY <1>12 DEF ActivateCheckpoint
  <2> HIDE DEF gen
  <2>3. ASSUME NEW t \in Tasks
        PROVE  /\ snaps[s].wake[t] \in Wake
               /\ [snaps[s].wake[t] EXCEPT !.gen = gen] \in Wake
    BY <1>4, <2>1 DEF Wake
  <2>4. wake' \in [Tasks -> Wake]
    BY <2>2, <2>3
  <2>5. head' \in HeadType
    BY <1>1, <1>2, <2>1, <2>2 DEF HeadType, AnyRun
  <2>6. QED
    BY <1>1, <1>3, <1>4, <1>6, <2>2, <2>4, <2>5 DEF TypeOK
<1>13. CASE Crash
  <2>1. /\ self' = self + 1 /\ issued' = << >> /\ begun' = {}
        /\ UNCHANGED << head, rec, wake, snaps >>
    BY <1>13 DEF Crash
  <2>2. QED
    BY <1>1, <1>6, <2>1 DEF TypeOK
<1>14. QED
  BY <1>7, <1>8, <1>9, <1>10, <1>11, <1>12, <1>13 DEF Saving, Activation

\* Every transaction of the kernel keeps the types of the store and the process.
LEMMA KernelTypeStep == TypeOK /\ [Next]_vars => TypeOK'
<1>1. TypeOK /\ UNCHANGED vars => TypeOK'
  BY DEF TypeOK, vars
<1>2. QED
  BY <1>1, RecordActionsType, DeliveryType, WorldActionsType DEF Next

\* The stored rows and the process state keep their types, whatever the bounds.
THEOREM KernelTypeCorrect == Spec => []TypeOK
  BY KernelTypeInit, KernelTypeStep, PTL DEF Spec

-----------------------------------------------------------------------------
(* The working set stays recoverable.                                       *)

\* Every record is valid and fits its wake, by the checks of a restart.
Working == \A t \in Tasks : TaskInv(head.gen, head.inst, rec[t], wake[t])

\* A world without a head has no tasks.
EmptyWorld == head.status = "absent" => \A t \in Tasks : rec[t].state = "absent"

\* Every stored checkpoint passes checkpointSnapshot.validate.
Stored ==
    \A s \in Saves : snaps[s].taken =>
      SnapshotValid(snaps[s].gen, snaps[s].rec, snaps[s].wake)

RecoveryInv == TypeOK /\ Working /\ EmptyWorld /\ BarrierIntact /\ Stored

\* Every stored row, those of the checkpoints included, was within the limit when
\* it was written.
Roomy ==
    /\ \A t \in Tasks : rec[t].state # "absent" => HasCapacity(rec[t])
    /\ \A s \in Saves : snaps[s].taken =>
         \A t \in Tasks : snaps[s].rec[t].state # "absent" => HasCapacity(snaps[s].rec[t])

\* The inductive invariant implies what the next activation or save checks.
LEMMA RecoveryInvSuffices == RecoveryInv /\ Roomy => RecoveryRefusedOnlyForSize
<1> SUFFICES ASSUME RecoveryInv, Roomy PROVE RecoveryRefusedOnlyForSize
  OBVIOUS
<1>1. \A t \in Tasks : TaskInv(head.gen, head.inst, rec[t], wake[t])
  BY DEF RecoveryInv, Working
<1>2. head.gen + 1 \in Nat
  BY DEF RecoveryInv, TypeOK, HeadType
<1>3. ASSUME NEW c \in Ticks, NEW t \in Tasks, rec[t].state = "running"
      PROVE  /\ TaskWakePair(FencedRecord(rec[t], c),
                             FencedWake(rec[t], wake[t], c, head.gen + 1))
             /\ Fits([rec[t] EXCEPT !.nextWake = RecoveryDue(rec[t], c)])
                  => HasCapacity(FencedRecord(rec[t], c))
  <2>1. ValidRecord(rec[t]) /\ rec[t] \in Record(AnyRun) /\ c \in Nat
    BY <1>1, <1>3 DEF TaskInv, RecoveryInv, TypeOK, Ticks
  <2>2. HasCapacity(rec[t])
    BY <1>3 DEF Roomy
  <2>3. Fits([rec[t] EXCEPT !.nextWake = RecoveryDue(rec[t], c)])
          => HasCapacity(RecoveredRunningRecord(rec[t], c))
    BY <1>3, <2>1, <2>2, RecoveredFits
  <2>4. QED
    BY <1>2, <1>3, <2>1, <2>3, RecoveredSound DEF FencedRecord, FencedWake
<1>4. ASSUME NEW c \in Ticks,
             \A t \in Tasks : rec[t].state = "running"
               => Fits([rec[t] EXCEPT !.nextWake = RecoveryDue(rec[t], c)])
      PROVE  Sound(rec, c)
  BY <1>1, <1>3, <1>4 DEF Sound, TaskInv
<1>5. QED
  BY <1>1, <1>4 DEF RecoveryRefusedOnlyForSize, TaskInv, RecoveryInv

\* A transaction on one task disturbs the invariant at that task only.
LEMMA OneTaskStep ==
  ASSUME RecoveryInv, NEW t \in Tasks, NEW q, NEW w,
         rec' = [rec EXCEPT ![t] = q] \/ (rec' = rec /\ q = rec[t]),
         wake' = [wake EXCEPT ![t] = w] \/ (wake' = wake /\ w = wake[t]),
         UNCHANGED << head, snaps >>,
         head.status # "absent",
         TaskInv(head.gen, head.inst, q, w)
  PROVE  Working' /\ EmptyWorld' /\ BarrierIntact' /\ Stored'
<1>1. rec'[t] = q /\ wake'[t] = w
  BY DEF RecoveryInv, TypeOK
<1>2. \A u \in Tasks \ {t} : rec'[u] = rec[u] /\ wake'[u] = wake[u]
  BY DEF RecoveryInv, TypeOK
<1>3. Working'
  BY <1>1, <1>2 DEF RecoveryInv, Working
<1>4. EmptyWorld' /\ BarrierIntact'
  BY DEF RecoveryInv, EmptyWorld, BarrierIntact
<1>5. Stored'
  BY DEF RecoveryInv, Stored, SnapshotValid
<1>6. QED
  BY <1>3, <1>4, <1>5

\* A valid record that kept its state, revision, deadline and NextWakeAt still
\* fits its wake.
LEMMA SameShape ==
  ASSUME NEW gen, NEW inst, NEW r, NEW q, NEW w, TaskInv(gen, inst, r, w),
         ValidRecord(q), q.state = r.state, q.rev = r.rev, q.deadline = r.deadline,
         q.nextWake = r.nextWake
  PROVE  TaskInv(gen, inst, q, w)
  BY DEF TaskInv, Plannable, DurableWakeRelation

\* A task without a wake is running, settled, paused or absent.
LEMMA NoWakeSound ==
  ASSUME NEW gen, NEW inst, NEW q, ValidRecord(q), q.state # "waiting"
  PROVE  TaskInv(gen, inst, q, NoWake)
  BY DEF TaskInv, Plannable, DurableWakeRelation, NoWake, LiveWakes

\* Intents, operations, facts and reconciliation leave a recoverable task.
LEMMA RecordActionsStep ==
  ASSUME RecoveryInv, NEW t \in Tasks, Intents(t) \/ Facting(t)
  PROVE  Working' /\ EmptyWorld' /\ BarrierIntact' /\ Stored'
<1>1. /\ TaskInv(head.gen, head.inst, rec[t], wake[t])
      /\ rec[t] \in Record(AnyRun) /\ wake[t] \in Wake /\ head.gen \in Nat
      /\ rec \in [Tasks -> Record(AnyRun)] /\ wake \in [Tasks -> Wake]
  BY DEF RecoveryInv, Working, TypeOK, HeadType
<1>2. Open => head.status # "absent"
  BY DEF Open
<1>3. ASSUME NEW n \in Ticks, Create(t, n)
      PROVE  Working' /\ EmptyWorld' /\ BarrierIntact' /\ Stored'
  <2>1. n \in Nat /\ Deadline[t] \in Nat /\ n <= Deadline[t]
    BY <1>3, KernelAssumption DEF Create, Ticks
  <2>2. TaskInv(head.gen, head.inst, CreatedRecord(NoRun, Deadline[t], n),
                PendingWake(1, n, head.gen))
    BY <1>1, <2>1, CreatedSound
  <2>3. QED
    BY <1>2, <1>3, <2>2, OneTaskStep DEF Create
<1>4. ASSUME NEW n \in Ticks, ApplyIntentWait(t, n)
      PROVE  Working' /\ EmptyWorld' /\ BarrierIntact' /\ Stored'
  <2> DEFINE q == [AfterIntent(rec[t]) EXCEPT !.state = "waiting", !.nextWake = n]
             w == PendingWake(q.rev, n, head.gen)
  <2>1. /\ rec' = [rec EXCEPT ![t] = q] /\ wake' = [wake EXCEPT ![t] = w]
        /\ UNCHANGED << head, snaps >> /\ Open /\ TaskWakePair(q, w)
    BY <1>4 DEF ApplyIntentWait, IntentApplies
  <2>2. q.state = "waiting" /\ w.status = "pending" /\ w.gen = head.gen
    BY <1>1 DEF AfterIntent, PendingWake, Record
  <2> HIDE DEF q, w
  <2>3. TaskInv(head.gen, head.inst, q, w)
    BY <2>1, <2>2 DEF TaskInv, TaskWakePair, Plannable, DurableWakeRelation,
                      TerminalStates
  <2>4. QED
    BY <1>2, <2>1, <2>3, OneTaskStep
<1>5. ASSUME ApplyIntentCancel(t)
      PROVE  Working' /\ EmptyWorld' /\ BarrierIntact' /\ Stored'
  <2> DEFINE q == [AfterIntent(rec[t]) EXCEPT !.state = "cancelled",
                       !.nextWake = NoTick, !.resultAt = head.tick]
  <2>1. /\ rec' = [rec EXCEPT ![t] = q] /\ wake' = [wake EXCEPT ![t] = NoWake]
        /\ UNCHANGED << head, snaps >> /\ Open /\ ValidRecord(q)
    BY <1>5 DEF ApplyIntentCancel, IntentApplies
  <2>2. q.state = "cancelled"
    BY <1>1 DEF AfterIntent, Record
  <2> HIDE DEF q
  <2>3. QED
    BY <1>2, <2>1, <2>2, NoWakeSound, OneTaskStep
<1>6. ASSUME Reconcile(t)
      PROVE  Working' /\ EmptyWorld' /\ BarrierIntact' /\ Stored'
  <2>1. PICK q \in ReconciledRecords(rec[t]) :
          /\ rec' = [rec EXCEPT ![t] = q]
          /\ \/ /\ q.state = "waiting"
                /\ wake' = [wake EXCEPT ![t] = PendingWake(q.rev, q.nextWake, head.gen)]
                /\ TaskWakePair(q, PendingWake(q.rev, q.nextWake, head.gen))
             \/ /\ q.state = "running" /\ wake[t].status = "running"
                /\ wake[t].by = head.inst
                /\ wake' = [wake EXCEPT ![t] = wake[t]]
             \/ q.state # "waiting" /\ wake' = [wake EXCEPT ![t] = NoWake]
          /\ ValidRecord(q) /\ Open
          /\ UNCHANGED << head, snaps >>
    BY <1>6 DEF Reconcile
  <2>2. q.rev = rec[t].rev + 1 /\ q.deadline = rec[t].deadline
    <3>1. /\ Folded(rec[t]).rev = rec[t].rev + 1
          /\ Folded(rec[t]).deadline = rec[t].deadline
          /\ DOMAIN Folded(rec[t]) = DOMAIN rec[t]
      BY <1>1 DEF Folded, Record
    <3>2. ASSUME NEW f
          PROVE  /\ TerminalRecord(rec[t], f).rev = rec[t].rev + 1
                 /\ TerminalRecord(rec[t], f).deadline = rec[t].deadline
      BY <3>1 DEF TerminalRecord
    <3>3. ASSUME NEW u
          PROVE  LET x == [Folded(rec[t]) EXCEPT !.state = "waiting", !.nextWake = u]
                 IN  x.rev = rec[t].rev + 1 /\ x.deadline = rec[t].deadline
      BY <3>1
    <3>4. LET x == [Folded(rec[t]) EXCEPT !.state = "running"]
          IN  x.rev = rec[t].rev + 1 /\ x.deadline = rec[t].deadline
      BY <3>1
    <3>5. QED
      BY <3>2, <3>3, <3>4 DEF ReconciledRecords
  <2>3. CASE /\ q.state = "waiting"
             /\ wake' = [wake EXCEPT ![t] = PendingWake(q.rev, q.nextWake, head.gen)]
             /\ TaskWakePair(q, PendingWake(q.rev, q.nextWake, head.gen))
    <3> DEFINE w == PendingWake(q.rev, q.nextWake, head.gen)
    <3>1. w.status = "pending" /\ w.gen = head.gen
      BY DEF PendingWake
    <3> HIDE DEF w
    <3>2. TaskInv(head.gen, head.inst, q, w)
      BY <2>1, <2>3, <3>1 DEF w, TaskInv, TaskWakePair, Plannable,
                              DurableWakeRelation, TerminalStates
    <3>3. QED
      BY <1>2, <2>1, <2>3, <3>2, OneTaskStep DEF w
  <2>4. CASE /\ q.state = "running" /\ wake[t].status = "running"
             /\ wake[t].by = head.inst
             /\ wake' = [wake EXCEPT ![t] = wake[t]]
    <3>1. q.nextWake = NoTick
      <4>1. /\ Folded(rec[t]).nextWake = NoTick
            /\ \A f : TerminalRecord(rec[t], f).nextWake = NoTick
            /\ [Folded(rec[t]) EXCEPT !.state = "running"].nextWake = NoTick
        BY <1>1 DEF Folded, TerminalRecord, Record
      <4>2. \A u : [Folded(rec[t]) EXCEPT !.state = "waiting", !.nextWake = u].state = "waiting"
        BY <1>1 DEF Folded, Record
      <4>3. QED
        BY <2>1, <2>4, <4>1, <4>2 DEF ReconciledRecords
    <3>2. wake[t].exp < rec[t].rev + 1 /\ wake[t].due <= rec[t].deadline
          /\ wake[t].gen = head.gen
      <4>1. wake[t].exp < rec[t].rev /\ wake[t].due <= rec[t].deadline
            /\ wake[t].gen = head.gen
        BY <1>1, <2>4 DEF TaskInv, Plannable, DurableWakeRelation, LiveWakes
      <4>2. wake[t].exp \in Nat /\ rec[t].rev \in Nat
        BY <1>1, RecordFields DEF Wake
      <4>3. QED
        BY <4>1, <4>2
    <3>3. TaskInv(head.gen, head.inst, q, wake[t])
      BY <2>1, <2>2, <2>4, <3>1, <3>2
         DEF TaskInv, Plannable, DurableWakeRelation, LiveWakes, TerminalStates
    <3>4. QED
      BY <1>2, <2>1, <2>4, <3>3, OneTaskStep
  <2>5. CASE q.state # "waiting" /\ wake' = [wake EXCEPT ![t] = NoWake]
    BY <1>2, <2>1, <2>5, NoWakeSound, OneTaskStep
  <2>6. QED
    BY <2>1, <2>3, <2>4, <2>5
<1>7. ASSUME NEW q, ValidRecord(q), rec' = [rec EXCEPT ![t] = q], Open,
             q.state = rec[t].state, q.rev = rec[t].rev,
             q.deadline = rec[t].deadline, q.nextWake = rec[t].nextWake,
             UNCHANGED << head, wake, snaps >>
      PROVE  Working' /\ EmptyWorld' /\ BarrierIntact' /\ Stored'
  <2>1. TaskInv(head.gen, head.inst, q, wake[t])
    BY <1>1, <1>7, SameShape
  <2>2. QED
    BY <1>2, <1>7, <2>1, OneTaskStep
<1>8. ASSUME NEW f \in Facts, NEW i \in Reports, AdmitEvidence(t, f, i)
      PROVE  Working' /\ EmptyWorld' /\ BarrierIntact' /\ Stored'
  <2>1. LET q == WithEvidence(t, f, i)
        IN  /\ q.state = rec[t].state /\ q.rev = rec[t].rev
            /\ q.deadline = rec[t].deadline /\ q.nextWake = rec[t].nextWake
    BY <1>1 DEF WithEvidence, Record
  <2>2. QED
    BY <1>7, <1>8, <2>1 DEF AdmitEvidence, EvidenceAdmissible
<1>9. ASSUME NEW o \in Ops,
             RegisterOperation(t, o) \/ MarkOperationNotSent(t, o)
               \/ \E k \in CleanupStatuses : RecordCleanup(t, o, k)
      PROVE  Working' /\ EmptyWorld' /\ BarrierIntact' /\ Stored'
  <2>1. PICK ops : /\ rec' = [rec EXCEPT ![t] = [rec[t] EXCEPT !.ops = ops]]
                   /\ ValidRecord([rec[t] EXCEPT !.ops = ops])
                   /\ Open /\ UNCHANGED << head, wake, snaps >>
    <3>1. ASSUME NEW x
          PROVE  /\ [rec[t] EXCEPT !.ops[o] = x]
                      = [rec[t] EXCEPT !.ops = [rec[t].ops EXCEPT ![o] = x]]
                 /\ [rec[t] EXCEPT !.ops[o].status = x]
                      = [rec[t] EXCEPT !.ops = [rec[t].ops EXCEPT ![o].status = x]]
                 /\ [rec[t] EXCEPT !.ops[o].cleanup = x]
                      = [rec[t] EXCEPT !.ops = [rec[t].ops EXCEPT ![o].cleanup = x]]
      BY <1>1 DEF Record
    <3>2. QED
      BY <1>9, <3>1
         DEF RegisterOperation, MarkOperationNotSent, RecordCleanup, OwnedOpen
  <2>2. LET q == [rec[t] EXCEPT !.ops = ops]
        IN  /\ q.state = rec[t].state /\ q.rev = rec[t].rev
            /\ q.deadline = rec[t].deadline /\ q.nextWake = rec[t].nextWake
    BY <1>1 DEF Record
  <2>3. QED
    BY <1>7, <2>1, <2>2
<1>10. QED
  BY <1>3, <1>4, <1>5, <1>6, <1>8, <1>9 DEF Intents, Facting

\* The wake protocol leaves a recoverable task at every step.
LEMMA DeliveryStep ==
  ASSUME RecoveryInv, Delivery
  PROVE  Working' /\ EmptyWorld' /\ BarrierIntact' /\ Stored'
<1>1. /\ \A t \in Tasks : /\ TaskInv(head.gen, head.inst, rec[t], wake[t])
                          /\ rec[t] \in Record(AnyRun) /\ wake[t] \in Wake
      /\ TypeOK
  BY DEF RecoveryInv, Working, TypeOK
<1>2. OwnedOpen => head.status # "absent" /\ head.inst = self
  BY DEF OwnedOpen, Open
<1>3. ASSUME NEW t \in Tasks, ClaimDue(t)
      PROVE  Working' /\ EmptyWorld' /\ BarrierIntact' /\ Stored'
  <2> DEFINE w == [wake[t] EXCEPT !.status = "claimed", !.claim = Len(issued) + 1,
                                  !.by = self]
  <2>1. /\ OwnedOpen /\ wake[t].status = "pending"
        /\ wake' = [wake EXCEPT ![t] = w] /\ UNCHANGED << head, rec, snaps >>
    BY <1>3 DEF ClaimDue
  <2>2. /\ w.status = "claimed" /\ w.by = self /\ w.exp = wake[t].exp
        /\ w.due = wake[t].due /\ w.gen = wake[t].gen
    BY <1>1 DEF Wake
  <2> HIDE DEF w
  <2>3. TaskInv(head.gen, head.inst, rec[t], w)
    BY <1>1, <1>2, <2>1, <2>2
       DEF TaskInv, Plannable, DurableWakeRelation, LiveWakes, TerminalStates
  <2>4. QED
    BY <1>2, <2>1, <2>3, OneTaskStep
<1>4. ASSUME NEW c \in 1 .. Len(issued), MarkEnqueued(c)
      PROVE  Working' /\ EmptyWorld' /\ BarrierIntact' /\ Stored'
  <2> DEFINE t == issued[c].task
             w == [wake[t] EXCEPT !.status = "enqueued"]
  <2>1. t \in Tasks
    BY <1>1, ClaimFields
  <2>2. /\ OwnedOpen /\ wake[t].status = "claimed"
        /\ wake' = [wake EXCEPT ![t] = w] /\ UNCHANGED << head, rec, snaps >>
    BY <1>4 DEF MarkEnqueued, Holds
  <2> HIDE DEF t
  <2>3. /\ w.status = "enqueued" /\ w.by = wake[t].by /\ w.exp = wake[t].exp
        /\ w.due = wake[t].due /\ w.gen = wake[t].gen
    BY <1>1, <2>1 DEF Wake
  <2> HIDE DEF w
  <2>4. TaskInv(head.gen, head.inst, rec[t], w)
    BY <1>1, <2>1, <2>2, <2>3
       DEF TaskInv, Plannable, DurableWakeRelation, LiveWakes, TerminalStates
  <2>5. QED
    BY <1>2, <2>1, <2>2, <2>4, OneTaskStep
<1>5. ASSUME NEW c \in 1 .. Len(issued), ReleaseClaim(c)
      PROVE  Working' /\ EmptyWorld' /\ BarrierIntact' /\ Stored'
  <2> DEFINE t == issued[c].task
             w == PendingWake(wake[t].exp, wake[t].due, wake[t].gen)
  <2>1. t \in Tasks
    BY <1>1, ClaimFields
  <2>2. /\ OwnedOpen /\ wake[t].status = "claimed"
        /\ wake' = [wake EXCEPT ![t] = w] /\ UNCHANGED << head, rec, snaps >>
    BY <1>5 DEF ReleaseClaim, Holds
  <2>3. /\ w.status = "pending" /\ w.exp = wake[t].exp
        /\ w.due = wake[t].due /\ w.gen = wake[t].gen
    BY DEF PendingWake
  <2> HIDE DEF t, w
  <2>4. TaskInv(head.gen, head.inst, rec[t], w)
    BY <1>1, <2>1, <2>2, <2>3
       DEF TaskInv, Plannable, DurableWakeRelation, LiveWakes, TerminalStates
  <2>5. QED
    BY <1>2, <2>1, <2>2, <2>4, OneTaskStep
<1>6. ASSUME NEW c \in 1 .. Len(issued), BeginWake(c)
      PROVE  Working' /\ EmptyWorld' /\ BarrierIntact' /\ Stored'
  <2> DEFINE t == issued[c].task
             q == [rec[t] EXCEPT !.state = "running", !.rev = @ + 1, !.nextWake = NoTick]
             w == [wake[t] EXCEPT !.status = "running"]
  <2>1. t \in Tasks
    BY <1>1, ClaimFields
  <2>2. /\ OwnedOpen /\ wake[t].status = "enqueued" /\ wake[t].by = self
        /\ ValidRecord(q) /\ rec' = [rec EXCEPT ![t] = q]
        /\ wake' = [wake EXCEPT ![t] = w] /\ UNCHANGED << head, snaps >>
    BY <1>6 DEF BeginWake, Holds
  <2> HIDE DEF t
  <2>3. /\ w.status = "running" /\ w.by = wake[t].by /\ w.exp = wake[t].exp
        /\ w.due = wake[t].due /\ w.gen = wake[t].gen
    BY <1>1, <2>1 DEF Wake
  <2>4. q.state = "running" /\ q.rev = rec[t].rev + 1 /\ q.nextWake = NoTick
        /\ q.deadline = rec[t].deadline
    BY <1>1, <2>1 DEF Record
  <2>5. rec[t].rev = wake[t].exp /\ rec[t].rev \in Nat
    BY <1>1, <2>1, <2>2, RecordFields
       DEF TaskInv, Plannable, DurableWakeRelation, LiveWakes
  <2> HIDE DEF q, w
  <2>6. w.exp < q.rev
    BY <2>3, <2>4, <2>5
  <2>7. TaskInv(head.gen, head.inst, q, w)
    BY <1>1, <1>2, <2>1, <2>2, <2>3, <2>4, <2>6
       DEF TaskInv, Plannable, DurableWakeRelation, LiveWakes, TerminalStates
  <2>8. QED
    BY <1>2, <2>1, <2>2, <2>7, OneTaskStep
<1>7. ASSUME NEW c \in 1 .. Len(issued), NEW k \in AttemptOutcomes, FinishAttempt(c, k)
      PROVE  Working' /\ EmptyWorld' /\ BarrierIntact' /\ Stored'
  <2> DEFINE t == issued[c].task
             r == rec[t]
             q == AfterAttempt(r, k)
  <2>1. t \in Tasks
    BY <1>1, ClaimFields
  <2>2. /\ OwnedOpen /\ r.state = "running" /\ ValidRecord(q) /\ r.nextWake = NoTick
        /\ rec' = [rec EXCEPT ![t] = q]
        /\ \/ q.state = "paused" /\ wake' = [wake EXCEPT ![t] = NoWake]
           \/ q.state # "paused" /\ wake' = wake
        /\ UNCHANGED << head, snaps >>
    BY <1>7 DEF FinishAttempt
  <2>3. r \in Record(AnyRun)
    BY <1>1, <2>1
  <2> HIDE DEF t, r
  <2>4. /\ q.rev = r.rev + 1 /\ q.deadline = r.deadline /\ q.nextWake = r.nextWake
        /\ q.state \in { "paused", r.state }
    <3> DEFINE n == [r EXCEPT !.rev = r.rev + 1, !.pauseReason = "none"]
    <3>1. /\ n.rev = r.rev + 1 /\ n.deadline = r.deadline /\ n.nextWake = r.nextWake
          /\ n.state = r.state /\ DOMAIN n = DOMAIN r
      BY <2>3 DEF Record
    <3>2. DOMAIN r = { "state", "rev", "deadline", "nextWake", "needsReconcile",
                       "pauseReason", "noProgress", "reconcile", "resultFact",
                       "resultAt", "calls", "ops", "facts" }
      BY <2>3 DEF Record
    <3> HIDE DEF n
    <3>3. CASE k = "no_progress"
      <4> DEFINE m == [n EXCEPT !.noProgress = r.noProgress + 1, !.reconcile = 0]
      <4>1. /\ m.rev = n.rev /\ m.deadline = n.deadline /\ m.nextWake = n.nextWake
            /\ m.state = n.state /\ DOMAIN m = DOMAIN r
        BY <3>1, <3>2
      <4>2. q = Failed(m, "no_progress", r.noProgress + 1 = MaxAttemptFailures)
        BY <3>3 DEF AfterAttempt, n
      <4> HIDE DEF m
      <4>3. QED
        BY <3>1, <3>2, <4>1, <4>2 DEF Failed
    <3>4. CASE k \in { "reconcile_failed", "observation_failed" }
      <4> DEFINE m == [n EXCEPT !.reconcile = r.reconcile + 1]
      <4>1. /\ m.rev = n.rev /\ m.deadline = n.deadline /\ m.nextWake = n.nextWake
            /\ m.state = n.state /\ DOMAIN m = DOMAIN r
        BY <3>1, <3>2
      <4>2. q = Failed(m, "evidence_unconfirmed", r.reconcile + 1 = MaxAttemptFailures)
        BY <3>4 DEF AfterAttempt, n
      <4> HIDE DEF m
      <4>3. QED
        BY <3>1, <3>2, <4>1, <4>2 DEF Failed
    <3>5. CASE k = "progress"
      <4>1. q = [n EXCEPT !.needsReconcile = FALSE, !.reconcile = 0,
                          !.noProgress = IF r.needsReconcile THEN r.noProgress ELSE 0]
        BY <3>5 DEF AfterAttempt, n
      <4>2. QED
        BY <3>1, <3>2, <4>1
    <3>6. QED
      BY <3>3, <3>4, <3>5 DEF AttemptOutcomes
  <2> HIDE DEF q
  <2>5. CASE q.state = "paused" /\ wake' = [wake EXCEPT ![t] = NoWake]
    BY <1>2, <2>1, <2>2, <2>5, NoWakeSound, OneTaskStep
  <2>6. CASE q.state # "paused" /\ wake' = wake
    <3>1. q.state = "running"
      BY <2>2, <2>4, <2>6
    <3>2. wake[t].status = "running" => wake[t].exp < q.rev
      <4>1. wake[t].exp \in Nat /\ r.rev \in Nat
        BY <1>1, <2>1, <2>3, RecordFields DEF Wake
      <4>2. wake[t].status = "running" => wake[t].exp < r.rev
        BY <1>1, <2>1 DEF r, TaskInv, Plannable, DurableWakeRelation, LiveWakes
      <4>3. QED
        BY <2>4, <4>1, <4>2
    <3>3. TaskInv(head.gen, head.inst, r, wake[t])
      BY <1>1, <2>1 DEF r
    <3>4. TaskInv(head.gen, head.inst, q, wake[t])
      BY <2>2, <2>4, <3>1, <3>2, <3>3
         DEF TaskInv, Plannable, DurableWakeRelation, LiveWakes, TerminalStates
    <3>5. QED
      BY <1>2, <2>1, <2>2, <2>6, <3>4, OneTaskStep
  <2>7. QED
    BY <2>2, <2>5, <2>6
<1>8. QED
  BY <1>3, <1>4, <1>5, <1>6, <1>7 DEF Delivery

\* A task of a valid snapshot is recoverable once its wake is dated in the
\* generation it is restored under.
LEMMA SnapshotSound ==
  ASSUME NEW gen, NEW gen2, NEW inst, NEW recs \in [Tasks -> Record(AnyRun)],
         NEW wakes \in [Tasks -> Wake], SnapshotValid(gen, recs, wakes),
         NEW t \in Tasks
  PROVE  TaskInv(gen2, inst, recs[t], IF wakes[t].status = "pending"
                                        THEN [wakes[t] EXCEPT !.gen = gen2]
                                        ELSE wakes[t])
<1> DEFINE w == wakes[t]
           x == [w EXCEPT !.gen = gen2]
<1>1. w \in Wake /\ recs[t] \in Record(AnyRun)
  OBVIOUS
<1>2. /\ x.status = w.status /\ x.exp = w.exp /\ x.due = w.due /\ x.gen = gen2
  BY <1>1 DEF Wake
<1>3. /\ recs[t].state # "running"
      /\ recs[t].state # "absent" => ValidRecord(recs[t])
      /\ recs[t].state = "waiting" => w.status = "pending" /\ TaskWakePair(recs[t], w)
      /\ recs[t].state # "waiting" => w.status = "none"
  BY DEF SnapshotValid
<1> HIDE DEF w, x
<1>4. CASE recs[t].state = "waiting"
  <2>1. TaskInv(gen2, inst, recs[t], x)
    BY <1>2, <1>3, <1>4 DEF TaskInv, TaskWakePair, Plannable, DurableWakeRelation,
                            TerminalStates
  <2>2. QED
    BY <1>3, <1>4, <2>1 DEF w, x
<1>5. CASE recs[t].state # "waiting"
  <2>1. TaskInv(gen2, inst, recs[t], w)
    BY <1>3, <1>5 DEF TaskInv, Plannable, DurableWakeRelation, LiveWakes
  <2>2. QED
    BY <1>3, <1>5, <2>1 DEF w
<1>6. QED
  BY <1>4, <1>5

\* Saves, activations, pauses and crashes leave a recoverable world.
LEMMA WorldStep ==
  ASSUME RecoveryInv, Saving \/ Activation \/ Crash
  PROVE  Working' /\ EmptyWorld' /\ BarrierIntact' /\ Stored'
<1>1. /\ \A t \in Tasks : /\ TaskInv(head.gen, head.inst, rec[t], wake[t])
                          /\ rec[t] \in Record(AnyRun) /\ wake[t] \in Wake
      /\ head \in HeadType /\ head.gen \in Nat /\ head.gen + 1 \in Nat
      /\ head.tick \in Nat
      /\ rec \in [Tasks -> Record(AnyRun)] /\ wake \in [Tasks -> Wake]
      /\ snaps \in [Saves -> SnapType]
      /\ NoSave \notin Saves /\ Ticks \subseteq Nat
  BY KernelAssumption DEF RecoveryInv, Working, TypeOK, HeadType, Ticks
<1>2. snaps' = snaps => Stored'
  BY DEF RecoveryInv, Stored, SnapshotValid
<1>3. head'.barrier = NoSave => BarrierIntact'
  BY DEF BarrierIntact
<1>4. ASSUME head'.gen = head.gen, head'.inst = head.inst, UNCHANGED << rec, wake >>
      PROVE  Working'
  BY <1>1, <1>4 DEF Working
<1>5. CASE ExpireBarrier \/ (\E s \in Saves : FinishCheckpoint(s)) \/ DeactivateWorld
           \/ \E c \in Ticks : UpdateClock(c)
  <2>1. /\ head'.gen = head.gen /\ head'.inst = head.inst
        /\ UNCHANGED << rec, wake, snaps >> /\ head'.barrier = NoSave
        /\ head'.status \in { head.status, "paused" }
    BY <1>1, <1>5 DEF ExpireBarrier, FinishCheckpoint, DeactivateWorld, UpdateClock,
                      OwnedOpen, Open, HeadType
  <2>2. EmptyWorld'
    BY <2>1 DEF RecoveryInv, EmptyWorld
  <2>3. QED
    BY <1>2, <1>3, <1>4, <2>1, <2>2
<1>6. ASSUME NEW s \in Saves, PrepareCheckpoint(s)
      PROVE  Working' /\ EmptyWorld' /\ BarrierIntact' /\ Stored'
  <2>1. PICK recs \in FinalEvidence :
          /\ OwnedOpen
          /\ SnapshotValid(head.gen + 1, FencedRecords(recs, head.tick),
                           FencedWakes(recs, head.tick, head.gen + 1))
          /\ rec' = FencedRecords(recs, head.tick)
          /\ wake' = FencedWakes(recs, head.tick, head.gen + 1)
          /\ snaps' = [snaps EXCEPT ![s] =
               [ taken |-> TRUE, run |-> head.run, gen |-> head.gen + 1,
                 tick |-> head.tick, rec |-> rec', wake |-> wake' ]]
          /\ head' = [head EXCEPT !.gen = head.gen + 1, !.ckpt = s, !.barrier = s]
    BY <1>6 DEF PrepareCheckpoint
  <2>2. SnapshotValid(head.gen + 1, rec', wake')
    BY <2>1
  <2>3. /\ head'.gen = head.gen + 1 /\ head'.inst = head.inst /\ head'.ckpt = s
        /\ head'.barrier = s /\ head'.status = "ready" /\ head'.run = head.run
        /\ head'.tick = head.tick
    BY <1>1, <2>1 DEF HeadType, OwnedOpen, Open
  <2>4. /\ snaps'[s] = [ taken |-> TRUE, run |-> head.run, gen |-> head.gen + 1,
                         tick |-> head.tick, rec |-> rec', wake |-> wake' ]
        /\ \A z \in Saves \ {s} : snaps'[z] = snaps[z]
    BY <1>1, <2>1
  <2>5. EmptyWorld' /\ BarrierIntact'
    BY <2>3, <2>4 DEF EmptyWorld, BarrierIntact
  <2>6. Stored'
    <3>1. SnapshotValid(snaps'[s].gen, snaps'[s].rec, snaps'[s].wake)
      BY <2>2, <2>4
    <3>2. ASSUME NEW z \in Saves, z # s, snaps'[z].taken
          PROVE  SnapshotValid(snaps'[z].gen, snaps'[z].rec, snaps'[z].wake)
      BY <2>4, <3>2 DEF RecoveryInv, Stored
    <3>3. ASSUME NEW z \in Saves, snaps'[z].taken
          PROVE  SnapshotValid(snaps'[z].gen, snaps'[z].rec, snaps'[z].wake)
      BY <3>1, <3>2, <3>3
    <3>4. QED
      BY <3>3 DEF Stored, SnapshotValid
  <2>7. Working'
    <3>1. TypeOK'
      BY <1>6, WorldActionsType DEF RecoveryInv, Saving
    <3>2. rec' \in [Tasks -> Record(AnyRun)] /\ wake' \in [Tasks -> Wake]
      BY <3>1 DEF TypeOK
    <3>3. ASSUME NEW t \in Tasks
          PROVE  TaskInv(head.gen + 1, head.inst, rec'[t], wake'[t])
      <4>1. wake'[t].status = "pending" => wake'[t].gen = head.gen + 1
        BY <2>2 DEF SnapshotValid
      <4>2. wake'[t].status = "pending"
              => [wake'[t] EXCEPT !.gen = head.gen + 1] = wake'[t]
        BY <3>2, <4>1 DEF Wake
      <4>3. TaskInv(head.gen + 1, head.inst, rec'[t],
                    IF wake'[t].status = "pending"
                      THEN [wake'[t] EXCEPT !.gen = head.gen + 1] ELSE wake'[t])
        BY <2>2, <3>2, SnapshotSound
      <4>4. (IF wake'[t].status = "pending"
               THEN [wake'[t] EXCEPT !.gen = head.gen + 1] ELSE wake'[t]) = wake'[t]
        BY <4>2
      <4>5. QED
        BY <4>3, <4>4
    <3>4. QED
      BY <2>3, <3>3 DEF Working
  <2>8. QED
    BY <2>5, <2>6, <2>7
<1>7. ASSUME NEW c \in Ticks, ActivateRestart(c) \/ ActivatePaused(c)
      PROVE  Working' /\ EmptyWorld' /\ BarrierIntact' /\ Stored'
  <2>1. /\ rec' = FencedRecords(rec, c)
        /\ wake' = FencedWakes(rec, c, head.gen + 1)
        /\ snaps' = snaps
        /\ head'.gen = head.gen + 1 /\ head'.status = "ready"
        /\ head'.barrier = NoSave
    BY <1>1, <1>7 DEF ActivateRestart, ActivatePaused, HeadType
  <2>2. ASSUME NEW t \in Tasks
        PROVE  TaskInv(head'.gen, head'.inst, rec'[t], wake'[t])
    <3>1. /\ rec'[t] = FencedRecord(rec[t], c)
          /\ wake'[t] = FencedWake(rec[t], wake[t], c, head.gen + 1)
      BY <2>1 DEF FencedRecords, FencedWakes
    <3>2. QED
      BY <1>1, <2>1, <3>1, FencedSound
  <2>3. QED
    BY <1>2, <1>3, <2>1, <2>2 DEF Working, EmptyWorld
<1>8. ASSUME NEW s \in Saves, NEW r \in Runs, NEW c \in Ticks, ActivateCheckpoint(s, r, c)
      PROVE  Working' /\ EmptyWorld' /\ BarrierIntact' /\ Stored'
  <2>1. PICK gen \in Nat :
          /\ snaps[s].taken /\ snaps' = snaps
          /\ rec' = snaps[s].rec
          /\ wake' = [t \in Tasks |->
                        IF snaps[s].wake[t].status = "pending"
                          THEN [snaps[s].wake[t] EXCEPT !.gen = gen]
                          ELSE snaps[s].wake[t]]
          /\ head'.status = "ready" /\ head'.gen = gen /\ head'.barrier = NoSave
    <3>1. snaps[s].gen + 1 \in Nat
      BY <1>1 DEF SnapType
    <3>2. QED
      BY <1>1, <1>8, <3>1 DEF ActivateCheckpoint
  <2>2. /\ snaps[s].rec \in [Tasks -> Record(AnyRun)]
        /\ snaps[s].wake \in [Tasks -> Wake]
        /\ SnapshotValid(snaps[s].gen, snaps[s].rec, snaps[s].wake)
    BY <1>1, <2>1 DEF SnapType, RecoveryInv, Stored
  <2>3. ASSUME NEW t \in Tasks
        PROVE  TaskInv(head'.gen, head'.inst, rec'[t], wake'[t])
    BY <2>1, <2>2, SnapshotSound
  <2>4. QED
    BY <1>2, <1>3, <2>1, <2>3 DEF Working, EmptyWorld
<1>9. ASSUME NEW r \in Runs, NEW c \in Ticks,
             ActivateFresh(r, c) \/ PauseForCheckpointFailure(r, c)
      PROVE  Working' /\ EmptyWorld' /\ BarrierIntact' /\ Stored'
  <2>1. /\ UNCHANGED << rec, wake, snaps >> /\ head'.barrier = NoSave
        /\ head'.status # "absent"
        /\ head.status = "absent" \/ (head'.gen = head.gen /\ head'.inst = head.inst)
    BY <1>1, <1>9 DEF ActivateFresh, PauseForCheckpointFailure, HeadType, NoHead
  <2>2. CASE head.status = "absent"
    <3>1. ASSUME NEW t \in Tasks
          PROVE  TaskInv(head'.gen, head'.inst, rec[t], wake[t])
      <4>1. rec[t].state = "absent"
        BY <2>2 DEF RecoveryInv, EmptyWorld
      <4>2. QED
        BY <1>1, <4>1 DEF TaskInv, Plannable, DurableWakeRelation, LiveWakes,
                          TerminalStates
    <3>2. QED
      BY <1>2, <1>3, <2>1, <3>1 DEF Working, EmptyWorld
  <2>3. CASE head.status # "absent"
    BY <1>2, <1>3, <1>4, <2>1, <2>3 DEF EmptyWorld
  <2>4. QED
    BY <2>2, <2>3
<1>10. CASE Crash
  <2>1. UNCHANGED << head, rec, wake, snaps >>
    BY <1>10 DEF Crash
  <2>2. QED
    BY <1>2, <1>4, <2>1 DEF RecoveryInv, EmptyWorld, BarrierIntact
<1>11. QED
  BY <1>5, <1>6, <1>7, <1>8, <1>9, <1>10 DEF Saving, Activation

LEMMA RecoveryInit == Init => RecoveryInv
<1> SUFFICES ASSUME Init PROVE RecoveryInv
  OBVIOUS
<1>1. TypeOK
  BY KernelTypeInit
<1>2. \A t \in Tasks : rec[t].state = "absent" /\ wake[t].status = "none"
  BY DEF Init, AbsentRecord, NoWake
<1>3. Working
  BY <1>2 DEF Working, TaskInv, Plannable, DurableWakeRelation, LiveWakes,
              TerminalStates
<1>4. EmptyWorld /\ BarrierIntact /\ Stored
  BY <1>2 DEF Init, NoHead, NoSnap, EmptyWorld, BarrierIntact, Stored
<1>5. QED
  BY <1>1, <1>3, <1>4 DEF RecoveryInv

LEMMA RecoveryStep == RecoveryInv /\ [Next]_vars => RecoveryInv'
<1> SUFFICES ASSUME RecoveryInv, [Next]_vars PROVE RecoveryInv'
  OBVIOUS
<1>1. TypeOK'
  BY KernelTypeStep DEF RecoveryInv
<1>2. CASE UNCHANGED vars
  BY <1>1, <1>2 DEF vars, RecoveryInv, Working, EmptyWorld, BarrierIntact, Stored,
                    SnapshotValid
<1>3. CASE Next
  BY <1>1, <1>3, RecordActionsStep, DeliveryStep, WorldStep DEF Next, RecoveryInv
<1>4. QED
  BY <1>2, <1>3

LEMMA RoomyInit == Init => Roomy
<1> SUFFICES ASSUME Init PROVE Roomy
  OBVIOUS
<1>1. \A t \in Tasks : rec[t].state = "absent"
  BY DEF Init, AbsentRecord
<1>2. \A s \in Saves : ~snaps[s].taken
  BY DEF Init, NoSnap
<1>3. QED
  BY <1>1, <1>2 DEF Roomy

\* A transaction on one task that leaves it within the limit.
LEMMA RoomyTask ==
  ASSUME TypeOK, Roomy, NEW t \in Tasks, NEW q, HasCapacity(q),
         rec' = [rec EXCEPT ![t] = q], snaps' = snaps
  PROVE  Roomy'
<1>1. rec'[t] = q /\ \A u \in Tasks \ {t} : rec'[u] = rec[u]
  BY DEF TypeOK
<1>2. QED
  BY <1>1 DEF Roomy

\* A working set that the fence accepted is within the limit.
LEMMA RoomyFenced ==
  ASSUME NEW recs, NEW now, Sound(recs, now),
         \A t \in Tasks : recs[t].state # "absent" => HasCapacity(recs[t])
  PROVE  \A t \in Tasks : FencedRecords(recs, now)[t].state # "absent"
                           => HasCapacity(FencedRecords(recs, now)[t])
<1> SUFFICES ASSUME NEW t \in Tasks, FencedRecord(recs[t], now).state # "absent"
             PROVE  HasCapacity(FencedRecord(recs[t], now))
  BY DEF FencedRecords
<1>1. CASE recs[t].state = "running"
  BY <1>1 DEF Sound
<1>2. CASE recs[t].state # "running"
  BY <1>2 DEF FencedRecord
<1>3. QED
  BY <1>1, <1>2

LEMMA RoomyStep == RecoveryInv /\ Roomy /\ [Next]_vars => Roomy'
<1> SUFFICES ASSUME RecoveryInv, Roomy, [Next]_vars PROVE Roomy'
  OBVIOUS
<1>1. TypeOK
  BY DEF RecoveryInv
<1>2. CASE rec' = rec /\ snaps' = snaps
  BY <1>2 DEF Roomy
<1>3. ASSUME NEW t \in Tasks, Intents(t) PROVE Roomy'
  <2>1. ASSUME NEW n \in Ticks, Create(t, n) PROVE Roomy'
    BY <1>1, <2>1, RoomyTask DEF Create
  <2>2. ASSUME NEW n \in Ticks, ApplyIntentWait(t, n) PROVE Roomy'
    BY <1>1, <2>2, RoomyTask DEF ApplyIntentWait
  <2>3. CASE ApplyIntentCancel(t)
    BY <1>1, <2>3, RoomyTask DEF ApplyIntentCancel
  <2>4. QED
    BY <1>3, <2>1, <2>2, <2>3 DEF Intents
<1>4. ASSUME NEW t \in Tasks, Facting(t) PROVE Roomy'
  <2>1. CASE Reconcile(t)
    BY <1>1, <2>1, RoomyTask DEF Reconcile
  <2>2. ASSUME NEW f \in Facts, NEW i \in Reports, AdmitEvidence(t, f, i) PROVE Roomy'
    BY <1>1, <2>2, RoomyTask DEF AdmitEvidence, EvidenceAdmissible
  <2>3. ASSUME NEW o \in Ops, RegisterOperation(t, o) PROVE Roomy'
    BY <1>1, <2>3, RoomyTask DEF RegisterOperation
  <2>4. ASSUME NEW o \in Ops, MarkOperationNotSent(t, o) PROVE Roomy'
    BY <1>1, <2>4, RoomyTask DEF MarkOperationNotSent
  <2>5. ASSUME NEW o \in Ops, NEW k \in CleanupStatuses, RecordCleanup(t, o, k) PROVE Roomy'
    BY <1>1, <2>5, RoomyTask DEF RecordCleanup
  <2>6. QED
    BY <1>4, <2>1, <2>2, <2>3, <2>4, <2>5 DEF Facting
<1>5. CASE Delivery
  <2>1. ASSUME NEW t \in Tasks, ClaimDue(t) PROVE Roomy'
    BY <1>2, <2>1 DEF ClaimDue
  <2>2. ASSUME NEW c \in 1 .. Len(issued), MarkEnqueued(c) \/ ReleaseClaim(c) PROVE Roomy'
    BY <1>2, <2>2 DEF MarkEnqueued, ReleaseClaim
  <2>3. ASSUME NEW c \in 1 .. Len(issued), BeginWake(c) PROVE Roomy'
    <3>1. issued[c].task \in Tasks
      BY <1>1, ClaimFields
    <3>2. QED
      BY <1>1, <2>3, <3>1, RoomyTask DEF BeginWake
  <2>4. ASSUME NEW c \in 1 .. Len(issued), NEW k \in AttemptOutcomes, FinishAttempt(c, k)
        PROVE  Roomy'
    <3>1. issued[c].task \in Tasks
      BY <1>1, ClaimFields
    <3>2. QED
      BY <1>1, <2>4, <3>1, RoomyTask DEF FinishAttempt
  <2>5. QED
    BY <1>5, <2>1, <2>2, <2>3, <2>4 DEF Delivery
<1>6. ASSUME NEW s \in Saves, PrepareCheckpoint(s) PROVE Roomy'
  <2>1. PICK recs \in FinalEvidence :
          /\ Sound(recs, head.tick)
          /\ rec' = FencedRecords(recs, head.tick)
          /\ \E p : snaps' = [snaps EXCEPT ![s] = p] /\ p.rec = FencedRecords(recs, head.tick)
    <3>1. PICK recs \in FinalEvidence :
            /\ Sound(recs, head.tick)
            /\ rec' = FencedRecords(recs, head.tick)
            /\ snaps' = [snaps EXCEPT ![s] =
                 [ taken |-> TRUE, run |-> head.run, gen |-> head.gen + 1, tick |-> head.tick,
                   rec |-> FencedRecords(recs, head.tick),
                   wake |-> FencedWakes(recs, head.tick, head.gen + 1) ]]
      BY <1>6 DEF PrepareCheckpoint, Fenceable
    <3> DEFINE p == [ taken |-> TRUE, run |-> head.run, gen |-> head.gen + 1,
                      tick |-> head.tick, rec |-> FencedRecords(recs, head.tick),
                      wake |-> FencedWakes(recs, head.tick, head.gen + 1) ]
    <3>2. p.rec = FencedRecords(recs, head.tick) /\ snaps' = [snaps EXCEPT ![s] = p]
      BY <3>1
    <3> HIDE DEF p
    <3>3. QED
      BY <3>1, <3>2
  <2>2. \A t \in Tasks : recs[t].state # "absent" => HasCapacity(recs[t])
    <3>1. CASE recs = rec
      BY <3>1 DEF Roomy
    <3>2. ASSUME NEW u \in Tasks, NEW f \in Facts, NEW i \in Reports,
                 EvidenceAdmissible(u, f, i),
                 recs = [rec EXCEPT ![u] = WithEvidence(u, f, i)]
          PROVE  \A t \in Tasks : recs[t].state # "absent" => HasCapacity(recs[t])
      <4>1. recs[u] = WithEvidence(u, f, i) /\ \A t \in Tasks \ {u} : recs[t] = rec[t]
        BY <1>1, <3>2 DEF TypeOK
      <4>2. HasCapacity(WithEvidence(u, f, i))
        BY <3>2 DEF EvidenceAdmissible
      <4>3. QED
        BY <4>1, <4>2 DEF Roomy
    <3>3. QED
      BY <2>1, <3>1, <3>2 DEF FinalEvidence
  <2>3. \A t \in Tasks : rec'[t].state # "absent" => HasCapacity(rec'[t])
    BY <2>1, <2>2, RoomyFenced
  <2>4. ASSUME NEW z \in Saves, snaps'[z].taken, NEW t \in Tasks,
               snaps'[z].rec[t].state # "absent"
        PROVE  HasCapacity(snaps'[z].rec[t])
    <3>1. CASE z = s
      <4>1. snaps'[z].rec = rec'
        BY <1>1, <2>1, <3>1 DEF TypeOK
      <4>2. QED
        BY <2>3, <2>4, <4>1
    <3>2. CASE z # s
      <4>1. snaps'[z] = snaps[z]
        BY <1>1, <2>1, <3>2 DEF TypeOK
      <4>2. QED
        BY <2>4, <4>1 DEF Roomy
    <3>3. QED
      BY <3>1, <3>2
  <2>5. QED
    BY <2>3, <2>4 DEF Roomy
<1>7. ASSUME NEW c \in Ticks, ActivateRestart(c) \/ ActivatePaused(c) PROVE Roomy'
  <2>1. Sound(rec, c) /\ rec' = FencedRecords(rec, c) /\ snaps' = snaps
    BY <1>7 DEF ActivateRestart, ActivatePaused, Fenceable
  <2>2. \A t \in Tasks : rec[t].state # "absent" => HasCapacity(rec[t])
    BY DEF Roomy
  <2>3. \A t \in Tasks : rec'[t].state # "absent" => HasCapacity(rec'[t])
    BY <2>1, <2>2, RoomyFenced
  <2>4. QED
    BY <2>1, <2>3 DEF Roomy
<1>8. ASSUME NEW s \in Saves, NEW r \in Runs, NEW c \in Ticks, ActivateCheckpoint(s, r, c)
      PROVE  Roomy'
  <2>1. rec' = snaps[s].rec /\ snaps' = snaps /\ snaps[s].taken
    BY <1>8 DEF ActivateCheckpoint
  <2>2. QED
    BY <2>1 DEF Roomy
<1>9. CASE Saving
  <2>1. ASSUME NEW s \in Saves, FinishCheckpoint(s) PROVE Roomy'
    BY <1>2, <2>1 DEF FinishCheckpoint
  <2>2. CASE ExpireBarrier
    BY <1>2, <2>2 DEF ExpireBarrier
  <2>3. QED
    BY <1>6, <1>9, <2>1, <2>2 DEF Saving
<1>10. CASE Activation
  <2>1. CASE DeactivateWorld
    BY <1>2, <2>1 DEF DeactivateWorld
  <2>2. ASSUME NEW c \in Ticks, UpdateClock(c) PROVE Roomy'
    BY <1>2, <2>2 DEF UpdateClock
  <2>3. ASSUME NEW c \in Ticks, NEW r \in Runs,
               ActivateFresh(r, c) \/ PauseForCheckpointFailure(r, c)
        PROVE  Roomy'
    BY <1>2, <2>3 DEF ActivateFresh, PauseForCheckpointFailure
  <2>4. QED
    BY <1>7, <1>8, <1>10, <2>1, <2>2, <2>3 DEF Activation
<1>11. CASE Crash \/ UNCHANGED vars
  BY <1>2, <1>11 DEF Crash, vars
<1>12. QED
  BY <1>3, <1>4, <1>5, <1>9, <1>10, <1>11 DEF Next

\* Whatever the process was doing when it died or was paused, the stored tasks
\* refuse the next activation of the world, or the fence of its next save, for
\* the size of a row and nothing else: every
\* other check of planRestartRecoveryTx, normalizeCheckpointWorkingSetTx and
\* validateRestartBarrierTx passes, and a running record is refused only when it
\* does not hold the next_wake_at of its own recovery within MaxTaskBytes.
THEOREM KernelRecoverable == Spec => []RecoveryRefusedOnlyForSize
  BY RecoveryInit, RecoveryStep, RoomyInit, RoomyStep, RecoveryInvSuffices, PTL DEF Spec

-----------------------------------------------------------------------------
(* The save barrier.                                                        *)

\* What a transaction that needs an open world leaves of a held barrier.
LEMMA OpenActions ==
  ASSUME \/ \E t \in Tasks : Intents(t) \/ Facting(t)
         \/ Delivery
  PROVE  Open /\ head' = head /\ snaps' = snaps /\ self' = self
<1>1. ASSUME NEW t \in Tasks, Intents(t) \/ Facting(t)
      PROVE  Open /\ head' = head /\ snaps' = snaps /\ self' = self
  BY <1>1 DEF Intents, Facting, Create, ApplyIntentWait, ApplyIntentCancel,
              IntentApplies, Reconcile, AdmitEvidence, RegisterOperation,
              MarkOperationNotSent, RecordCleanup, OwnedOpen
<1>2. CASE Delivery
  BY <1>2 DEF Delivery, ClaimDue, MarkEnqueued, ReleaseClaim, BeginWake,
              FinishAttempt, Holds, OwnedOpen
<1>3. QED
  BY <1>1, <1>2

LEMMA BarrierStep == TypeOK /\ BarrierFreezes /\ [Next]_vars => BarrierFreezes'
<1> SUFFICES ASSUME TypeOK, BarrierFreezes, [Next]_vars PROVE BarrierFreezes'
  OBVIOUS
<1>1. head \in HeadType /\ snaps \in [Saves -> SnapType] /\ NoSave \notin Saves
  BY KernelAssumption DEF TypeOK
<1>2. head'.barrier = NoSave => BarrierFreezes'
  BY DEF BarrierFreezes
<1>3. CASE (\E t \in Tasks : Intents(t) \/ Facting(t)) \/ Delivery
  BY <1>2, <1>3, OpenActions DEF Open
<1>4. CASE UNCHANGED << head, rec, wake, snaps >>
  BY <1>4 DEF BarrierFreezes
<1>5. ASSUME NEW s \in Saves, PrepareCheckpoint(s) PROVE BarrierFreezes'
  <2>1. PICK recs \in FinalEvidence :
          /\ rec' = FencedRecords(recs, head.tick)
          /\ wake' = FencedWakes(recs, head.tick, head.gen + 1)
          /\ snaps' = [snaps EXCEPT ![s] =
               [ taken |-> TRUE, run |-> head.run, gen |-> head.gen + 1,
                 tick |-> head.tick, rec |-> rec', wake |-> wake' ]]
          /\ head' = [head EXCEPT !.gen = head.gen + 1, !.ckpt = s, !.barrier = s]
    BY <1>5 DEF PrepareCheckpoint
  <2>2. head'.barrier = s /\ head'.gen = head.gen + 1 /\ head'.run = head.run
        /\ head'.tick = head.tick
    BY <1>1, <2>1 DEF HeadType
  <2>3. snaps'[s] = [ taken |-> TRUE, run |-> head.run, gen |-> head.gen + 1,
                      tick |-> head.tick, rec |-> rec', wake |-> wake' ]
    BY <1>1, <2>1
  <2>4. QED
    BY <2>2, <2>3 DEF BarrierFreezes
<1>6. CASE \/ ExpireBarrier \/ Activation
           \/ \E s \in Saves : FinishCheckpoint(s)
  <2>1. ASSUME NEW c \in Ticks, NEW r \in Runs,
               \/ ActivateFresh(r, c) \/ PauseForCheckpointFailure(r, c)
               \/ \E s \in Saves : ActivateCheckpoint(s, r, c)
        PROVE  head'.barrier = NoSave
    <3>1. CASE ActivateFresh(r, c)
      BY <3>1 DEF ActivateFresh, NoHead
    <3>2. CASE PauseForCheckpointFailure(r, c)
      BY <1>1, <3>2 DEF PauseForCheckpointFailure, NoHead, HeadType
    <3>3. CASE \E s \in Saves : ActivateCheckpoint(s, r, c)
      BY <3>3 DEF ActivateCheckpoint
    <3>4. QED
      BY <2>1, <3>1, <3>2, <3>3
  <2>2. ASSUME NEW c \in Ticks,
               UpdateClock(c) \/ ActivateRestart(c) \/ ActivatePaused(c)
        PROVE  head'.barrier = NoSave
    <3>1. CASE UpdateClock(c)
      BY <1>1, <3>1 DEF UpdateClock, OwnedOpen, Open, HeadType
    <3>2. CASE ActivateRestart(c)
      BY <1>1, <3>2 DEF ActivateRestart, HeadType
    <3>3. CASE ActivatePaused(c)
      BY <1>1, <3>3 DEF ActivatePaused, HeadType
    <3>4. QED
      BY <2>2, <3>1, <3>2, <3>3
  <2>3. ASSUME \/ ExpireBarrier \/ DeactivateWorld
               \/ \E s \in Saves : FinishCheckpoint(s)
        PROVE  head'.barrier = NoSave
    BY <1>1, <2>3 DEF ExpireBarrier, FinishCheckpoint, DeactivateWorld, HeadType
  <2>4. QED
    BY <1>2, <1>6, <2>1, <2>2, <2>3 DEF Activation
<1>7. QED
  BY <1>3, <1>4, <1>5, <1>6 DEF Next, Saving, Crash, vars

\* While a save barrier is held the working set is exactly the checkpoint that
\* PrepareCheckpoint captured, however the gateway, the lane workers, the
\* adapters and a successor process interleave with the game's own save.
THEOREM KernelBarrierFreezes == Spec => []BarrierFreezes
<1>1. Init => BarrierFreezes
  BY DEF Init, NoHead, BarrierFreezes
<1>2. QED
  BY <1>1, KernelTypeInit, KernelTypeStep, BarrierStep, PTL DEF Spec

-----------------------------------------------------------------------------
(* The fence.                                                               *)

LEMMA FenceStep ==
  ASSUME TypeOK, [Next]_vars, head.status # "absent"
  PROVE  /\ head'.gen >= head.gen
         /\ \/ head'.run # head.run
            \/ head'.inst # head.inst
            \/ head.status = "paused" /\ head'.status = "ready"
            \/ snaps' # snaps
            => head'.gen > head.gen
<1>1. head \in HeadType /\ head.gen \in Nat /\ snaps \in [Saves -> SnapType]
  BY DEF TypeOK, HeadType
<1>2. ASSUME head'.gen = head.gen, head'.run = head.run, head'.inst = head.inst,
             snaps' = snaps, head'.status \in { head.status, "paused" }
      PROVE  /\ head'.gen >= head.gen
             /\ \/ head'.run # head.run
                \/ head'.inst # head.inst
                \/ head.status = "paused" /\ head'.status = "ready"
                \/ snaps' # snaps
                => head'.gen > head.gen
  BY <1>1, <1>2
<1>3. CASE UNCHANGED << head, snaps >>
  BY <1>2, <1>3
<1>4. CASE \/ ExpireBarrier \/ DeactivateWorld
           \/ \E s \in Saves : FinishCheckpoint(s)
           \/ \E c \in Ticks : UpdateClock(c)
           \/ \E c \in Ticks : \E r \in Runs : PauseForCheckpointFailure(r, c)
  <2>1. /\ head'.gen = head.gen /\ head'.run = head.run /\ head'.inst = head.inst
        /\ snaps' = snaps /\ head'.status \in { head.status, "paused" }
    BY <1>1, <1>4 DEF ExpireBarrier, DeactivateWorld, FinishCheckpoint, UpdateClock,
                      PauseForCheckpointFailure, HeadType
  <2>2. QED
    BY <1>2, <2>1
<1>5. ASSUME head'.gen > head.gen, head'.gen \in Nat
      PROVE  /\ head'.gen >= head.gen
             /\ \/ head'.run # head.run
                \/ head'.inst # head.inst
                \/ head.status = "paused" /\ head'.status = "ready"
                \/ snaps' # snaps
                => head'.gen > head.gen
  BY <1>1, <1>5
<1>6. CASE \/ \E s \in Saves : PrepareCheckpoint(s)
           \/ \E c \in Ticks : ActivateRestart(c) \/ ActivatePaused(c)
  <2>1. head'.gen = head.gen + 1
    BY <1>1, <1>6 DEF PrepareCheckpoint, ActivateRestart, ActivatePaused, HeadType
  <2>2. QED
    BY <1>1, <1>5, <2>1
<1>7. ASSUME NEW s \in Saves, NEW r \in Runs, NEW c \in Ticks, ActivateCheckpoint(s, r, c)
      PROVE  head'.gen > head.gen /\ head'.gen \in Nat
  <2>1. snaps[s].gen \in Nat
    BY <1>1 DEF SnapType
  <2>2. head'.gen = (IF head.gen > snaps[s].gen THEN head.gen ELSE snaps[s].gen) + 1
    BY <1>7 DEF ActivateCheckpoint
  <2>3. QED
    BY <1>1, <2>1, <2>2
<1>8. CASE (\E t \in Tasks : Intents(t) \/ Facting(t)) \/ Delivery
  BY <1>3, <1>8, OpenActions
<1>9. QED
  BY <1>3, <1>4, <1>5, <1>6, <1>7, <1>8 DEF Next, Saving, Activation, Crash, vars,
                                            ActivateFresh

\* Taking a world over, restoring, resuming or saving it moves the generation
\* past everything issued before, for every history of crashes and restores.
THEOREM KernelFenceRises == Spec => FenceRises
<1>1. TypeOK /\ [Next]_vars
        => [ head.status # "absent" =>
               /\ head'.gen >= head.gen
               /\ \/ head'.run # head.run
                  \/ head'.inst # head.inst
                  \/ head.status = "paused" /\ head'.status = "ready"
                  \/ snaps' # snaps
                  => head'.gen > head.gen ]_vars
  BY FenceStep
<1>2. QED
  BY <1>1, KernelTypeCorrect, PTL DEF Spec, FenceRises

-----------------------------------------------------------------------------
(* Claims.                                                                  *)

Delivered == { "claimed", "enqueued", "running" }

\* The head is never owned by an instance that does not exist yet: a claim made
\* before a crash cannot pass for one of the successor.
OwnerExists == head.inst <= self

\* What a claim this process made on a wake was issued for.
IssuedFor(t) ==
    wake[t].status \in Delivered /\ wake[t].by = self =>
      /\ wake[t].claim \in 1 .. Len(issued)
      /\ issued[wake[t].claim] = [ task |-> t, exp |-> wake[t].exp,
                                   run |-> head.run, gen |-> head.gen ]

ClaimInv == RecoveryInv /\ OwnerExists /\ \A t \in Tasks : IssuedFor(t)

LEMMA ClaimInvSuffices == ClaimInv => ClaimsFenced
<1> SUFFICES ASSUME ClaimInv, NEW t \in Tasks, wake[t].status \in Delivered
             PROVE  /\ wake[t].by = head.inst /\ wake[t].gen = head.gen
                    /\ wake[t].by = self =>
                         /\ wake[t].claim \in 1 .. Len(issued)
                         /\ issued[wake[t].claim] =
                              [ task |-> t, exp |-> wake[t].exp,
                                run |-> head.run, gen |-> head.gen ]
  BY DEF ClaimsFenced, Delivered
<1>1. TaskInv(head.gen, head.inst, rec[t], wake[t])
  BY DEF ClaimInv, RecoveryInv, Working
<1>2. IssuedFor(t)
  BY DEF ClaimInv
<1>3. QED
  BY <1>1, <1>2 DEF Delivered, TaskInv, Plannable, DurableWakeRelation, LiveWakes,
                    IssuedFor

\* A step that delivers nothing new keeps every claim where it was.
LEMMA ClaimsKept ==
  ASSUME ClaimInv, UNCHANGED << head, self, issued >>,
         \A t \in Tasks : wake'[t].status \in Delivered =>
           /\ wake[t].status \in Delivered
           /\ wake'[t].by = wake[t].by /\ wake'[t].claim = wake[t].claim
           /\ wake'[t].exp = wake[t].exp
  PROVE  OwnerExists' /\ \A t \in Tasks : IssuedFor(t)'
  BY DEF ClaimInv, OwnerExists, IssuedFor

\* A step after which no wake is delivered by this process keeps them too.
LEMMA ClaimsDropped ==
  ASSUME head'.inst <= self',
         \A t \in Tasks : wake'[t].status \in Delivered => wake'[t].by # self'
  PROVE  OwnerExists' /\ \A t \in Tasks : IssuedFor(t)'
  BY DEF OwnerExists, IssuedFor

LEMMA RecordActionsClaims ==
  ASSUME ClaimInv, NEW t \in Tasks, Intents(t) \/ Facting(t)
  PROVE  OwnerExists' /\ \A u \in Tasks : IssuedFor(u)'
<1>1. wake \in [Tasks -> Wake]
  BY DEF ClaimInv, RecoveryInv, TypeOK
<1>2. PICK w : /\ wake' = wake \/ wake' = [wake EXCEPT ![t] = w]
               /\ w.status \in Delivered => w = wake[t]
               /\ UNCHANGED << head, self, issued >>
  <2>1. /\ \A x, y, z : PendingWake(x, y, z).status = "pending"
        /\ NoWake.status = "none"
    BY DEF PendingWake, NoWake
  <2>2. CASE Intents(t)
    BY <2>1, <2>2 DEF Intents, Create, ApplyIntentWait, ApplyIntentCancel, Delivered
  <2>3. CASE Reconcile(t)
    BY <2>1, <2>3 DEF Reconcile, Delivered
  <2>4. CASE Facting(t) /\ ~Reconcile(t)
    BY <2>4 DEF Facting, AdmitEvidence, RegisterOperation, MarkOperationNotSent,
                RecordCleanup
  <2>5. QED
    BY <2>2, <2>3, <2>4
<1>3. \A u \in Tasks : wake'[u].status \in Delivered => wake'[u] = wake[u]
  BY <1>1, <1>2
<1>4. QED
  BY <1>2, <1>3, ClaimsKept

LEMMA DeliveryClaims ==
  ASSUME ClaimInv, Delivery
  PROVE  OwnerExists' /\ \A t \in Tasks : IssuedFor(t)'
<1>1. wake \in [Tasks -> Wake] /\ issued \in Seq(ClaimType) /\ TypeOK
  BY DEF ClaimInv, RecoveryInv, TypeOK
<1>2. ASSUME NEW t \in Tasks, ClaimDue(t)
      PROVE  OwnerExists' /\ \A u \in Tasks : IssuedFor(u)'
  <2> DEFINE x == [ task |-> t, exp |-> wake[t].exp, run |-> head.run, gen |-> head.gen ]
             w == [wake[t] EXCEPT !.status = "claimed", !.claim = Len(issued) + 1,
                                  !.by = self]
  <2>1. /\ wake' = [wake EXCEPT ![t] = w] /\ issued' = Append(issued, x)
        /\ UNCHANGED << head, self >>
    BY <1>2 DEF ClaimDue
  <2>2. w.exp = wake[t].exp /\ w.claim = Len(issued) + 1
    BY <1>1 DEF Wake
  <2>3. x \in ClaimType
    BY <1>1 DEF TypeOK, HeadType, ClaimType, Wake
  <2> HIDE DEF w
  <2>4. /\ Len(issued) \in Nat /\ Len(issued') = Len(issued) + 1
        /\ issued'[Len(issued) + 1] = x
        /\ \A c \in 1 .. Len(issued) : issued'[c] = issued[c]
    <3> HIDE DEF x
    <3> QED
      BY <1>1, <2>1, <2>3
  <2>5. IssuedFor(t)'
    BY <1>1, <2>1, <2>2, <2>4 DEF IssuedFor
  <2>6. ASSUME NEW u \in Tasks, u # t PROVE IssuedFor(u)'
    BY <1>1, <2>1, <2>4, <2>6 DEF ClaimInv, IssuedFor
  <2>7. QED
    BY <2>1, <2>5, <2>6 DEF ClaimInv, OwnerExists
<1>3. ASSUME NEW c \in 1 .. Len(issued),
             \/ MarkEnqueued(c) \/ ReleaseClaim(c) \/ BeginWake(c)
             \/ \E k \in AttemptOutcomes : FinishAttempt(c, k)
      PROVE  OwnerExists' /\ \A u \in Tasks : IssuedFor(u)'
  <2> DEFINE t == issued[c].task
  <2>1. t \in Tasks
    BY <1>1, ClaimFields
  <2>2. PICK w : /\ wake' = wake \/ wake' = [wake EXCEPT ![t] = w]
                 /\ w.status \in Delivered =>
                      /\ wake[t].status \in Delivered
                      /\ w.by = wake[t].by /\ w.claim = wake[t].claim
                      /\ w.exp = wake[t].exp
                 /\ UNCHANGED << head, self, issued >>
    <3>1. ASSUME NEW k
          PROVE  LET w == [wake[t] EXCEPT !.status = k]
                 IN  w.by = wake[t].by /\ w.claim = wake[t].claim /\ w.exp = wake[t].exp
      BY <1>1, <2>1 DEF Wake
    <3>2. /\ \A x, y, z : PendingWake(x, y, z).status = "pending"
          /\ NoWake.status = "none"
      BY DEF PendingWake, NoWake
    <3>3. CASE MarkEnqueued(c)
      BY <3>1, <3>3 DEF MarkEnqueued, Delivered
    <3>4. CASE BeginWake(c)
      BY <3>1, <3>4 DEF BeginWake, Delivered
    <3>5. CASE ReleaseClaim(c)
      BY <3>2, <3>5 DEF ReleaseClaim, Delivered
    <3>6. CASE \E k \in AttemptOutcomes : FinishAttempt(c, k)
      BY <3>2, <3>6 DEF FinishAttempt, Delivered
    <3>7. QED
      BY <1>3, <3>3, <3>4, <3>5, <3>6
  <2> HIDE DEF t
  <2>3. \A u \in Tasks : wake'[u].status \in Delivered =>
          /\ wake[u].status \in Delivered
          /\ wake'[u].by = wake[u].by /\ wake'[u].claim = wake[u].claim
          /\ wake'[u].exp = wake[u].exp
    BY <1>1, <2>1, <2>2
  <2>4. QED
    BY <2>2, <2>3, ClaimsKept
<1>4. QED
  BY <1>2, <1>3 DEF Delivery

LEMMA WorldClaims ==
  ASSUME ClaimInv, Saving \/ Activation \/ Crash
  PROVE  OwnerExists' /\ \A t \in Tasks : IssuedFor(t)'
<1>1. /\ wake \in [Tasks -> Wake] /\ rec \in [Tasks -> Record(AnyRun)]
      /\ head \in HeadType /\ self \in Nat /\ head.inst \in Nat
      /\ head.inst <= self /\ snaps \in [Saves -> SnapType]
      /\ \A t \in Tasks : TaskInv(head.gen, head.inst, rec[t], wake[t])
  BY DEF ClaimInv, OwnerExists, RecoveryInv, TypeOK, HeadType, Working
<1>2. ASSUME head'.run = head.run, head'.gen = head.gen, head'.inst = head.inst,
             UNCHANGED << wake, self, issued >>
      PROVE  OwnerExists' /\ \A t \in Tasks : IssuedFor(t)'
  BY <1>2 DEF ClaimInv, OwnerExists, IssuedFor
<1>3. CASE \/ ExpireBarrier \/ DeactivateWorld
           \/ \E s \in Saves : FinishCheckpoint(s)
           \/ \E c \in Ticks : UpdateClock(c)
  <2>1. /\ head'.run = head.run /\ head'.gen = head.gen /\ head'.inst = head.inst
        /\ UNCHANGED << wake, self, issued >>
    BY <1>1, <1>3 DEF ExpireBarrier, DeactivateWorld, FinishCheckpoint, UpdateClock,
                      HeadType
  <2>2. QED
    BY <1>2, <2>1
<1>4. ASSUME \A t \in Tasks : wake'[t].status \notin Delivered,
             head'.inst \in { head.inst, self }, self' = self
      PROVE  OwnerExists' /\ \A t \in Tasks : IssuedFor(t)'
  BY <1>1, <1>4, ClaimsDropped
<1>5. ASSUME NEW s \in Saves, PrepareCheckpoint(s)
      PROVE  OwnerExists' /\ \A t \in Tasks : IssuedFor(t)'
  <2>1. PICK recs \in FinalEvidence :
          /\ SnapshotValid(head.gen + 1, FencedRecords(recs, head.tick),
                           FencedWakes(recs, head.tick, head.gen + 1))
          /\ wake' = FencedWakes(recs, head.tick, head.gen + 1)
          /\ head' = [head EXCEPT !.gen = head.gen + 1, !.ckpt = s, !.barrier = s]
          /\ self' = self
    BY <1>5 DEF PrepareCheckpoint
  <2>2. \A t \in Tasks : wake'[t].status \in { "pending", "none" }
    BY <2>1 DEF SnapshotValid
  <2>3. head'.inst = head.inst
    BY <1>1, <2>1 DEF HeadType
  <2>4. QED
    BY <1>4, <2>1, <2>2, <2>3 DEF Delivered
<1>6. ASSUME NEW c \in Ticks, ActivateRestart(c) \/ ActivatePaused(c)
      PROVE  OwnerExists' /\ \A t \in Tasks : IssuedFor(t)'
  <2>1. /\ wake' = FencedWakes(rec, c, head.gen + 1) /\ head'.inst = self
        /\ self' = self
    BY <1>1, <1>6 DEF ActivateRestart, ActivatePaused, HeadType
  <2>2. ASSUME NEW t \in Tasks PROVE wake'[t].status \in { "pending", "none" }
    <3>1. wake'[t] = FencedWake(rec[t], wake[t], c, head.gen + 1)
      BY <2>1 DEF FencedWakes
    <3>2. rec[t].state \notin { "running", "waiting" } => wake[t].status = "none"
      BY <1>1 DEF TaskInv, Plannable, Record, ActiveStates
    <3>3. QED
      BY <3>1, <3>2 DEF FencedWake, PendingWake
  <2>3. QED
    BY <1>4, <2>1, <2>2 DEF Delivered
<1>7. ASSUME NEW s \in Saves, NEW r \in Runs, NEW c \in Ticks, ActivateCheckpoint(s, r, c)
      PROVE  OwnerExists' /\ \A t \in Tasks : IssuedFor(t)'
  <2>1. SnapshotValid(snaps[s].gen, snaps[s].rec, snaps[s].wake)
    BY <1>7 DEF ActivateCheckpoint, ClaimInv, RecoveryInv, Stored
  <2>2. \A t \in Tasks : snaps[s].wake[t].status \in { "pending", "none" }
    BY <2>1 DEF SnapshotValid
  <2>3. snaps[s].wake \in [Tasks -> Wake]
    BY <1>1 DEF SnapType
  <2>4. ASSUME NEW t \in Tasks, NEW g
        PROVE  [snaps[s].wake[t] EXCEPT !.gen = g].status = snaps[s].wake[t].status
    BY <2>3 DEF Wake
  <2>5. head'.inst = self /\ self' = self
    BY <1>7 DEF ActivateCheckpoint
  <2>6. \A t \in Tasks : wake'[t].status = snaps[s].wake[t].status
    BY <1>7, <2>4 DEF ActivateCheckpoint
  <2>7. QED
    BY <1>4, <2>2, <2>5, <2>6 DEF Delivered
<1>8. ASSUME NEW r \in Runs, NEW c \in Ticks,
             ActivateFresh(r, c) \/ PauseForCheckpointFailure(r, c)
      PROVE  OwnerExists' /\ \A t \in Tasks : IssuedFor(t)'
  <2>1. UNCHANGED << wake, self, issued >>
    BY <1>8 DEF ActivateFresh, PauseForCheckpointFailure
  <2>2. CASE head.status = "absent"
    <3>1. \A t \in Tasks : wake[t].status = "none"
      BY <1>1, <2>2 DEF ClaimInv, RecoveryInv, EmptyWorld, TaskInv, Plannable
    <3>2. head'.inst = self
      BY <1>8, <2>2 DEF ActivateFresh, PauseForCheckpointFailure, NoHead
    <3>3. QED
      BY <1>4, <2>1, <3>1, <3>2 DEF Delivered
  <2>3. CASE head.status # "absent"
    <3>1. head'.run = head.run /\ head'.gen = head.gen /\ head'.inst = head.inst
      BY <1>1, <1>8, <2>3 DEF ActivateFresh, PauseForCheckpointFailure, HeadType
    <3>2. QED
      BY <1>2, <2>1, <3>1
  <2>4. QED
    BY <2>2, <2>3
<1>9. CASE Crash
  <2>1. UNCHANGED << head, wake >> /\ self' = self + 1
    BY <1>9 DEF Crash
  <2>2. head.inst <= self + 1 /\ head.inst # self + 1
    BY <1>1
  <2>3. \A t \in Tasks : wake[t].status \in Delivered => wake[t].by = head.inst
    BY <1>1 DEF TaskInv, Plannable, Delivered
  <2>4. QED
    BY <2>1, <2>2, <2>3, ClaimsDropped
<1>10. QED
  BY <1>3, <1>5, <1>6, <1>7, <1>8, <1>9 DEF Saving, Activation

\* Every transaction keeps the claims of this process and the delivered wakes apart
\* from those of earlier owners and generations.
LEMMA ClaimStep == ClaimInv /\ [Next]_vars => ClaimInv'
<1> SUFFICES ASSUME ClaimInv, [Next]_vars PROVE ClaimInv'
  OBVIOUS
<1>1. RecoveryInv'
  BY RecoveryStep DEF ClaimInv
<1>2. CASE UNCHANGED vars
  BY <1>1, <1>2 DEF vars, ClaimInv, OwnerExists, IssuedFor
<1>3. CASE Next
  BY <1>1, <1>3, RecordActionsClaims, DeliveryClaims, WorldClaims DEF Next, ClaimInv
<1>4. QED
  BY <1>2, <1>3

\* However claims, crashes, takeovers, saves and restores interleave, a delivered
\* wake belongs to the owner and generation of the head, and a claim of this
\* process names the wake, revision and binding it was issued for.
THEOREM KernelClaimsFenced == Spec => []ClaimsFenced
<1>1. Init => ClaimInv
  <2>1. Init => RecoveryInv /\ OwnerExists
    BY RecoveryInit DEF Init, NoHead, OwnerExists
  <2>2. Init => \A t \in Tasks : IssuedFor(t)
    BY DEF Init, NoWake, IssuedFor, Delivered
  <2>3. QED
    BY <2>1, <2>2 DEF ClaimInv
<1>2. QED
  BY <1>1, ClaimStep, ClaimInvSuffices, PTL DEF Spec

-----------------------------------------------------------------------------
(* Evidence, verdicts and failure counters: what holds of every record, of  *)
(* the working set and of each checkpoint, in the generation it belongs to, *)
(* and what a transaction does to a record.                                 *)

\* Records of one world: equal keys, operations and facts belong to one task.
Apart(recs) ==
    \A t \in Tasks : \A u \in Tasks \ {t} :
      /\ {recs[t].state, recs[u].state} \subseteq ActiveStates => Key[t] # Key[u]
      /\ \A o \in Ops : recs[t].ops[o].status # "none" => recs[u].ops[o].status = "none"
      /\ \A f \in Facts : recs[t].facts[f].kind # "none" => recs[u].facts[f].kind = "none"

\* The terminal facts of a record, and what EarliestFactWins says of one task.
Verdicts(r) == { f \in Facts : r.facts[f].kind \in TerminalKinds }

WonBy(r, f) ==
    /\ f \in Verdicts(r)
    /\ \A g \in Verdicts(r) :
         \/ r.facts[f].at < r.facts[g].at
         \/ r.facts[f].at = r.facts[g].at
            /\ (r.facts[g].kind = "satisfied" => r.facts[f].kind = "satisfied")

\* A terminal fact that was folded in ended its task.
Judged(r) ==
    /\ r.state \in ActiveStates => \A f \in Verdicts(r) : ~r.facts[f].applied
    /\ r.state \in { "succeeded", "failed" } => WonBy(r, r.resultFact)
    /\ r.state = "cancelled" => Verdicts(r) = {}

\* OperationsFenced for one task, in a generation of its world.
Dated(gen, r) ==
    /\ \A o \in Ops :
         /\ r.ops[o].gen <= gen
         /\ r.ops[o].status = "uncertain" => r.ops[o].gen < gen
    /\ \A f \in Facts : r.facts[f].gen <= gen /\ r.facts[f].reval <= gen

\* PauseIsExhaustion for one task; only a paused task has a reason to pause.
Rested(r) ==
    /\ r.state = "paused" <=>
         r.noProgress >= MaxAttemptFailures \/ r.reconcile >= MaxAttemptFailures
    /\ r.pauseReason # "none" => r.state = "paused"
    /\ r.state = "paused" /\ r.needsReconcile => Pending(r) # {}

\* No row, no evidence.
Blank(r) == r.state = "absent" => r = AbsentRecord(NoRun)

Kept(gen, r) == Judged(r) /\ Dated(gen, r) /\ Rested(r) /\ Blank(r)

\* What RecordsEvolve says of a transaction on one record.
Covers(r, q) ==
    /\ q.rev >= r.rev
    /\ q.rev = r.rev =>
         q = [r EXCEPT !.ops = q.ops, !.facts = q.facts, !.needsReconcile = q.needsReconcile]

Keeps(r, q) ==
    /\ \A f \in Admitted(r) :
         /\ q.facts[f] = [r.facts[f] EXCEPT !.applied = q.facts[f].applied]
         /\ r.facts[f].applied => q.facts[f].applied
    /\ r.state \in TerminalStates => q = [r EXCEPT !.ops = q.ops]

\* The record takes no key, operation or fact it did not have.
Within(r, q) ==
    /\ q.state \in ActiveStates => r.state \in ActiveStates
    /\ \A o \in Ops : q.ops[o].status # "none" => r.ops[o].status # "none"
    /\ \A f \in Facts : q.facts[f].kind # "none" => r.facts[f].kind # "none"

\* A world that was never activated is in generation zero.
Unborn == head.status = "absent" => head.gen = 0

KeptInv ==
    /\ Apart(rec) /\ Unborn
    /\ \A t \in Tasks : Kept(head.gen, rec[t])
    /\ \A s \in Saves : snaps[s].taken => \A t \in Tasks : Kept(snaps[s].gen, snaps[s].rec[t])

\* The invariant says of every task what the runs check.
LEMMA KeptSuffices ==
  ASSUME RecoveryInv, KeptInv
  PROVE  EvidenceSound /\ PauseIsExhaustion
<1>1. ASSUME NEW t \in Tasks PROVE Judged(rec[t]) /\ Dated(head.gen, rec[t]) /\ Rested(rec[t])
  BY DEF KeptInv, Kept
<1>2. EarliestFactWins
  BY <1>1 DEF EarliestFactWins, Judged, Verdicts, WonBy
<1>3. OperationsFenced
  BY <1>1 DEF OperationsFenced, Dated
<1>4. PauseIsExhaustion
  BY <1>1 DEF PauseIsExhaustion, Rested
<1>5. QED
  BY <1>2, <1>3, <1>4 DEF EvidenceSound

\* The fields of facts and operations.
LEMMA EvidenceFields ==
  ASSUME NEW r \in Record(AnyRun)
  PROVE  /\ \A f \in Facts : /\ r.facts[f] \in Evidence(AnyRun)
                             /\ r.facts[f].applied \in BOOLEAN
                             /\ r.facts[f].at \in Nat /\ r.facts[f].gen \in Nat
                             /\ r.facts[f].reval \in Nat
                             /\ r.facts[f].kind \in TerminalKinds \cup { "none", "progress" }
         /\ \A o \in Ops : r.ops[o] \in Operation(AnyRun) /\ r.ops[o].gen \in Nat
<1>1. r.facts \in [Facts -> Evidence(AnyRun)] /\ r.ops \in [Ops -> Operation(AnyRun)]
  BY RecordFields
<1>2. ASSUME NEW f \in Facts
      PROVE  /\ r.facts[f] \in Evidence(AnyRun)
             /\ r.facts[f].applied \in BOOLEAN
             /\ r.facts[f].at \in Nat /\ r.facts[f].gen \in Nat
             /\ r.facts[f].reval \in Nat
             /\ r.facts[f].kind \in TerminalKinds \cup { "none", "progress" }
  BY <1>1 DEF Evidence
<1>3. ASSUME NEW o \in Ops PROVE r.ops[o] \in Operation(AnyRun) /\ r.ops[o].gen \in Nat
  BY <1>1 DEF Operation
<1>4. QED
  BY <1>2, <1>3

\* A record whose evidence is the same, and that stays active.
LEMMA SameEvidence ==
  ASSUME NEW gen, NEW r \in Record(AnyRun), NEW q, Kept(gen, r),
         q.facts = r.facts, q.ops = r.ops,
         r.state \in ActiveStates, q.state \in ActiveStates, q.rev = r.rev + 1, Rested(q)
  PROVE  Kept(gen, q) /\ Covers(r, q) /\ Keeps(r, q) /\ Within(r, q)
<1>1. Judged(q) /\ Dated(gen, q) /\ Blank(q)
  BY DEF Kept, Judged, Verdicts, Dated, Blank, ActiveStates
<1>2. \A f \in Facts : r.facts[f] = [r.facts[f] EXCEPT !.applied = r.facts[f].applied]
  BY EvidenceFields DEF Evidence
<1>3. Keeps(r, q)
  BY <1>2 DEF Keeps, Admitted, ActiveStates, TerminalStates
<1>4. Covers(r, q)
  <2>1. r.rev \in Nat
    BY RecordFields
  <2>2. QED
    BY <2>1 DEF Covers
<1>5. QED
  BY <1>1, <1>3, <1>4 DEF Kept, Within

\* The record Create inserts has no evidence and no failures.
LEMMA CreatedKept ==
  ASSUME NEW gen \in Nat, NEW deadline \in Nat, NEW n \in Nat
  PROVE  LET q == CreatedRecord(NoRun, deadline, n)
             r == AbsentRecord(NoRun)
         IN  Kept(gen, q) /\ Kept(gen, r) /\ Covers(r, q) /\ Keeps(r, q)
<1> DEFINE q == CreatedRecord(NoRun, deadline, n)
           r == AbsentRecord(NoRun)
<1>3. r = AbsentRecord(NoRun)
  OBVIOUS
<1> HIDE DEF q, r
<1>1. ASSUME NEW x,
             \A o \in Ops : x.ops[o].gen = 0 /\ x.ops[o].status = "none",
             \A f \in Facts : /\ x.facts[f].gen = 0 /\ x.facts[f].reval = 0
                              /\ x.facts[f].kind = "none",
             x.noProgress = 0, x.reconcile = 0, x.pauseReason = "none",
             x.state \in { "waiting", "absent" }
      PROVE  Judged(x) /\ Dated(gen, x) /\ Rested(x)
  <2>1. Verdicts(x) = {}
    BY <1>1 DEF Verdicts, TerminalKinds
  <2>2. Dated(gen, x)
    BY <1>1 DEF Dated
  <2>3. Rested(x)
    BY <1>1 DEF Rested, MaxAttemptFailures
  <2>4. QED
    BY <1>1, <2>1, <2>2, <2>3 DEF Judged
<1>2. /\ q.state = "waiting" /\ q.rev = 1 /\ r.rev = 0 /\ r.state = "absent"
      /\ q.noProgress = 0 /\ q.reconcile = 0 /\ q.pauseReason = "none"
      /\ r.noProgress = 0 /\ r.reconcile = 0 /\ r.pauseReason = "none"
      /\ q.ops = r.ops /\ q.facts = r.facts
      /\ r.ops = [o \in Ops |-> NoOperation(NoRun)]
      /\ r.facts = [f \in Facts |-> NoEvidence(NoRun)]
  BY DEF q, r, CreatedRecord, AbsentRecord
<1>4. /\ \A o \in Ops : r.ops[o].gen = 0 /\ r.ops[o].status = "none"
      /\ \A f \in Facts : r.facts[f].gen = 0 /\ r.facts[f].reval = 0 /\ r.facts[f].kind = "none"
  BY <1>2 DEF NoOperation, NoEvidence
<1>5. Blank(q) /\ Blank(r)
  BY <1>2, <1>3 DEF Blank
<1>6. Covers(r, q) /\ Keeps(r, q)
  BY <1>2, <1>4 DEF Covers, Keeps, Admitted, TerminalStates
<1>7. Judged(q) /\ Dated(gen, q) /\ Rested(q) /\ Judged(r) /\ Dated(gen, r) /\ Rested(r)
  BY <1>1, <1>2, <1>4
<1>8. QED
  BY <1>5, <1>6, <1>7 DEF Kept, q, r

\* An intent decides on a record without pending evidence: no verdict was
\* folded in, or the task would have ended, and none is pending.
LEMMA IntentKept ==
  ASSUME NEW gen, NEW r \in Record(AnyRun), NEW q, Kept(gen, r),
         r.state \in ActiveStates, Pending(r) = {},
         q.facts = r.facts, q.ops = r.ops, q.rev = r.rev + 1,
         q.noProgress = 0, q.reconcile = 0, q.pauseReason = "none",
         q.state \in { "waiting", "cancelled" }
  PROVE  Kept(gen, q) /\ Covers(r, q) /\ Keeps(r, q) /\ Within(r, q)
<1>1. Rested(q)
  BY DEF Rested, MaxAttemptFailures
<1>2. CASE q.state = "waiting"
  BY <1>1, <1>2, SameEvidence DEF ActiveStates
<1>3. CASE q.state = "cancelled"
  <2>1. Verdicts(r) = {}
    <3>1. ASSUME NEW f \in Verdicts(r) PROVE FALSE
      <4>1. f \in Facts /\ r.facts[f].kind # "none" /\ ~r.facts[f].applied
        BY <3>1 DEF Verdicts, TerminalKinds, Kept, Judged
      <4>2. f \in Pending(r)
        BY <4>1 DEF Pending, Admitted
      <4>3. QED
        BY <4>2
    <3>2. QED
      BY <3>1
  <2>2. Verdicts(q) = {}
    BY <2>1 DEF Verdicts
  <2>3. Judged(q) /\ Dated(gen, q) /\ Blank(q)
    BY <1>3, <2>2 DEF Kept, Judged, Dated, Blank, ActiveStates
  <2>4. \A f \in Facts : r.facts[f] = [r.facts[f] EXCEPT !.applied = r.facts[f].applied]
    BY EvidenceFields DEF Evidence
  <2>5. Keeps(r, q)
    BY <2>4 DEF Keeps, Admitted, ActiveStates, TerminalStates
  <2>6. Covers(r, q)
    BY RecordFields DEF Covers
  <2>7. QED
    BY <1>1, <1>3, <2>3, <2>5, <2>6 DEF Kept, Within, ActiveStates
<1>4. QED
  BY <1>2, <1>3

\* What an attempt's outcome leaves alone, and what it makes of the counters.
LEMMA AttemptFields ==
  ASSUME NEW r \in Record(AnyRun), NEW k \in AttemptOutcomes
  PROVE  LET q == AfterAttempt(r, k)
         IN  /\ q.facts = r.facts /\ q.ops = r.ops /\ q.rev = r.rev + 1
             /\ q.resultFact = r.resultFact /\ q.resultAt = r.resultAt
             /\ q.nextWake = r.nextWake /\ q.deadline = r.deadline
             /\ \/ /\ q.state = r.state /\ q.pauseReason = "none"
                   /\ \/ q.noProgress = r.noProgress + 1 /\ q.noProgress # MaxAttemptFailures
                         /\ q.reconcile = 0
                      \/ q.noProgress = r.noProgress /\ q.reconcile = r.reconcile + 1
                         /\ q.reconcile # MaxAttemptFailures
                      \/ q.noProgress \in { r.noProgress, 0 } /\ q.reconcile = 0
                \/ /\ q.state = "paused" /\ ~q.needsReconcile
                   /\ q.noProgress = MaxAttemptFailures \/ q.reconcile = MaxAttemptFailures
<1> DEFINE n == [r EXCEPT !.rev = r.rev + 1, !.pauseReason = "none"]
<1>1. DOMAIN r = { "state", "rev", "deadline", "nextWake", "needsReconcile",
                   "pauseReason", "noProgress", "reconcile", "resultFact",
                   "resultAt", "calls", "ops", "facts" }
  BY DEF Record
<1>2. /\ n.facts = r.facts /\ n.ops = r.ops /\ n.rev = r.rev + 1 /\ n.state = r.state
      /\ n.resultFact = r.resultFact /\ n.resultAt = r.resultAt
      /\ n.nextWake = r.nextWake /\ n.deadline = r.deadline
      /\ n.noProgress = r.noProgress /\ n.reconcile = r.reconcile
      /\ n.pauseReason = "none" /\ DOMAIN n = DOMAIN r
  BY DEF Record
<1> HIDE DEF n
<1>3. CASE k = "no_progress"
  <2> DEFINE m == [n EXCEPT !.noProgress = r.noProgress + 1, !.reconcile = 0]
  <2>1. /\ m.facts = n.facts /\ m.ops = n.ops /\ m.rev = n.rev /\ m.state = n.state
        /\ m.resultFact = n.resultFact /\ m.resultAt = n.resultAt
        /\ m.nextWake = n.nextWake /\ m.deadline = n.deadline /\ m.pauseReason = n.pauseReason
        /\ m.noProgress = r.noProgress + 1 /\ m.reconcile = 0 /\ DOMAIN m = DOMAIN r
    BY <1>1, <1>2
  <2>2. AfterAttempt(r, k) = Failed(m, "no_progress", r.noProgress + 1 = MaxAttemptFailures)
    BY <1>3 DEF AfterAttempt, n
  <2> HIDE DEF m
  <2>3. QED
    BY <1>1, <1>2, <2>1, <2>2 DEF Failed
<1>4. CASE k \in { "reconcile_failed", "observation_failed" }
  <2> DEFINE m == [n EXCEPT !.reconcile = r.reconcile + 1]
  <2>1. /\ m.facts = n.facts /\ m.ops = n.ops /\ m.rev = n.rev /\ m.state = n.state
        /\ m.resultFact = n.resultFact /\ m.resultAt = n.resultAt
        /\ m.nextWake = n.nextWake /\ m.deadline = n.deadline /\ m.pauseReason = n.pauseReason
        /\ m.noProgress = n.noProgress /\ m.reconcile = r.reconcile + 1 /\ DOMAIN m = DOMAIN r
    BY <1>1, <1>2
  <2>2. AfterAttempt(r, k)
          = Failed(m, "evidence_unconfirmed", r.reconcile + 1 = MaxAttemptFailures)
    BY <1>4 DEF AfterAttempt, n
  <2> HIDE DEF m
  <2>3. QED
    BY <1>1, <1>2, <2>1, <2>2 DEF Failed
<1>5. CASE k = "progress"
  <2>1. AfterAttempt(r, k)
          = [n EXCEPT !.needsReconcile = FALSE, !.reconcile = 0,
                      !.noProgress = IF r.needsReconcile THEN r.noProgress ELSE 0]
    BY <1>5 DEF AfterAttempt, n
  <2>2. QED
    BY <1>1, <1>2, <2>1
<1>6. QED
  BY <1>3, <1>4, <1>5 DEF AttemptOutcomes

\* The third failure pauses, no other one does.
LEMMA AttemptKept ==
  ASSUME NEW gen, NEW r \in Record(AnyRun), NEW k \in AttemptOutcomes, Kept(gen, r),
         r.state = "running",
         r.noProgress < MaxAttemptFailures, r.reconcile < MaxAttemptFailures
  PROVE  LET q == AfterAttempt(r, k)
         IN  Kept(gen, q) /\ Covers(r, q) /\ Keeps(r, q) /\ Within(r, q)
<1> DEFINE q == AfterAttempt(r, k)
<1>1. q \in Record(AnyRun)
  BY AttemptType
<1>2. /\ q.facts = r.facts /\ q.ops = r.ops /\ q.rev = r.rev + 1
      /\ \/ /\ q.state = r.state /\ q.pauseReason = "none"
            /\ \/ q.noProgress = r.noProgress + 1 /\ q.noProgress # MaxAttemptFailures
                  /\ q.reconcile = 0
               \/ q.noProgress = r.noProgress /\ q.reconcile = r.reconcile + 1
                  /\ q.reconcile # MaxAttemptFailures
               \/ q.noProgress \in { r.noProgress, 0 } /\ q.reconcile = 0
         \/ /\ q.state = "paused" /\ ~q.needsReconcile
            /\ q.noProgress = MaxAttemptFailures \/ q.reconcile = MaxAttemptFailures
  BY AttemptFields
<1> HIDE DEF q
<1>3. r.noProgress \in Nat /\ r.reconcile \in Nat
  BY RecordFields
<1>4. q.noProgress \in Nat /\ q.reconcile \in Nat
  BY <1>1, RecordFields
<1>5. Rested(q)
  BY <1>2, <1>3, <1>4 DEF Rested, MaxAttemptFailures
<1>6. q.state \in ActiveStates
  BY <1>2 DEF ActiveStates
<1>7. Kept(gen, q) /\ Covers(r, q) /\ Keeps(r, q) /\ Within(r, q)
  BY <1>2, <1>5, <1>6, SameEvidence DEF ActiveStates
<1>8. QED
  BY <1>7 DEF q

\* A change of operations, dated in this generation or before.
LEMMA OperationsKept ==
  ASSUME NEW gen, NEW r \in Record(AnyRun), NEW ops \in [Ops -> Operation(AnyRun)],
         Kept(gen, r), r.state # "absent",
         \A o \in Ops : ops[o].gen <= gen /\ (ops[o].status = "uncertain" => ops[o].gen < gen)
  PROVE  LET q == [r EXCEPT !.ops = ops]
         IN  Kept(gen, q) /\ Covers(r, q) /\ Keeps(r, q)
<1> DEFINE q == [r EXCEPT !.ops = ops]
<1>1. /\ q.facts = r.facts /\ q.ops = ops /\ q.rev = r.rev /\ q.state = r.state
      /\ q.resultFact = r.resultFact /\ q.noProgress = r.noProgress
      /\ q.reconcile = r.reconcile /\ q.pauseReason = r.pauseReason
      /\ q.needsReconcile = r.needsReconcile
      /\ q = [r EXCEPT !.ops = q.ops]
      /\ q = [r EXCEPT !.ops = q.ops, !.facts = q.facts, !.needsReconcile = q.needsReconcile]
  BY DEF Record
<1> HIDE DEF q
<1>2. Judged(q) /\ Rested(q) /\ Blank(q)
  BY <1>1 DEF Kept, Judged, WonBy, Verdicts, Rested, Pending, Admitted, Blank
<1>3. Dated(gen, q)
  BY <1>1 DEF Kept, Dated
<1>4. Covers(r, q)
  <2>1. r.rev \in Nat
    BY RecordFields
  <2>2. QED
    BY <1>1, <2>1 DEF Covers
<1>5. \A f \in Facts : r.facts[f] = [r.facts[f] EXCEPT !.applied = r.facts[f].applied]
  BY EvidenceFields DEF Evidence
<1>6. Keeps(r, q)
  BY <1>1, <1>5 DEF Keeps, Admitted
<1>7. QED
  BY <1>2, <1>3, <1>4, <1>6 DEF Kept, q

\* A fact is admitted once, pending, and dated in this generation or before.
LEMMA AdmittedKept ==
  ASSUME TypeOK, NEW t \in Tasks, NEW f \in Facts, NEW i \in Reports,
         Kept(head.gen, rec[t]), EvidenceAdmissible(t, f, i)
  PROVE  LET q == WithEvidence(t, f, i)
         IN  /\ Kept(head.gen, q) /\ Covers(rec[t], q) /\ Keeps(rec[t], q)
             /\ q.state = rec[t].state /\ q.ops = rec[t].ops
             /\ \A g \in Facts : g # f => q.facts[g] = rec[t].facts[g]
<1> DEFINE r == rec[t]
           e == EvidenceOf(t, i)
           q == WithEvidence(t, f, i)
<1>1. /\ r \in Record(AnyRun) /\ q \in Record(AnyRun) /\ head.gen \in Nat
      /\ r.facts \in [Facts -> Evidence(AnyRun)]
  BY EvidenceType, RecordFields DEF TypeOK, HeadType
<1>2. /\ r.state \in ActiveStates /\ r.facts[f].kind = "none"
      /\ i.kind \in TerminalKinds \cup {"progress"} /\ i.op \in Ops \cup {NoOp}
  BY KernelAssumption DEF EvidenceAdmissible, EvidenceInput
<1>3. /\ e.kind = i.kind /\ e.applied = FALSE
      /\ e.gen = IF i.op = NoOp THEN head.gen ELSE r.ops[i.op].gen
      /\ e.reval \in { 0, head.gen }
  BY DEF EvidenceOf
<1>4. e.gen <= head.gen /\ e.reval <= head.gen
  <2>1. i.op # NoOp => r.ops[i.op].gen <= head.gen
    BY <1>2 DEF Kept, Dated
  <2>2. QED
    BY <1>1, <1>3, <2>1
<1>5. /\ q.state = r.state /\ q.ops = r.ops /\ q.rev = r.rev
      /\ q.noProgress = r.noProgress /\ q.reconcile = r.reconcile
      /\ q.pauseReason = r.pauseReason /\ q.needsReconcile = TRUE
      /\ q.facts = [r.facts EXCEPT ![f] = e]
      /\ q = [r EXCEPT !.ops = q.ops, !.facts = q.facts, !.needsReconcile = q.needsReconcile]
  BY <1>1 DEF WithEvidence, Record
<1> HIDE DEF r, e, q
<1>6. q.facts[f] = e /\ \A g \in Facts : g # f => q.facts[g] = r.facts[g]
  BY <1>1, <1>5
<1>7. Kept(head.gen, r)
  BY DEF r
<1>8. Judged(q)
  <2>1. \A g \in Verdicts(q) : ~q.facts[g].applied
    BY <1>2, <1>3, <1>6, <1>7 DEF Verdicts, Kept, Judged
  <2>2. QED
    BY <1>2, <1>5, <2>1 DEF Judged, ActiveStates
<1>9. Dated(head.gen, q)
  BY <1>4, <1>5, <1>6, <1>7 DEF Kept, Dated
<1>10. Rested(q)
  <2>1. f \in Pending(q)
    BY <1>2, <1>3, <1>6 DEF Pending, Admitted, TerminalKinds
  <2>2. QED
    BY <1>5, <1>7, <2>1 DEF Kept, Rested
<1>11. Blank(q)
  BY <1>2, <1>5 DEF Blank, ActiveStates
<1>12. Covers(r, q)
  <2>1. r.rev \in Nat
    BY <1>1, RecordFields
  <2>2. QED
    BY <1>5, <2>1 DEF Covers
<1>13. Keeps(r, q)
  <2>1. \A g \in Facts : r.facts[g] = [r.facts[g] EXCEPT !.applied = r.facts[g].applied]
    BY <1>1, EvidenceFields DEF Evidence
  <2>2. \A g \in Admitted(r) : g \in Facts /\ q.facts[g] = r.facts[g]
    BY <1>2, <1>6 DEF Admitted
  <2>3. QED
    BY <1>2, <2>1, <2>2 DEF Keeps, ActiveStates, TerminalStates
<1>14. QED
  BY <1>5, <1>6, <1>8, <1>9, <1>10, <1>11, <1>12, <1>13 DEF Kept, q, r

\* What the fold of pending evidence does to a record.
LEMMA ReconciledFields ==
  ASSUME NEW r \in Record(AnyRun), NEW q \in ReconciledRecords(r)
  PROVE  /\ q.ops = r.ops /\ q.rev = r.rev + 1 /\ q.facts = Applied(r.facts)
         /\ q.deadline = r.deadline /\ ~q.needsReconcile
         /\ q.noProgress = 0 /\ q.reconcile = 0 /\ q.pauseReason = "none"
         /\ \/ \E f \in Facts : /\ IsTerminalChoice(r, f) /\ q.resultFact = f
                                /\ q.resultAt = r.facts[f].at /\ q.nextWake = NoTick
                                /\ q.state = TerminalState(r.facts[f].kind)
            \/ /\ TerminalPending(r) = {} /\ q.state \in { "waiting", "running" }
               /\ q.resultFact = r.resultFact /\ q.resultAt = r.resultAt
<1> DEFINE n == Folded(r)
<1>1. DOMAIN r = { "state", "rev", "deadline", "nextWake", "needsReconcile",
                   "pauseReason", "noProgress", "reconcile", "resultFact",
                   "resultAt", "calls", "ops", "facts" }
  BY DEF Record
<1>2. /\ n.ops = r.ops /\ n.rev = r.rev + 1 /\ n.facts = Applied(r.facts)
      /\ n.deadline = r.deadline /\ n.needsReconcile = FALSE /\ n.nextWake = NoTick
      /\ n.noProgress = 0 /\ n.reconcile = 0 /\ n.pauseReason = "none"
      /\ n.resultFact = r.resultFact /\ n.resultAt = r.resultAt /\ DOMAIN n = DOMAIN r
  BY DEF Folded, Record
<1> HIDE DEF n
<1>3. CASE TerminalPending(r) # {}
  <2>1. PICK f \in Facts : IsTerminalChoice(r, f) /\ q = TerminalRecord(r, f)
    BY <1>3 DEF ReconciledRecords
  <2>2. q = [n EXCEPT !.state = TerminalState(r.facts[f].kind),
                      !.resultFact = f, !.resultAt = r.facts[f].at]
    BY <2>1 DEF TerminalRecord, n
  <2>3. /\ q.ops = n.ops /\ q.rev = n.rev /\ q.facts = n.facts /\ q.deadline = n.deadline
        /\ q.needsReconcile = n.needsReconcile /\ q.nextWake = n.nextWake
        /\ q.noProgress = n.noProgress /\ q.reconcile = n.reconcile
        /\ q.pauseReason = n.pauseReason /\ q.resultFact = f /\ q.resultAt = r.facts[f].at
        /\ q.state = TerminalState(r.facts[f].kind)
    BY <1>1, <1>2, <2>2
  <2>4. QED
    BY <1>2, <2>1, <2>3
<1>4. CASE TerminalPending(r) = {}
  <2>1. \/ \E u : q = [n EXCEPT !.state = "waiting", !.nextWake = u]
        \/ q = [n EXCEPT !.state = "running"]
    BY <1>4 DEF ReconciledRecords, n
  <2>2. /\ q.ops = n.ops /\ q.rev = n.rev /\ q.facts = n.facts /\ q.deadline = n.deadline
        /\ q.needsReconcile = n.needsReconcile
        /\ q.noProgress = n.noProgress /\ q.reconcile = n.reconcile
        /\ q.pauseReason = n.pauseReason /\ q.resultFact = n.resultFact
        /\ q.resultAt = n.resultAt /\ q.state \in { "waiting", "running" }
    BY <1>1, <1>2, <2>1
  <2>3. QED
    BY <1>2, <1>4, <2>2
<1>5. QED
  BY <1>3, <1>4

\* Applying facts keeps all of them but the mark.
LEMMA AppliedFields ==
  ASSUME NEW r \in Record(AnyRun), NEW f \in Facts
  PROVE  \E e : /\ Applied(r.facts)[f] = e
                /\ e = [r.facts[f] EXCEPT !.applied = e.applied]
                /\ e.kind = r.facts[f].kind /\ e.at = r.facts[f].at /\ e.gen = r.facts[f].gen
                /\ e.reval = r.facts[f].reval /\ e.op = r.facts[f].op
                /\ e.until = r.facts[f].until /\ e.run = r.facts[f].run
                /\ e.start = r.facts[f].start
                /\ e.applied <=> r.facts[f].kind # "none"
<1>1. r.facts[f] \in Evidence(AnyRun)
  BY EvidenceFields
<1>2. Applied(r.facts)[f] = [r.facts[f] EXCEPT !.applied = r.facts[f].kind # "none"]
  BY DEF Applied
<1>3. ASSUME NEW e \in Evidence(AnyRun), NEW b \in BOOLEAN
      PROVE  LET x == [e EXCEPT !.applied = b]
             IN  /\ x.applied = b /\ x = [e EXCEPT !.applied = x.applied]
                 /\ x.kind = e.kind /\ x.at = e.at /\ x.gen = e.gen /\ x.reval = e.reval
                 /\ x.op = e.op /\ x.until = e.until /\ x.run = e.run /\ x.start = e.start
  BY DEF Evidence
<1> DEFINE b == r.facts[f].kind # "none"
           e == [r.facts[f] EXCEPT !.applied = b]
<1>4. b \in BOOLEAN
  OBVIOUS
<1>5. Applied(r.facts)[f] = e
  BY <1>2
<1> HIDE DEF b
<1>6. /\ e.applied = b /\ e = [r.facts[f] EXCEPT !.applied = e.applied]
      /\ e.kind = r.facts[f].kind /\ e.at = r.facts[f].at /\ e.gen = r.facts[f].gen
      /\ e.reval = r.facts[f].reval /\ e.op = r.facts[f].op /\ e.until = r.facts[f].until
      /\ e.run = r.facts[f].run /\ e.start = r.facts[f].start
  BY <1>1, <1>3, <1>4
<1> HIDE DEF e
<1>7. QED
  BY <1>5, <1>6 DEF b

\* The verdict is the earliest of all terminal facts: none was folded in before.
LEMMA ReconciledKept ==
  ASSUME NEW gen, NEW r \in Record(AnyRun), NEW q \in ReconciledRecords(r),
         Kept(gen, r), r.state \in ActiveStates
  PROVE  Kept(gen, q) /\ Covers(r, q) /\ Keeps(r, q) /\ Within(r, q)
<1>1. /\ q.ops = r.ops /\ q.rev = r.rev + 1 /\ q.facts = Applied(r.facts)
      /\ q.noProgress = 0 /\ q.reconcile = 0 /\ q.pauseReason = "none"
  BY ReconciledFields
<1>0. ASSUME NEW f \in Facts
      PROVE  /\ q.facts[f].kind = r.facts[f].kind /\ q.facts[f].at = r.facts[f].at
             /\ q.facts[f].gen = r.facts[f].gen /\ q.facts[f].reval = r.facts[f].reval
  <2>1. PICK e : /\ Applied(r.facts)[f] = e /\ e.kind = r.facts[f].kind /\ e.at = r.facts[f].at
                 /\ e.gen = r.facts[f].gen /\ e.reval = r.facts[f].reval
    BY AppliedFields
  <2>2. QED
    BY <1>1, <2>1
<1>2. /\ Verdicts(q) = Verdicts(r)
      /\ \A f \in Facts : q.facts[f].kind = r.facts[f].kind /\ q.facts[f].at = r.facts[f].at
  BY <1>0 DEF Verdicts
<1>3. Verdicts(r) = TerminalPending(r)
  BY DEF Kept, Judged, Verdicts, TerminalPending, Pending, Admitted, TerminalKinds
<1>4. ASSUME \E f \in Facts : IsTerminalChoice(r, f) /\ q.resultFact = f
                              /\ q.state = TerminalState(r.facts[f].kind)
      PROVE  Judged(q)
  <2>1. PICK f \in Facts : IsTerminalChoice(r, f) /\ q.resultFact = f
                           /\ q.state = TerminalState(r.facts[f].kind)
    BY <1>4
  <2>2. WonBy(q, f)
    <3>1. f \in Verdicts(q)
      BY <1>2, <1>3, <2>1 DEF IsTerminalChoice
    <3>2. ASSUME NEW g \in Verdicts(q)
          PROVE  \/ r.facts[f].at < r.facts[g].at
                 \/ r.facts[f].at = r.facts[g].at
                    /\ (r.facts[g].kind = "satisfied" => r.facts[f].kind = "satisfied")
      <4>1. TerminalBefore(r, f, g)
        BY <1>2, <1>3, <2>1 DEF IsTerminalChoice
      <4>2. \A k : KindPriority(k) \in { 0, 1, 2 } /\ KindPriority("satisfied") = 0
        BY DEF KindPriority
      <4>3. r.facts[g].kind = "satisfied"
              => ~(KindPriority(r.facts[f].kind) < KindPriority(r.facts[g].kind))
        BY <4>2
      <4>4. QED
        BY <4>1, <4>3 DEF TerminalBefore
    <3>3. \A g \in Verdicts(q) : g \in Facts
      BY DEF Verdicts
    <3>4. QED
      BY <1>2, <3>1, <3>2, <3>3 DEF WonBy
  <2>3. q.state \in { "succeeded", "failed" }
    BY <2>1 DEF TerminalState
  <2>4. QED
    BY <2>1, <2>2, <2>3 DEF Judged, ActiveStates
<1>5. ASSUME TerminalPending(r) = {}, q.state \in { "waiting", "running" }
      PROVE  Judged(q)
  BY <1>2, <1>3, <1>5 DEF Judged
<1>6. /\ Judged(q)
      /\ q.state \in { "waiting", "running", "succeeded", "failed" }
  <2>1. Judged(q)
    BY <1>4, <1>5, ReconciledFields
  <2>2. QED
    BY <2>1, ReconciledFields DEF TerminalState
<1>7. Dated(gen, q)
  BY <1>0, <1>1 DEF Kept, Dated
<1>8. Rested(q) /\ Blank(q)
  BY <1>1, <1>6 DEF Rested, Blank, MaxAttemptFailures
<1>9. Covers(r, q)
  BY <1>1, RecordFields DEF Covers
<1>10. Keeps(r, q)
  <2>1. ASSUME NEW f \in Admitted(r)
        PROVE  /\ q.facts[f] = [r.facts[f] EXCEPT !.applied = q.facts[f].applied]
               /\ q.facts[f].applied
    <3>1. f \in Facts /\ r.facts[f].kind # "none"
      BY DEF Admitted
    <3>2. QED
      BY <1>1, <3>1, AppliedFields
  <2>2. QED
    BY <2>1 DEF Keeps, ActiveStates, TerminalStates
<1>11. Within(r, q)
  BY <1>1, <1>2 DEF Within
<1>12. QED
  BY <1>6, <1>7, <1>8, <1>9, <1>10, <1>11 DEF Kept

\* A transaction that leaves a record alone.
LEMMA SameRecord ==
  ASSUME NEW r \in Record(AnyRun)
  PROVE  Covers(r, r) /\ Keeps(r, r) /\ Within(r, r)
<1>1. \A f \in Facts : r.facts[f] = [r.facts[f] EXCEPT !.applied = r.facts[f].applied]
  BY EvidenceFields DEF Evidence
<1>2. /\ r = [r EXCEPT !.ops = r.ops]
      /\ r = [r EXCEPT !.ops = r.ops, !.facts = r.facts, !.needsReconcile = r.needsReconcile]
  BY DEF Record
<1>3. r.rev \in Nat
  BY RecordFields
<1>4. QED
  BY <1>1, <1>2, <1>3 DEF Covers, Keeps, Within, Admitted

\* The fence: an execution that is gone leaves uncertain operations of an
\* earlier generation, and its failures stay counted.
LEMMA FencedKept ==
  ASSUME NEW gen \in Nat, NEW gen2 \in Nat, gen < gen2, NEW r \in Record(AnyRun),
         NEW now, Kept(gen, r)
  PROVE  LET q == FencedRecord(r, now)
         IN  Kept(gen2, q) /\ Covers(r, q) /\ Keeps(r, q) /\ Within(r, q)
<1>1. Dated(gen2, r)
  BY EvidenceFields DEF Kept, Dated
<1>2. CASE r.state # "running"
  <2>1. FencedRecord(r, now) = r
    BY <1>2 DEF FencedRecord
  <2>2. QED
    BY <1>1, <2>1, SameRecord DEF Kept
<1>3. CASE r.state = "running"
  <2> DEFINE q == FencedRecord(r, now)
  <2>1. /\ q.facts = r.facts /\ q.ops = Uncertain(r.ops) /\ q.rev = r.rev + 1
        /\ q.state = "waiting" /\ q.pauseReason = "none"
        /\ q.noProgress = r.noProgress /\ q.reconcile = r.reconcile
    BY <1>3 DEF FencedRecord, RecoveredRunningRecord, Record
  <2> HIDE DEF q
  <2>2. ASSUME NEW o \in Ops
        PROVE  /\ q.ops[o].gen = r.ops[o].gen
               /\ q.ops[o].status # "none" => r.ops[o].status # "none"
    <3>1. r.ops[o] \in Operation(AnyRun)
      BY EvidenceFields
    <3>2. q.ops[o] = [r.ops[o] EXCEPT !.status = IF r.ops[o].status = "registered"
                                                   THEN "uncertain" ELSE r.ops[o].status]
      BY <2>1 DEF Uncertain
    <3>3. QED
      BY <3>1, <3>2 DEF Operation
  <2>3. Dated(gen2, q)
    BY <2>1, <2>2, EvidenceFields DEF Kept, Dated
  <2>4. Judged(q)
    BY <1>3, <2>1 DEF Kept, Judged, Verdicts, ActiveStates
  <2>5. Rested(q) /\ Blank(q)
    BY <1>3, <2>1 DEF Kept, Rested, Blank
  <2>6. Covers(r, q)
    BY <2>1, RecordFields DEF Covers
  <2>7. Keeps(r, q)
    <3>1. \A f \in Facts : r.facts[f] = [r.facts[f] EXCEPT !.applied = r.facts[f].applied]
      BY EvidenceFields DEF Evidence
    <3>2. QED
      BY <1>3, <2>1, <3>1 DEF Keeps, Admitted, TerminalStates
  <2>8. Within(r, q)
    BY <1>3, <2>1, <2>2 DEF Within, ActiveStates
  <2>9. QED
    BY <2>3, <2>4, <2>5, <2>6, <2>7, <2>8 DEF Kept, q
<1>4. QED
  BY <1>2, <1>3

\* Two transactions in one: the final evidence of a save and its fence.
LEMMA Successive ==
  ASSUME NEW r \in Record(AnyRun), NEW m \in Record(AnyRun), NEW q \in Record(AnyRun),
         Covers(r, m), Keeps(r, m), Covers(m, q), Keeps(m, q)
  PROVE  Covers(r, q) /\ Keeps(r, q)
<1>1. r.rev \in Nat /\ m.rev \in Nat /\ q.rev \in Nat
  BY RecordFields
<1>2. Covers(r, q)
  <2>1. q.rev >= r.rev /\ (q.rev = r.rev => q.rev = m.rev /\ m.rev = r.rev)
    BY <1>1 DEF Covers
  <2>2. ASSUME m = [r EXCEPT !.ops = m.ops, !.facts = m.facts, !.needsReconcile = m.needsReconcile],
               q = [m EXCEPT !.ops = q.ops, !.facts = q.facts, !.needsReconcile = q.needsReconcile]
        PROVE  q = [r EXCEPT !.ops = q.ops, !.facts = q.facts, !.needsReconcile = q.needsReconcile]
    BY <2>2 DEF Record
  <2>3. QED
    BY <2>1, <2>2 DEF Covers
<1>3. ASSUME NEW f \in Admitted(r)
      PROVE  /\ q.facts[f] = [r.facts[f] EXCEPT !.applied = q.facts[f].applied]
             /\ r.facts[f].applied => q.facts[f].applied
  <2>1. f \in Facts /\ r.facts[f].kind # "none"
    BY DEF Admitted
  <2>2. /\ m.facts[f] = [r.facts[f] EXCEPT !.applied = m.facts[f].applied]
        /\ r.facts[f].applied => m.facts[f].applied
    BY DEF Keeps
  <2>3. r.facts[f] \in Evidence(AnyRun)
    BY <2>1, EvidenceFields
  <2>4. m.facts[f].kind = r.facts[f].kind
    BY <2>2, <2>3 DEF Evidence
  <2>5. f \in Admitted(m)
    BY <2>1, <2>4 DEF Admitted
  <2>6. /\ q.facts[f] = [m.facts[f] EXCEPT !.applied = q.facts[f].applied]
        /\ m.facts[f].applied => q.facts[f].applied
    BY <2>5 DEF Keeps
  <2>7. ASSUME NEW e \in Evidence(AnyRun), NEW b, NEW c
        PROVE  [[e EXCEPT !.applied = b] EXCEPT !.applied = c] = [e EXCEPT !.applied = c]
    BY DEF Evidence
  <2>8. QED
    BY <2>2, <2>3, <2>6, <2>7
<1>4. ASSUME r.state \in TerminalStates PROVE q = [r EXCEPT !.ops = q.ops]
  <2>1. m = [r EXCEPT !.ops = m.ops]
    BY <1>4 DEF Keeps
  <2>2. m.state = r.state
    BY <2>1 DEF Record
  <2>3. q = [m EXCEPT !.ops = q.ops]
    BY <1>4, <2>2 DEF Keeps
  <2>4. QED
    BY <2>1, <2>3 DEF Record
<1>5. QED
  BY <1>2, <1>3, <1>4 DEF Keeps

\* A transaction on one task: what it takes was nobody's.
LEMMA OneTaskKept ==
  ASSUME RecoveryInv, KeptInv, NEW t \in Tasks, NEW q,
         rec' = [rec EXCEPT ![t] = q], UNCHANGED << head, snaps >>,
         Kept(head.gen, q), Covers(rec[t], q), Keeps(rec[t], q),
         q.state \in ActiveStates =>
           rec[t].state \in ActiveStates \/ \A u \in ActiveTasks : Key[u] # Key[t],
         \A o \in Ops : q.ops[o].status # "none" =>
           rec[t].ops[o].status # "none" \/ \A u \in Tasks : rec[u].ops[o].status = "none",
         \A f \in Facts : q.facts[f].kind # "none" =>
           rec[t].facts[f].kind # "none" \/ \A u \in Tasks : rec[u].facts[f].kind = "none"
  PROVE  KeptInv' /\ \A u \in Tasks : Covers(rec[u], rec'[u]) /\ Keeps(rec[u], rec'[u])
<1>1. rec'[t] = q /\ \A u \in Tasks \ {t} : rec'[u] = rec[u]
  BY DEF RecoveryInv, TypeOK
<1>2. Apart(rec) /\ \A u \in Tasks : Kept(head.gen, rec[u])
  BY DEF KeptInv
<1>3. ASSUME NEW u \in Tasks, NEW v \in Tasks \ {u}
      PROVE  /\ {rec'[u].state, rec'[v].state} \subseteq ActiveStates => Key[u] # Key[v]
             /\ \A o \in Ops : rec'[u].ops[o].status # "none" => rec'[v].ops[o].status = "none"
             /\ \A f \in Facts : rec'[u].facts[f].kind # "none" => rec'[v].facts[f].kind = "none"
  <2>1. CASE u # t /\ v # t
    BY <1>1, <1>2, <2>1 DEF Apart
  <2>2. CASE u = t
    <3>1. rec'[u] = q /\ rec'[v] = rec[v]
      BY <1>1, <2>2
    <3>2. QED
      BY <1>2, <2>2, <3>1 DEF Apart, ActiveTasks
  <2>3. CASE v = t
    <3>1. rec'[v] = q /\ rec'[u] = rec[u]
      BY <1>1, <2>3
    <3>2. QED
      BY <1>2, <2>3, <3>1 DEF Apart, ActiveTasks
  <2>4. QED
    BY <2>1, <2>2, <2>3
<1>4. Apart(rec')
  BY <1>3 DEF Apart
<1>5. \A u \in Tasks : Kept(head.gen, rec'[u])
  BY <1>1, <1>2
<1>6. KeptInv'
  BY <1>4, <1>5 DEF KeptInv, Unborn, Apart
<1>7. ASSUME NEW u \in Tasks PROVE Covers(rec[u], rec'[u]) /\ Keeps(rec[u], rec'[u])
  <2>1. rec[u] \in Record(AnyRun)
    BY DEF RecoveryInv, TypeOK
  <2>2. QED
    BY <1>1, <2>1, SameRecord
<1>8. QED
  BY <1>6, <1>7

\* What a transaction within one run does to every record.
Evolved == \A u \in Tasks : Covers(rec[u], rec'[u]) /\ Keeps(rec[u], rec'[u])

\* Intents, operations, facts and reconciliation keep evidence and verdicts.
LEMMA RecordActionsKept ==
  ASSUME RecoveryInv, KeptInv, NEW t \in Tasks, Intents(t) \/ Facting(t)
  PROVE  KeptInv' /\ Evolved
<1>1. /\ rec[t] \in Record(AnyRun) /\ head.gen \in Nat /\ head.run \in AnyRun
      /\ Kept(head.gen, rec[t]) /\ TypeOK
  BY DEF RecoveryInv, TypeOK, HeadType, KeptInv
<1>2. ASSUME NEW q, rec' = [rec EXCEPT ![t] = q], UNCHANGED << head, snaps >>,
             Kept(head.gen, q) /\ Covers(rec[t], q) /\ Keeps(rec[t], q) /\ Within(rec[t], q)
      PROVE  KeptInv' /\ Evolved
  BY <1>2, OneTaskKept DEF Within, Evolved
<1>3. ASSUME NEW n \in Ticks, Create(t, n) PROVE KeptInv' /\ Evolved
  <2> DEFINE q == CreatedRecord(NoRun, Deadline[t], n)
  <2>1. /\ rec' = [rec EXCEPT ![t] = q] /\ UNCHANGED << head, snaps >>
        /\ rec[t].state = "absent" /\ \A u \in ActiveTasks : Key[u] # Key[t]
    BY <1>3 DEF Create
  <2>2. rec[t] = AbsentRecord(NoRun)
    BY <1>1, <2>1 DEF Kept, Blank
  <2>3. n \in Nat /\ Deadline[t] \in Nat
    BY KernelAssumption DEF Ticks
  <2>4. Kept(head.gen, q) /\ Covers(rec[t], q) /\ Keeps(rec[t], q)
    BY <1>1, <2>2, <2>3, CreatedKept
  <2>5. q.ops = rec[t].ops /\ q.facts = rec[t].facts
    BY <2>2 DEF CreatedRecord, AbsentRecord
  <2> HIDE DEF q
  <2>6. /\ q.state \in ActiveStates =>
             rec[t].state \in ActiveStates \/ \A u \in ActiveTasks : Key[u] # Key[t]
        /\ \A o \in Ops : q.ops[o].status # "none" =>
             rec[t].ops[o].status # "none" \/ \A u \in Tasks : rec[u].ops[o].status = "none"
        /\ \A f \in Facts : q.facts[f].kind # "none" =>
             rec[t].facts[f].kind # "none" \/ \A u \in Tasks : rec[u].facts[f].kind = "none"
    BY <2>1, <2>5
  <2>7. QED
    BY <2>1, <2>4, <2>6, OneTaskKept DEF Evolved
<1>4. ASSUME IntentApplies(t), NEW q,
             rec' = [rec EXCEPT ![t] = q], UNCHANGED << head, snaps >>,
             q.facts = rec[t].facts, q.ops = rec[t].ops, q.rev = rec[t].rev + 1,
             q.noProgress = 0, q.reconcile = 0, q.pauseReason = "none",
             q.state \in { "waiting", "cancelled" }
      PROVE  KeptInv' /\ Evolved
  <2>1. rec[t].state \in ActiveStates /\ Pending(rec[t]) = {}
    BY <1>4 DEF IntentApplies
  <2>2. Kept(head.gen, q) /\ Covers(rec[t], q) /\ Keeps(rec[t], q) /\ Within(rec[t], q)
    BY <1>1, <1>4, <2>1, IntentKept
  <2>3. QED
    BY <1>2, <1>4, <2>2
<1>5. ASSUME NEW n \in Ticks, ApplyIntentWait(t, n) PROVE KeptInv' /\ Evolved
  <2> DEFINE q == [AfterIntent(rec[t]) EXCEPT !.state = "waiting", !.nextWake = n]
  <2>1. rec' = [rec EXCEPT ![t] = q] /\ UNCHANGED << head, snaps >> /\ IntentApplies(t)
    BY <1>5 DEF ApplyIntentWait
  <2>2. /\ q.facts = rec[t].facts /\ q.ops = rec[t].ops /\ q.rev = rec[t].rev + 1
        /\ q.noProgress = 0 /\ q.reconcile = 0 /\ q.pauseReason = "none"
        /\ q.state = "waiting"
    BY <1>1 DEF AfterIntent, Record
  <2> HIDE DEF q
  <2>3. QED
    BY <1>4, <2>1, <2>2
<1>6. ASSUME ApplyIntentCancel(t) PROVE KeptInv' /\ Evolved
  <2> DEFINE q == [AfterIntent(rec[t]) EXCEPT !.state = "cancelled",
                       !.nextWake = NoTick, !.resultAt = head.tick]
  <2>1. rec' = [rec EXCEPT ![t] = q] /\ UNCHANGED << head, snaps >> /\ IntentApplies(t)
    BY <1>6 DEF ApplyIntentCancel
  <2>2. /\ q.facts = rec[t].facts /\ q.ops = rec[t].ops /\ q.rev = rec[t].rev + 1
        /\ q.noProgress = 0 /\ q.reconcile = 0 /\ q.pauseReason = "none"
        /\ q.state = "cancelled"
    BY <1>1 DEF AfterIntent, Record
  <2> HIDE DEF q
  <2>3. QED
    BY <1>4, <2>1, <2>2
<1>7. ASSUME Reconcile(t) PROVE KeptInv' /\ Evolved
  <2>1. PICK q \in ReconciledRecords(rec[t]) :
          /\ rec' = [rec EXCEPT ![t] = q] /\ UNCHANGED << head, snaps >>
          /\ rec[t].state \in ActiveStates
    BY <1>7 DEF Reconcile
  <2>2. Kept(head.gen, q) /\ Covers(rec[t], q) /\ Keeps(rec[t], q) /\ Within(rec[t], q)
    BY <1>1, <2>1, ReconciledKept
  <2>3. QED
    BY <1>2, <2>1, <2>2
<1>8. ASSUME NEW f \in Facts, NEW i \in Reports, AdmitEvidence(t, f, i)
      PROVE  KeptInv' /\ Evolved
  <2> DEFINE q == WithEvidence(t, f, i)
  <2>1. /\ rec' = [rec EXCEPT ![t] = q] /\ UNCHANGED << head, snaps >>
        /\ EvidenceAdmissible(t, f, i) /\ \A u \in Tasks : rec[u].facts[f].kind = "none"
    BY <1>8 DEF AdmitEvidence, EvidenceAdmissible
  <2>2. /\ Kept(head.gen, q) /\ Covers(rec[t], q) /\ Keeps(rec[t], q)
        /\ q.state = rec[t].state /\ q.ops = rec[t].ops
        /\ \A g \in Facts : g # f => q.facts[g] = rec[t].facts[g]
    BY <1>1, <2>1, AdmittedKept
  <2> HIDE DEF q
  <2>3. /\ q.state \in ActiveStates =>
             rec[t].state \in ActiveStates \/ \A u \in ActiveTasks : Key[u] # Key[t]
        /\ \A o \in Ops : q.ops[o].status # "none" =>
             rec[t].ops[o].status # "none" \/ \A u \in Tasks : rec[u].ops[o].status = "none"
        /\ \A g \in Facts : q.facts[g].kind # "none" =>
             rec[t].facts[g].kind # "none" \/ \A u \in Tasks : rec[u].facts[g].kind = "none"
    BY <2>1, <2>2
  <2>4. /\ rec' = [rec EXCEPT ![t] = q] /\ UNCHANGED << head, snaps >>
        /\ Kept(head.gen, q) /\ Covers(rec[t], q) /\ Keeps(rec[t], q)
    BY <2>1, <2>2
  <2>5. QED
    BY <2>3, <2>4, OneTaskKept DEF Evolved
<1>9. ASSUME NEW o \in Ops, NEW x \in Operation(AnyRun), Open,
             rec' = [rec EXCEPT ![t] = [rec[t] EXCEPT !.ops[o] = x]],
             UNCHANGED << head, snaps >>, rec[t].state # "absent",
             x.gen <= head.gen, x.status = "uncertain" => x.gen < head.gen,
             x.status # "none" =>
               rec[t].ops[o].status # "none" \/ \A u \in Tasks : rec[u].ops[o].status = "none"
      PROVE  KeptInv' /\ Evolved
  <2> DEFINE ops == [rec[t].ops EXCEPT ![o] = x]
             q == [rec[t] EXCEPT !.ops = ops]
  <2>1. ops \in [Ops -> Operation(AnyRun)] /\ ops[o] = x
        /\ \A p \in Ops : p # o => ops[p] = rec[t].ops[p]
    BY <1>1, <1>9, RecordFields
  <2>2. rec' = [rec EXCEPT ![t] = q] /\ q.ops = ops /\ q.state = rec[t].state
        /\ q.facts = rec[t].facts
    <3>1. [rec[t] EXCEPT !.ops[o] = x] = q
      BY <1>1 DEF Record
    <3>2. q.ops = ops /\ q.state = rec[t].state /\ q.facts = rec[t].facts
      BY <1>1 DEF Record
    <3>3. QED
      BY <1>9, <3>1, <3>2
  <2>3. Dated(head.gen, rec[t])
    BY <1>1 DEF Kept
  <2> HIDE DEF ops
  <2>4. \A p \in Ops : /\ ops[p].gen <= head.gen
                       /\ ops[p].status = "uncertain" => ops[p].gen < head.gen
    BY <1>9, <2>1, <2>3 DEF Dated
  <2>5. Kept(head.gen, q) /\ Covers(rec[t], q) /\ Keeps(rec[t], q)
    BY <1>1, <1>9, <2>1, <2>4, OperationsKept
  <2> HIDE DEF q
  <2>6. /\ q.state \in ActiveStates =>
             rec[t].state \in ActiveStates \/ \A u \in ActiveTasks : Key[u] # Key[t]
        /\ \A p \in Ops : q.ops[p].status # "none" =>
             rec[t].ops[p].status # "none" \/ \A u \in Tasks : rec[u].ops[p].status = "none"
        /\ \A g \in Facts : q.facts[g].kind # "none" =>
             rec[t].facts[g].kind # "none" \/ \A u \in Tasks : rec[u].facts[g].kind = "none"
    BY <1>9, <2>1, <2>2
  <2>7. rec' = [rec EXCEPT ![t] = q] /\ UNCHANGED << head, snaps >>
    BY <1>9, <2>2
  <2>8. QED
    BY <2>5, <2>6, <2>7, OneTaskKept DEF Evolved
<1>10. ASSUME rec[t].state = "absent", NEW o \in Ops PROVE rec[t].ops[o].status = "none"
  <2>1. rec[t] = AbsentRecord(NoRun)
    BY <1>1, <1>10 DEF Kept, Blank
  <2>2. rec[t].ops = [p \in Ops |-> NoOperation(NoRun)]
    BY <2>1 DEF AbsentRecord
  <2>3. QED
    BY <2>2 DEF NoOperation
<1>11. ASSUME NEW o \in Ops, RegisterOperation(t, o) PROVE KeptInv' /\ Evolved
  <2> DEFINE x == [ status |-> "registered", run |-> head.run, gen |-> head.gen,
                    start |-> rec[t].rev, cleanup |-> "none" ]
  <2>1. x \in Operation(AnyRun) /\ x.gen = head.gen /\ x.status = "registered"
    BY <1>1, RecordFields DEF Operation
  <2>2. /\ rec' = [rec EXCEPT ![t] = [rec[t] EXCEPT !.ops[o] = x]] /\ Open
        /\ UNCHANGED << head, snaps >> /\ rec[t].state \in ActiveStates
        /\ \A u \in Tasks : rec[u].ops[o].status = "none"
    BY <1>11 DEF RegisterOperation
  <2> HIDE DEF x
  <2>3. x.gen <= head.gen /\ x.status # "uncertain" /\ rec[t].state # "absent"
    BY <1>1, <2>1, <2>2 DEF ActiveStates
  <2>4. QED
    BY <1>9, <2>1, <2>2, <2>3
<1>12. ASSUME NEW o \in Ops, MarkOperationNotSent(t, o) PROVE KeptInv' /\ Evolved
  <2> DEFINE x == [rec[t].ops[o] EXCEPT !.status = "not_sent"]
  <2>1. rec[t].ops[o] \in Operation(AnyRun)
    BY <1>1, EvidenceFields
  <2>2. x \in Operation(AnyRun) /\ x.gen = rec[t].ops[o].gen /\ x.status = "not_sent"
    BY <2>1 DEF Operation
  <2>3. /\ rec' = [rec EXCEPT ![t] = [rec[t] EXCEPT !.ops[o] = x]] /\ Open
        /\ UNCHANGED << head, snaps >> /\ rec[t].ops[o].status = "registered"
    <3>1. [rec[t] EXCEPT !.ops[o].status = "not_sent"] = [rec[t] EXCEPT !.ops[o] = x]
      BY <1>1 DEF Record
    <3>2. QED
      BY <1>12, <3>1 DEF MarkOperationNotSent, OwnedOpen
  <2>4. rec[t].ops[o].gen <= head.gen
    BY <1>1 DEF Kept, Dated
  <2> HIDE DEF x
  <2>5. QED
    BY <1>9, <1>10, <2>2, <2>3, <2>4
<1>13. ASSUME NEW o \in Ops, NEW k \in CleanupStatuses, RecordCleanup(t, o, k)
       PROVE  KeptInv' /\ Evolved
  <2> DEFINE x == [rec[t].ops[o] EXCEPT !.cleanup = k]
  <2>1. rec[t].ops[o] \in Operation(AnyRun)
    BY <1>1, EvidenceFields
  <2>2. /\ x \in Operation(AnyRun) /\ x.gen = rec[t].ops[o].gen
        /\ x.status = rec[t].ops[o].status
    BY <2>1 DEF Operation
  <2>3. /\ rec' = [rec EXCEPT ![t] = [rec[t] EXCEPT !.ops[o] = x]] /\ Open
        /\ UNCHANGED << head, snaps >> /\ rec[t].ops[o].status # "none"
    <3>1. [rec[t] EXCEPT !.ops[o].cleanup = k] = [rec[t] EXCEPT !.ops[o] = x]
      BY <1>1 DEF Record
    <3>2. QED
      BY <1>13, <3>1 DEF RecordCleanup
  <2>4. /\ rec[t].ops[o].gen <= head.gen
        /\ rec[t].ops[o].status = "uncertain" => rec[t].ops[o].gen < head.gen
    BY <1>1 DEF Kept, Dated
  <2> HIDE DEF x
  <2>5. QED
    BY <1>9, <1>10, <2>2, <2>3, <2>4
<1>14. QED
  BY <1>3, <1>5, <1>6, <1>7, <1>8, <1>11, <1>12, <1>13 DEF Intents, Facting

\* A transaction that touches neither the records, the generation nor the
\* checkpoints.
LEMMA RecordsUntouched ==
  ASSUME RecoveryInv, KeptInv, UNCHANGED << rec, snaps >>, head'.gen = head.gen, Unborn'
  PROVE  KeptInv' /\ Evolved
<1>1. KeptInv'
  BY DEF KeptInv, Apart
<1>2. \A u \in Tasks : rec[u] \in Record(AnyRun)
  BY DEF RecoveryInv, TypeOK
<1>3. QED
  BY <1>1, <1>2, SameRecord DEF Evolved

\* The wake protocol starts and settles executions, and adds no evidence.
LEMMA DeliveryKept ==
  ASSUME RecoveryInv, KeptInv, Delivery
  PROVE  KeptInv' /\ Evolved
<1>1. TypeOK /\ \A t \in Tasks : rec[t] \in Record(AnyRun) /\ Kept(head.gen, rec[t])
  BY DEF RecoveryInv, TypeOK, KeptInv
<1>2. ASSUME UNCHANGED << head, rec, snaps >> PROVE KeptInv' /\ Evolved
  BY <1>2, RecordsUntouched DEF KeptInv, Unborn
<1>3. ASSUME NEW t \in Tasks, NEW q, rec' = [rec EXCEPT ![t] = q], UNCHANGED << head, snaps >>,
             Kept(head.gen, q) /\ Covers(rec[t], q) /\ Keeps(rec[t], q) /\ Within(rec[t], q)
      PROVE  KeptInv' /\ Evolved
  BY <1>3, OneTaskKept DEF Within, Evolved
<1>4. ASSUME NEW t \in Tasks, ClaimDue(t) PROVE KeptInv' /\ Evolved
  BY <1>2, <1>4 DEF ClaimDue
<1>5. ASSUME NEW c \in 1 .. Len(issued), MarkEnqueued(c) \/ ReleaseClaim(c)
      PROVE  KeptInv' /\ Evolved
  BY <1>2, <1>5 DEF MarkEnqueued, ReleaseClaim
<1>6. ASSUME NEW c \in 1 .. Len(issued), BeginWake(c) PROVE KeptInv' /\ Evolved
  <2> DEFINE t == issued[c].task
             r == rec[t]
             q == [rec[t] EXCEPT !.state = "running", !.rev = @ + 1, !.nextWake = NoTick]
  <2>1. t \in Tasks
    BY <1>1, ClaimFields
  <2>2. /\ rec' = [rec EXCEPT ![t] = q] /\ UNCHANGED << head, snaps >>
        /\ r.state = "waiting"
    BY <1>6 DEF BeginWake, Holds, DurableWakeRelation, LiveWakes
  <2> HIDE DEF t
  <2>3. r \in Record(AnyRun) /\ Kept(head.gen, r)
    BY <1>1, <2>1
  <2>4. /\ q.facts = r.facts /\ q.ops = r.ops /\ q.rev = r.rev + 1 /\ q.state = "running"
        /\ q.noProgress = r.noProgress /\ q.reconcile = r.reconcile
        /\ q.pauseReason = r.pauseReason
    BY <2>3 DEF Record
  <2> HIDE DEF q, r
  <2>5. Rested(q)
    BY <2>2, <2>3, <2>4 DEF Kept, Rested
  <2>6. r.state \in ActiveStates /\ q.state \in ActiveStates
    BY <2>2, <2>4 DEF ActiveStates
  <2>7. Kept(head.gen, q) /\ Covers(r, q) /\ Keeps(r, q) /\ Within(r, q)
    BY <2>3, <2>4, <2>5, <2>6, SameEvidence
  <2>8. QED
    BY <1>3, <2>1, <2>2, <2>7 DEF r
<1>7. ASSUME NEW c \in 1 .. Len(issued), NEW k \in AttemptOutcomes, FinishAttempt(c, k)
      PROVE  KeptInv' /\ Evolved
  <2> DEFINE t == issued[c].task
             q == AfterAttempt(rec[t], k)
  <2>1. t \in Tasks
    BY <1>1, ClaimFields
  <2>2. /\ rec' = [rec EXCEPT ![t] = q] /\ UNCHANGED << head, snaps >>
        /\ rec[t].state = "running"
        /\ rec[t].noProgress < MaxAttemptFailures /\ rec[t].reconcile < MaxAttemptFailures
    BY <1>7 DEF FinishAttempt
  <2> HIDE DEF t
  <2>3. Kept(head.gen, q) /\ Covers(rec[t], q) /\ Keeps(rec[t], q) /\ Within(rec[t], q)
    BY <1>1, <2>1, <2>2, AttemptKept
  <2> HIDE DEF q
  <2>4. QED
    BY <1>3, <2>1, <2>2, <2>3
<1>8. QED
  BY <1>4, <1>5, <1>6, <1>7 DEF Delivery

\* A fence of the whole working set, in a later generation.
LEMMA FencesKept ==
  ASSUME NEW gen \in Nat, NEW recs \in [Tasks -> Record(AnyRun)], NEW now,
         \A t \in Tasks : Kept(gen, recs[t])
  PROVE  LET q == FencedRecords(recs, now)
         IN  /\ Apart(recs) => Apart(q)
             /\ \A t \in Tasks : /\ Kept(gen + 1, q[t]) /\ Covers(recs[t], q[t])
                                 /\ Keeps(recs[t], q[t])
<1> DEFINE q == FencedRecords(recs, now)
<1>1. ASSUME NEW t \in Tasks
      PROVE  Kept(gen + 1, q[t]) /\ Covers(recs[t], q[t]) /\ Keeps(recs[t], q[t])
             /\ Within(recs[t], q[t])
  <2>1. q[t] = FencedRecord(recs[t], now) /\ gen + 1 \in Nat /\ gen < gen + 1
    BY DEF FencedRecords
  <2>2. QED
    BY <2>1, FencedKept
<1> HIDE DEF q
<1>2. ASSUME Apart(recs), NEW t \in Tasks, NEW u \in Tasks \ {t}
      PROVE  /\ {q[t].state, q[u].state} \subseteq ActiveStates => Key[t] # Key[u]
             /\ \A o \in Ops : q[t].ops[o].status # "none" => q[u].ops[o].status = "none"
             /\ \A f \in Facts : q[t].facts[f].kind # "none" => q[u].facts[f].kind = "none"
  <2>1. Within(recs[t], q[t]) /\ Within(recs[u], q[u])
    BY <1>1
  <2>2. /\ {recs[t].state, recs[u].state} \subseteq ActiveStates => Key[t] # Key[u]
        /\ \A o \in Ops : recs[t].ops[o].status # "none" => recs[u].ops[o].status = "none"
        /\ \A f \in Facts : recs[t].facts[f].kind # "none" => recs[u].facts[f].kind = "none"
    BY <1>2 DEF Apart
  <2>3. QED
    BY <2>1, <2>2 DEF Within
<1>3. Apart(recs) => Apart(q)
  BY <1>2 DEF Apart
<1>4. QED
  BY <1>1, <1>3 DEF q

\* Saves, activations, pauses and crashes: every one that fences moves the
\* generation, and only a restore of another run replaces records.
LEMMA WorldKept ==
  ASSUME RecoveryInv, KeptInv, Saving \/ Activation \/ Crash
  PROVE  KeptInv' /\ (head'.run = head.run => Evolved)
<1>1. /\ head \in HeadType /\ head.gen \in Nat /\ head.gen + 1 \in Nat /\ TypeOK
      /\ rec \in [Tasks -> Record(AnyRun)] /\ snaps \in [Saves -> SnapType]
      /\ \A t \in Tasks : rec[t] \in Record(AnyRun) /\ Kept(head.gen, rec[t])
      /\ Apart(rec) /\ Unborn
      /\ \A s \in Saves : snaps[s].taken =>
           \A t \in Tasks : Kept(snaps[s].gen, snaps[s].rec[t])
  BY DEF RecoveryInv, TypeOK, HeadType, KeptInv
<1>2. CASE \/ ExpireBarrier \/ DeactivateWorld \/ Crash
           \/ \E s \in Saves : FinishCheckpoint(s)
           \/ \E c \in Ticks : UpdateClock(c)
  <2>1. /\ UNCHANGED << rec, snaps >> /\ head'.gen = head.gen
        /\ head'.status = "absent" => head.status = "absent"
    BY <1>1, <1>2 DEF ExpireBarrier, DeactivateWorld, Crash, FinishCheckpoint, UpdateClock,
                      HeadType
  <2>2. Unborn'
    BY <1>1, <2>1 DEF Unborn
  <2>3. QED
    BY <2>1, <2>2, RecordsUntouched
<1>3. ASSUME NEW s \in Saves, PrepareCheckpoint(s)
      PROVE  KeptInv' /\ (head'.run = head.run => Evolved)
  <2>1. PICK recs \in FinalEvidence :
          /\ OwnedOpen
          /\ SnapshotValid(head.gen + 1, FencedRecords(recs, head.tick),
                           FencedWakes(recs, head.tick, head.gen + 1))
          /\ rec' = FencedRecords(recs, head.tick)
          /\ snaps' = [snaps EXCEPT ![s] =
               [ taken |-> TRUE, run |-> head.run, gen |-> head.gen + 1,
                 tick |-> head.tick, rec |-> rec', wake |-> wake' ]]
          /\ head' = [head EXCEPT !.gen = head.gen + 1, !.ckpt = s, !.barrier = s]
    BY <1>3 DEF PrepareCheckpoint
  <2>2. recs \in [Tasks -> Record(AnyRun)]
    BY <1>1, EvidenceType DEF FinalEvidence
  <2>3. ASSUME NEW t \in Tasks
        PROVE  Kept(head.gen, recs[t]) /\ Covers(rec[t], recs[t]) /\ Keeps(rec[t], recs[t])
    <3>1. CASE recs[t] = rec[t]
      BY <1>1, <3>1, SameRecord
    <3>2. CASE recs[t] # rec[t]
      <4>1. PICK x \in Tasks \X Facts \X Reports :
              /\ EvidenceAdmissible(x[1], x[2], x[3])
              /\ recs = [rec EXCEPT ![x[1]] = WithEvidence(x[1], x[2], x[3])]
        BY <3>2 DEF FinalEvidence
      <4>2. x[1] = t /\ x[2] \in Facts /\ x[3] \in Reports
        BY <1>1, <3>2, <4>1
      <4>3. recs[t] = WithEvidence(t, x[2], x[3]) /\ EvidenceAdmissible(t, x[2], x[3])
        BY <1>1, <4>1, <4>2
      <4>4. QED
        BY <1>1, <4>2, <4>3, AdmittedKept
    <3>3. QED
      BY <3>1, <3>2
  <2>4. ASSUME NEW t \in Tasks
        PROVE  /\ Kept(head.gen + 1, rec'[t])
               /\ Covers(rec[t], rec'[t]) /\ Keeps(rec[t], rec'[t])
    <3>1. /\ Kept(head.gen + 1, rec'[t])
          /\ Covers(recs[t], rec'[t]) /\ Keeps(recs[t], rec'[t])
      BY <1>1, <2>1, <2>2, <2>3, FencesKept
    <3>2. TypeOK'
      BY <1>1, <1>3, WorldActionsType DEF Saving
    <3>3. rec[t] \in Record(AnyRun) /\ recs[t] \in Record(AnyRun) /\ rec'[t] \in Record(AnyRun)
      BY <1>1, <2>2, <3>2 DEF TypeOK
    <3>4. QED
      BY <2>3, <3>1, <3>3, Successive
  <2>5. Apart(rec')
    BY <2>1 DEF SnapshotValid, Apart
  <2>6. head'.gen = head.gen + 1 /\ head'.status = "ready"
    BY <1>1, <2>1 DEF HeadType, OwnedOpen, Open
  <2>7. /\ snaps'[s].gen = head.gen + 1 /\ snaps'[s].rec = rec'
        /\ \A z \in Saves \ {s} : snaps'[z] = snaps[z]
    BY <1>1, <2>1
  <2>8. ASSUME NEW z \in Saves, snaps'[z].taken, NEW t \in Tasks
        PROVE  Kept(snaps'[z].gen, snaps'[z].rec[t])
    BY <1>1, <2>4, <2>7, <2>8
  <2>9. KeptInv'
    <3>1. Unborn'
      BY <2>6 DEF Unborn
    <3>2. \A t \in Tasks : Kept(head'.gen, rec'[t])
      BY <2>4, <2>6
    <3>3. QED
      BY <2>5, <2>8, <3>1, <3>2 DEF KeptInv, Apart
  <2>10. QED
    BY <2>4, <2>9 DEF Evolved
<1>4. ASSUME NEW c \in Ticks, ActivateRestart(c) \/ ActivatePaused(c)
      PROVE  KeptInv' /\ (head'.run = head.run => Evolved)
  <2>1. /\ rec' = FencedRecords(rec, c) /\ snaps' = snaps
        /\ head'.gen = head.gen + 1 /\ head'.status = "ready"
    BY <1>1, <1>4 DEF ActivateRestart, ActivatePaused, HeadType
  <2>2. /\ Apart(rec')
        /\ \A t \in Tasks : /\ Kept(head.gen + 1, rec'[t])
                            /\ Covers(rec[t], rec'[t]) /\ Keeps(rec[t], rec'[t])
    BY <1>1, <2>1, FencesKept
  <2>3. KeptInv'
    <3>1. Unborn' /\ \A t \in Tasks : Kept(head'.gen, rec'[t])
      BY <2>1, <2>2 DEF Unborn
    <3>2. QED
      BY <1>1, <2>1, <2>2, <3>1 DEF KeptInv, Apart
  <2>4. QED
    BY <2>2, <2>3 DEF Evolved
<1>5. ASSUME NEW gen \in Nat, NEW gen2 \in Nat, gen <= gen2, NEW r \in Record(AnyRun), Kept(gen, r)
      PROVE  Kept(gen2, r)
  <2>1. Dated(gen2, r)
    BY <1>5, EvidenceFields DEF Kept, Dated
  <2>2. QED
    BY <1>5, <2>1 DEF Kept
<1>6. ASSUME NEW s \in Saves, NEW r \in Runs, NEW c \in Ticks, ActivateCheckpoint(s, r, c)
      PROVE  KeptInv' /\ (head'.run = head.run => Evolved)
  <2>1. PICK gen \in Nat :
          /\ snaps[s].taken /\ snaps' = snaps /\ rec' = snaps[s].rec
          /\ head'.status = "ready" /\ head'.gen = gen /\ snaps[s].gen <= gen
          /\ head'.run # head.run
    <3>1. snaps[s].gen \in Nat
      BY <1>1 DEF SnapType
    <3>2. (IF head.gen > snaps[s].gen THEN head.gen ELSE snaps[s].gen) + 1 \in Nat
      BY <1>1, <3>1
    <3>3. QED
      BY <1>1, <1>6, <3>1, <3>2 DEF ActivateCheckpoint
  <2>2. ASSUME NEW t \in Tasks PROVE Kept(head'.gen, rec'[t])
    <3>1. snaps[s].gen \in Nat /\ snaps[s].rec[t] \in Record(AnyRun)
      BY <1>1 DEF SnapType
    <3>2. Kept(snaps[s].gen, snaps[s].rec[t])
      BY <1>1, <2>1
    <3>3. QED
      BY <1>5, <2>1, <3>1, <3>2
  <2>3. Apart(rec')
    BY <2>1 DEF RecoveryInv, Stored, SnapshotValid, Apart
  <2>4. Unborn'
    BY <2>1 DEF Unborn
  <2>5. KeptInv'
    BY <1>1, <2>1, <2>2, <2>3, <2>4 DEF KeptInv, Apart
  <2>6. QED
    BY <2>1, <2>5
<1>7. ASSUME NEW r \in Runs, NEW c \in Ticks,
             ActivateFresh(r, c) \/ PauseForCheckpointFailure(r, c)
      PROVE  KeptInv' /\ (head'.run = head.run => Evolved)
  <2>1. UNCHANGED << rec, snaps >>
    BY <1>7 DEF ActivateFresh, PauseForCheckpointFailure
  <2>2. head'.status # "absent" /\ head'.gen \in Nat /\ head.gen <= head'.gen
    <3>1. CASE head.status = "absent"
      <4>1. head'.status # "absent" /\ head'.gen = 1 /\ head.gen = 0
        BY <1>1, <1>7, <3>1 DEF ActivateFresh, PauseForCheckpointFailure, NoHead, Unborn
      <4>2. QED
        BY <4>1
    <3>2. CASE head.status # "absent"
      <4>1. head'.status = "paused" /\ head'.gen = head.gen
        BY <1>1, <1>7, <3>2 DEF ActivateFresh, PauseForCheckpointFailure, HeadType
      <4>2. QED
        BY <1>1, <4>1
    <3>3. QED
      BY <3>1, <3>2
  <2>3. \A t \in Tasks : Kept(head'.gen, rec'[t])
    BY <1>1, <1>5, <2>1, <2>2
  <2>4. KeptInv'
    BY <1>1, <2>1, <2>2, <2>3 DEF KeptInv, Apart, Unborn
  <2>5. QED
    BY <1>1, <2>1, <2>4, SameRecord DEF Evolved
<1>8. QED
  BY <1>2, <1>3, <1>4, <1>6, <1>7 DEF Saving, Activation

\* The empty store has no evidence.
LEMMA KeptInit == Init => KeptInv
<1> SUFFICES ASSUME Init PROVE KeptInv
  OBVIOUS
<1> DEFINE r == AbsentRecord(NoRun)
<1>1. /\ \A t \in Tasks : rec[t] = r
      /\ \A s \in Saves : ~snaps[s].taken
      /\ head.gen = 0
  BY DEF Init, NoSnap, NoHead
<1>2. /\ \A o \in Ops : r.ops[o].status = "none"
      /\ \A f \in Facts : r.facts[f].kind = "none"
      /\ r.state = "absent"
  BY DEF AbsentRecord, NoOperation, NoEvidence
<1>3. Kept(0, r)
  BY CreatedKept
<1> HIDE DEF r
<1>4. Apart(rec)
  BY <1>1, <1>2 DEF Apart, ActiveStates
<1>5. QED
  BY <1>1, <1>3, <1>4 DEF KeptInv, Unborn

\* Every transaction keeps evidence, verdicts and counters sound, and within one
\* run it only adds to the records.
LEMMA KeptStep ==
  ASSUME RecoveryInv, KeptInv, [Next]_vars
  PROVE  KeptInv' /\ (head'.run = head.run => Evolved)
<1>1. CASE UNCHANGED vars
  <2>1. UNCHANGED << rec, snaps, head >>
    BY <1>1 DEF vars
  <2>2. Unborn'
    BY <2>1 DEF KeptInv, Unborn
  <2>3. QED
    BY <2>1, <2>2, RecordsUntouched
<1>2. CASE Next
  BY <1>2, RecordActionsKept, DeliveryKept, WorldKept DEF Next
<1>3. QED
  BY <1>1, <1>2

\* What the proofs below rest on, in every reachable state.
LEMMA KernelKept == Spec => [](RecoveryInv /\ KeptInv)
  BY RecoveryInit, RecoveryStep, KeptInit, KeptStep, PTL DEF Spec

\* However late, repeated or out of order reports arrive, across pauses, crashes,
\* saves and restores, the verdict of a task is its earliest terminal fact, and
\* no operation or fact is dated after the generation of its world.
THEOREM KernelEvidenceSound == Spec => []EvidenceSound
  BY KernelKept, KeptSuffices, PTL

\* Within a run every transaction that changes what an intent decides on moves
\* the revision, and none takes evidence or a verdict back.
THEOREM KernelRecordsEvolve == Spec => RecordsEvolve
<1>1. ASSUME RecoveryInv, KeptInv, [Next]_vars
      PROVE  [head'.run = head.run => \A t \in Tasks : RevisionCovers(t) /\ EvidenceKept(t)]_vars
  BY <1>1, KeptStep DEF Evolved, Covers, Keeps, RevisionCovers, EvidenceKept
<1>2. QED
  BY <1>1, KernelKept, PTL DEF Spec, RecordsEvolve

\* In every state of an activated world a save could be taken, and each stored
\* checkpoint can be restored: both pass checkpointSnapshot.validate.
THEOREM KernelSnapshotsRestorable == Spec => []SnapshotsRestorable
<1>1. ASSUME RecoveryInv, KeptInv PROVE SnapshotsRestorable
  <2> DEFINE recs == FencedRecords(rec, head.tick)
             wakes == FencedWakes(rec, head.tick, head.gen + 1)
  <2>1. /\ head.gen \in Nat /\ head.gen + 1 \in Nat /\ head.tick \in Nat
        /\ rec \in [Tasks -> Record(AnyRun)]
        /\ \A t \in Tasks : /\ TaskInv(head.gen, head.inst, rec[t], wake[t])
                            /\ rec[t] \in Record(AnyRun) /\ wake[t] \in Wake
                            /\ Kept(head.gen, rec[t])
        /\ Apart(rec)
    BY <1>1 DEF RecoveryInv, Working, TypeOK, HeadType, KeptInv
  <2>2. Apart(recs)
    BY <2>1, FencesKept
  <2>3. ASSUME NEW t \in Tasks
        PROVE  /\ recs[t].state # "running"
               /\ recs[t].state # "absent" => ValidRecord(recs[t])
               /\ recs[t].state = "waiting" =>
                    /\ wakes[t].status = "pending" /\ wakes[t].gen = head.gen + 1
                    /\ TaskWakePair(recs[t], wakes[t])
               /\ recs[t].state # "waiting" => wakes[t].status = "none"
    <3> DEFINE r == rec[t]
               w == wake[t]
    <3>1. /\ recs[t] = FencedRecord(r, head.tick)
          /\ wakes[t] = FencedWake(r, w, head.tick, head.gen + 1)
          /\ r \in Record(AnyRun) /\ w \in Wake /\ TaskInv(head.gen, head.inst, r, w)
      BY <2>1 DEF FencedRecords, FencedWakes
    <3> HIDE DEF r, w, recs, wakes
    <3>2. CASE r.state = "running"
      <4>1. /\ recs[t] = RecoveredRunningRecord(r, head.tick)
            /\ wakes[t] = PendingWake(r.rev + 1, RecoveryDue(r, head.tick), head.gen + 1)
        BY <3>1, <3>2 DEF FencedRecord, FencedWake
      <4>2. TaskWakePair(recs[t], wakes[t])
        BY <2>1, <3>1, <3>2, <4>1, RecoveredSound DEF TaskInv
      <4>3. recs[t].state = "waiting"
        BY <3>1, <4>1 DEF RecoveredRunningRecord, Record
      <4>4. wakes[t].status = "pending" /\ wakes[t].gen = head.gen + 1
        BY <4>1 DEF PendingWake
      <4>5. QED
        BY <4>2, <4>3, <4>4 DEF TaskWakePair
    <3>3. CASE r.state = "waiting"
      <4>1. recs[t] = r /\ wakes[t] = PendingWake(w.exp, w.due, head.gen + 1)
        BY <3>1, <3>3 DEF FencedRecord, FencedWake
      <4>2. /\ wakes[t].status = "pending" /\ wakes[t].gen = head.gen + 1
            /\ wakes[t].exp = w.exp /\ wakes[t].due = w.due
        BY <4>1 DEF PendingWake
      <4>3. /\ ValidRecord(r) /\ w.due <= r.deadline /\ r.nextWake = w.due /\ r.rev = w.exp
        BY <3>1, <3>3 DEF TaskInv, Plannable, DurableWakeRelation, LiveWakes
      <4>4. QED
        BY <3>3, <4>1, <4>2, <4>3 DEF TaskWakePair
    <3>4. CASE r.state \notin { "running", "waiting" }
      <4>1. recs[t] = r /\ wakes[t] = w
        BY <3>1, <3>4 DEF FencedRecord, FencedWake
      <4>2. r.state \in TerminalStates \cup { "paused", "absent" }
        BY <3>1, <3>4 DEF Record, ActiveStates
      <4>3. QED
        BY <3>1, <3>4, <4>1, <4>2 DEF TaskInv, Plannable
    <3>5. QED
      BY <3>2, <3>3, <3>4
  <2> HIDE DEF recs, wakes
  <2>4. SnapshotValid(head.gen + 1, recs, wakes)
    BY <2>2, <2>3 DEF SnapshotValid, Apart
  <2>5. Stored
    BY <1>1 DEF RecoveryInv
  <2>6. QED
    BY <2>4, <2>5 DEF SnapshotsRestorable, Stored, recs, wakes
<1>2. QED
  BY <1>1, KernelKept, PTL

-----------------------------------------------------------------------------
(* Executions settle.                                                       *)

\* A nonempty set has a member of least measure.
LEMMA LeastOf ==
  ASSUME NEW S, S # {}, NEW m, \A x \in S : m[x] \in Nat
  PROVE  \E x \in S : \A y \in S : m[x] <= m[y]
<1> DEFINE N == { m[x] : x \in S }
<1>1. N \in SUBSET Nat /\ N # {}
  OBVIOUS
<1>2. PICK n \in N : \A k \in N : ~(<< k, n >> \in OpToRel(<, Nat))
  BY <1>1, NatLessThanWellFounded, WFMin
<1>3. \A k \in N : ~(k < n) /\ k \in Nat /\ n \in Nat
  BY <1>1, <1>2 DEF OpToRel
<1>4. PICK x \in S : m[x] = n
  OBVIOUS
<1>5. ASSUME NEW y \in S PROVE m[x] <= m[y]
  <2>1. m[y] \in N
    OBVIOUS
  <2> HIDE DEF N
  <2>2. QED
    BY <1>3, <1>4, <2>1
<1>6. QED
  BY <1>5

\* Reconcile always finds its terminal fact, its wait, or neither.
LEMMA ReconcileDecides ==
  ASSUME NEW r \in Record(AnyRun)
  PROVE  ReconciledRecords(r) # {}
<1>1. ASSUME NEW f \in Pending(r) PROVE f \in Facts /\ f \in Nat /\ r.facts[f] \in Evidence(AnyRun)
  BY RecordAssumption, EvidenceFields DEF Pending, Admitted
<1>2. ASSUME TerminalPending(r) # {} PROVE \E f \in Facts : IsTerminalChoice(r, f)
  <2> DEFINE S == TerminalPending(r)
             at == [f \in S |-> r.facts[f].at]
             rank == [f \in S |-> KindPriority(r.facts[f].kind)]
             id == [f \in S |-> f]
  <2>1. ASSUME NEW f \in S
        PROVE  /\ f \in Facts /\ at[f] = r.facts[f].at /\ rank[f] = KindPriority(r.facts[f].kind)
               /\ id[f] = f /\ at[f] \in Nat /\ rank[f] \in Nat /\ id[f] \in Nat
               /\ r.facts[f].kind \in TerminalKinds
    <3>1. f \in Pending(r) /\ r.facts[f].kind \in TerminalKinds
      BY DEF TerminalPending
    <3>2. r.facts[f].at \in Nat /\ f \in Nat /\ f \in Facts
      BY <1>1, <3>1, EvidenceFields
    <3>3. KindPriority(r.facts[f].kind) \in Nat
      BY DEF KindPriority
    <3>4. QED
      BY <3>1, <3>2, <3>3
  <2> HIDE DEF at, rank, id
  <2>2. PICK a \in S : \A g \in S : at[a] <= at[g]
    BY <1>2, <2>1, LeastOf
  <2> DEFINE A == { g \in S : at[g] = at[a] }
  <2>3. PICK b \in A : \A g \in A : rank[b] <= rank[g]
    <3>1. A # {} /\ \A g \in A : rank[g] \in Nat
      BY <2>1
    <3>2. QED
      BY <3>1, LeastOf
  <2> DEFINE B == { g \in A : rank[g] = rank[b] }
  <2>4. PICK f \in B : \A g \in B : id[f] <= id[g]
    <3>1. B # {} /\ \A g \in B : id[g] \in Nat
      BY <2>1
    <3>2. QED
      BY <3>1, LeastOf
  <2>5. f \in S /\ at[f] = at[a] /\ rank[f] = rank[b]
    BY <2>4
  <2>6. ASSUME NEW g \in S PROVE TerminalBefore(r, f, g)
    <3>1. at[a] \in Nat /\ at[g] \in Nat /\ at[a] <= at[g]
      BY <2>1, <2>2
    <3>2. at[f] < at[g] \/ at[f] = at[g]
      BY <2>5, <3>1
    <3>3. ASSUME at[f] = at[g]
          PROVE  rank[f] < rank[g] \/ (rank[f] = rank[g] /\ id[f] <= id[g])
      <4>1. g \in A
        BY <2>5, <3>3
      <4>2. rank[b] <= rank[g] /\ rank[b] \in Nat /\ rank[g] \in Nat
        BY <2>1, <2>3, <4>1
      <4>3. rank[g] = rank[b] => id[f] <= id[g]
        BY <2>4, <4>1
      <4>4. QED
        BY <2>5, <4>2, <4>3
    <3>4. rank[f] = rank[g] => r.facts[f].kind = r.facts[g].kind
      BY <2>1, <2>5 DEF KindPriority, TerminalKinds
    <3>5. QED
      BY <2>1, <2>5, <3>2, <3>3, <3>4 DEF TerminalBefore
  <2>7. QED
    BY <2>1, <2>5, <2>6 DEF IsTerminalChoice
<1>3. ASSUME WaitPending(r) # {} PROVE \E f \in Facts : IsWaitChoice(r, f)
  <2> DEFINE S == WaitPending(r)
             until == [f \in S |-> r.facts[f].until]
  <2>1. ASSUME NEW f \in S PROVE f \in Facts /\ until[f] = r.facts[f].until /\ until[f] \in Nat
    BY <1>1 DEF WaitPending, Evidence, Tick
  <2> HIDE DEF until
  <2>2. PICK f \in S : \A g \in S : until[f] <= until[g]
    BY <1>3, <2>1, LeastOf
  <2>3. QED
    BY <2>1, <2>2 DEF IsWaitChoice
<1>4. QED
  BY <1>2, <1>3 DEF ReconciledRecords

\* What Reconcile writes passes Record.Validate.
LEMMA ReconciledValid ==
  ASSUME NEW r \in Record(AnyRun), NEW q \in ReconciledRecords(r),
         ValidRecord(r), r.state \in ActiveStates
  PROVE  ValidRecord(q)
<1>1. /\ q.ops = r.ops /\ q.rev = r.rev + 1 /\ q.facts = Applied(r.facts)
      /\ q.deadline = r.deadline /\ ~q.needsReconcile
      /\ \/ \E f \in Facts : /\ IsTerminalChoice(r, f) /\ q.resultFact = f
                             /\ q.resultAt = r.facts[f].at /\ q.nextWake = NoTick
                             /\ q.state = TerminalState(r.facts[f].kind)
         \/ /\ TerminalPending(r) = {} /\ q.state \in { "waiting", "running" }
            /\ q.resultFact = r.resultFact /\ q.resultAt = r.resultAt
  BY ReconciledFields
<1>2. r.rev \in Nat /\ r.rev > 0
  BY RecordFields DEF ValidRecord
<1>3. ASSUME NEW f \in Facts
      PROVE  /\ q.facts[f].kind = r.facts[f].kind /\ q.facts[f].at = r.facts[f].at
             /\ q.facts[f].gen = r.facts[f].gen /\ q.facts[f].reval = r.facts[f].reval
             /\ q.facts[f].op = r.facts[f].op /\ q.facts[f].until = r.facts[f].until
             /\ q.facts[f].run = r.facts[f].run /\ q.facts[f].start = r.facts[f].start
             /\ q.facts[f].applied <=> r.facts[f].kind # "none"
  BY <1>1, AppliedFields
<1>4. Admitted(q) = Admitted(r) /\ Pending(q) = {}
  BY <1>3 DEF Admitted, Pending
<1>5. \A o \in Ops : q.ops[o].status # "none" => q.ops[o].start <= q.rev
  <2>1. ASSUME NEW o \in Ops, r.ops[o].status # "none" PROVE r.ops[o].start <= r.rev + 1
    <3>1. r.ops[o].start <= r.rev /\ r.ops[o].start \in Nat
      BY <2>1, EvidenceFields DEF ValidRecord, Operation
    <3>2. QED
      BY <1>2, <3>1
  <2>2. QED
    BY <1>1, <2>1
<1>6. ASSUME NEW f \in Admitted(q) PROVE ValidEvidence(q, f)
  <2>1. f \in Facts /\ f \in Admitted(r)
    BY <1>4 DEF Admitted
  <2>2. ValidEvidence(r, f)
    BY <2>1 DEF ValidRecord
  <2>3. r.facts[f].start \in Nat
    BY <2>1, EvidenceFields DEF Evidence
  <2>4. q.facts[f].start <= q.rev
    BY <1>1, <1>2, <1>3, <2>1, <2>2, <2>3 DEF ValidEvidence
  <2>5. QED
    BY <1>1, <1>3, <2>1, <2>2, <2>4 DEF ValidEvidence
<1>7. ValidResult(q) /\ (q.state \in TerminalStates => q.nextWake = NoTick)
  <2>1. CASE \E f \in Facts : /\ IsTerminalChoice(r, f) /\ q.resultFact = f
                              /\ q.resultAt = r.facts[f].at /\ q.nextWake = NoTick
                              /\ q.state = TerminalState(r.facts[f].kind)
    <3>1. PICK f \in Facts : /\ IsTerminalChoice(r, f) /\ q.resultFact = f
                             /\ q.resultAt = r.facts[f].at /\ q.nextWake = NoTick
                             /\ q.state = TerminalState(r.facts[f].kind)
      BY <2>1
    <3>2. r.facts[f].kind \in TerminalKinds
      BY <3>1 DEF IsTerminalChoice, TerminalPending
    <3>3. q.resultAt # NoTick /\ f # NoFact
      BY <3>1, EvidenceFields, RecordAssumption DEF NoTick, NoFact
    <3>4. q.facts[f].kind = r.facts[f].kind /\ q.facts[f].applied /\ q.facts[f].at = q.resultAt
      BY <1>3, <3>1, <3>2 DEF TerminalKinds
    <3>5. QED
      BY <3>1, <3>2, <3>3, <3>4 DEF ValidResult, TerminalState, TerminalStates, TerminalKinds
  <2>2. CASE /\ q.state \in { "waiting", "running" }
             /\ q.resultFact = r.resultFact /\ q.resultAt = r.resultAt
    <3>1. ValidResult(r) /\ r.state \notin TerminalStates
      BY DEF ValidRecord, ActiveStates, TerminalStates
    <3>2. r.resultFact # NoFact => r.resultFact \in Facts
      BY DEF Record
    <3>3. r.resultFact # NoFact =>
            q.facts[r.resultFact].kind # "none" /\ q.facts[r.resultFact].applied
      BY <1>3, <3>1, <3>2 DEF ValidResult
    <3>4. QED
      BY <2>2, <3>1, <3>3 DEF ValidResult, TerminalStates
  <2>3. QED
    BY <1>1, <2>1, <2>2
<1>8. \A o \in Ops : q.ops[o].cleanup # "none" => q.ops[o].status # "none"
  BY <1>1 DEF ValidRecord
<1>9. QED
  BY <1>1, <1>2, <1>4, <1>5, <1>6, <1>7, <1>8 DEF ValidRecord

\* So does a report of progress, when no evidence is pending.
LEMMA ProgressValid ==
  ASSUME NEW r \in Record(AnyRun), ValidRecord(r), r.state = "running", Pending(r) = {}
  PROVE  ValidRecord(AfterAttempt(r, "progress"))
<1> DEFINE q == AfterAttempt(r, "progress")
<1>1. /\ q.facts = r.facts /\ q.ops = r.ops /\ q.rev = r.rev + 1 /\ q.deadline = r.deadline
      /\ q.resultFact = r.resultFact /\ q.resultAt = r.resultAt /\ q.state \in { r.state, "paused" }
  BY AttemptFields DEF AttemptOutcomes
<1> HIDE DEF q
<1>2. r.rev \in Nat /\ r.rev > 0
  BY RecordFields DEF ValidRecord
<1>3. Admitted(q) = Admitted(r) /\ Pending(q) = {}
  BY <1>1 DEF Admitted, Pending
<1>4. ASSUME NEW o \in Ops, r.ops[o].status # "none" PROVE r.ops[o].start <= r.rev + 1
  <2>1. r.ops[o].start <= r.rev /\ r.ops[o].start \in Nat
    BY <1>4, EvidenceFields DEF ValidRecord, Operation
  <2>2. QED
    BY <1>2, <2>1
<1>5. ASSUME NEW f \in Admitted(q) PROVE ValidEvidence(q, f)
  <2>1. f \in Facts /\ ValidEvidence(r, f)
    BY <1>3 DEF Admitted, ValidRecord
  <2>2. r.facts[f].start <= r.rev + 1
    <3>1. r.facts[f].start <= r.rev /\ r.facts[f].start \in Nat
      BY <2>1, EvidenceFields DEF ValidEvidence, Evidence
    <3>2. QED
      BY <1>2, <3>1
  <2>3. QED
    BY <1>1, <2>1, <2>2 DEF ValidEvidence
<1>6. ValidResult(q) /\ q.state \notin TerminalStates
  BY <1>1 DEF ValidRecord, ValidResult, TerminalStates
<1>7. ValidRecord(q)
  BY <1>1, <1>2, <1>3, <1>4, <1>5, <1>6 DEF ValidRecord
<1>8. QED
  BY <1>7 DEF q

\* An execution that holds its running wake can always be brought to an end, and
\* a task rests in a pause exactly when a failure counter reached its limit.
THEOREM KernelAttemptsSettle == Spec => []AttemptsSettle
<1>1. ASSUME RecoveryInv, KeptInv PROVE AttemptsSettle
  <2>1. ASSUME NEW t \in Tasks, wake[t].status = "running"
        PROVE  /\ rec[t].pauseReason = "none"
               /\ rec[t].noProgress < MaxAttemptFailures
               /\ rec[t].reconcile < MaxAttemptFailures
               /\ \/ \E k \in AttemptOutcomes :
                       OutcomeFits(rec[t], k) /\ ValidRecord(AfterAttempt(rec[t], k))
                  \/ /\ Pending(rec[t]) # {}
                     /\ \E q \in ReconciledRecords(rec[t]) : ValidRecord(q)
    <3> DEFINE r == rec[t]
    <3>1. /\ r \in Record(AnyRun) /\ Rested(r)
          /\ TaskInv(head.gen, head.inst, r, wake[t])
      BY <1>1 DEF RecoveryInv, TypeOK, Working, KeptInv, Kept
    <3> HIDE DEF r
    <3>2. r.state = "running" /\ ValidRecord(r)
      BY <2>1, <3>1 DEF TaskInv, Plannable, DurableWakeRelation, LiveWakes
    <3>3. /\ r.pauseReason = "none"
          /\ r.noProgress < MaxAttemptFailures /\ r.reconcile < MaxAttemptFailures
      BY <3>1, <3>2, RecordFields DEF Rested, MaxAttemptFailures
    <3>4. CASE Pending(r) = {}
      <4>1. OutcomeFits(r, "progress") /\ "progress" \in AttemptOutcomes
        BY DEF OutcomeFits, AttemptOutcomes
      <4>2. QED
        BY <3>1, <3>2, <3>3, <3>4, <4>1, ProgressValid DEF r
    <3>5. CASE Pending(r) # {}
      <4>1. PICK q \in ReconciledRecords(r) : TRUE
        BY <3>1, ReconcileDecides
      <4>2. ValidRecord(q)
        BY <3>1, <3>2, ReconciledValid DEF ActiveStates
      <4>3. QED
        BY <3>3, <3>5, <4>2 DEF r
    <3>6. QED
      BY <3>4, <3>5
  <2>2. ExecutionCanSettle
    BY <2>1 DEF ExecutionCanSettle
  <2>3. QED
    BY <1>1, <2>2, KeptSuffices DEF AttemptsSettle
<1>2. QED
  BY <1>1, KernelKept, PTL
=============================================================================
