----------------------------- MODULE TaskAction -----------------------------
(* The action of one task on one Adapter stream: streamEnvironment with its  *)
(* send slot and pending tables, registration and guarded hand-over of the   *)
(* action, evidence admission, the end of the execution and the release of   *)
(* the operation.  "lane" runs the turn of a task wake, "back" the           *)
(* observation sweep after a save; a third goroutine receives.               *)
(* Every wait has a context that may expire at any time, except that of      *)
(* CancelAction.  A technical retry is a stutter, or a commit before it.     *)
EXTENDS Naturals

CONSTANTS MaxGen,       \* bound on the generations of the world
          MaxFailures   \* maxConsecutiveAttemptFailures

ASSUME ActionAssumption == MaxGen \in Nat \ {0} /\ MaxFailures \in Nat \ {0}

Procs == { "lane", "back" }
NoProc == "nobody"

VARIABLES
    rec,        \* the task and its one operation in the store
    world,      \* generation, admission, and whether the environment is closed
    slot,       \* sendSlot and the message that occupies it
    game,       \* requests the Adapter has and may answer
    pa,         \* the entry of pendingActions and its two channels
    po,         \* the entries of pendingObservations
    ctl,        \* pendingTaskControl, by the goroutine that made it
    releases,   \* the maker of the entry of taskReleases
    loc,        \* where each goroutine is
    handed,     \* history: the action was handed to the transport
    conflict    \* history: RecordCleanup met a different record

pending == << pa, po, ctl, releases >>
history == << handed, conflict >>
vars == << rec, world, slot, game, pending, loc, history >>

Settled == rec.state = "settled"
Current(g) == world.ready /\ world.gen = g

\* taskOperationAwaitingEvidence
AwaitsEvidence == rec.op \notin { "none", "not_sent" } /\ rec.fact # "applied"

Free == [ at |-> "free", msg |-> << >> ]
NoAction == [ open |-> FALSE, updated |-> FALSE, result |-> "none" ]
NoOutcome == [ status |-> "none", reason |-> "none", obsolete |-> FALSE ]
NoControl == [ listed |-> FALSE, done |-> FALSE, result |-> "none", out |-> NoOutcome ]

Go(p, l) == loc' = [loc EXCEPT ![p] = l]
Frames == { "turn", "finish", "finishAction", "finishObserve", "queried", "end", "done" }

\* A goroutine outside every call.
Resting(pc, g) ==
    [ pc |-> pc, gen |-> g, want |-> "none", await |-> "none", active |-> FALSE,
      ret |-> "done", fail |-> "done", reason |-> "none", skip |-> FALSE,
      with |-> NoProc, got |-> NoOutcome ]

\* A goroutine that returns to its frame forgets the call.
At(p, pc) == IF pc \in Frames THEN Resting(pc, loc[p].gen) ELSE [loc[p] EXCEPT !.pc = pc]

-----------------------------------------------------------------------------
(* sendGuarded: one message at a time.                                       *)

Send(p, want, await) == [loc[p] EXCEPT !.pc = "slot", !.want = want, !.await = await]

\* guardActionSend, under the mutex of the world.
ActionMayGo ==
    /\ Current(rec.opGen)
    /\ rec.state = "running" /\ rec.op = "registered"
    /\ ~rec.moved /\ ~rec.needs /\ rec.fact # "pending"

\* What makes a control request obsolete when it is handed over.
ControlObsolete(p) ==
    \/ ~Settled /\ (ctl[p].out.reason = "task_terminal" \/ rec.state = "waiting")
    \/ rec.cleanup.status # "none"
    \/ rec.op = "not_sent"

MayGo(p) ==
    /\ loc[p].want = "action" => ActionMayGo
    /\ loc[p].want = "control" => Current(loc[p].gen) /\ ~ControlObsolete(p)

\* The maker of a control request is done with it and tells those who joined.
\* An obsolete one leaves taskReleases.
Complete(p, status, obsolete) ==
    LET out == [ctl[p].out EXCEPT !.status = status, !.obsolete = obsolete]
        next(q) == IF obsolete THEN loc[q].ret ELSE "persist"
    IN  /\ ctl' = [ctl EXCEPT ![p] = [@ EXCEPT !.listed = FALSE, !.done = TRUE, !.out = out]]
        /\ releases' = IF obsolete THEN NoProc ELSE releases
        /\ loc' = [q \in Procs |->
             IF q = p \/ (loc[q].pc = "join" /\ loc[q].with = p)
               THEN [At(q, next(q)) EXCEPT !.got = IF obsolete THEN NoOutcome ELSE out]
               ELSE loc[q]]

\* transportNotStartedError ...
NotStarted(p, obsolete) ==
    CASE loc[p].want = "action" ->
           Go(p, At(p, "unsent")) /\ UNCHANGED pending
      [] loc[p].want = "observe" ->
           /\ Go(p, At(p, loc[p].fail))
           /\ po' = [po EXCEPT ![p] = "none"]
           /\ UNCHANGED << pa, ctl, releases >>
      [] loc[p].want = "control" ->
           Complete(p, "unconfirmed", obsolete) /\ UNCHANGED << pa, po >>
      [] loc[p].want = "cancel" ->
           Go(p, At(p, "finishAction")) /\ UNCHANGED pending

\* Faulty variant: every failure is recorded as not sent.
SendFailedUnsent(p) == NotStarted(p, FALSE)

\* ... or the transport has started, and the message may have gone.
SendFailed(p) ==
    IF loc[p].want = "action"
      THEN /\ Go(p, At(p, "finishAction"))
           /\ pa' = NoAction
           /\ UNCHANGED << po, ctl, releases >>
      ELSE NotStarted(p, FALSE)

\* Faulty variant: closing the environment ends no wait.
ExpiresAlone(p) == loc[p].want # "cancel"

\* CancelAction sends with a background context: only close ends its waits.
Expires(p) == loc[p].want # "cancel" \/ world.closed

SlotExpires(p) ==
    /\ loc[p].pc = "slot" /\ Expires(p)
    /\ NotStarted(p, FALSE)
    /\ UNCHANGED << rec, world, slot, game, history >>

TakeSlot(p) ==
    /\ loc[p].pc = "slot" /\ slot = Free
    /\ slot' = [at |-> "guard", msg |-> << loc[p].want, p >>]
    /\ Go(p, At(p, "guard"))
    /\ UNCHANGED << rec, world, game, pending, history >>

Start(p) ==
    /\ loc[p].pc = "guard"
    /\ \/ /\ ~world.closed /\ MayGo(p)
          /\ slot' = [slot EXCEPT !.at = "transport"]
          /\ handed' = (handed \/ loc[p].want = "action")
          /\ ctl' = IF loc[p].want = "control" /\ Settled
                      THEN [ctl EXCEPT ![p].out.reason = "task_terminal"] ELSE ctl
          /\ Go(p, At(p, "sending"))
          /\ UNCHANGED << pa, po, releases >>
       \/ /\ Expires(p) \/ ~MayGo(p)
          /\ slot' = Free
          /\ NotStarted(p, /\ loc[p].want = "control"
                           /\ Current(loc[p].gen) /\ ControlObsolete(p))
          /\ UNCHANGED handed
    /\ UNCHANGED << rec, world, game, conflict >>

\* The transport goroutine; its caller may have left.
Transport ==
    LET p == slot.msg[2]
        tell(pc) == loc' = [loc EXCEPT ![p].pc = IF @ = "sending" THEN pc ELSE @]
    IN  /\ slot.at = "transport"
        /\ slot' = Free
        /\ \/ /\ game' = IF slot.msg[1] = "cancel" THEN game ELSE game \cup { slot.msg }
              /\ tell("sent")
           \/ tell("failed") /\ UNCHANGED game
        /\ UNCHANGED << rec, world, pending, history >>

SendEnds(p) ==
    /\ \/ /\ loc[p].pc = "sent"
          /\ Go(p, At(p, loc[p].await))
          /\ UNCHANGED pending
       \/ /\ loc[p].pc = "failed" \/ (loc[p].pc = "sending" /\ Expires(p))
          /\ SendFailed(p)
    /\ UNCHANGED << rec, world, slot, game, history >>

-----------------------------------------------------------------------------
(* The turn of the task wake.                                                *)

\* RegisterTaskAction, then SubmitAction or StartAction.
RegisterTaskAction ==
    /\ loc["lane"].pc = "turn" /\ rec.op = "none"
    /\ \/ /\ Current(loc["lane"].gen)
          /\ rec.state = "running" /\ ~rec.needs
          /\ rec' = [rec EXCEPT !.op = "registered", !.opGen = world.gen, !.moved = FALSE]
          /\ \/ /\ \E await \in { "starting", "acting" } :
                     Go("lane", Send("lane", "action", await))
                /\ pa' = [NoAction EXCEPT !.open = TRUE]
             \/ Go("lane", At("lane", "finishAction")) /\ UNCHANGED pa  \* the answer is lost
       \/ Go("lane", At("lane", "finishAction")) /\ UNCHANGED << rec, pa >>
    /\ UNCHANGED << world, slot, game, po, ctl, releases, history >>

\* recordUnsentTaskAction; the transaction may fail.
RecordUnsent ==
    /\ loc["lane"].pc = "unsent"
    /\ \/ /\ world.gen = rec.opGen /\ world.open
          /\ rec.op = "registered" /\ rec.fact = "none"
          /\ rec' = [rec EXCEPT !.op = "not_sent"]
       \/ UNCHANGED rec
    /\ pa' = NoAction
    /\ Go("lane", At("lane", "finishAction"))
    /\ UNCHANGED << world, slot, game, po, ctl, releases, history >>

Started ==
    /\ loc["lane"].pc = "starting" /\ pa.updated
    /\ Go("lane", At("lane", "acting"))
    /\ UNCHANGED << rec, world, slot, game, pending, history >>

\* A result is taken from its channel, or the wait ends and the game is told.
ActionEnds ==
    /\ loc["lane"].pc \in { "starting", "acting" }
    /\ \/ /\ pa.result = "plain" /\ Go("lane", At("lane", "turn"))
       \/ /\ pa.result = "fact"
          /\ Go("lane", [loc["lane"] EXCEPT !.pc = "admit", !.active = FALSE,
                                           !.ret = "turn", !.fail = "finishAction"])
       \/ Go("lane", Send("lane", "cancel", "finishAction"))
    /\ pa' = NoAction
    /\ UNCHANGED << rec, world, slot, game, po, ctl, releases, history >>

ReleaseThen(p, reason, ret, r, g) ==
    [loc[p] EXCEPT !.pc = "release", !.reason = reason, !.ret = ret, !.gen = g,
                   !.skip = r.op \in { "none", "not_sent" } \/ r.cleanup.status # "none"]

\* The turn waits or cancels its own task; a cancelled one is released.
TurnIntent ==
    /\ loc["lane"].pc = "turn" /\ Current(loc["lane"].gen)
    /\ rec.state = "running" /\ ~rec.needs /\ rec.fact # "pending"
    /\ \E st \in { "waiting", "settled" } :
         /\ rec' = [rec EXCEPT !.state = st, !.moved = TRUE, !.np = 0, !.rc = 0]
         /\ Go("lane", IF st = "waiting" THEN At("lane", "finish")
                       ELSE ReleaseThen("lane", "task_terminal", "finish", rec, world.gen))
    /\ UNCHANGED << world, slot, game, pending, history >>

TurnEnds ==
    /\ loc["lane"].pc = "turn"
    /\ \E pc \in { "finish", "finishObserve" } : Go("lane", At("lane", pc))
    /\ UNCHANGED << rec, world, slot, game, pending, history >>

-----------------------------------------------------------------------------
(* Observations and evidence.                                                *)

Observe(p, l) ==
    /\ Go(p, [l EXCEPT !.pc = "slot", !.want = "observe", !.await = "observing",
                       !.active = TRUE])
    /\ po' = [po EXCEPT ![p] = "open"]

\* reobserveSavedOperations
Sweep ==
    /\ loc["back"].pc = "idle"
    /\ \/ /\ Current(loc["back"].gen) /\ ~Settled
          /\ Observe("back", [loc["back"] EXCEPT !.ret = "done", !.fail = "done"])
       \/ Go("back", At("back", "done")) /\ UNCHANGED po
    /\ UNCHANGED << rec, world, slot, game, pa, ctl, releases, history >>

Observed(p) ==
    /\ loc[p].pc = "observing"
    /\ Go(p, At(p, CASE po[p] = "plain" -> loc[p].ret
                     [] po[p] = "fact" -> "admit"
                     [] OTHER -> loc[p].fail))           \* an error, or no answer
    /\ po' = [po EXCEPT ![p] = "none"]
    /\ UNCHANGED << rec, world, slot, game, pa, ctl, releases, history >>

\* A fact of this run whose operation is of the current binding, or which the
\* game confirmed in answer to an active query.
Admissible(active) ==
    /\ world.ready
    /\ rec.op \in { "registered", "uncertain" }
    /\ rec.fact = "none" =>
         /\ ~Settled
         /\ rec.opGen = world.gen \/ active

AdmittedRec == IF rec.fact = "none" THEN [rec EXCEPT !.fact = "pending", !.needs = TRUE] ELSE rec

AdmitTaskEvidence(p) ==
    /\ loc[p].pc = "admit"
    /\ \/ /\ Admissible(loc[p].active)
          /\ rec' = AdmittedRec
          /\ Go(p, At(p, "reconcile"))
       \/ Go(p, At(p, loc[p].fail)) /\ UNCHANGED rec
    /\ UNCHANGED << world, slot, game, pending, history >>

\* The receive loop admits the evidence of an event itself.
EventEvidence ==
    /\ handed /\ Admissible(FALSE)
    /\ rec' = AdmittedRec
    /\ rec' # rec
    /\ UNCHANGED << world, slot, game, pending, loc, history >>

\* reconcileTaskIDs under retryTaskWork: the pending fact settles the task, or
\* makes it wait, or is progress.  Exhausted retries pause the world.
ReconcileTask(p) ==
    /\ loc[p].pc = "reconcile"
    /\ \/ /\ world.ready
          /\ IF rec.fact = "pending" /\ ~Settled
               THEN \E st \in { "settled", "waiting", "running" } :
                      rec' = [rec EXCEPT !.state = st, !.fact = "applied", !.moved = TRUE,
                                         !.needs = FALSE, !.np = 0, !.rc = 0]
               ELSE UNCHANGED rec
          /\ \/ UNCHANGED loc               \* committed; the answer is lost
             \/ Go(p, IF rec'.state = "settled"
                        THEN ReleaseThen(p, "task_terminal", loc[p].ret, rec', world.gen)
                        ELSE At(p, loc[p].ret))
          /\ UNCHANGED world
       \/ /\ Go(p, At(p, loc[p].fail))
          /\ world' = [world EXCEPT !.ready = FALSE, !.open = @ /\ ~world.ready]
          /\ UNCHANGED rec
    /\ UNCHANGED << slot, game, pending, history >>

-----------------------------------------------------------------------------
(* finishTaskExecution                                                       *)

Finishing == { "finish", "finishAction", "finishObserve" }

Query == Observe("lane", [loc["lane"] EXCEPT !.ret = "queried", !.fail = "finishObserve"])

\* queryTask reads the task again.
Queried ==
    /\ loc["lane"].pc = "queried"
    /\ Go("lane", At("lane", IF AwaitsEvidence THEN "finishObserve" ELSE "finish"))
    /\ UNCHANGED << rec, world, slot, game, pending, history >>

\* Every iteration reads the task before it decides.
FinishReads ==
    LET l == loc["lane"]
    IN  /\ l.pc \in Finishing
        /\ \/ /\ ~Current(l.gen) \/ rec.state \in { "waiting", "paused" }
              /\ Go("lane", At("lane", "end")) /\ UNCHANGED po
           \/ Go("lane", At("lane", "end")) /\ UNCHANGED po   \* the reads keep failing
           \/ /\ Current(l.gen) /\ Settled
              /\ Go("lane", ReleaseThen("lane", "task_terminal", "end", rec, l.gen))
              /\ UNCHANGED po
           \/ /\ Current(l.gen) /\ rec.state = "running" /\ rec.fact = "pending"
              /\ Go("lane", [l EXCEPT !.pc = "reconcile", !.ret = l.pc, !.fail = "end"])
              /\ UNCHANGED po
           \/ /\ Current(l.gen) /\ rec.state = "running" /\ rec.fact # "pending"
              /\ l.pc = "finishAction" /\ AwaitsEvidence
              /\ Query
        /\ UNCHANGED << rec, world, slot, game, pa, ctl, releases, history >>

Exhausted(n) == n + 1 = MaxFailures

\* FinishAttempt: progress after a confirmed reconciliation asks for another
\* decision; a failure is queried, and the third one pauses the task.
FinishAttempt ==
    LET l == loc["lane"]
        confirmed == rec.needs /\ l.pc = "finish" /\ ~AwaitsEvidence
        failed(np, rc, exhausted) ==
          [rec EXCEPT !.np = np, !.rc = rc, !.moved = TRUE, !.needs = ~exhausted,
                      !.state = IF exhausted THEN "paused" ELSE @]
    IN  /\ l.pc \in Finishing
        /\ Current(l.gen) /\ rec.state = "running" /\ rec.fact # "pending"
        /\ ~(l.pc = "finishAction" /\ AwaitsEvidence)
        /\ \/ /\ confirmed
              /\ rec' = [rec EXCEPT !.needs = FALSE, !.rc = 0, !.moved = TRUE]
              /\ Go("lane", At("lane", "turn")) /\ UNCHANGED po
           \/ /\ rec' = IF ~rec.needs /\ l.pc # "finishObserve"
                          THEN failed((rec.np + 1) % MaxFailures, 0, Exhausted(rec.np))
                          ELSE failed(rec.np, (rec.rc + 1) % MaxFailures, Exhausted(rec.rc))
              /\ IF rec'.state = "paused" THEN Go("lane", At("lane", "end")) /\ UNCHANGED po
                 ELSE \/ Query
                      \/ UNCHANGED << loc, po >>   \* committed; the answer is lost
           \/ Go("lane", At("lane", "end")) /\ UNCHANGED << rec, po >>
        /\ UNCHANGED << world, slot, game, pa, ctl, releases, history >>

\* releaseExecutionControl, deferred.
ExecutionEnds ==
    LET l == loc["lane"]
    IN  /\ l.pc = "end"
        /\ Go("lane", IF ~Current(l.gen) \/ rec.state = "waiting" THEN At("lane", "done")
                      ELSE ReleaseThen("lane", IF Settled THEN "task_terminal" ELSE "execution_ended",
                                       "done", rec, l.gen))
        /\ UNCHANGED << rec, world, slot, game, pending, history >>

-----------------------------------------------------------------------------
(* releaseTaskOperations                                                     *)

\* Faulty variant: every caller makes a request of its own.
ReleaseAlone(p) ==
    /\ loc[p].pc = "release"
    /\ IF loc[p].skip THEN Go(p, At(p, loc[p].ret)) /\ UNCHANGED << ctl, releases >>
       ELSE /\ ctl' = [ctl EXCEPT ![p] = [NoControl EXCEPT !.listed = TRUE,
                                                          !.out.reason = loc[p].reason]]
            /\ Go(p, Send(p, "control", "answering"))
            /\ UNCHANGED releases
    /\ UNCHANGED << rec, world, slot, game, pa, po, history >>

ReleaseOperation(p) ==
    /\ loc[p].pc = "release"
    /\ IF loc[p].skip THEN Go(p, At(p, loc[p].ret)) /\ UNCHANGED << ctl, releases >>
       ELSE IF releases # NoProc
         THEN /\ Go(p, IF ctl[releases].done
                         THEN [loc[p] EXCEPT !.pc = "persist", !.got = ctl[releases].out]
                         ELSE [loc[p] EXCEPT !.pc = "join", !.with = releases])
              /\ UNCHANGED << ctl, releases >>
       ELSE /\ releases' = p
            /\ ctl' = [ctl EXCEPT ![p] = [NoControl EXCEPT !.listed = TRUE,
                                                          !.out.reason = loc[p].reason]]
            /\ Go(p, Send(p, "control", "answering"))
    /\ UNCHANGED << rec, world, slot, game, pa, po, history >>

JoinExpires(p) ==
    /\ loc[p].pc = "join"
    /\ Go(p, At(p, loc[p].ret))
    /\ UNCHANGED << rec, world, slot, game, pending, history >>

\* The answer, or none in time.
Answered(p) ==
    /\ loc[p].pc = "answering"
    /\ \/ ctl[p].result # "none" /\ Complete(p, ctl[p].result, FALSE)
       \/ Complete(p, "unconfirmed", FALSE)
    /\ UNCHANGED << rec, world, slot, game, pa, po, history >>

\* RecordCleanup: equal is a duplicate, only unconfirmed may be replaced.
RecordCleanup(p) ==
    LET new == [status |-> loc[p].got.status, reason |-> loc[p].got.reason]
        old == rec.cleanup
        fits == \/ old.status = "none"
                \/ old.status = "unconfirmed" /\ new.status = "released"
    IN  /\ loc[p].pc = "persist"
        /\ \/ /\ world.gen = loc[p].gen /\ world.open
              /\ rec' = IF fits THEN [rec EXCEPT !.cleanup = new] ELSE rec
              /\ conflict' = (conflict \/ ~(fits \/ old = new))
           \/ UNCHANGED << rec, conflict >>
        /\ Go(p, At(p, loc[p].ret))
        /\ UNCHANGED << world, slot, game, pending, handed >>

-----------------------------------------------------------------------------
(* The game, the receive loop and the world.                                 *)

\* Only the control that is still listed, under the binding it was sent with.
ResolveTaskControl(p, v) ==
    IF ctl[p].listed /\ Current(loc[p].gen)
      THEN [ctl EXCEPT ![p].listed = FALSE, ![p].result = v] ELSE ctl

\* An answer nobody waits for any more is dropped; a result may be repeated.
\* An answer with task evidence is refused while the world does not admit work.
Answer ==
    \E m \in game :
      LET p == m[2]
          acted == handed \/ rec.op = "uncertain"
          values == CASE m[1] = "action"  -> { "status", "plain", "fact" }
                      [] m[1] = "observe" -> { "plain", "error" } \cup (IF acted THEN { "fact" } ELSE {})
                      [] m[1] = "control" -> { "released", "unconfirmed" }
      IN  /\ \E v \in { x \in values : x = "fact" => world.ready } :
               /\ pa' = IF m[1] # "action" \/ ~pa.open THEN pa
                        ELSE IF v = "status" THEN [pa EXCEPT !.updated = TRUE]
                        ELSE IF pa.result # "none" THEN pa ELSE [pa EXCEPT !.result = v]
               /\ po' = IF m[1] = "observe" /\ po[p] = "open" THEN [po EXCEPT ![p] = v] ELSE po
               /\ ctl' = IF m[1] = "control" THEN ResolveTaskControl(p, v) ELSE ctl
          /\ game' = IF m[1] = "action" THEN game ELSE game \ { m }
          /\ UNCHANGED << rec, world, slot, releases, loc, history >>

\* PrepareCheckpoint fences the execution and closes admission.
Save ==
    /\ world.ready /\ world.gen < MaxGen
    /\ world' = [world EXCEPT !.gen = @ + 1, !.ready = FALSE]
    /\ rec' = IF rec.state # "running" THEN rec
              ELSE [rec EXCEPT !.state = "waiting", !.needs = TRUE, !.moved = TRUE,
                               !.op = IF @ = "registered" THEN "uncertain" ELSE @]
    /\ UNCHANGED << slot, game, pending, loc, history >>

\* The connection goes: admission, then the environment is closed.
Close ==
    /\ ~world.closed
    /\ world' = [world EXCEPT !.ready = FALSE, !.closed = TRUE]
    /\ UNCHANGED << rec, slot, game, pending, loc, history >>

-----------------------------------------------------------------------------
\* A wake has just begun, in the first generation or in one after a save that
\* left the operation uncertain.
Init ==
    /\ world = [gen |-> 1, ready |-> TRUE, open |-> TRUE, closed |-> FALSE]
    /\ rec \in [ state : { "running" }, op : { "none", "uncertain" }, opGen : { 0 },
                  moved : { FALSE }, needs : BOOLEAN, fact : { "none" }, np : { 0 }, rc : { 0 },
                  cleanup : { [status |-> "none", reason |-> "none"] } ]
    /\ rec.needs <=> rec.op = "uncertain"
    /\ slot = Free /\ game = {}
    /\ pa = NoAction /\ po = [p \in Procs |-> "none"]
    /\ ctl = [p \in Procs |-> NoControl] /\ releases = NoProc
    /\ loc = [p \in Procs |-> Resting(IF p = "lane" THEN "turn" ELSE "idle", 1)]
    /\ handed = FALSE /\ conflict = FALSE

Lane ==
    \/ RegisterTaskAction \/ RecordUnsent \/ Started \/ ActionEnds \/ TurnIntent \/ TurnEnds
    \/ Queried \/ FinishReads \/ FinishAttempt \/ ExecutionEnds

Goroutine(p) ==
    \/ SlotExpires(p) \/ TakeSlot(p) \/ Start(p) \/ SendEnds(p)
    \/ Observed(p) \/ AdmitTaskEvidence(p) \/ ReconcileTask(p)
    \/ ReleaseOperation(p) \/ JoinExpires(p) \/ Answered(p) \/ RecordCleanup(p)
    \/ p = "lane" /\ Lane
    \/ p = "back" /\ Sweep

Next ==
    \/ \E p \in Procs : Goroutine(p)
    \/ Transport \/ Answer \/ EventEvidence \/ Save \/ Close

Spec == Init /\ [][Next]_vars

\* The two goroutines run and their contexts expire; the transport may block,
\* and nothing is assumed of the game.
FairSpec == Spec /\ \A p \in Procs : WF_vars(Goroutine(p))

-----------------------------------------------------------------------------
TypeOK ==
    /\ rec.state \in { "running", "waiting", "paused", "settled" }
    /\ rec.op \in { "none", "registered", "uncertain", "not_sent" }
    /\ rec.fact \in { "none", "pending", "applied" } /\ rec.opGen \in 0..MaxGen
    /\ { rec.np, rec.rc } \subseteq 0..(MaxFailures - 1) /\ rec.needs \in BOOLEAN /\ rec.moved \in BOOLEAN
    /\ world \in [gen : 1..MaxGen, ready : BOOLEAN, open : BOOLEAN, closed : BOOLEAN]
    /\ slot.at \in { "free", "guard", "transport" }
    /\ pa.result \in { "none", "plain", "fact" }
    /\ po \in [Procs -> { "none", "open", "plain", "fact", "error" }]
    /\ releases \in Procs \cup { NoProc }
    /\ handed \in BOOLEAN /\ conflict \in BOOLEAN

\* An operation recorded as not sent was never given to the transport: no
\* timeout, close or late answer of a message under way is taken for one that
\* did not start, so no effect in the game is ever written off.
NotSentIsTrue == rec.op = "not_sent" => ~handed

\* Two goroutines that release the same operation write the same cleanup: the
\* second one joins the first and RecordCleanup never meets a different record.
CleanupsAgree == ~conflict

\* A closed environment frees its goroutines, also one in CancelAction behind
\* a transport that never returns, so that the lane can end.
CloseFreesGoroutines == world.closed ~> \A p \in Procs : loc[p].pc = "done"
=============================================================================
