--------------------------- MODULE ExecutionLane ---------------------------
(***************************************************************************)
(* session.ExecutionLane: one agent's serial executor.  Callers on any     *)
(* goroutine push player tasks (Enqueue) or replace the one pending        *)
(* maintenance task (EnqueueMaintenance); a single worker goroutine (run)  *)
(* selects, waits for the caller to open the task's admission gate, runs   *)
(* it, and on cancellation aborts whatever has not started.                *)
(*                                                                         *)
(* The mutex mu is explicit only where it matters: a caller that passed    *)
(* the closed check holds it (entering = its task) until the push, and     *)
(* the parent context may be cancelled in between, because cancelling a    *)
(* context takes no lock.                                                  *)
(***************************************************************************)
EXTENDS Integers, Sequences

CONSTANTS Players,     \* player tasks (Enqueue), each submitted at most once
          Maint,       \* maintenance tasks (EnqueueMaintenance)
          Gated,       \* the tasks with a non-nil Admitted channel
          QueueSize,   \* capacity argument of NewExecutionLane
          NoTask       \* nil

Tasks == Players \cup Maint

ASSUME LaneAssumption ==
    /\ QueueSize \in Nat \ {0}
    /\ Gated \subseteq Tasks
    /\ Players \cap Maint = {}
    /\ NoTask \notin Tasks

VARIABLES
    queue,              \* the buffered channel of player tasks
    maintenance,        \* the pending maintenance slot
    activeMaintenance,  \* the last selected task was a maintenance task
    ready,              \* the one-token wakeup channel holds a token
    closed,             \* admission closed (guarded by mu)
    cancelled,          \* ctx is done: Close, or the parent context
    entering,           \* the task whose caller holds mu past the closed check
    opened,             \* tasks whose Admitted channel has been closed
    pc,                 \* the worker's position in run
    current,            \* the task the worker selected and has not settled
    outcome             \* what became of each task

vars == << queue, maintenance, activeMaintenance, ready, closed, cancelled,
           entering, opened, pc, current, outcome >>

(* outcome[t]: "new" not submitted; "refused" ErrLaneClosed or ErrLaneFull;  *)
(* "accepted" Enqueue returned nil; "replaced" by later maintenance;         *)
(* "running", "ran": Run was called, has returned; "aborted": Abort called.  *)
Outcomes == { "new", "refused", "accepted", "replaced", "running", "ran",
              "aborted" }

Locations == { "check", "dequeue", "park", "gate", "recheck", "running",
               "abort", "closing", "drain", "drainAbort", "done" }

Init ==
    /\ queue = << >>
    /\ maintenance = NoTask
    /\ activeMaintenance = FALSE
    /\ ready = FALSE
    /\ closed = FALSE
    /\ cancelled = FALSE
    /\ entering = NoTask
    /\ opened = {}
    /\ pc = "check"
    /\ current = NoTask
    /\ outcome = [t \in Tasks |-> "new"]

-----------------------------------------------------------------------------
(* Callers.                                                                 *)

MuFree == entering = NoTask

\* Faulty variant: the extra slot is granted to everyone.
LimitAlwaysExtra == QueueSize + 1

\* A selected maintenance task preserves the active-player slot.
Limit == QueueSize + (IF activeMaintenance THEN 1 ELSE 0)

Admissible(t) ==
    /\ ~closed
    /\ ~cancelled
    /\ t \in Players => Len(queue) < Limit

\* The checks of Enqueue and EnqueueMaintenance, up to the error returns.
Enter(t) ==
    /\ MuFree
    /\ outcome[t] = "new"
    /\ IF Admissible(t)
         THEN entering' = t /\ UNCHANGED outcome
         ELSE outcome' = [outcome EXCEPT ![t] = "refused"] /\ UNCHANGED entering
    /\ UNCHANGED << queue, maintenance, activeMaintenance, ready, closed,
                    cancelled, opened, pc, current >>

\* Faulty variant: the push without the wakeup.
EnqueueWithoutToken ==
    /\ entering \in Players
    /\ queue' = Append(queue, entering)
    /\ outcome' = [outcome EXCEPT ![entering] = "accepted"]
    /\ entering' = NoTask
    /\ UNCHANGED << ready, maintenance, activeMaintenance, closed, cancelled,
                    opened, pc, current >>

\* Enqueue: the push, the non-blocking wakeup token, the unlock.
Enqueue ==
    /\ entering \in Players
    /\ Len(queue) < QueueSize + 1      \* the buffered send does not block
    /\ queue' = Append(queue, entering)
    /\ ready' = TRUE
    /\ outcome' = [outcome EXCEPT ![entering] = "accepted"]
    /\ entering' = NoTask
    /\ UNCHANGED << maintenance, activeMaintenance, closed, cancelled, opened,
                    pc, current >>

\* EnqueueMaintenance: the pending task, if any, is discarded silently.
EnqueueMaintenance ==
    /\ entering \in Maint
    /\ maintenance' = entering
    /\ ready' = TRUE
    /\ outcome' = [t \in Tasks |->
                     IF t = entering THEN "accepted"
                     ELSE IF t = maintenance THEN "replaced"
                     ELSE outcome[t]]
    /\ entering' = NoTask
    /\ UNCHANGED << queue, activeMaintenance, closed, cancelled, opened, pc,
                    current >>

\* The caller releases the gate once its acknowledgement has been sent
\* (gateway.go: close(admitted)).
OpenGate(t) ==
    /\ t \in Gated \ opened
    /\ outcome[t] \notin { "new", "refused" }
    /\ opened' = opened \cup {t}
    /\ UNCHANGED << queue, maintenance, activeMaintenance, ready, closed,
                    cancelled, entering, pc, current, outcome >>

Close ==
    /\ MuFree
    /\ ~closed
    /\ closed' = TRUE
    /\ cancelled' = TRUE
    /\ UNCHANGED << queue, maintenance, activeMaintenance, ready, entering,
                    opened, pc, current, outcome >>

\* The parent context ends: no lock, and closed stays as it is.
ParentCancel ==
    /\ ~cancelled
    /\ cancelled' = TRUE
    /\ UNCHANGED << queue, maintenance, activeMaintenance, ready, closed,
                    entering, opened, pc, current, outcome >>

-----------------------------------------------------------------------------
(* The worker goroutine.                                                    *)

Check ==
    /\ pc = "check"
    /\ pc' = IF cancelled THEN "closing" ELSE "dequeue"
    /\ UNCHANGED << queue, maintenance, activeMaintenance, ready, closed,
                    cancelled, entering, opened, current, outcome >>

\* Faulty variant: the maintenance slot is read and not cleared.
DequeueKeepsMaintenance(found, none) ==
    /\ MuFree
    /\ current' = IF queue # << >> THEN Head(queue) ELSE maintenance
    /\ queue' = IF queue # << >> THEN Tail(queue) ELSE queue
    /\ activeMaintenance' = (queue = << >> /\ maintenance # NoTask)
    /\ pc' = IF queue # << >> \/ maintenance # NoTask THEN found ELSE none
    /\ UNCHANGED << maintenance, ready, closed, cancelled, entering, opened,
                    outcome >>

\* dequeue(): players first, then the maintenance slot; found and none are the
\* worker's next positions.
DequeueTo(found, none) ==
    /\ MuFree
    /\ \/ /\ queue # << >>
          /\ current' = Head(queue)
          /\ queue' = Tail(queue)
          /\ activeMaintenance' = FALSE
          /\ pc' = found
          /\ UNCHANGED maintenance
       \/ /\ queue = << >>
          /\ maintenance # NoTask
          /\ current' = maintenance
          /\ maintenance' = NoTask
          /\ activeMaintenance' = TRUE
          /\ pc' = found
          /\ UNCHANGED queue
       \/ /\ queue = << >>
          /\ maintenance = NoTask
          /\ activeMaintenance' = FALSE
          /\ pc' = none
          /\ UNCHANGED << queue, maintenance, current >>
    /\ UNCHANGED << ready, closed, cancelled, entering, opened, outcome >>

Dequeue == pc = "dequeue" /\ DequeueTo("gate", "park")

\* The select on ctx.Done and ready: either ready case may be taken.
Unpark ==
    /\ pc = "park"
    /\ \/ cancelled /\ pc' = "closing" /\ UNCHANGED ready
       \/ ready /\ ready' = FALSE /\ pc' = "check"
    /\ UNCHANGED << queue, maintenance, activeMaintenance, closed, cancelled,
                    entering, opened, current, outcome >>

\* Faulty variant: waits for the gate alone.
WaitForGateOnly ==
    /\ pc = "gate"
    /\ current \in opened \cup (Tasks \ Gated)
    /\ pc' = "recheck"
    /\ UNCHANGED << queue, maintenance, activeMaintenance, ready, closed,
                    cancelled, entering, opened, current, outcome >>

WaitAdmitted ==
    /\ pc = "gate"
    /\ \/ current \in opened \cup (Tasks \ Gated) /\ pc' = "recheck"
       \/ current \in Gated /\ cancelled /\ pc' = "abort"
    /\ UNCHANGED << queue, maintenance, activeMaintenance, ready, closed,
                    cancelled, entering, opened, current, outcome >>

\* The second ctx.Err check, and task.run when it passes.
Start ==
    /\ pc = "recheck"
    /\ IF cancelled
         THEN pc' = "abort" /\ UNCHANGED outcome
         ELSE pc' = "running" /\ outcome' = [outcome EXCEPT ![current] = "running"]
    /\ UNCHANGED << queue, maintenance, activeMaintenance, ready, closed,
                    cancelled, entering, opened, current >>

Finish ==
    /\ pc = "running"
    /\ outcome' = [outcome EXCEPT ![current] = "ran"]
    /\ current' = NoTask
    /\ pc' = "check"
    /\ UNCHANGED << queue, maintenance, activeMaintenance, ready, closed,
                    cancelled, entering, opened >>

\* task.abort on the way out of the loop, and for each drained task.
AbortTo(next) ==
    /\ outcome' = [outcome EXCEPT ![current] = "aborted"]
    /\ current' = NoTask
    /\ pc' = next
    /\ UNCHANGED << queue, maintenance, activeMaintenance, ready, closed,
                    cancelled, entering, opened >>

Abort == pc = "abort" /\ AbortTo("closing")

CloseAdmission ==
    /\ pc = "closing"
    /\ MuFree
    /\ closed' = TRUE
    /\ pc' = "drain"
    /\ UNCHANGED << queue, maintenance, activeMaintenance, ready, cancelled,
                    entering, opened, current, outcome >>

Drain == pc = "drain" /\ DequeueTo("drainAbort", "done")

DrainAbort == pc = "drainAbort" /\ AbortTo("drain")

Worker == \/ Check \/ Dequeue \/ Unpark \/ WaitAdmitted \/ Start \/ Finish
          \/ Abort \/ CloseAdmission \/ Drain \/ DrainAbort

Next ==
    \/ \E t \in Tasks : Enter(t) \/ OpenGate(t)
    \/ Enqueue
    \/ EnqueueMaintenance
    \/ Close
    \/ ParentCancel
    \/ Worker

Spec == Init /\ [][Next]_vars

\* A caller whose task was accepted opens the gate or, when its acknowledgement
\* cannot be sent, leaves the stream handler, which closes the lane.
AckOrClose(t) ==
    /\ t \in Gated \ opened
    /\ outcome[t] \notin { "new", "refused" }
    /\ ~cancelled
    /\ OpenGate(t) \/ Close

\* Goroutines that can run do run, Run callbacks return (they are given ctx),
\* and a caller past the check pushes.
Fairness ==
    /\ WF_vars(Worker)
    /\ WF_vars(Enqueue)
    /\ WF_vars(EnqueueMaintenance)
    /\ \A t \in Tasks : WF_vars(AckOrClose(t))

FairSpec == Spec /\ Fairness

-----------------------------------------------------------------------------
(* Properties.                                                              *)

TypeOK ==
    /\ queue \in Seq(Players)
    /\ maintenance \in Maint \cup {NoTask}
    /\ activeMaintenance \in BOOLEAN
    /\ ready \in BOOLEAN
    /\ closed \in BOOLEAN
    /\ cancelled \in BOOLEAN
    /\ entering \in Tasks \cup {NoTask}
    /\ opened \subseteq Gated
    /\ pc \in Locations
    /\ current \in Tasks \cup {NoTask}
    /\ outcome \in [Tasks -> Outcomes]

\* A worker blocked in the select of run (lane.go, "Wakeups carry no tasks")
\* has a token waiting whenever a task is pending: the single-token channel
\* with its non-blocking send never loses the wakeup of an accepted task.
NoLostWakeup ==
    pc = "park" /\ (queue # << >> \/ maintenance # NoTask) => ready

\* Players in the lane: queued, selected and not settled, or being pushed.
Occupancy ==
    Len(queue) + (IF current \in Players THEN 1 ELSE 0)
               + (IF entering \in Players THEN 1 ELSE 0)

\* The lane holds at most one active and QueueSize queued players, the extra
\* slot that Enqueue grants under activeMaintenance included; hence the send of
\* Enqueue, made while holding mu, always finds room in the buffered channel.
BoundedPlayers ==
    /\ Occupancy <= QueueSize + 1
    /\ entering \in Players => Len(queue) < QueueSize + 1

\* Where the worker holds a task that is neither running nor settled.
Holding == { "gate", "recheck", "abort", "drainAbort" }

Queued(t) == \E i \in 1 .. Len(queue) : queue[i] = t

\* Every task Enqueue accepted is in exactly one place until it is run, aborted
\* or replaced, and the task being run is the worker's: none is lost or
\* settled twice (TestExecutionLaneConcurrentEnqueueAndCloseSettlesEvery-
\* AcceptedTask, for every interleaving).
Custody ==
    /\ \A t \in Tasks :
         /\ outcome[t] = "accepted" <=> \/ Queued(t)
                                        \/ t = maintenance
                                        \/ t = current /\ pc \in Holding
         /\ outcome[t] = "running" <=> t = current /\ pc = "running"
         /\ t = entering => outcome[t] = "new"
    /\ \A i, j \in 1 .. Len(queue) : queue[i] = queue[j] => i = j
    /\ current # NoTask =>
         ~Queued(current) /\ current # maintenance
         /\ pc \in Holding \cup {"running"}

\* When the lane reports Done nothing it accepted is left unsettled and no
\* caller can still be let in: CloseAndWait may release what the tasks use.
DoneIsFinal ==
    pc = "done" =>
      /\ closed
      /\ entering = NoTask
      /\ \A t \in Tasks : outcome[t] \notin { "accepted", "running" }

\* No task is started once the lane's context is cancelled, even when its gate
\* was opened in the same instant (the select of waitAdmitted may choose either).
NoStartAfterCancel ==
    [][\A t \in Tasks : outcome'[t] = "running" /\ outcome[t] # "running"
                          => ~cancelled]_vars

\* Every accepted task is eventually run, aborted or replaced.
AcceptedSettles ==
    \A t \in Tasks :
      outcome[t] = "accepted" ~> outcome[t] \in { "ran", "aborted", "replaced" }

\* A cancelled lane drains and reports Done (CloseAndWait returns).
CancelledFinishes == cancelled ~> pc = "done"
=============================================================================
