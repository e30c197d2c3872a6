---------------------------- MODULE WakeDelivery ----------------------------
(* From a due wake to one invocation of the agent: the dispatcher claims it, *)
(* queues it on the lane of its agent and marks it, the lane begins it and   *)
(* runs the turn.  Any transaction may fail, or commit and lose its answer;  *)
(* saves, rebinds and lost streams fence what is under way.  A wakeDelivery  *)
(* is handed from the enqueue caller to the lane under its mutex.            *)
EXTENDS Naturals, Sequences, FiniteSets

CONSTANTS
    Wakes,      \* the executable wake of each task
    Claims,     \* claim identities; reused once nothing refers to them
    NoClaim,
    MaxGen      \* bound on the generations of the world

ASSUME DeliveryAssumption == NoClaim \notin Claims /\ MaxGen \in Nat

Limit == 3      \* consecutive technical failures of one delivery

VARIABLES
    row,        \* task_wakeups: status and claim of every wake
    slot,       \* the world in memory: generation, ready, saving, its lanes
    stopped,    \* the dispatcher's context is cancelled
    disp,       \* failed attempts of the scan's ClaimDue
    enq,        \* the delivery the enqueue caller works on, and its position
    queue,      \* the lane
    cur,        \* the delivery the lane worker holds, and its position
    dlv,        \* wakeDelivery, by claim
    lost,       \* claims whose ClaimDue committed without an answer
    begun, invoked  \* history: claims begun; invocations of the agent

hands == << enq, queue, cur >>
history == << begun, invoked >>
vars == << row, slot, stopped, disp, hands, dlv, lost, history >>

Idle == [c |-> NoClaim, pc |-> "idle"]
Held == { "claimed", "enqueued", "running" }
NoDelivery == [ wake |-> NoClaim, gen |-> 0, eligible |-> FALSE, ended |-> FALSE,
                gate |-> FALSE, failures |-> 0 ]

-----------------------------------------------------------------------------
(* The world and the kernel, as a delivery sees them.                        *)

Current == slot.ready /\ ~slot.saving

\* valid(): the binding the delivery was made for is still the current one.
\* A new authority epoch or new lanes come with a new generation.
Valid(c) == Current /\ slot.gen = dlv[c].gen

Cancelled == slot.lanes = "closed"

\* A guarded kernel call of delivery c that needs pre and moves its wake to st.
\* "stale" stands for the errors that mean the world was fenced or paused.
Call(c, pre, st, err) ==
    LET w == dlv[c].wake
        new == [row EXCEPT ![w] =
                  [ status |-> st, claim |-> IF st \in Held THEN c ELSE NoClaim ]]
    IN  \/ err = "stale" /\ ~Valid(c) /\ UNCHANGED row
        \/ err = "changed" /\ Valid(c) /\ ~pre /\ UNCHANGED row
        \/ err = "ok" /\ Valid(c) /\ pre /\ row' = new
        \/ err = "tech" /\ Valid(c) /\ (UNCHANGED row \/ (pre /\ row' = new))

Errors == { "ok", "stale", "changed", "tech" }

Owns(c, statuses) == row[dlv[c].wake].claim = c /\ row[dlv[c].wake].status \in statuses

\* InspectWake: what the delivery learns of its wake; "gone" ends the delivery.
Seen(c) == IF Valid(c) /\ row[dlv[c].wake].claim = c
             THEN row[dlv[c].wake].status ELSE "gone"

\* PauseWorld for the binding of c; what the store answers is only logged.
PauseWorld(g) == slot' = IF slot.gen = g THEN [slot EXCEPT !.ready = FALSE] ELSE slot

-----------------------------------------------------------------------------
(* wakeDelivery                                                              *)

\* Faulty variant: the lane keeps waiting for a delivery that has ended.
FinishedShut(d) == [d EXCEPT !.eligible = FALSE, !.ended = TRUE]

Finished(d) == [d EXCEPT !.eligible = FALSE, !.ended = TRUE, !.gate = TRUE]

Finish(c) == dlv' = [dlv EXCEPT ![c] = Finished(@)] /\ UNCHANGED slot

Pause(c) == dlv' = [dlv EXCEPT ![c] = Finished(@)] /\ PauseWorld(dlv[c].gen)

Invalidate(c) == IF Valid(c) THEN Pause(c) ELSE Finish(c)

\* failed(): the caller gives up ...
GiveUp(c, err, cancelled) ==
    \/ cancelled /\ Invalidate(c)
    \/ ~cancelled /\ err = "stale" /\ Finish(c)
    \/ ~cancelled /\ err # "stale" /\ dlv[c].failures + 1 >= Limit /\ Pause(c)

\* ... or waits and tries again.
Again(c, err, cancelled) ==
    /\ ~cancelled /\ err # "stale" /\ dlv[c].failures + 1 < Limit
    /\ dlv' = [dlv EXCEPT ![c].failures = @ + 1]
    /\ UNCHANGED slot

-----------------------------------------------------------------------------
(* The dispatcher goroutine                                                  *)

Free(c) ==
    /\ \A w \in Wakes : row[w].claim # c
    /\ c # enq.c /\ c # cur.c
    /\ \A i \in 1..Len(queue) : queue[i] # c

Claimed(w, c) == [row EXCEPT ![w] = [status |-> "claimed", claim |-> c]]

\* One candidate of ClaimDue; a batch is a sequence of these.
ClaimDue(w, c) ==
    /\ ~stopped /\ enq = Idle
    /\ Current
    /\ row[w].status = "pending"
    /\ Free(c)
    /\ row' = Claimed(w, c)
    /\ dlv' = [dlv EXCEPT ![c] = [NoDelivery EXCEPT !.wake = w, !.gen = slot.gen,
                                                    !.eligible = TRUE]]
    /\ begun' = begun \ {c}
    /\ invoked' = [invoked EXCEPT ![c] = 0]
    /\ \/ /\ enq' = [c |-> c, pc |-> "enqueue"]
          /\ lost' = lost \ {c}
          /\ disp' = 0
          /\ UNCHANGED slot
       \/ /\ lost' = lost \cup {c}            \* committed, the answer is lost
          /\ disp' = (disp + 1) % Limit
          /\ IF disp + 1 = Limit THEN PauseWorld(slot.gen) ELSE UNCHANGED slot
          /\ UNCHANGED enq
    /\ UNCHANGED << stopped, queue, cur >>

\* ClaimDue fails without effect; the third failure in a row pauses the world.
ClaimFails ==
    /\ ~stopped /\ enq = Idle /\ Current
    /\ disp' = (disp + 1) % Limit
    /\ IF disp + 1 = Limit THEN PauseWorld(slot.gen) ELSE UNCHANGED slot
    /\ UNCHANGED << row, stopped, hands, dlv, lost, history >>

\* The scan ends early when the dispatcher is stopped.
Stopped ==
    /\ stopped /\ enq.pc = "enqueue"
    /\ enq' = Idle
    /\ UNCHANGED << row, slot, stopped, disp, queue, cur, dlv, lost, history >>

EnqueueWake ==
    LET c == enq.c
    IN  /\ enq.pc = "enqueue" /\ ~stopped
        /\ \/ ~Valid(c) /\ enq' = Idle /\ UNCHANGED << slot, queue, dlv >>
           \/ /\ Valid(c)                     \* its entity is not in the directory
              /\ PauseWorld(dlv[c].gen) /\ enq' = Idle /\ UNCHANGED << queue, dlv >>
           \/ /\ Valid(c) /\ ~Cancelled
              /\ queue' = Append(queue, c)
              /\ enq' = [enq EXCEPT !.pc = "mark"]
              /\ UNCHANGED << slot, dlv >>
           \/ /\ Valid(c)                     \* the lane is full or closed
              /\ dlv' = [dlv EXCEPT ![c].eligible = FALSE]
              /\ enq' = [enq EXCEPT !.pc = "release"]
              /\ UNCHANGED << slot, queue >>
        /\ UNCHANGED << row, stopped, disp, cur, lost, history >>

\* Faulty variant: an uncertain commit releases the lane without inspection.
MarkUninspected ==
    LET c == enq.c
    IN  /\ enq.pc = "mark"
        /\ \E err \in Errors :
             /\ Call(c, Owns(c, { "claimed", "enqueued" }), "enqueued", err)
             /\ Finish(c)
             /\ enq' = Idle
        /\ UNCHANGED << stopped, disp, queue, cur, lost, history >>

Mark ==
    LET c == enq.c
        goto(pc) == enq' = [enq EXCEPT !.pc = pc]
    IN  /\ enq.pc = "mark"
        /\ \E err \in Errors :
             /\ Call(c, Owns(c, { "claimed", "enqueued" }), "enqueued", err)
             /\ CASE err = "ok" ->
                       /\ dlv' = [dlv EXCEPT ![c].failures = 0, ![c].gate = TRUE]
                       /\ enq' = Idle /\ UNCHANGED slot
                  [] err = "stale" \/ (err # "ok" /\ stopped) -> Finish(c) /\ enq' = Idle
                  [] err = "changed" /\ ~stopped ->
                       /\ dlv' = [dlv EXCEPT ![c].eligible = FALSE, ![c].gate = TRUE]
                       /\ goto("release") /\ UNCHANGED slot
                  [] OTHER -> \/ GiveUp(c, err, stopped) /\ enq' = Idle
                              \/ Again(c, err, stopped) /\ goto("inspectMark")
        /\ UNCHANGED << stopped, disp, queue, cur, lost, history >>

Release ==
    LET c == enq.c
        goto(pc) == enq' = [enq EXCEPT !.pc = pc]
    IN  /\ enq.pc = "release"
        /\ \E err \in Errors :
             /\ Call(c, Owns(c, { "claimed" }), "pending", err)
             /\ IF err = "ok" THEN Finish(c) /\ enq' = Idle
                ELSE \/ GiveUp(c, err, stopped) /\ enq' = Idle
                     \/ Again(c, err, stopped) /\ goto("inspectRelease")
        /\ UNCHANGED << stopped, disp, queue, cur, lost, history >>

\* After a technical failure the wake is read back: an enqueued wake opens the
\* gate, a claimed one is tried again, anything else ends the delivery.
Inspect ==
    LET c == enq.c
        marking == enq.pc = "inspectMark"
        goto(pc) == enq' = [enq EXCEPT !.pc = pc]
    IN  /\ enq.pc \in { "inspectMark", "inspectRelease" }
        /\ \/ \/ GiveUp(c, "tech", stopped) /\ enq' = Idle
              \/ Again(c, "tech", stopped) /\ UNCHANGED enq
           \/ Seen(c) = "gone" /\ Finish(c) /\ enq' = Idle
           \/ /\ Seen(c) = "claimed"
              /\ goto(IF marking THEN "mark" ELSE "release")
              /\ UNCHANGED << slot, dlv >>
           \/ /\ Seen(c) = "enqueued"
              /\ IF marking
                   THEN /\ dlv' = [dlv EXCEPT ![c].failures = 0, ![c].gate = TRUE]
                        /\ UNCHANGED slot
                   ELSE Pause(c)
              /\ enq' = Idle
        /\ UNCHANGED << row, stopped, disp, queue, cur, lost, history >>

-----------------------------------------------------------------------------
(* The lane worker                                                           *)

Leave == cur' = Idle

Dequeue ==
    /\ cur = Idle /\ queue # << >> /\ ~Cancelled
    /\ cur' = [c |-> Head(queue), pc |-> "gate"]
    /\ queue' = Tail(queue)
    /\ UNCHANGED << row, slot, stopped, disp, enq, dlv, lost, history >>

\* run(): the mutex is free once the enqueue caller has let go.
Run ==
    /\ cur.pc = "gate" /\ dlv[cur.c].gate /\ enq.c # cur.c
    /\ IF dlv[cur.c].ended \/ ~dlv[cur.c].eligible THEN Leave
       ELSE cur' = [cur EXCEPT !.pc = "begin"]
    /\ UNCHANGED << row, slot, stopped, disp, enq, queue, dlv, lost, history >>

\* abort(): the lane was closed before the delivery ran.
AbortOf(c) ==
    /\ enq.c # c
    /\ IF dlv[c].ended THEN UNCHANGED << slot, dlv >> ELSE Invalidate(c)
    /\ UNCHANGED << row, stopped, disp, enq, lost, history >>

Abort ==
    /\ Cancelled
    /\ \/ cur.pc = "gate" /\ AbortOf(cur.c) /\ Leave /\ UNCHANGED queue
       \/ /\ cur = Idle /\ queue # << >>
          /\ AbortOf(Head(queue)) /\ queue' = Tail(queue) /\ UNCHANGED cur

BeginWake ==
    LET c == cur.c
    IN  /\ cur.pc = "begin"
        /\ \/ /\ Cancelled \/ ~Valid(c)
              /\ Invalidate(c) /\ Leave /\ UNCHANGED << row, begun >>
           \/ /\ ~Cancelled
              /\ \E err \in Errors :
                   /\ Call(c, Owns(c, { "enqueued" }), "running", err)
                   /\ begun' = IF row' = row THEN begun ELSE begun \cup {c}
                   /\ IF err = "ok" THEN Finish(c) /\ cur' = [cur EXCEPT !.pc = "begun"]
                      ELSE \/ GiveUp(c, err, Cancelled) /\ Leave
                           \/ Again(c, err, Cancelled) /\ cur' = [cur EXCEPT !.pc = "inspect"]
        /\ UNCHANGED << stopped, disp, enq, queue, lost, invoked >>

\* Faulty variant: a wake that is running is begun and handled as well.
InspectBegunTwice ==
    LET c == cur.c
    IN  /\ cur.pc = "inspect"
        /\ Seen(c) \in { "enqueued", "running" }
        /\ cur' = [cur EXCEPT !.pc = IF Seen(c) = "running" THEN "begun" ELSE "begin"]
        /\ invoked' = IF Seen(c) = "running" THEN [invoked EXCEPT ![c] = @ + 1] ELSE invoked
        /\ UNCHANGED << row, slot, stopped, disp, enq, queue, dlv, lost, begun >>

InspectBegun ==
    LET c == cur.c
    IN  /\ cur.pc = "inspect"
        /\ \/ GiveUp(c, "tech", Cancelled) /\ Leave
           \/ Again(c, "tech", Cancelled) /\ UNCHANGED cur
           \/ Seen(c) \in { "gone", "claimed" } /\ Finish(c) /\ Leave
           \/ /\ Seen(c) = "enqueued"
              /\ cur' = [cur EXCEPT !.pc = "begin"] /\ UNCHANGED << slot, dlv >>
           \/ Seen(c) = "running" /\ Finish(c) /\ cur' = [cur EXCEPT !.pc = "recover"]
        /\ UNCHANGED << row, stopped, disp, enq, queue, lost, history >>

\* handle after a certain BeginWake, reconcile after an inspected one.
Invoke ==
    LET c == cur.c
    IN  /\ cur.pc \in { "begun", "recover" }
        /\ \/ /\ ~Cancelled /\ Valid(c)
              /\ invoked' = [invoked EXCEPT ![c] = @ + 1]
              /\ cur' = [cur EXCEPT !.pc = "exec"]
              /\ UNCHANGED << slot, dlv >>
           \/ /\ Cancelled \/ ~Valid(c)
              /\ Leave
              /\ IF cur.pc = "begun" THEN Invalidate(c) ELSE UNCHANGED << slot, dlv >>
              /\ UNCHANGED invoked
        /\ UNCHANGED << row, stopped, disp, enq, queue, lost, begun >>

\* The turn and finishTaskExecution: the attempt is settled with a next wake or
\* a result, or an error pauses the world, or the world has moved on.
ExecutionEnds ==
    LET c == cur.c
        w == dlv[c].wake
    IN  /\ cur.pc = "exec"
        /\ Leave
        /\ \/ /\ Valid(c) /\ Owns(c, { "running" })
              /\ \E st \in { "pending", "consumed" } :
                   row' = [row EXCEPT ![w] = [status |-> st, claim |-> NoClaim]]
              /\ UNCHANGED slot
           \/ ~(Valid(c) /\ Owns(c, { "running" })) /\ UNCHANGED << row, slot >>
           \/ PauseWorld(dlv[c].gen) /\ UNCHANGED row
        /\ UNCHANGED << stopped, disp, enq, queue, dlv, lost, history >>

-----------------------------------------------------------------------------
(* The rest of the runtime                                                   *)

\* A player's interaction settles or cancels the task, or makes a new wake.
OtherWork(w) ==
    /\ Current
    /\ \/ /\ row[w].status # "consumed"
          /\ row' = [row EXCEPT ![w] = [status |-> "consumed", claim |-> NoClaim]]
       \/ /\ row[w].status = "consumed"
          /\ row' = [row EXCEPT ![w] = [status |-> "pending", claim |-> NoClaim]]
    /\ UNCHANGED << slot, stopped, disp, hands, dlv, lost, history >>

\* Every active wake is pending again under the next generation.
Fenced == [w \in Wakes |-> IF row[w].status = "consumed" THEN row[w]
                           ELSE [status |-> "pending", claim |-> NoClaim]]

PrepareSave ==
    /\ Current /\ slot.gen < MaxGen
    /\ slot' = [slot EXCEPT !.gen = @ + 1, !.saving = TRUE]
    /\ row' = Fenced
    /\ lost' = {}
    /\ UNCHANGED << stopped, disp, hands, dlv, history >>

FinishSave ==
    /\ slot.saving
    /\ slot' = [slot EXCEPT !.saving = FALSE]
    /\ UNCHANGED << row, stopped, disp, hands, dlv, lost, history >>

\* The stream's context ends and with it the lanes; its handler notices later.
StreamLost ==
    /\ slot.lanes = "open" /\ slot.gen < MaxGen
    /\ slot' = [slot EXCEPT !.lanes = "closed"]
    /\ UNCHANGED << row, stopped, disp, hands, dlv, lost, history >>

\* bind or disconnect closes admission and the lanes ...
Unbind ==
    /\ slot.ready \/ slot.lanes = "open"
    /\ slot.gen < MaxGen
    /\ slot' = [slot EXCEPT !.ready = FALSE, !.lanes = "closed"]
    /\ UNCHANGED << row, stopped, disp, hands, dlv, lost, history >>

\* ... waits for them, and the next binding recovers every wake.
Rebind ==
    /\ ~slot.ready /\ slot.lanes = "closed"
    /\ cur = Idle /\ queue = << >>
    /\ slot.gen < MaxGen
    /\ slot' = [gen |-> slot.gen + 1, ready |-> TRUE, saving |-> FALSE, lanes |-> "open"]
    /\ row' = Fenced
    /\ lost' = {}
    /\ UNCHANGED << stopped, disp, hands, dlv, history >>

Stop ==
    /\ ~stopped /\ stopped' = TRUE
    /\ UNCHANGED << row, slot, disp, hands, dlv, lost, history >>

-----------------------------------------------------------------------------
Init ==
    /\ row = [w \in Wakes |-> [status |-> "pending", claim |-> NoClaim]]
    /\ slot = [gen |-> 0, ready |-> TRUE, saving |-> FALSE, lanes |-> "open"]
    /\ stopped = FALSE /\ disp = 0
    /\ enq = Idle /\ queue = << >> /\ cur = Idle
    /\ dlv = [c \in Claims |-> NoDelivery]
    /\ lost = {} /\ begun = {} /\ invoked = [c \in Claims |-> 0]

Dispatcher ==
    \/ \E w \in Wakes, c \in Claims : ClaimDue(w, c)
    \/ ClaimFails \/ Stopped \/ EnqueueWake \/ Mark \/ Release \/ Inspect

Lane == Dequeue \/ Run \/ Abort \/ BeginWake \/ InspectBegun \/ Invoke \/ ExecutionEnds

World ==
    \/ \E w \in Wakes : OtherWork(w)
    \/ PrepareSave \/ FinishSave \/ StreamLost \/ Unbind \/ Rebind \/ Stop

Next == Dispatcher \/ Lane \/ World

Spec == Init /\ [][Next]_vars

\* The steps of an enqueue caller that holds a delivery, and the lane's, are
\* taken by goroutines that run; nobody is assumed to claim, save or rebind.
FairSpec ==
    /\ Spec
    /\ WF_vars(Stopped \/ EnqueueWake \/ Mark \/ Release \/ Inspect)
    /\ WF_vars(Lane)

-----------------------------------------------------------------------------
TypeOK ==
    /\ row \in [Wakes -> [status : Held \cup { "pending", "consumed" },
                          claim : Claims \cup { NoClaim }]]
    /\ slot \in [gen : 0..MaxGen, ready : BOOLEAN, saving : BOOLEAN,
                 lanes : { "open", "closed" }]
    /\ stopped \in BOOLEAN /\ disp \in 0..(Limit - 1)
    /\ enq \in [c : Claims \cup { NoClaim },
                pc : { "idle", "enqueue", "mark", "release", "inspectMark", "inspectRelease" }]
    /\ queue \in Seq(Claims)
    /\ cur \in [c : Claims \cup { NoClaim },
                pc : { "idle", "gate", "begin", "inspect", "begun", "recover", "exec" }]
    /\ dlv \in [Claims -> [ wake : Wakes \cup { NoClaim }, gen : 0..MaxGen, eligible : BOOLEAN,
                            ended : BOOLEAN, gate : BOOLEAN, failures : 0..(Limit - 1) ]]
    /\ lost \subseteq Claims /\ begun \subseteq Claims
    /\ invoked \in [Claims -> Nat]

\* Somebody still works on the delivery of claim c.
Custodian(c) ==
    \/ c = enq.c \/ c = cur.c
    \/ ~dlv[c].ended /\ \E i \in 1..Len(queue) : queue[i] = c

\* In a world that admits work, every wake that is claimed, enqueued or running
\* is in somebody's hands: wherever a mark, release or begin failed or lost its
\* answer, the delivery inspected, released or paused the world before it let
\* go.  Only an answer lost by ClaimDue itself leaves a claim nobody knows of.
NoOrphanedWake ==
    Current /\ ~Cancelled /\ ~stopped =>
      \A w \in Wakes :
        row[w].status \in Held => row[w].claim \in lost \/ Custodian(row[w].claim)

\* Deliveries implement WakeOwnership: at most one holder per wake, and the
\* agent is invoked at most once per claim and only after the claim began,
\* although BeginWake may have committed without an answer.
Ownership == INSTANCE WakeOwnership WITH holder <- [w \in Wakes |-> row[w].claim]

OwnershipSpec == Ownership!Spec

\* A wake that somebody took is given back, settled or recovered: it never
\* stays with a delivery for ever while its world keeps admitting work.
HeldWakeMovesOn ==
    \A w \in Wakes :
      (row[w].status \in Held) ~>
        \/ row[w].status \notin Held
        \/ row[w].claim \in lost
        \/ ~Current \/ Cancelled \/ stopped
=============================================================================
