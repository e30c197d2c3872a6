--------------------------- MODULE GatewayDispatch ---------------------------
(* Server.connect and dispatchGameEvent for the streams of one world and one *)
(* agent: the bootstrap of a stream, the admission of game events, the lane  *)
(* that runs them (ExecutionLane has its detail), and the claim that keeps a *)
(* player interaction from being answered twice.  What a stream has seen is  *)
(* its own; what was claimed belongs to the registry and outlives streams.   *)
(* WorldRegistry has the detail of bind and disconnect; here they keep the   *)
(* lock, the wait for the lane, and the order around both.                   *)
EXTENDS Naturals, Sequences, FiniteSets

CONSTANTS Streams, None,
          Events,       \* [id, source, facts, target]; facts = {}: an ordinary event
          Runs,
          MaxGen,       \* bound on the generations of the world
          QueueSize     \* jobs waiting behind the active one, 1 in the code

VARIABLES
    stopped,        \* Server.stopped
    conn,           \* receive loop: pc, tasks negotiated, lanes closed, bound to the world
    seen,           \* seenEventIDs of each stream
    lane,           \* jobs of each stream, the active one first
    world,          \* slot: owner, ready, saving, binding, identity of the agent
    lifecycle,      \* holder of slot.lifecycle
    interactions,   \* WorldRegistry.interactions
    turns,          \* history: turns run, by stream and event
    answered        \* history: turns run, by key of interactions

slotVars == << world, lifecycle >>
claims == << interactions, answered >>
vars == << stopped, conn, seen, lane, slotVars, claims, turns >>

EventIds == { e.id : e \in Events }
\* The source of an event is scoped to the binding its adapter knows.
Job(e) == [ event |-> e, scope |-> world.binding, gate |-> FALSE, stage |-> "wait" ]
Unopened == [ pc |-> "new", tasks |-> FALSE, closed |-> FALSE, bound |-> FALSE ]
NoTurns == [i \in EventIds |-> 0]
Unbound == [ run |-> None, gen |-> 0 ]

\* The keys of an interaction: its source, and every fact it carries.
KeysOf(run, e) == { << run, e.source >> } \union { << run, f >> : f \in e.facts }
AllKeys == UNION { KeysOf(r, e) : r \in Runs, e \in Events }

Init ==
    /\ stopped = FALSE
    /\ conn = [c \in Streams |-> Unopened]
    /\ seen = [c \in Streams |-> {}]
    /\ lane = [c \in Streams |-> << >>]
    /\ world = [ owner |-> None, ready |-> FALSE, saving |-> FALSE, binding |-> Unbound, identity |-> None ]
    /\ lifecycle = None
    /\ interactions = {}
    /\ turns = [c \in Streams |-> NoTurns]
    /\ answered = [k \in AllKeys |-> 0]

To(c, pc) == conn' = [conn EXCEPT ![c].pc = pc]

-----------------------------------------------------------------------------
(* The receive loop of a stream.                                             *)

\* Hello, EnvironmentReady, the capability list and the catalog.
Bootstrap(c) ==
    /\ conn[c].pc = "new"
    /\ \E tasks \in BOOLEAN : conn' = [conn EXCEPT ![c].pc = "register", ![c].tasks = tasks]
    /\ UNCHANGED << stopped, seen, lane, slotVars, claims, turns >>

\* The stream is registered unless the server is stopping.
Register(c) ==
    /\ conn[c].pc = "register"
    /\ To(c, IF stopped THEN "gone" ELSE "open")
    /\ UNCHANGED << stopped, seen, lane, slotVars, claims, turns >>

Current(c) == world.ready /\ ~world.saving /\ world.owner = c

\* RegisterEventTarget: an event does not change the identity of an entity of
\* a ready world.  An owner that was replaced is refused.
RegisterEventTarget(c, e) ==
    conn[c].bound => world.owner = c /\ (Current(c) => world.identity \in { None, e.target })

\* In a ready world it also refuses an event of another world, one with a
\* source of another binding, and a target without its type or definition.
MayBeForeign(c, e) == e.facts = {} /\ conn[c].bound /\ Current(c)

\* What it leaves in the directory of the world.
Registered(c, e) == IF e.facts = {} /\ Current(c) THEN [world EXCEPT !.identity = e.target] ELSE world

\* resolveAgentTarget: the target is named, among the entities, without
\* contradiction, and has a game and a world.
resolveAgentTarget(e) == e.target # None

Enqueues(c) == ~conn[c].closed /\ Len(lane[c]) <= QueueSize

\* An inline payload needs a ready world; an identity is admitted once.
Admissible(c, e) ==
    /\ e.id \notin seen[c]
    /\ resolveAgentTarget(e)
    /\ IF e.facts # {} THEN conn[c].tasks /\ Current(c) ELSE RegisterEventTarget(c, e)

\* An event that is not admitted, or a duplicate; evidence may also be
\* refused by the kernel.  A closed environment can not answer.
Refuse(c, e) ==
    /\ conn[c].pc = "open"
    /\ ~Admissible(c, e) \/ MayBeForeign(c, e) \/ e.facts # {}
    /\ To(c, IF conn[c].closed THEN "leave" ELSE "open")
    /\ UNCHANGED << stopped, seen, lane, slotVars, claims, turns >>

\* The queue is full or closed: the event was admitted and is refused, but
\* its target stays registered, and its evidence in the kernel.
RefuseFull(c, e) ==
    /\ conn[c].pc = "open" /\ Admissible(c, e) /\ ~Enqueues(c)
    /\ world' = Registered(c, e)
    /\ To(c, IF conn[c].closed THEN "leave" ELSE "open")
    /\ UNCHANGED << stopped, seen, lane, lifecycle, claims, turns >>

\* The job is queued behind its gate.  Evidence is in the kernel by then.
Enqueue(c, e) ==
    /\ conn[c].pc = "open" /\ Admissible(c, e) /\ Enqueues(c)
    /\ lane' = [lane EXCEPT ![c] = Append(@, Job(e))]
    /\ world' = Registered(c, e)
    /\ To(c, "ack")
    /\ UNCHANGED << stopped, seen, lifecycle, claims, turns >>

\* ACCEPTED, then seen, then the gate; a failed send ends the stream, with
\* the gate closed.  A closed lane may have dropped the job before.
Acknowledge(c, e) ==
    /\ conn[c].pc = "ack"
    /\ lane[c] # << >> /\ e = lane[c][Len(lane[c])].event
    /\ \/ /\ ~conn[c].closed
          /\ seen' = [seen EXCEPT ![c] = @ \union { e.id }]
          /\ lane' = [lane EXCEPT ![c][Len(lane[c])].gate = TRUE]
          /\ To(c, "open")
       \/ To(c, "leave") /\ UNCHANGED << seen, lane >>
    /\ UNCHANGED << stopped, slotVars, claims, turns >>

AcknowledgeDropped(c) ==
    /\ conn[c].pc = "ack" /\ lane[c] = << >> /\ To(c, "leave")
    /\ UNCHANGED << stopped, seen, lane, slotVars, claims, turns >>

-----------------------------------------------------------------------------
(* The lane.                                                                 *)

Head1(c) == lane[c][1]
Stage(c, stage) == lane' = [lane EXCEPT ![c][1].stage = stage]
Pop(c) == lane' = [lane EXCEPT ![c] = Tail(@)]
Turn(c) == turns' = [turns EXCEPT ![c][Head1(c).event.id] = turns[c][Head1(c).event.id] + 1]

\* Evidence is coordinated first; an ordinary event is a turn.
StartJob(c) ==
    /\ lane[c] # << >> /\ Head1(c).stage = "wait" /\ Head1(c).gate /\ ~conn[c].closed
    /\ IF Head1(c).event.facts # {}
         THEN Stage(c, "claim") /\ UNCHANGED turns
         ELSE Stage(c, "turn") /\ Turn(c)
    /\ UNCHANGED << stopped, conn, seen, slotVars, claims >>

\* Faulty variant: the facts of an interaction are not remembered.
SourceOnly(run, e) == { << run, e.source >> }

Remembered(run, e) == KeysOf(run, e)

\* claimTaskInteraction, under the lock of the world: the scope of the
\* source is the current binding and none of the keys was claimed.
Claimable(c, job) ==
    /\ Current(c) /\ job.event.source # None
    /\ job.scope = world.binding
    /\ KeysOf(world.binding.run, job.event) \cap interactions = {}

ClaimInteraction(c) ==
    LET job == Head1(c)
        keys == KeysOf(world.binding.run, job.event)
    IN  /\ lane[c] # << >> /\ job.stage = "claim"
        /\ IF Claimable(c, job)
             THEN /\ interactions' = interactions \union Remembered(world.binding.run, job.event)
                  /\ answered' = [k \in AllKeys |-> answered[k] + IF k \in keys THEN 1 ELSE 0]
                  /\ Turn(c) /\ Stage(c, "turn")
             ELSE Pop(c) /\ UNCHANGED << claims, turns >>
        /\ UNCHANGED << stopped, conn, seen, slotVars >>

\* HandleEvent returns, and history maintenance is scheduled (HistoryStore).
EndJob(c) ==
    /\ lane[c] # << >> /\ Head1(c).stage = "turn" /\ Pop(c)
    /\ UNCHANGED << stopped, conn, seen, slotVars, claims, turns >>

\* A lane that is closed drops what has not started.
AbortJob(c) ==
    /\ lane[c] # << >> /\ Head1(c).stage = "wait" /\ conn[c].closed /\ Pop(c)
    /\ UNCHANGED << stopped, conn, seen, slotVars, claims, turns >>

-----------------------------------------------------------------------------
(* The world: bind, pause, save, disconnect.                                 *)

Close(c) == IF c = None THEN conn ELSE [conn EXCEPT ![c].closed = TRUE]

\* bind takes the lock, closes admission and the lanes of the old owner ...
BindBegin(c) ==
    /\ conn[c].pc = "open" /\ conn[c].tasks /\ lifecycle = None
    /\ world.binding.gen < MaxGen
    /\ lifecycle' = c
    /\ world' = [world EXCEPT !.ready = FALSE, !.saving = FALSE]
    /\ conn' = [Close(world.owner) EXCEPT ![c].pc = "bind"]
    /\ UNCHANGED << stopped, seen, lane, claims, turns >>

\* ... waits for them, and either publishes the new generation, a stream that
\* binds again with new lanes, or fails.
BindEnd(c, run) ==
    LET old == world.owner
        fresh == [conn EXCEPT ![c].pc = "open", ![c].closed = conn[c].closed /\ old # c,
                              ![c].bound = conn[c].bound /\ old # c]
    IN  /\ conn[c].pc = "bind" /\ lifecycle = c
        /\ old # None => lane[old] = << >>
        /\ old = c => run = world.binding.run
        /\ lifecycle' = None
        /\ \/ /\ ~stopped
              /\ world' = [world EXCEPT !.owner = c, !.identity = None,
                                        !.binding = [ run |-> run, gen |-> world.binding.gen + 1 ]]
              /\ conn' = [fresh EXCEPT ![c].pc = "bound", ![c].bound = TRUE]
           \/ conn' \in { fresh, [conn EXCEPT ![c].pc = "open"] } /\ UNCHANGED world
        /\ UNCHANGED << stopped, seen, lane, claims, turns >>

\* WorldBindingReady was sent, then markReady.
MarkReady(c) ==
    /\ conn[c].pc = "bound"
    /\ \/ /\ world.owner = c /\ ~stopped /\ To(c, "open")
          /\ world' = [world EXCEPT !.ready = TRUE]
       \/ To(c, "leave") /\ UNCHANGED world
    /\ UNCHANGED << stopped, seen, lane, lifecycle, claims, turns >>

\* A refused bind of the owner, a clock violation or a delivery that failed.
PauseWorld ==
    /\ world.ready /\ world' = [world EXCEPT !.ready = FALSE]
    /\ UNCHANGED << stopped, conn, seen, lane, lifecycle, claims, turns >>

\* A save closes admission, and its finish opens it in the next generation.
Save ==
    /\ world.ready
    /\ \/ ~world.saving /\ world' = [world EXCEPT !.saving = TRUE]
       \/ /\ world.saving /\ world.binding.gen < MaxGen
          /\ world' = [world EXCEPT !.saving = FALSE, !.binding.gen = world.binding.gen + 1]
    /\ UNCHANGED << stopped, conn, seen, lane, lifecycle, claims, turns >>

\* The stream ends for any reason, or Server.Close ends it.
Leave(c) ==
    /\ conn[c].pc \in { "register", "open" }
    /\ To(c, IF conn[c].pc = "open" THEN "leave" ELSE "gone")
    /\ UNCHANGED << stopped, seen, lane, slotVars, claims, turns >>

\* closeConnection: the owner takes the lock and closes admission ...
Disconnect(c) ==
    /\ conn[c].pc = "leave" /\ (conn[c].bound => lifecycle = None)
    /\ conn' = [conn EXCEPT ![c].pc = "drain", ![c].closed = TRUE]
    /\ IF world.owner = c /\ conn[c].bound
         THEN lifecycle' = c /\ world' = [world EXCEPT !.ready = FALSE]
         ELSE UNCHANGED slotVars
    /\ UNCHANGED << stopped, seen, lane, claims, turns >>

\* ... and leaves the world when the lanes have ended, unless a save holds it.
Drained(c) ==
    /\ conn[c].pc = "drain" /\ lane[c] = << >>
    /\ conn' = [conn EXCEPT ![c] = [Unopened EXCEPT !.pc = "gone"]]
    /\ seen' = [seen EXCEPT ![c] = {}] /\ turns' = [turns EXCEPT ![c] = NoTurns]
    /\ IF lifecycle = c
         THEN lifecycle' = None /\ world' \in { world, [world EXCEPT !.owner = None, !.saving = FALSE] }
         ELSE UNCHANGED slotVars
    /\ UNCHANGED << stopped, lane, claims >>

\* StopTaskAdmission
Stop ==
    /\ ~stopped /\ stopped' = TRUE
    /\ world' = [world EXCEPT !.ready = FALSE]
    /\ UNCHANGED << conn, seen, lane, lifecycle, claims, turns >>

Next ==
    \/ \E c \in Streams :
         \/ Bootstrap(c) \/ Register(c)
         \/ \E e \in Events : \/ Refuse(c, e) \/ RefuseFull(c, e)
                            \/ Enqueue(c, e) \/ Acknowledge(c, e)
         \/ AcknowledgeDropped(c)
         \/ StartJob(c) \/ ClaimInteraction(c) \/ EndJob(c) \/ AbortJob(c)
         \/ BindBegin(c) \/ (\E run \in Runs : BindEnd(c, run)) \/ MarkReady(c)
         \/ Leave(c) \/ Disconnect(c) \/ Drained(c)
    \/ PauseWorld \/ Save \/ Stop

Spec == Init /\ [][Next]_vars

-----------------------------------------------------------------------------
\* A turn starts only after its event was acknowledged on its stream, and an
\* event re-sent there is not run again; an interaction, known by its source
\* or by any fact it carries, is answered by one turn of its run, on
\* whichever stream and however often it is delivered.
EventsRunOnce ==
    /\ \A c \in Streams : \A i \in EventIds :
         turns[c][i] <= IF i \in seen[c] THEN 1 ELSE 0
    /\ \A k \in AllKeys : answered[k] <= 1
=============================================================================
