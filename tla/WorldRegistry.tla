---------------------------- MODULE WorldRegistry ----------------------------
(***************************************************************************)
(* Who may act for one world: gateway.WorldRegistry above the task kernel. *)
(* slot is the in-memory worldSlot, k the durable world head the kernel    *)
(* keeps, life the holder of slot.lifecycle.  Every adapter stream is a    *)
(* connection with one handler goroutine (pc) that binds, saves, reports   *)
(* clocks and finally disconnects; the lane workers of a connection (exec) *)
(* and the dispatcher (disp) act for the world meanwhile and may pause it. *)
(*                                                                         *)
(* A step is what runs under slot.mu, one kernel transaction, or a wait.   *)
(* authorityEpoch is left out: the steps below compare bindings only, and  *)
(* GenerationOpensOnce shows that a generation markReady has opened is not *)
(* admitted again once it was interrupted.  Where a takeover inherits      *)
(* slot.ready (AnnouncedBeforeReady), only the epoch tells the admission   *)
(* before an interruption from the one markReady makes after it.           *)
(***************************************************************************)
EXTENDS Naturals, FiniteSets

CONSTANTS Conns,      \* adapter streams
          NoConn,     \* slot.owner == nil
          Runs,       \* world run identities
          NoRun,      \* RunID = "", RecoveryRunID = ""
          Saves,      \* save request identities
          NoSave,     \* SaveRequestID = ""
          Refs,       \* what a binding says of its checkpoint reference
          Codes,      \* error codes the dispatcher and deliveries pause with
          MaxGen,     \* bound on generations (NextDurableCounter)
          MaxClock,   \* bound on clock sequences
          Faults      \* may a transaction fail (the store, or the stream's context),
                      \* or commit and lose its answer?

ASSUME RegistryAssumption ==
    /\ NoConn \notin Conns
    /\ NoRun \notin Runs
    /\ NoSave \notin Saves
    /\ Codes \cap { "none", "world_rebind", "connection_closed", "clock", "recovery" } = {}
    /\ Refs \subseteq { "absent", "confirmed", "unconfirmed" }
    /\ MaxGen \in Nat \ {0}
    /\ MaxClock \in Nat
    /\ Faults \in BOOLEAN

VARIABLES k, slot, life, pc, req, got, lanes, wire, bound, exec, disp, stopped,
          opened,   \* the greatest generation markReady has admitted
          faulted   \* has a transaction failed?

stream == << req, got, lanes, wire, bound >>
store == << k, faulted >>
actors == << exec, disp >>
vars == << store, slot, life, pc, stream, actors, stopped, opened >>

Gens == 0 .. MaxGen
Clocks == 0 .. MaxClock
Reasons == Codes \cup { "none", "world_rebind", "connection_closed", "clock", "recovery" }

\* The part of task.Head that the registry copies.
NoHead == [ run |-> NoRun, gen |-> 0, clock |-> 0, status |-> "absent", reason |-> "none" ]
Head == [ run : Runs \cup {NoRun}, gen : Gens, clock : Clocks,
          status : { "absent", "ready", "paused" }, reason : Reasons ]

Requests == [ gen : Gens, run : Runs, clock : Clocks, wellFormed : BOOLEAN,
              ref : Refs ]
NoRequest == [ gen |-> 0, run |-> NoRun, clock |-> 0, wellFormed |-> FALSE,
               ref |-> "absent" ]

\* A task execution of a connection's lanes, or a scan of the dispatcher: the
\* generation it captured and the code it is about to persist a pause with.
Actor == [ gen : Gens, code : Codes \cup {"none"} ]
Idle == [ gen |-> 0, code |-> "none" ]

\* Where a stream handler is inside bind, its reply, or disconnect.
Busy == { "lock", "fail", "close", "deactivate", "activate", "publish", "reply",
          "mark", "leave", "part", "foreign", "retire" }

Errors == { "none", "refused", "save_in_progress", "storage" }

Init ==
    /\ \/ k = [ head |-> NoHead, own |-> TRUE, barrier |-> NoSave, ckpt |-> NoSave,
                saves |-> {}, recovery |-> NoRun ]
       \/ \E r \in Runs :     \* what an earlier process left behind
            k = [ head |-> [ run |-> r, gen |-> 1, clock |-> 0, status |-> "ready",
                             reason |-> "none" ],
                  own |-> FALSE, barrier |-> NoSave, ckpt |-> NoSave,
                  saves |-> {}, recovery |-> NoRun ]
    /\ slot = [ owner |-> NoConn, head |-> NoHead, ready |-> FALSE,
                saving |-> FALSE, save |-> NoSave, failed |-> FALSE ]
    /\ life = NoConn
    /\ pc = [c \in Conns |-> "off"]
    /\ req = [c \in Conns |-> NoRequest]
    /\ got = [c \in Conns |-> NoHead]
    /\ lanes = [c \in Conns |-> "open"]
    /\ wire = [c \in Conns |-> "open"]
    /\ bound = [c \in Conns |-> FALSE]
    /\ exec = [c \in Conns |-> Idle]
    /\ disp = Idle
    /\ stopped = "no"
    /\ opened = 0
    /\ faulted = FALSE

-----------------------------------------------------------------------------
(* Kernel transactions.  err is the answer the caller gets: "none" for nil,  *)
(* "storage" when the store failed, with or without having committed row.    *)

Fails(err, row) ==
    /\ Faults
    /\ err = "storage"
    /\ k' \in { k, row }
    /\ faulted' = TRUE

Commits(err, row) == err = "none" /\ k' = row /\ UNCHANGED faulted

Refuses(err, code) == err = code /\ UNCHANGED store

\* DeactivateWorld of generation g: a paused world answers only the reason it
\* was paused with.
Deactivate(g, reason, err) ==
    LET row == [k EXCEPT !.head.status = "paused", !.head.reason = reason]
        current == k.head.gen = g /\ k.own
        asked == k.head.status = "paused" => k.head.reason = reason
    IN  \/ current /\ k.barrier = NoSave /\ asked /\ Commits(err, row)
        \/ current /\ k.barrier # NoSave /\ Refuses(err, "save_in_progress")
        \/ ~current /\ Refuses(err, "refused")
        \/ k.barrier = NoSave /\ ~asked /\ Refuses(err, "refused")
        \/ Fails(err, IF current /\ k.barrier = NoSave /\ asked THEN row ELSE k)

\* validateWakeWorldAuthority
Serves(row, g) ==
    row.head.gen = g /\ row.head.status = "ready" /\ row.own /\ row.barrier = NoSave

UpdateClock(g, n, err) ==
    LET row == [k EXCEPT !.head.clock = n]
        may == Serves(k, g) /\ n >= k.head.clock
    IN  \/ may /\ Commits(err, row)
        \/ ~may /\ Refuses(err, "refused")
        \/ Fails(err, IF may THEN row ELSE k)

\* A save request names one checkpoint for ever.
Preparable(row, g, s) ==
    Serves(row, g) /\ (\A p \in row.saves : p.id # s) /\ g < MaxGen

Prepared(row, s) ==
    [row EXCEPT !.head.gen = @ + 1, !.barrier = s, !.ckpt = s,
                !.saves = @ \cup {[ id |-> s, clock |-> row.head.clock ]}]

\* The clock update and the snapshot of one save, two transactions; n is the
\* adapter's clock sample.
SaveWorld(g, n, s, err) ==
    LET sampled == [k EXCEPT !.head.clock = n]
        may == Serves(k, g) /\ n >= k.head.clock
    IN  \/ may /\ Preparable(sampled, g, s) /\ Commits(err, Prepared(sampled, s))
        \/ may /\ ~Preparable(sampled, g, s) /\ err = "refused" /\ k' = sampled
             /\ UNCHANGED faulted
        \/ ~may /\ Refuses(err, "refused")
        \/ may /\ Fails(err, sampled)
        \/ may /\ Preparable(sampled, g, s) /\ Fails(err, Prepared(sampled, s))

FinishSave(g, s, err) ==
    LET row == [k EXCEPT !.barrier = NoSave]
        may == k.head.gen = g /\ k.own /\ k.ckpt = s
    IN  \/ may /\ Commits(err, row)
        \/ ~may /\ Refuses(err, "refused")
        \/ Fails(err, IF may THEN row ELSE k)

\* ActivateWorld makes the world ready under request r ...
Known == k.head.status # "absent"
Foreign(r) == k.recovery # NoRun \/ k.head.run # r.run

Starts(r) == ~Known /\ r.ref = "absent"
Resumes(r) ==
    /\ Known /\ ~Foreign(r) /\ r.ref # "unconfirmed"
    /\ k.head.status = "paused" \/ ~k.own
    /\ k.head.clock <= r.clock
    /\ k.head.gen < MaxGen
Restorable(r) ==
    { p \in k.saves : /\ Known /\ Foreign(r) /\ r.ref = "confirmed"
                      /\ k.head.run # r.run
                      /\ p.clock <= r.clock
                      /\ k.head.gen < MaxGen }
\* ... or finds it so already.
Retries(r) ==
    /\ Known /\ ~Foreign(r) /\ r.ref # "unconfirmed"
    /\ k.head.status = "ready" /\ k.own
    /\ k.barrier = NoSave /\ k.head.clock = r.clock

\* Mutant: activation keeps the generation.
ReadyRowSameGeneration(r) ==
    [k EXCEPT !.head = [ run |-> r.run, gen |-> IF Known THEN k.head.gen ELSE 1,
                         clock |-> r.clock, status |-> "ready", reason |-> "none" ],
              !.own = TRUE, !.barrier = NoSave, !.recovery = NoRun]

ReadyRow(r) ==
    [k EXCEPT !.head = [ run |-> r.run, gen |-> k.head.gen + 1, clock |-> r.clock,
                         status |-> "ready", reason |-> "none" ],
              !.own = TRUE, !.barrier = NoSave, !.recovery = NoRun]

ActiveRows(r) ==
    { row \in {ReadyRow(r)} : Starts(r) \/ Resumes(r) }
      \cup { [ReadyRow(r) EXCEPT !.ckpt = p.id] : p \in Restorable(r) }
      \cup { row \in {k} : Retries(r) }

\* What a refused activation leaves: the world waits for a confirmed reference
\* when the one it was given cannot be used (pauseWorldForCheckpointFailure).
RefusedRow(r) ==
    IF ~Known
      THEN [k EXCEPT !.head = [ run |-> r.run, gen |-> 1, clock |-> r.clock,
                                status |-> "paused", reason |-> "recovery" ],
                     !.recovery = r.run]
      ELSE IF Foreign(r) /\ (k.recovery = NoRun \/ r.ref # "absent")
        THEN [k EXCEPT !.head.status = "paused", !.head.reason = "recovery",
                       !.barrier = NoSave, !.recovery = r.run]
        ELSE k

ActivateWorld(r, err) ==
    \/ \E row \in ActiveRows(r) : Commits(err, row) \/ Fails(err, row)
    \/ /\ ActiveRows(r) = {}
       /\ \/ err = "refused" /\ k' = RefusedRow(r) /\ UNCHANGED faulted
          \/ Fails(err, RefusedRow(r))

\* A barrier that outlived its bound, which any mutation retires first.
ExpireBarrier ==
    /\ k.barrier # NoSave
    /\ k' = [k EXCEPT !.barrier = NoSave]
    /\ UNCHANGED << faulted, slot, life, pc, stream, actors, stopped, opened >>
-----------------------------------------------------------------------------
(* Reading the slot.                                                        *)

\* Current, ReadyWorlds: the world takes task work.
Admitted == slot.ready /\ ~slot.saving /\ slot.owner # NoConn

\* worldSlot.check for the environment of connection c and generation g.
Checked(c, g) == slot.owner = c /\ slot.head.gen = g /\ ~slot.saving /\ slot.ready

\* What a stream handler is told of bind, and where it goes from there.
Answered(c, head) ==
    /\ pc' = [pc EXCEPT ![c] = "reply"]
    /\ got' = [got EXCEPT ![c] = head]
    /\ req' = [req EXCEPT ![c] = NoRequest]

Refused(c) == Answered(c, NoHead)

Unlock == life' = NoConn

\* Mutant: Close instead of CloseAndWait.
CloseOnly(c) == TRUE

\* LaneStore.CloseAndWait of connection c returns.
CloseAndWait(c) == exec[c] = Idle

-----------------------------------------------------------------------------
(* bind, step by step.                                                      *)

Connect(c) ==
    /\ pc[c] = "off"
    /\ stopped = "no"
    /\ pc' = [pc EXCEPT ![c] = "idle"]
    /\ UNCHANGED << store, slot, life, stream, actors, stopped, opened >>

\* A WorldBinding message arrives; its sender's admission closes at once.
Bind(c, r) ==
    /\ pc[c] = "idle"
    /\ slot' = IF bound[c] /\ slot.owner = c THEN [slot EXCEPT !.ready = FALSE] ELSE slot
    /\ \/ /\ r.wellFormed
          /\ req' = [req EXCEPT ![c] = r]
          /\ pc' = [pc EXCEPT ![c] = "lock"]
          /\ UNCHANGED got
       \/ ~r.wellFormed /\ Refused(c)
    /\ UNCHANGED << store, life, lanes, wire, bound, actors, stopped, opened >>

\* The conditions bind checks under slot.mu, given the persisted head.
Bindable(c, r) ==
    /\ ~slot.failed
    /\ r.gen # 0 => r.gen = k.head.gen /\ r.run = k.head.run
    /\ slot.owner \in { NoConn, c } \/ r.gen # 0
    /\ slot.owner = c => r.run = slot.head.run
    /\ slot.saving => k.barrier = NoSave           \* releaseExpiredSaveBarrier

BindAdmit(c) ==
    /\ pc[c] = "lock"
    /\ life = NoConn
    /\ Bindable(c, req[c])
    /\ slot' = [slot EXCEPT !.ready = FALSE, !.saving = FALSE, !.save = NoSave]
    /\ life' = c
    /\ got' = [got EXCEPT ![c] = slot.head]              \* oldHead
    /\ pc' = [pc EXCEPT ![c] = IF slot.owner = NoConn THEN "activate" ELSE "close"]
    /\ UNCHANGED << store, req, lanes, wire, bound, actors, stopped, opened >>

BindRefuse(c) ==
    /\ pc[c] = "lock"
    /\ life = NoConn
    /\ ~Bindable(c, req[c])
    /\ Refused(c)
    /\ UNCHANGED << store, slot, life, lanes, wire, bound, actors, stopped, opened >>

\* ReadHead or ReadCheckpointBarrier failed; a rebinding owner loses the world.
BindUnread(c) ==
    /\ pc[c] = "lock"
    /\ life = NoConn
    /\ Faults /\ ~slot.failed
    /\ \/ /\ slot.owner = c
          /\ slot' = [slot EXCEPT !.failed = TRUE]
          /\ life' = c
          /\ pc' = [pc EXCEPT ![c] = "fail"]
          /\ lanes' = [lanes EXCEPT ![c] = "closed"]
          /\ UNCHANGED << got, req >>
       \/ /\ slot.owner # c \/ slot.saving
          /\ Refused(c)
          /\ UNCHANGED << slot, life, lanes >>
    /\ faulted' = TRUE
    /\ UNCHANGED << k, wire, bound, actors, stopped, opened >>

BindFailed(c) ==
    /\ pc[c] = "fail"
    /\ CloseAndWait(c)
    /\ Unlock
    /\ Refused(c)
    /\ UNCHANGED << store, slot, lanes, wire, bound, actors, stopped, opened >>

\* The previous owner's environment, transport and lanes close.
BindClose(c) ==
    LET o == slot.owner
    IN  /\ pc[c] = "close"
        /\ lanes' = [lanes EXCEPT ![o] = "closed"]
        /\ wire' = IF o = c THEN wire ELSE [wire EXCEPT ![o] = "closed"]
        /\ pc' = [pc EXCEPT ![c] = "deactivate"]
        /\ UNCHANGED << store, slot, life, req, got, bound, actors, stopped, opened >>

\* The durable reason of a world that was paused before is kept.
ReasonFor(head, reason) ==
    IF head.status = "paused" /\ head.reason # "none" THEN head.reason ELSE reason

\* CloseAndWait returned; the previous binding is retired.
BindDeactivate(c) ==
    /\ pc[c] = "deactivate"
    /\ CloseAndWait(slot.owner)
    /\ \E err \in Errors :
         /\ Deactivate(got[c].gen, ReasonFor(got[c], "world_rebind"), err)
         /\ \/ /\ err = "none"
               /\ pc' = [pc EXCEPT ![c] = "activate"]
               /\ UNCHANGED << slot, life, got, req >>
            \/ /\ err # "none"
               /\ slot' = [slot EXCEPT !.failed = TRUE]
               /\ Unlock
               /\ Refused(c)
    /\ UNCHANGED << lanes, wire, bound, actors, stopped, opened >>

Stopped == stopped \in { "admission", "done" }              \* r.stopped

StopBind(c) == Refused(c) /\ Unlock /\ UNCHANGED store

\* A rebinding connection gets a new environment and new lanes first.
BindActivate(c) ==
    /\ pc[c] = "activate"
    /\ lanes' = IF slot.owner = c THEN [lanes EXCEPT ![c] = "open"] ELSE lanes
    /\ \/ Stopped /\ StopBind(c)
       \/ /\ ~Stopped
          /\ \E err \in Errors :
               /\ ActivateWorld(req[c], err)
               /\ \/ /\ err = "none"
                     /\ pc' = [pc EXCEPT ![c] = "publish"]
                     /\ got' = [got EXCEPT ![c] = k'.head]
                     /\ UNCHANGED << life, req >>
                  \/ /\ err # "none"
                     /\ Unlock
                     /\ Refused(c)
    /\ UNCHANGED << slot, wire, bound, actors, stopped, opened >>

BindPublish(c) ==
    /\ pc[c] = "publish"
    /\ slot' = [slot EXCEPT !.owner = c, !.head = got[c], !.saving = FALSE,
                            !.save = NoSave]
    /\ bound' = [bound EXCEPT ![c] = TRUE]
    /\ Unlock
    /\ Answered(c, got[c])
    /\ UNCHANGED << store, lanes, wire, actors, stopped, opened >>

\* The handler answers WorldBindingReady; a stream that is closed ends it.
Reply(c) ==
    /\ pc[c] = "reply"
    /\ \/ /\ wire[c] = "open"
          /\ pc' = [pc EXCEPT ![c] = IF got[c].status = "ready" THEN "mark" ELSE "idle"]
          /\ UNCHANGED got
       \/ /\ pc' = [pc EXCEPT ![c] = "leave"]
          /\ got' = [got EXCEPT ![c] = NoHead]
    /\ UNCHANGED << store, slot, life, req, lanes, wire, bound, actors, stopped, opened >>

Markable(c) == ~Stopped /\ slot.owner = c /\ slot.head = got[c] /\ ~slot.failed

MarkReady(c) ==
    /\ pc[c] = "mark"
    /\ \/ /\ Markable(c)
          /\ slot' = [slot EXCEPT !.ready = TRUE]
          /\ opened' = slot.head.gen
          /\ pc' = [pc EXCEPT ![c] = "idle"]
       \/ /\ ~Markable(c)
          /\ pc' = [pc EXCEPT ![c] = "leave"]
          /\ UNCHANGED << slot, opened >>
    /\ got' = [got EXCEPT ![c] = NoHead]
    /\ UNCHANGED << store, life, req, lanes, wire, bound, actors, stopped >>

-----------------------------------------------------------------------------
(* Clocks and saves.                                                        *)

\* Mutant: admission stays open.
PausedOpen(reason) ==
    [slot EXCEPT !.head.status = "paused", !.head.reason = reason]

\* What pauseClockViolation and PauseWorld make of the slot under slot.mu.
Paused(reason) ==
    [slot EXCEPT !.ready = FALSE, !.head.status = "paused", !.head.reason = reason]

\* WorldClockUpdate from the owner: a clock that runs backwards pauses the world.
ReportClock(c, n) ==
    /\ pc[c] = "idle"
    /\ Checked(c, slot.head.gen)
    /\ \E err \in Errors :
         \/ /\ n >= slot.head.clock
            /\ UpdateClock(slot.head.gen, n, err)
            /\ slot' = IF err = "none" THEN [slot EXCEPT !.head = k'.head] ELSE slot
         \/ /\ n < slot.head.clock                        \* pauseClockViolation
            /\ slot' = Paused("clock")
            /\ Deactivate(slot.head.gen, "clock", err)
    /\ UNCHANGED << life, pc, stream, actors, stopped, opened >>

\* CheckpointPrepare.  A repeated request of the save in progress is answered
\* from the store; evidence that cannot be read refuses the save like the store.
PrepareCheckpoint(c, s, n) ==
    LET closed == [slot EXCEPT !.ready = FALSE]
    IN  /\ pc[c] = "idle"
        /\ Checked(c, slot.head.gen)
        /\ \/ /\ slot' = closed                           \* releasePrepareBarrier
              /\ UNCHANGED store
           \/ \E err \in Errors :
                /\ SaveWorld(slot.head.gen, n, s, err)
                /\ slot' = IF err = "none"
                             THEN [closed EXCEPT !.head = k'.head, !.saving = TRUE,
                                                 !.save = s]
                             ELSE closed
        /\ UNCHANGED << life, pc, stream, actors, stopped, opened >>

\* Mutant: the memory barrier is dropped whatever the kernel answers.
FinishAnyway(c, g, s) ==
    /\ pc[c] = "idle"
    /\ slot.owner # NoConn
    /\ \E err \in Errors : FinishSave(g, s, err)
    /\ slot' = IF slot.saving /\ slot.save = s
                 THEN [slot EXCEPT !.saving = FALSE, !.save = NoSave]
                 ELSE slot
    /\ UNCHANGED << life, pc, stream, actors, stopped, opened >>

\* CheckpointFinish, from any stream.
FinishCheckpoint(c, g, s) ==
    /\ pc[c] = "idle"
    /\ slot.owner # NoConn
    /\ \E err \in Errors :
         /\ FinishSave(g, s, err)
         /\ slot' = IF err = "none" /\ slot.saving /\ slot.save = s
                      THEN [slot EXCEPT !.saving = FALSE, !.save = NoSave]
                      ELSE slot
    /\ UNCHANGED << life, pc, stream, actors, stopped, opened >>

-----------------------------------------------------------------------------
(* disconnect, and the end of the server.                                   *)

\* The stream ends, or a protocol error makes its handler return.
Leave(c) ==
    /\ pc[c] = "idle"
    /\ pc' = [pc EXCEPT ![c] = "leave"]
    /\ UNCHANGED << store, slot, life, stream, actors, stopped, opened >>

Disconnect(c) ==
    /\ pc[c] = "leave"
    /\ wire' = [wire EXCEPT ![c] = "closed"]
    /\ \/ bound[c] /\ pc' = [pc EXCEPT ![c] = "part"] /\ UNCHANGED lanes
       \/ /\ ~bound[c]
          /\ pc' = [pc EXCEPT ![c] = "foreign"]
          /\ lanes' = [lanes EXCEPT ![c] = "closed"]
    /\ UNCHANGED << store, slot, life, req, got, bound, actors, stopped, opened >>

DisconnectLock(c) ==
    /\ pc[c] = "part"
    /\ life = NoConn
    /\ lanes' = [lanes EXCEPT ![c] = "closed"]
    /\ life' = c
    /\ \/ /\ slot.owner = c
          /\ slot' = [slot EXCEPT !.ready = FALSE]
          /\ got' = [got EXCEPT ![c] = slot.head]
          /\ pc' = [pc EXCEPT ![c] = "retire"]
       \/ /\ slot.owner # c
          /\ pc' = [pc EXCEPT ![c] = "foreign"]
          /\ UNCHANGED << slot, got >>
    /\ UNCHANGED << store, req, wire, bound, actors, stopped, opened >>

\* Mutant: the lifecycle lock is not released on this path.
DisconnectForeignKeepsLock(c) ==
    /\ pc[c] = "foreign"
    /\ CloseAndWait(c)
    /\ pc' = [pc EXCEPT ![c] = "gone"]
    /\ UNCHANGED << store, slot, life, stream, actors, stopped, opened >>

\* A connection that does not own the world only waits for its lanes.
DisconnectForeign(c) ==
    /\ pc[c] = "foreign"
    /\ CloseAndWait(c)
    /\ life' = IF life = c THEN NoConn ELSE life
    /\ pc' = [pc EXCEPT ![c] = "gone"]
    /\ UNCHANGED << store, slot, stream, actors, stopped, opened >>

\* Mutant: a held save barrier drops the owner as well.
RetiredDespiteSave(err, reason) ==
    IF err \in { "none", "save_in_progress" }
      THEN [slot EXCEPT !.owner = NoConn, !.saving = FALSE, !.save = NoSave,
                        !.head.status = "paused", !.head.reason = reason]
      ELSE [slot EXCEPT !.failed = TRUE]

\* The slot after DeactivateWorld answered err: a save barrier outlives the
\* stream and keeps the owner, any other error is latched.
Retired(err, reason) ==
    CASE err = "none" ->
           [slot EXCEPT !.owner = NoConn, !.saving = FALSE, !.save = NoSave,
                        !.head.status = "paused", !.head.reason = reason]
      [] err = "save_in_progress" -> slot
      [] OTHER -> [slot EXCEPT !.failed = TRUE]

DisconnectOwner(c) ==
    LET reason == ReasonFor(got[c], "connection_closed")
    IN  /\ pc[c] = "retire"
        /\ CloseAndWait(c)
        /\ \E err \in Errors :
             Deactivate(got[c].gen, reason, err) /\ slot' = Retired(err, reason)
        /\ Unlock
        /\ pc' = [pc EXCEPT ![c] = "gone"]
        /\ got' = [got EXCEPT ![c] = NoHead]
        /\ UNCHANGED << req, lanes, wire, bound, actors, stopped, opened >>

\* Server.Close: every stream is cancelled, the dispatcher is cancelled and
\* waited for, and StopAdmission sets stopped before it closes the slot.
Close ==
    /\ \/ stopped = "no" /\ stopped' = "streams" /\ UNCHANGED slot
       \/ stopped = "streams" /\ stopped' = "dispatch" /\ UNCHANGED slot
       \/ stopped = "dispatch" /\ disp = Idle /\ stopped' = "admission" /\ UNCHANGED slot
       \/ /\ stopped = "admission"
          /\ stopped' = "done"
          /\ slot' = [slot EXCEPT !.ready = FALSE]
    /\ UNCHANGED << store, life, pc, stream, actors, opened >>

-----------------------------------------------------------------------------
(* Task work, which captures a binding under the admission it saw and may    *)
(* pause the world long after.  A connection's lanes stand for one execution *)
(* at a time; the dispatcher is another.                                     *)

LaneStart(c) ==
    /\ pc[c] \notin { "off", "gone" }
    /\ exec[c] = Idle
    /\ Checked(c, slot.head.gen)
    /\ lanes[c] = "open"
    /\ exec' = [exec EXCEPT ![c].gen = slot.head.gen]
    /\ UNCHANGED << store, slot, life, pc, stream, disp, stopped, opened >>

LaneEnd(c) ==
    /\ exec[c] # Idle /\ exec[c].code = "none"
    /\ exec' = [exec EXCEPT ![c] = Idle]
    /\ UNCHANGED << store, slot, life, pc, stream, disp, stopped, opened >>

Scan ==
    /\ stopped \in { "no", "streams" }
    /\ disp = Idle
    /\ Admitted
    /\ disp' = [disp EXCEPT !.gen = slot.head.gen]
    /\ UNCHANGED << store, slot, life, pc, stream, exec, stopped, opened >>

ScanEnd ==
    /\ disp # Idle /\ disp.code = "none"
    /\ disp' = Idle
    /\ UNCHANGED << store, slot, life, pc, stream, exec, stopped, opened >>

\* PauseWorld(g): admission closes under slot.mu, the reason is persisted after
\* the lock was released, and what the store answers is only logged.
PauseClose(g, code) ==
    /\ slot.head.gen = g /\ slot.owner # NoConn
    /\ slot' = Paused(code)

PausePersist(actor) == \E err \in Errors : Deactivate(actor.gen, actor.code, err)

LanePause(c, code) ==
    /\ exec[c] # Idle /\ exec[c].code = "none"
    /\ PauseClose(exec[c].gen, code)
    /\ exec' = [exec EXCEPT ![c].code = code]
    /\ UNCHANGED << store, life, pc, stream, disp, stopped, opened >>

LanePersist(c) ==
    /\ exec[c].code # "none"
    /\ PausePersist(exec[c])
    /\ exec' = [exec EXCEPT ![c] = Idle]
    /\ UNCHANGED << slot, life, pc, stream, disp, stopped, opened >>

ScanPause(code) ==
    /\ disp # Idle /\ disp.code = "none"
    /\ PauseClose(disp.gen, code)
    /\ disp' = [disp EXCEPT !.code = code]
    /\ UNCHANGED << store, life, pc, stream, exec, stopped, opened >>

ScanPersist ==
    /\ disp.code # "none"
    /\ PausePersist(disp)
    /\ disp' = Idle
    /\ UNCHANGED << slot, life, pc, stream, exec, stopped, opened >>
-----------------------------------------------------------------------------
\* A stream handler between two messages, and waiting for slot.lifecycle.
Handler(c) ==
    \/ BindFailed(c) \/ BindClose(c) \/ BindDeactivate(c) \/ BindActivate(c)
    \/ BindPublish(c) \/ Reply(c) \/ MarkReady(c)
    \/ Disconnect(c) \/ DisconnectForeign(c) \/ DisconnectOwner(c)

Lock(c) == BindAdmit(c) \/ BindRefuse(c) \/ BindUnread(c) \/ DisconnectLock(c)

Message(c) ==
    \/ \E r \in Requests : Bind(c, r)
    \/ \E n \in Clocks : ReportClock(c, n)
    \/ \E s \in Saves, n \in Clocks : PrepareCheckpoint(c, s, n)
    \/ \E g \in Gens, s \in Saves : FinishCheckpoint(c, g, s)
    \/ Leave(c)

Lane(c) == LaneEnd(c) \/ LanePersist(c)
LaneStep(c) == LaneStart(c) \/ Lane(c) \/ \E code \in Codes : LanePause(c, code)

Dispatcher == ScanEnd \/ ScanPersist
DispatcherStep == Scan \/ Dispatcher \/ \E code \in Codes : ScanPause(code)

Next ==
    \/ \E c \in Conns : Connect(c) \/ Message(c) \/ Lock(c) \/ Handler(c) \/ LaneStep(c)
    \/ DispatcherStep
    \/ ExpireBarrier
    \/ Close

\* Goroutines run, sync.Mutex starves nobody, executions end, and a cancelled
\* stream's Recv fails sooner or later.
Fairness ==
    /\ \A c \in Conns : /\ WF_vars(Handler(c))
                        /\ SF_vars(Lock(c))
                        /\ WF_vars(Lane(c))
                        /\ SF_vars(stopped # "no" /\ Leave(c))
    /\ WF_vars(Dispatcher)
    /\ WF_vars(stopped # "no" /\ Close)

Spec == Init /\ [][Next]_vars
FairSpec == Spec /\ Fairness
-----------------------------------------------------------------------------
(* Properties.                                                              *)

\* Every variable keeps its type.
TypeOK ==
    /\ k \in [ head : Head, own : BOOLEAN, barrier : Saves \cup {NoSave},
               ckpt : Saves \cup {NoSave}, saves : SUBSET [ id : Saves, clock : Clocks ],
               recovery : Runs \cup {NoRun} ]
    /\ slot \in [ owner : Conns \cup {NoConn}, head : Head, ready : BOOLEAN,
                  saving : BOOLEAN, save : Saves \cup {NoSave}, failed : BOOLEAN ]
    /\ life \in Conns \cup {NoConn}
    /\ pc \in [Conns -> Busy \cup { "off", "idle", "gone" }]
    /\ req \in [Conns -> Requests \cup {NoRequest}]
    /\ got \in [Conns -> Head]
    /\ lanes \in [Conns -> { "open", "closed" }]
    /\ wire \in [Conns -> { "open", "closed" }]
    /\ bound \in [Conns -> BOOLEAN]
    /\ exec \in [Conns -> Actor]
    /\ disp \in Actor
    /\ stopped \in { "no", "streams", "dispatch", "admission", "done" }
    /\ opened \in Gens
    /\ faulted \in BOOLEAN

\* While an adapter can be reached and its world takes task work, the kernel
\* agrees: the same generation is ready, owned by this process and not saving.
\* Two copies of the truth are written in separate steps by streams that take
\* over from each other, pausing lanes and failing transactions.
AdmissionMatchesKernel ==
    Admitted /\ wire[slot.owner] = "open" => Serves(k, slot.head.gen)

\* Executions of two connections never overlap: bind and disconnect wait for
\* the lanes of the previous owner before anybody else is admitted.
OneExecutor ==
    \A c, d \in Conns : exec[c] # Idle /\ exec[d] # Idle => c = d

\* Admission reopens only for a generation later than all that markReady has
\* opened, whatever late markReady, failed save or repeated bind comes between:
\* work captured under such a generation cannot pass a binding check once it was
\* interrupted.
GenerationOpensOnce ==
    [][ ~Admitted /\ Admitted' => slot'.head.gen > opened ]_vars

\* The in-memory save barrier is dropped only when the kernel does not hold the
\* barrier of that save any more, by whichever stream or path.
SaveReleasedByItsFinish ==
    [][ slot.saving /\ ~slot'.saving => k'.barrier # slot.save ]_vars

\* With no owner and nobody binding, the kernel has no ready world of this
\* process: disconnect retires the authority before it drops the owner.
OwnerlessIsPaused ==
    slot.owner = NoConn /\ life = NoConn /\ ~faulted
      => ~(k.own /\ k.head.status = "ready")

\* After StopAdmission returned no late markReady opens the world again.
StopIsFinal == stopped = "done" => ~slot.ready

\* What memory admits the kernel accepts, and nothing after shutdown.
AdmissionSound == TypeOK /\ AdmissionMatchesKernel /\ StopIsFinal

\* A stream handler that binds or disconnects always gets to the end of it.
HandlersSettle ==
    \A c \in Conns : pc[c] \in Busy ~> pc[c] \in { "idle", "gone" }

\* Server.Close returns: admission is closed and every stream is gone.
ShutdownCompletes ==
    stopped # "no" ~> stopped = "done" /\ \A c \in Conns : pc[c] \in { "off", "gone" }

\* Neither a stream handler nor the shutdown waits for ever.
NothingHangs == HandlersSettle /\ ShutdownCompletes

\* "Only ready may scan": while the world takes task work, the owner's handler is
\* past sending its WorldBindingReady.  A markReady of the previous owner that
\* runs inside a takeover leaves slot.ready set for the new one.
AnnouncedBeforeReady == Admitted => pc[slot.owner] # "reply"

\* Only a failing store latches a world as failed.  The reason memory holds and
\* the reason the kernel holds can differ, and DeactivateWorld then refuses.
LatchNeedsFault == slot.failed => faulted

\* An explicit reconnect is not blocked for ever by a save barrier: once the
\* barrier is gone and the old stream too, a new run may bind.  The owner that
\* disconnect kept stays, and a binding of generation 0 is refused.
ReconnectNotBlocked ==
    /\ slot.owner # NoConn => pc[slot.owner] = "gone"
    /\ life = NoConn /\ k.barrier = NoSave /\ ~slot.failed
    => \A c \in Conns, r \in Requests :
         pc[c] = "lock" /\ r.gen = 0 => Bindable(c, r)
=============================================================================
