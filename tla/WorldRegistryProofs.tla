-------------------------- MODULE WorldRegistryProofs --------------------------
(* Who may act for a world, for any number of adapter streams, runs, saves,  *)
(* generations and clocks, with and without failing transactions: what the   *)
(* registry admits the kernel serves, executions of two connections never    *)
(* overlap, an interrupted generation is not admitted again, and a save      *)
(* barrier is dropped only by its finish.                                    *)
EXTENDS WorldRegistry, TLAPS

-----------------------------------------------------------------------------
(* The inductive invariant.                                                  *)

Rows == [ head : Head, own : BOOLEAN, barrier : Saves \cup {NoSave},
          ckpt : Saves \cup {NoSave}, saves : SUBSET [ id : Saves, clock : Clocks ],
          recovery : Runs \cup {NoRun} ]
Slots == [ owner : Conns \cup {NoConn}, head : Head, ready : BOOLEAN,
           saving : BOOLEAN, save : Saves \cup {NoSave}, failed : BOOLEAN ]

\* A world the kernel has never seen has no generation.
AbsentIsNew == k.head.status = "absent" => k.head.gen = 0

\* Where a handler holds slot.lifecycle.
Holding == { "fail", "close", "deactivate", "activate", "publish", "retire" }
LockSound == \A c \in Conns : pc[c] \in Holding => life = c

\* The owner has bound; it changes only under slot.lifecycle.
OwnerSound ==
    \A c \in Conns : /\ slot.owner = c => bound[c]
                     /\ pc[c] \in { "close", "deactivate" } => slot.owner # NoConn
                     /\ pc[c] = "retire" => slot.owner = c

\* Where the handler of an admitted owner may be.
Live == { "idle", "reply", "mark", "leave", "part" }

ReadySound ==
    /\ slot.ready => /\ slot.owner \in Conns /\ pc[slot.owner] \in Live
                     /\ slot.head.status = "ready" /\ ~slot.saving
    /\ slot.saving => slot.save # NoSave
    /\ stopped = "done" => ~slot.ready

Other(c) == slot.owner # NoConn /\ slot.owner # c

\* A takeover: the previous owner is cut off, then idle, then retired in the
\* kernel, and the new generation is served before it is published.
TakeoverSound ==
    \A c \in Conns :
      /\ pc[c] \in { "close", "deactivate" } =>
           got[c].gen <= slot.head.gen /\ (slot.saving => got[c].gen < slot.head.gen)
      /\ pc[c] \in { "deactivate", "activate", "publish" } /\ Other(c) =>
           lanes[slot.owner] = "closed" /\ wire[slot.owner] = "closed"
      /\ pc[c] \in { "activate", "publish" } =>
           ~slot.saving /\ (Other(c) => exec[slot.owner] = Idle)
      /\ pc[c] = "activate" /\ slot.owner # NoConn => k.head.status = "paused"
      /\ pc[c] = "publish" => /\ Serves(k, got[c].gen) /\ got[c].status = "ready"
                              /\ got[c].gen > slot.head.gen

\* Memory never runs ahead of the kernel, and lags behind a ready world that
\* has no owner.
GenSound ==
    /\ opened <= slot.head.gen /\ slot.head.gen <= k.head.gen
    /\ slot.owner = NoConn /\ k.own /\ k.head.status = "ready" => k.head.gen > slot.head.gen

\* Work belongs to the owner and to a generation memory has had; a pause that
\* is still to be persisted has already closed its generation.
Pausing(a) == a.code # "none" /\ a.gen = slot.head.gen
ActorSound(a) == a.gen <= slot.head.gen /\ (Pausing(a) => slot.head.status = "paused")
WorkSound ==
    /\ \A c \in Conns : (exec[c] # Idle => slot.owner = c) /\ ActorSound(exec[c])
    /\ ActorSound(disp)

\* What the handler of the owner may still announce and admit.
Announces(c) ==
    pc[c] \in { "reply", "mark" } /\ got[c].status = "ready" /\ slot.owner = c /\ slot.head = got[c]
AnswerSound ==
    \A c \in Conns :
      /\ pc[c] = "mark" => got[c].status = "ready"
      /\ Announces(c) => /\ got[c].gen > opened /\ ~slot.saving
                         /\ wire[c] = "open" => Serves(k, got[c].gen)

\* Without a failure, a ready world of this process has an owner or gets one.
RetiredSound ==
    ~faulted /\ slot.owner = NoConn /\ k.own /\ k.head.status = "ready" =>
      \E c \in Conns : pc[c] = "publish"

IInv ==
    /\ TypeOK /\ AbsentIsNew /\ LockSound /\ OwnerSound /\ ReadySound /\ TakeoverSound
    /\ GenSound /\ WorkSound /\ AnswerSound /\ RetiredSound /\ AdmissionMatchesKernel

-----------------------------------------------------------------------------
(* What the transactions of the kernel leave.                                *)

LEMMA Bounds == MaxGen \in Nat /\ MaxGen > 0 /\ MaxClock \in Nat
<1>1. MaxGen \in Nat \ {0} /\ MaxClock \in Nat BY RegistryAssumption
<1> QED BY <1>1

LEMMA RowFacts ==
    ASSUME IInv
    PROVE  k \in Rows /\ k.head \in Head /\ slot \in Slots /\ slot.head \in Head /\ faulted \in BOOLEAN
BY DEF IInv, TypeOK, Rows, Slots

\* A row with another head, and what the registry reads of it.
LEMMA HeadChanges ==
    ASSUME NEW row \in Rows, NEW h \in Head
    PROVE  LET new == [row EXCEPT !.head = h]
           IN  new \in Rows /\ new.head = h /\ new.own = row.own /\ new.barrier = row.barrier
                 /\ new.saves = row.saves /\ new.recovery = row.recovery /\ new.ckpt = row.ckpt
BY DEF Rows

\* DeactivateWorld commits a pause of generation g, or changes nothing.
Deactivated(g) ==
    /\ k.head.gen = g /\ k.own /\ k.barrier = NoSave
    /\ k'.head.status = "paused" /\ k'.head.gen = k.head.gen
    /\ k'.own = k.own /\ k'.barrier = k.barrier

Written == k' \in Rows /\ faulted' \in BOOLEAN /\ (faulted => faulted')

LEMMA DeactivateFacts ==
    ASSUME IInv
    PROVE  \A g : \A reason \in Reasons : \A err : Deactivate(g, reason, err) =>
             /\ Written /\ (k' = k \/ Deactivated(g))
             /\ err = "none" => Deactivated(g) /\ faulted' = faulted
<1> SUFFICES ASSUME NEW g, NEW reason \in Reasons, NEW err, Deactivate(g, reason, err)
             PROVE  /\ Written /\ (k' = k \/ Deactivated(g))
                    /\ err = "none" => Deactivated(g) /\ faulted' = faulted
  OBVIOUS
<1> DEFINE h == [k.head EXCEPT !.status = "paused", !.reason = reason]
           row == [k EXCEPT !.head = h]
           may == k.head.gen = g /\ k.own /\ k.barrier = NoSave
<1>1. k \in Rows /\ k.head \in Head /\ faulted \in BOOLEAN BY RowFacts
<1>2. h \in Head /\ h.status = "paused" /\ h.gen = k.head.gen BY <1>1 DEF Head
<1>3. [k EXCEPT !.head.status = "paused", !.head.reason = reason] = row BY <1>1 DEF Rows
<1> HIDE DEF h
<1>4. row \in Rows /\ row.head = h /\ row.own = k.own /\ row.barrier = k.barrier
  BY <1>1, <1>2 DEF Rows
<1> HIDE DEF row
<1>5. \/ may /\ err = "none" /\ k' = row /\ faulted' = faulted
      \/ err \in { "refused", "save_in_progress" } /\ k' = k /\ faulted' = faulted
      \/ err = "storage" /\ faulted' = TRUE /\ (k' = k \/ (may /\ k' = row))
  BY <1>3 DEF Deactivate, Commits, Refuses, Fails, store
<1>6. k' = row /\ may => Deactivated(g) BY <1>2, <1>4 DEF Deactivated
<1> QED BY <1>1, <1>4, <1>5, <1>6 DEF Written

\* UpdateClock changes the clock of a world it serves, or nothing.
Clocked(g) ==
    /\ Serves(k, g) /\ k'.head.gen = k.head.gen /\ k'.head.status = k.head.status
    /\ k'.own = k.own /\ k'.barrier = k.barrier

LEMMA ClockRow ==
    ASSUME IInv, NEW n \in Clocks
    PROVE  LET row == [k EXCEPT !.head.clock = n]
           IN  /\ row \in Rows /\ row.head \in Head /\ row.head.gen = k.head.gen
               /\ row.head.status = k.head.status /\ row.own = k.own /\ row.barrier = k.barrier
               /\ row.saves = k.saves /\ row.head.clock = n
<1> DEFINE h == [k.head EXCEPT !.clock = n]
           row == [k EXCEPT !.head = h]
<1>1. k \in Rows /\ k.head \in Head BY RowFacts
<1>2. h \in Head /\ h.gen = k.head.gen /\ h.status = k.head.status /\ h.clock = n BY <1>1 DEF Head
<1>3. [k EXCEPT !.head.clock = n] = row BY <1>1 DEF Rows
<1> HIDE DEF h
<1>4. row \in Rows /\ row.head = h /\ row.own = k.own /\ row.barrier = k.barrier /\ row.saves = k.saves
  BY <1>1, <1>2 DEF Rows
<1> HIDE DEF row
<1> QED BY <1>2, <1>3, <1>4

LEMMA UpdateClockFacts ==
    ASSUME IInv
    PROVE  \A g : \A n \in Clocks : \A err : UpdateClock(g, n, err) =>
             /\ Written /\ (k' = k \/ Clocked(g))
             /\ err = "none" => Clocked(g) /\ k'.head \in Head
<1> SUFFICES ASSUME NEW g, NEW n \in Clocks, NEW err, UpdateClock(g, n, err)
             PROVE  /\ Written /\ (k' = k \/ Clocked(g))
                    /\ err = "none" => Clocked(g) /\ k'.head \in Head
  OBVIOUS
<1> DEFINE row == [k EXCEPT !.head.clock = n]
<1>1. k \in Rows /\ faulted \in BOOLEAN BY RowFacts
<1>2. /\ row \in Rows /\ row.head \in Head /\ row.head.gen = k.head.gen
      /\ row.head.status = k.head.status /\ row.own = k.own /\ row.barrier = k.barrier
  BY ClockRow
<1>3. \/ Serves(k, g) /\ err = "none" /\ k' = row /\ faulted' = faulted
      \/ err = "refused" /\ k' = k /\ faulted' = faulted
      \/ err = "storage" /\ faulted' = TRUE /\ (k' = k \/ (Serves(k, g) /\ k' = row))
  BY DEF UpdateClock, Commits, Refuses, Fails, store
<1> HIDE DEF row
<1> QED BY <1>1, <1>2, <1>3 DEF Written, Clocked

\* The snapshot of a save opens the next generation behind its barrier.
Saved(g, s) ==
    /\ Serves(k, g) /\ k'.head.gen = g + 1 /\ k'.head.status = "ready"
    /\ k'.own /\ k'.barrier = s

LEMMA SaveWorldFacts ==
    ASSUME IInv
    PROVE  \A g \in Gens : \A n \in Clocks : \A s \in Saves : \A err : SaveWorld(g, n, s, err) =>
             /\ Written /\ (k' = k \/ Clocked(g) \/ Saved(g, s))
             /\ err = "none" => Saved(g, s) /\ k'.head \in Head
<1> SUFFICES ASSUME NEW g \in Gens, NEW n \in Clocks, NEW s \in Saves, NEW err, SaveWorld(g, n, s, err)
             PROVE  /\ Written /\ (k' = k \/ Clocked(g) \/ Saved(g, s))
                    /\ err = "none" => Saved(g, s) /\ k'.head \in Head
  OBVIOUS
<1> DEFINE row == [k EXCEPT !.head.clock = n]
           pre == Prepared(row, s)
           may == Serves(k, g) /\ g < MaxGen
<1>1. k \in Rows /\ faulted \in BOOLEAN BY RowFacts
<1>2. /\ row \in Rows /\ row.head \in Head /\ row.head.gen = k.head.gen
      /\ row.head.status = k.head.status /\ row.own = k.own /\ row.barrier = k.barrier
      /\ row.head.clock = n
  BY ClockRow
<1>3. \/ may /\ err = "none" /\ k' = pre /\ faulted' = faulted
      \/ Serves(k, g) /\ err = "refused" /\ k' = row /\ faulted' = faulted
      \/ err = "refused" /\ k' = k /\ faulted' = faulted
      \/ Serves(k, g) /\ err = "storage" /\ faulted' = TRUE /\ (k' = k \/ k' = row)
      \/ may /\ err = "storage" /\ faulted' = TRUE /\ (k' = k \/ k' = pre)
  BY DEF SaveWorld, Commits, Refuses, Fails, store, Preparable
<1> HIDE DEF row
<1>4. ASSUME may
      PROVE  pre \in Rows /\ pre.head \in Head /\ pre.head.gen = g + 1 /\ pre.head.status = "ready"
             /\ pre.own /\ pre.barrier = s
  <2> DEFINE h == [row.head EXCEPT !.gen = row.head.gen + 1]
             ids == row.saves \cup {[ id |-> s, clock |-> row.head.clock ]}
             new == [row EXCEPT !.head = h, !.barrier = s, !.ckpt = s, !.saves = ids]
  <2>1. row.head.gen = g /\ row.head.status = "ready" /\ row.own /\ k.head.gen = g
    BY <1>2, <1>4 DEF Serves
  <2>2. g + 1 \in Gens
    <3>1. g \in 0..MaxGen /\ g < MaxGen BY <1>4 DEF Gens
    <3> QED BY <3>1, Bounds DEF Gens
  <2>3. h \in Head /\ h.gen = g + 1 /\ h.status = "ready" BY <1>2, <2>1, <2>2 DEF Head
  <2>4. ids \in SUBSET [ id : Saves, clock : Clocks ]
    <3>1. row.saves \in SUBSET [ id : Saves, clock : Clocks ] BY <1>2 DEF Rows
    <3> QED BY <1>2, <3>1
  <2>5. pre = new BY <1>2 DEF Prepared, Rows
  <2> HIDE DEF h, ids
  <2>6. new \in Rows /\ new.head = h /\ new.own = row.own /\ new.barrier = s
    BY <1>2, <2>3, <2>4 DEF Rows
  <2> QED BY <2>1, <2>3, <2>5, <2>6
<1> HIDE DEF pre
<1>5. k' = row /\ Serves(k, g) => Written /\ Clocked(g) BY <1>1, <1>2, <1>3 DEF Written, Clocked
<1>6. k' = pre /\ may => Written /\ Saved(g, s) /\ k'.head \in Head
  BY <1>1, <1>3, <1>4 DEF Written, Saved
<1> QED BY <1>1, <1>3, <1>5, <1>6 DEF Written

\* FinishSave drops the barrier of its save, or changes nothing.
Released == k'.head = k.head /\ k'.own = k.own /\ k'.barrier = NoSave

LEMMA FinishSaveFacts ==
    ASSUME IInv
    PROVE  \A g, s, err : FinishSave(g, s, err) =>
             Written /\ (k' = k \/ Released) /\ (err = "none" => Released)
<1> SUFFICES ASSUME NEW g, NEW s, NEW err, FinishSave(g, s, err)
             PROVE  Written /\ (k' = k \/ Released) /\ (err = "none" => Released)
  OBVIOUS
<1> DEFINE row == [k EXCEPT !.barrier = NoSave]
<1>1. k \in Rows /\ faulted \in BOOLEAN BY RowFacts
<1>2. row \in Rows /\ row.head = k.head /\ row.own = k.own /\ row.barrier = NoSave BY <1>1 DEF Rows
<1>3. \/ err = "none" /\ k' = row /\ faulted' = faulted
      \/ err = "refused" /\ k' = k /\ faulted' = faulted
      \/ err = "storage" /\ faulted' = TRUE /\ (k' = k \/ k' = row)
  BY DEF FinishSave, Commits, Refuses, Fails, store
<1> HIDE DEF row
<1> QED BY <1>1, <1>2, <1>3 DEF Written, Released

\* ActivateWorld makes the next generation ready, finds the world ready, or
\* leaves it paused.
Activated ==
    /\ k'.head.gen = k.head.gen + 1 /\ k'.head.status = "ready"
    /\ k'.own /\ k'.barrier = NoSave
Declined == k'.head.status = "paused" /\ k'.head.gen >= k.head.gen

Asks == [ gen : Gens, run : Runs \cup {NoRun}, clock : Clocks, wellFormed : BOOLEAN,
          ref : Refs \cup {"absent"} ]

LEMMA ReadyRowFacts ==
    ASSUME IInv, NEW r \in Asks, k.head.gen < MaxGen, NEW id \in Saves \cup {NoSave}
    PROVE  LET row == ReadyRow(r)
               new == [ReadyRow(r) EXCEPT !.ckpt = id]
           IN  /\ row \in Rows /\ row.head \in Head /\ row.head.gen = k.head.gen + 1
               /\ row.head.status = "ready" /\ row.own /\ row.barrier = NoSave
               /\ new \in Rows /\ new.head = row.head /\ new.own /\ new.barrier = NoSave
<1> DEFINE h == [ run |-> r.run, gen |-> k.head.gen + 1, clock |-> r.clock,
                  status |-> "ready", reason |-> "none" ]
           row == [k EXCEPT !.head = h, !.own = TRUE, !.barrier = NoSave, !.recovery = NoRun]
           new == [row EXCEPT !.ckpt = id]
<1>1. k \in Rows /\ k.head \in Head BY RowFacts
<1>2. k.head.gen + 1 \in Gens
  <2>1. k.head.gen \in 0..MaxGen BY <1>1 DEF Head, Gens
  <2> QED BY <2>1, Bounds DEF Gens
<1>3. h \in Head /\ h.gen = k.head.gen + 1 /\ h.status = "ready"
  BY <1>2 DEF Head, Asks, Reasons
<1> HIDE DEF h
<1>4. row \in Rows /\ row.head = h /\ row.own /\ row.barrier = NoSave BY <1>1, <1>3 DEF Rows
<1>5. ReadyRow(r) = row BY DEF ReadyRow, h
<1> HIDE DEF row
<1>6. new \in Rows /\ new.head = row.head /\ new.own /\ new.barrier = NoSave BY <1>4 DEF Rows
<1> HIDE DEF new
<1> QED BY <1>3, <1>4, <1>5, <1>6 DEF new

LEMMA RefusedRowFacts ==
    ASSUME IInv, NEW r \in Asks
    PROVE  LET row == RefusedRow(r)
           IN  row \in Rows /\ (row = k \/ (row.head.status = "paused" /\ row.head.gen >= k.head.gen))
<1>1. k \in Rows /\ k.head \in Head BY RowFacts
<1>2. CASE ~Known
  <2> DEFINE h == [ run |-> r.run, gen |-> 1, clock |-> r.clock,
                    status |-> "paused", reason |-> "recovery" ]
             row == [k EXCEPT !.head = h, !.recovery = r.run]
  <2>1. 1 \in Gens BY Bounds DEF Gens
  <2>2. h \in Head /\ h.status = "paused" /\ h.gen = 1 BY <2>1 DEF Head, Asks, Reasons
  <2>3. k.head.gen = 0 BY <1>2 DEF IInv, AbsentIsNew, Known
  <2>4. r.run \in Runs \cup {NoRun} BY DEF Asks
  <2>5. RefusedRow(r) = row BY <1>2 DEF RefusedRow
  <2> HIDE DEF h
  <2>6. row \in Rows /\ row.head = h BY <1>1, <2>2, <2>4 DEF Rows
  <2> HIDE DEF row
  <2>7. row.head.gen >= k.head.gen BY <2>2, <2>3, <2>6
  <2> QED BY <2>2, <2>5, <2>6, <2>7
<1>3. CASE Known /\ Foreign(r) /\ (k.recovery = NoRun \/ r.ref # "absent")
  <2> DEFINE h == [k.head EXCEPT !.status = "paused", !.reason = "recovery"]
             row == [k EXCEPT !.head = h, !.barrier = NoSave, !.recovery = r.run]
  <2>1. h \in Head /\ h.status = "paused" /\ h.gen = k.head.gen BY <1>1 DEF Head, Reasons
  <2>2. r.run \in Runs \cup {NoRun} BY DEF Asks
  <2>3. RefusedRow(r) = [k EXCEPT !.head.status = "paused", !.head.reason = "recovery",
                                  !.barrier = NoSave, !.recovery = r.run]
    BY <1>3 DEF RefusedRow
  <2>4. [k EXCEPT !.head.status = "paused", !.head.reason = "recovery",
                  !.barrier = NoSave, !.recovery = r.run] = row
    BY <1>1 DEF Rows
  <2> HIDE DEF h
  <2>5. row \in Rows /\ row.head = h BY <1>1, <2>1, <2>2 DEF Rows
  <2> HIDE DEF row
  <2>6. k.head.gen \in Nat BY <1>1, Bounds DEF Head, Gens
  <2>7. row.head.gen >= k.head.gen BY <2>1, <2>5, <2>6
  <2> QED BY <2>1, <2>3, <2>4, <2>5, <2>7
<1>4. CASE Known /\ ~(Foreign(r) /\ (k.recovery = NoRun \/ r.ref # "absent"))
  BY <1>1, <1>4 DEF RefusedRow
<1> QED BY <1>2, <1>3, <1>4

LEMMA ActivateFacts ==
    ASSUME IInv
    PROVE  \A r \in Asks : \A err : ActivateWorld(r, err) =>
             /\ Written /\ (k' = k \/ Activated \/ Declined)
             /\ err = "none" => /\ k'.head \in Head /\ k'.barrier = NoSave
                                /\ Activated \/ (k' = k /\ k.own /\ k.head.status = "ready")
             /\ err # "none" /\ ~faulted' => k' = k \/ Declined
<1> SUFFICES ASSUME NEW r \in Asks, NEW err, ActivateWorld(r, err)
             PROVE  /\ Written /\ (k' = k \/ Activated \/ Declined)
                    /\ err = "none" => /\ k'.head \in Head /\ k'.barrier = NoSave
                                       /\ Activated \/ (k' = k /\ k.own /\ k.head.status = "ready")
                    /\ err # "none" /\ ~faulted' => k' = k \/ Declined
  OBVIOUS
<1>1. k \in Rows /\ k.head \in Head /\ faulted \in BOOLEAN BY RowFacts
<1>2. CASE \E row \in ActiveRows(r) : Commits(err, row) \/ Fails(err, row)
  <2>1. PICK row \in ActiveRows(r) : Commits(err, row) \/ Fails(err, row) BY <1>2
  <2>2. \/ row \in Rows /\ row.head \in Head /\ row.head.gen = k.head.gen + 1
           /\ row.head.status = "ready" /\ row.own /\ row.barrier = NoSave
        \/ row = k /\ k.own /\ k.head.status = "ready" /\ k.barrier = NoSave
    <3>1. CASE row = ReadyRow(r) /\ (Starts(r) \/ Resumes(r))
      <4>1. k.head.gen < MaxGen
        <5>1. CASE Starts(r) BY <5>1, Bounds DEF Starts, Known, IInv, AbsentIsNew
        <5>2. CASE Resumes(r) BY <5>2 DEF Resumes
        <5> QED BY <3>1, <5>1, <5>2
      <4> QED BY <3>1, <4>1, ReadyRowFacts
    <3>2. ASSUME NEW p \in Restorable(r), row = [ReadyRow(r) EXCEPT !.ckpt = p.id]
          PROVE  row \in Rows /\ row.head \in Head /\ row.head.gen = k.head.gen + 1
                 /\ row.head.status = "ready" /\ row.own /\ row.barrier = NoSave
      <4>1. k.head.gen < MaxGen /\ p \in k.saves BY DEF Restorable
      <4>2. p.id \in Saves \cup {NoSave} BY <1>1, <4>1 DEF Rows
      <4> QED BY <3>2, <4>1, <4>2, ReadyRowFacts
    <3>3. CASE row = k /\ Retries(r) BY <3>3 DEF Retries
    <3> QED BY <3>1, <3>2, <3>3 DEF ActiveRows
  <2>3. \/ err = "none" /\ k' = row /\ faulted' = faulted
        \/ err = "storage" /\ faulted' = TRUE /\ (k' = k \/ k' = row)
    BY <2>1 DEF Commits, Fails
  <2> QED BY <1>1, <2>2, <2>3 DEF Written, Activated
<1>3. CASE \/ err = "refused" /\ k' = RefusedRow(r) /\ UNCHANGED faulted
           \/ Fails(err, RefusedRow(r))
  <2>1. \/ err = "refused" /\ k' = RefusedRow(r) /\ faulted' = faulted
        \/ err = "storage" /\ faulted' = TRUE /\ (k' = k \/ k' = RefusedRow(r))
    BY <1>3 DEF Fails
  <2>2. RefusedRow(r) \in Rows
    /\ (RefusedRow(r) = k \/ (RefusedRow(r).head.status = "paused" /\ RefusedRow(r).head.gen >= k.head.gen))
    BY RefusedRowFacts
  <2> QED BY <1>1, <2>1, <2>2 DEF Written, Declined
<1> QED BY <1>2, <1>3 DEF ActivateWorld

-----------------------------------------------------------------------------
(* Steps that admit nothing: they may close admission, pause, move handlers  *)
(* outside the takeover, and let work come and go.                           *)

\* The kernel keeps its generation; if the world is paused, memory already is.
KernelQuiet ==
    /\ k'.head.gen = k.head.gen /\ k'.own = k.own /\ k'.barrier \in { k.barrier, NoSave }
    /\ \/ k'.head.status = k.head.status
       \/ k'.head.status = "paused" /\ slot.head.gen = k.head.gen /\ slot'.head.status = "paused"
    /\ faulted => faulted'

SlotQuiet ==
    /\ slot'.owner = slot.owner /\ slot'.head.gen = slot.head.gen /\ opened' = opened
    /\ slot'.ready => slot.ready
    /\ slot'.saving => slot.saving /\ slot'.save = slot.save
    /\ slot'.head.status = slot.head.status \/ (slot'.head.status = "paused" /\ ~slot'.ready)
    /\ \/ slot'.head = slot.head \/ slot'.head.status = "paused"
       \/ slot.owner \in Conns /\ pc'[slot.owner] \notin { "reply", "mark" }
    /\ stopped' = "done" => stopped = "done" \/ ~slot'.ready

\* Connections are cut off and never joined again.
StreamsQuiet ==
    \A q \in Conns : /\ bound'[q] = bound[q]
                     /\ lanes[q] = "closed" => lanes'[q] = "closed"
                     /\ wire[q] = "closed" => wire'[q] = "closed"

ActorMoves(a, b) ==
    \/ b = a \/ b = Idle
    \/ b.gen = slot.head.gen /\ (b.code # "none" => slot'.head.status = "paused")

WorkQuiet ==
    /\ \A q \in Conns : /\ ActorMoves(exec[q], exec'[q])
                        /\ exec'[q] # Idle => \/ exec[q] # Idle
                                              \/ slot.owner = q /\ lanes[q] = "open"
    /\ ActorMoves(disp, disp')

\* Where a handler may go by itself.
Moves(q) ==
    \/ pc'[q] = pc[q] /\ got'[q] = got[q]
    \/ /\ pc[q] # "publish" /\ pc'[q] # "publish"
       /\ pc'[q] = "activate" => slot.owner = NoConn /\ ~slot'.saving
       /\ pc'[q] \in { "close", "deactivate" } =>
            /\ slot.owner # NoConn
            /\ (got'[q] = slot.head /\ ~slot'.saving) \/ (got'[q] = got[q] /\ pc[q] = "close")
       /\ pc'[q] = "deactivate" /\ Other(q) =>
            lanes'[slot.owner] = "closed" /\ wire'[slot.owner] = "closed"
       /\ pc'[q] = "retire" => slot.owner = q
       /\ slot'.ready /\ slot.owner = q => pc'[q] \in Live
       /\ pc'[q] = "mark" => got'[q].status = "ready"
       /\ pc'[q] \in { "reply", "mark" } =>
            \/ got'[q].status # "ready"
            \/ got'[q] = got[q] /\ pc[q] \in { "reply", "mark" }

Quiet == KernelQuiet /\ SlotQuiet /\ StreamsQuiet /\ WorkQuiet /\ \A q \in Conns : Moves(q)

LEMMA GenFacts ==
    ASSUME TypeOK
    PROVE  /\ k.head.gen \in Nat /\ slot.head.gen \in Nat /\ opened \in Nat
           /\ slot.owner \in Conns \cup {NoConn} /\ NoConn \notin Conns
           /\ disp.gen \in Nat /\ \A c \in Conns : exec[c].gen \in Nat /\ got[c].gen \in Nat
<1>1. \A g \in Gens : g \in Nat BY Bounds DEF Gens
<1>2. k.head.gen \in Gens /\ slot.head.gen \in Gens /\ opened \in Gens
      /\ slot.owner \in Conns \cup {NoConn}
  BY DEF TypeOK, Head
<1>3. disp.gen \in Gens BY DEF TypeOK, Actor
<1>4. \A c \in Conns : exec[c].gen \in Gens BY DEF TypeOK, Actor
<1>5. \A c \in Conns : got[c].gen \in Gens BY DEF TypeOK, Head
<1>6. NoConn \notin Conns BY RegistryAssumption
<1> QED BY <1>1, <1>2, <1>3, <1>4, <1>5, <1>6

LEMMA QuietOwner ==
    ASSUME IInv, Quiet
    PROVE  OwnerSound'
BY DEF IInv, Quiet, SlotQuiet, StreamsQuiet, Moves, OwnerSound

LEMMA QuietReady ==
    ASSUME IInv, Quiet
    PROVE  ReadySound'
BY DEF IInv, Quiet, SlotQuiet, StreamsQuiet, Moves, ReadySound

LEMMA QuietGen ==
    ASSUME IInv, TypeOK', Quiet
    PROVE  GenSound'
BY DEF IInv, Quiet, SlotQuiet, KernelQuiet, GenSound

LEMMA QuietWork ==
    ASSUME IInv, TypeOK', Quiet
    PROVE  WorkSound'
<1>1. slot.head.gen \in Nat BY GenFacts DEF IInv
<1>2. \A a, b : ActorSound(a) /\ ActorMoves(a, b) => b.gen <= slot'.head.gen
                  /\ (b.code # "none" /\ b.gen = slot'.head.gen => slot'.head.status = "paused")
  BY <1>1 DEF Quiet, SlotQuiet, ActorMoves, ActorSound, Pausing, Idle
<1>3. \A q \in Conns : exec'[q] # Idle => slot'.owner = q
  BY DEF IInv, Quiet, SlotQuiet, WorkQuiet, WorkSound
<1>4. \A q \in Conns : ActorSound(exec[q]) /\ ActorMoves(exec[q], exec'[q])
  BY DEF IInv, WorkSound, Quiet, WorkQuiet
<1>5. ActorSound(disp) /\ ActorMoves(disp, disp') BY DEF IInv, WorkSound, Quiet, WorkQuiet
<1> QED BY <1>2, <1>3, <1>4, <1>5 DEF WorkSound, ActorSound, Pausing

LEMMA QuietAnswer ==
    ASSUME IInv, Quiet
    PROVE  AnswerSound'
<1> SUFFICES ASSUME NEW c \in Conns
             PROVE  /\ pc'[c] = "mark" => got'[c].status = "ready"
                    /\ Announces(c)' => /\ got'[c].gen > opened' /\ ~slot'.saving
                                        /\ wire'[c] = "open" => Serves(k', got'[c].gen)
  BY DEF AnswerSound, Serves
<1>1. pc'[c] = "mark" => got'[c].status = "ready"
  BY DEF IInv, AnswerSound, Quiet, Moves
<1>2. ASSUME Announces(c)'
      PROVE  /\ got'[c].gen > opened' /\ ~slot'.saving
             /\ wire'[c] = "open" => Serves(k', got'[c].gen)
  <2>1. Announces(c) /\ got'[c] = got[c] /\ slot'.head.status # "paused"
    <3>1. pc'[c] \in { "reply", "mark" } /\ got'[c].status = "ready" /\ slot'.owner = c /\ slot'.head = got'[c]
      BY <1>2 DEF Announces
    <3>2. pc[c] \in { "reply", "mark" } /\ got'[c] = got[c] BY <3>1 DEF Quiet, Moves
    <3>3. slot.owner = c /\ slot'.head = slot.head BY <3>1 DEF Quiet, SlotQuiet
    <3> QED BY <3>1, <3>2, <3>3 DEF Announces
  <2>2. got[c].gen > opened /\ ~slot.saving /\ (wire[c] = "open" => Serves(k, got[c].gen))
    BY <2>1 DEF IInv, AnswerSound
  <2>3. wire'[c] = "open" => wire[c] = "open"
    <3>1. wire[c] \in { "open", "closed" } BY DEF IInv, TypeOK
    <3> QED BY <3>1 DEF Quiet, StreamsQuiet
  <2>4. wire'[c] = "open" => Serves(k', got'[c].gen)
    BY <2>1, <2>2, <2>3 DEF Quiet, KernelQuiet, Serves
  <2> QED BY <2>1, <2>2, <2>4 DEF Quiet, SlotQuiet
<1> QED BY <1>1, <1>2

LEMMA QuietRetired ==
    ASSUME IInv, Quiet
    PROVE  RetiredSound'
BY DEF IInv, Quiet, KernelQuiet, SlotQuiet, Moves, RetiredSound

LEMMA QuietAdmission ==
    ASSUME IInv, Quiet
    PROVE  AdmissionMatchesKernel'
<1> SUFFICES ASSUME slot'.ready, ~slot'.saving, slot'.owner # NoConn, wire'[slot'.owner] = "open"
             PROVE  Serves(k', slot'.head.gen)
  BY DEF AdmissionMatchesKernel, Admitted, Serves
<1>1. slot.ready /\ slot'.owner = slot.owner /\ slot'.head.gen = slot.head.gen
  BY DEF Quiet, SlotQuiet
<1>2. slot.owner \in Conns /\ ~slot.saving /\ slot.head.status = "ready"
  BY <1>1 DEF IInv, ReadySound
<1>3. wire[slot.owner] = "open"
  <2>1. wire[slot.owner] \in { "open", "closed" } BY <1>2 DEF IInv, TypeOK
  <2> QED BY <1>1, <1>2, <2>1 DEF Quiet, StreamsQuiet
<1>4. Serves(k, slot.head.gen)
  <2>1. slot.owner # NoConn BY <1>1
  <2> QED BY <1>1, <1>2, <1>3, <2>1 DEF IInv, AdmissionMatchesKernel, Admitted
<1>5. slot'.head.status # "paused" BY <1>1, <1>2 DEF Quiet, SlotQuiet
<1> QED BY <1>1, <1>4, <1>5 DEF Quiet, KernelQuiet, Serves

LEMMA QuietTakeover ==
    ASSUME IInv, Quiet
    PROVE  TakeoverSound'
<1> SUFFICES ASSUME NEW c \in Conns
             PROVE  /\ pc'[c] \in { "close", "deactivate" } =>
                         /\ got'[c].gen <= slot'.head.gen
                         /\ slot'.saving => got'[c].gen < slot'.head.gen
                    /\ pc'[c] \in { "deactivate", "activate", "publish" } /\ Other(c)' =>
                         lanes'[slot'.owner] = "closed" /\ wire'[slot'.owner] = "closed"
                    /\ pc'[c] \in { "activate", "publish" } =>
                         ~slot'.saving /\ (Other(c)' => exec'[slot'.owner] = Idle)
                    /\ pc'[c] = "activate" /\ slot'.owner # NoConn => k'.head.status = "paused"
                    /\ pc'[c] = "publish" => /\ Serves(k', got'[c].gen) /\ got'[c].status = "ready"
                                             /\ got'[c].gen > slot'.head.gen
  BY DEF TakeoverSound, Serves
<1>1. slot'.owner = slot.owner /\ slot'.head.gen = slot.head.gen /\ (Other(c)' <=> Other(c))
  BY DEF Quiet, SlotQuiet, Other
<1>2. Other(c) => slot.owner \in Conns BY GenFacts DEF IInv, Other
<1>3. Other(c) => /\ lanes[slot.owner] = "closed" => lanes'[slot.owner] = "closed"
                  /\ wire[slot.owner] = "closed" => wire'[slot.owner] = "closed"
  BY <1>2 DEF Quiet, StreamsQuiet
<1>0. ASSUME pc'[c] \in { "close", "deactivate" }
      PROVE  got'[c].gen <= slot'.head.gen /\ (slot'.saving => got'[c].gen < slot'.head.gen)
  <2>1. CASE pc[c] \in { "close", "deactivate" } /\ got'[c] = got[c]
    BY <2>1 DEF IInv, TakeoverSound, Quiet, SlotQuiet
  <2>2. CASE got'[c] = slot.head /\ ~slot'.saving
    BY <1>1, <2>2, GenFacts DEF IInv
  <2> QED BY <1>0, <2>1, <2>2 DEF Quiet, Moves
<1>4. CASE pc'[c] = pc[c] /\ got'[c] = got[c]
  <2>1. pc[c] \in { "deactivate", "activate", "publish" } /\ Other(c) =>
          lanes'[slot.owner] = "closed" /\ wire'[slot.owner] = "closed"
    BY <1>3 DEF IInv, TakeoverSound
  <2>2. pc[c] \in { "activate", "publish" } /\ Other(c) => exec'[slot.owner] = Idle
    <3> SUFFICES ASSUME pc[c] \in { "activate", "publish" }, Other(c) PROVE exec'[slot.owner] = Idle
      OBVIOUS
    <3>1. lanes[slot.owner] = "closed" /\ exec[slot.owner] = Idle BY DEF IInv, TakeoverSound
    <3> QED BY <1>2, <3>1 DEF Quiet, WorkQuiet
  <2>3. pc[c] \in { "activate", "publish" } => ~slot'.saving
    BY DEF IInv, TakeoverSound, Quiet, SlotQuiet
  <2>4. pc[c] = "activate" /\ slot.owner # NoConn => k'.head.status = "paused"
    BY DEF IInv, TakeoverSound, Quiet, KernelQuiet
  <2>5. pc[c] = "publish" => /\ Serves(k', got[c].gen) /\ got[c].status = "ready"
                             /\ got[c].gen > slot.head.gen
    <3> SUFFICES ASSUME pc[c] = "publish"
                 PROVE  Serves(k', got[c].gen) /\ got[c].status = "ready" /\ got[c].gen > slot.head.gen
      OBVIOUS
    <3>1. Serves(k, got[c].gen) /\ got[c].status = "ready" /\ got[c].gen > slot.head.gen
      BY DEF IInv, TakeoverSound
    <3>2. slot.head.gen # k.head.gen
      <4>1. k.head.gen = got[c].gen /\ slot.head.gen \in Nat BY <3>1, GenFacts DEF Serves, IInv
      <4> QED BY <3>1, <4>1
    <3> QED BY <3>1, <3>2 DEF Quiet, KernelQuiet, Serves
  <2> QED BY <1>0, <1>1, <1>4, <2>1, <2>2, <2>3, <2>4, <2>5
<1>5. CASE ~(pc'[c] = pc[c] /\ got'[c] = got[c])
  BY <1>0, <1>1, <1>5 DEF Quiet, Moves, Other
<1> QED BY <1>4, <1>5

\* A quiet step keeps the invariant, but for types and the lifecycle lock.
LEMMA QuietKeeps ==
    ASSUME IInv, Quiet, TypeOK', AbsentIsNew', LockSound'
    PROVE  IInv'
BY QuietOwner, QuietReady, QuietGen, QuietWork, QuietAnswer, QuietRetired, QuietAdmission,
   QuietTakeover DEF IInv

-----------------------------------------------------------------------------
(* The quiet steps, one by one.                                              *)

LEMMA NoHeadFacts == NoHead \in Head /\ NoHead.status = "absent"
<1>1. 0 \in Gens /\ 0 \in Clocks BY Bounds DEF Gens, Clocks
<1> QED BY <1>1 DEF NoHead, Head, Reasons

LEMMA IdleFacts == Idle \in Actor /\ Idle.code = "none"
<1>1. 0 \in Gens BY Bounds DEF Gens
<1> QED BY <1>1 DEF Idle, Actor

\* A handler that moves keeps the lock, takes a free one or gives up its own.
LEMMA LockKept ==
    ASSUME IInv, NEW c \in Conns, \A q \in Conns : q # c => pc'[q] = pc[q],
           pc'[c] \in Holding => life' = c, life' = life \/ life \in { NoConn, c }
    PROVE  LockSound'
BY GenFacts DEF IInv, LockSound

LEMMA LockSame ==
    ASSUME IInv, UNCHANGED << life, pc >>
    PROVE  LockSound'
BY DEF IInv, LockSound

LEMMA KernelSame ==
    ASSUME IInv, UNCHANGED store
    PROVE  AbsentIsNew' /\ KernelQuiet /\ k' \in Rows /\ faulted' \in BOOLEAN
BY RowFacts DEF IInv, AbsentIsNew, KernelQuiet, store

LEMMA SlotSame ==
    ASSUME IInv, UNCHANGED << slot, opened >>, stopped' = "done" => stopped = "done" \/ ~slot.ready
    PROVE  SlotQuiet /\ slot' \in Slots /\ opened' \in Gens
BY RowFacts DEF SlotQuiet, IInv, TypeOK

LEMMA WorkSame ==
    ASSUME UNCHANGED actors
    PROVE  WorkQuiet
BY DEF WorkQuiet, ActorMoves, actors

LEMMA StreamsSame ==
    ASSUME UNCHANGED << bound, lanes, wire >>
    PROVE  StreamsQuiet
BY DEF StreamsQuiet

\* The slot with admission closed, and with any of the other changes that
\* leave owner and generation alone.
LEMMA SlotCloses ==
    ASSUME IInv, slot' = [slot EXCEPT !.ready = FALSE], opened' = opened
    PROVE  SlotQuiet /\ slot' \in Slots /\ opened' \in Gens /\ slot'.ready = FALSE /\ slot'.head = slot.head
<1>1. slot \in Slots /\ opened \in Gens BY RowFacts DEF IInv, TypeOK
<1>2. /\ slot' \in Slots /\ slot'.ready = FALSE /\ slot'.head = slot.head /\ slot'.owner = slot.owner
      /\ slot'.saving = slot.saving /\ slot'.save = slot.save
  BY <1>1 DEF Slots
<1> QED BY <1>1, <1>2 DEF SlotQuiet

LEMMA PausedFacts ==
    ASSUME IInv, NEW reason \in Reasons, slot' = Paused(reason), UNCHANGED << opened, stopped >>
    PROVE  SlotQuiet /\ slot' \in Slots /\ opened' \in Gens /\ slot'.ready = FALSE
           /\ slot'.head.status = "paused" /\ slot'.head.gen = slot.head.gen
<1> DEFINE h == [slot.head EXCEPT !.status = "paused", !.reason = reason]
           new == [slot EXCEPT !.ready = FALSE, !.head = h]
<1>1. slot \in Slots /\ slot.head \in Head /\ opened \in Gens BY RowFacts DEF IInv, TypeOK
<1>2. h \in Head /\ h.status = "paused" /\ h.gen = slot.head.gen BY <1>1 DEF Head
<1>3. slot' = new BY <1>1 DEF Paused, Slots
<1> HIDE DEF h
<1>4. /\ new \in Slots /\ new.ready = FALSE /\ new.head = h /\ new.owner = slot.owner
      /\ new.saving = slot.saving /\ new.save = slot.save
  BY <1>1, <1>2 DEF Slots
<1> HIDE DEF new
<1> QED BY <1>1, <1>2, <1>3, <1>4 DEF SlotQuiet

\* The types that a handler step changes besides the slot and the kernel.
LEMMA TypesFrom ==
    ASSUME IInv, k' \in Rows, faulted' \in BOOLEAN, slot' \in Slots, opened' \in Gens,
           life' \in Conns \cup {NoConn}, pc' \in [Conns -> Busy \cup { "off", "idle", "gone" }],
           req' \in [Conns -> Requests \cup {NoRequest}], got' \in [Conns -> Head],
           lanes' \in [Conns -> { "open", "closed" }], wire' \in [Conns -> { "open", "closed" }],
           bound' \in [Conns -> BOOLEAN], exec' \in [Conns -> Actor], disp' \in Actor,
           stopped' \in { "no", "streams", "dispatch", "admission", "done" }
    PROVE  TypeOK'
BY DEF TypeOK, Rows, Slots

LEMMA Types ==
    ASSUME IInv
    PROVE  /\ life \in Conns \cup {NoConn} /\ pc \in [Conns -> Busy \cup { "off", "idle", "gone" }]
           /\ req \in [Conns -> Requests \cup {NoRequest}] /\ got \in [Conns -> Head]
           /\ lanes \in [Conns -> { "open", "closed" }] /\ wire \in [Conns -> { "open", "closed" }]
           /\ bound \in [Conns -> BOOLEAN] /\ exec \in [Conns -> Actor] /\ disp \in Actor
           /\ stopped \in { "no", "streams", "dispatch", "admission", "done" }
           /\ opened \in Gens
BY DEF IInv, TypeOK

LEMMA ConnectKeeps ==
    ASSUME IInv, NEW c \in Conns, Connect(c)
    PROVE  IInv'
<1>1. pc[c] = "off" /\ pc' = [pc EXCEPT ![c] = "idle"]
      /\ UNCHANGED << store, slot, life, stream, actors, stopped, opened >>
  BY DEF Connect
<1>2. /\ KernelQuiet /\ AbsentIsNew' /\ k' \in Rows /\ faulted' \in BOOLEAN
      /\ SlotQuiet /\ slot' \in Slots /\ opened' \in Gens /\ WorkQuiet /\ StreamsQuiet
  BY <1>1, KernelSame, SlotSame, WorkSame, StreamsSame DEF stream
<1>3. TypeOK' BY <1>1, <1>2, TypesFrom, Types DEF stream, actors
<1>4. LockSound' BY <1>1, Types, LockKept DEF Holding
<1>5. \A q \in Conns : Moves(q) BY <1>1, Types DEF Moves, Live, stream
<1> QED BY <1>2, <1>3, <1>4, <1>5, QuietKeeps DEF Quiet

LEMMA RefusedFacts ==
    ASSUME IInv, NEW c \in Conns, Refused(c)
    PROVE  /\ pc' = [pc EXCEPT ![c] = "reply"] /\ got' = [got EXCEPT ![c] = NoHead]
           /\ pc' \in [Conns -> Busy \cup { "off", "idle", "gone" }]
           /\ got' \in [Conns -> Head] /\ req' \in [Conns -> Requests \cup {NoRequest}]
           /\ pc'[c] = "reply" /\ got'[c].status = "absent"
<1>1. pc' = [pc EXCEPT ![c] = "reply"] /\ got' = [got EXCEPT ![c] = NoHead]
      /\ req' = [req EXCEPT ![c] = NoRequest]
  BY DEF Refused, Answered
<1> QED BY <1>1, Types, NoHeadFacts DEF Busy

LEMMA BindKeeps ==
    ASSUME IInv, NEW c \in Conns, NEW r \in Requests, Bind(c, r)
    PROVE  IInv'
<1>1. /\ pc[c] = "idle"
      /\ slot' = IF bound[c] /\ slot.owner = c THEN [slot EXCEPT !.ready = FALSE] ELSE slot
      /\ UNCHANGED << store, life, lanes, wire, bound, actors, stopped, opened >>
  BY DEF Bind
<1>2. SlotQuiet /\ slot' \in Slots /\ opened' \in Gens
      /\ (slot.owner = c => ~slot'.ready) /\ slot'.owner = slot.owner
  <2>1. CASE slot.owner = c
    <3>1. bound[c] BY <2>1 DEF IInv, OwnerSound
    <3> QED BY <1>1, <2>1, <3>1, SlotCloses DEF SlotQuiet
  <2>2. CASE slot.owner # c BY <1>1, <2>2, SlotSame
  <2> QED BY <2>1, <2>2
<1>3. KernelQuiet /\ AbsentIsNew' /\ k' \in Rows /\ faulted' \in BOOLEAN /\ WorkQuiet /\ StreamsQuiet
  BY <1>1, KernelSame, WorkSame, StreamsSame
<1>4. CASE req' = [req EXCEPT ![c] = r] /\ pc' = [pc EXCEPT ![c] = "lock"] /\ UNCHANGED got
  <2>1. TypeOK' BY <1>1, <1>2, <1>3, <1>4, TypesFrom, Types DEF actors, Busy
  <2>2. LockSound' BY <1>1, <1>4, Types, LockKept DEF Holding
  <2>3. \A q \in Conns : Moves(q) BY <1>1, <1>2, <1>4, Types DEF Moves
  <2> QED BY <1>2, <1>3, <2>1, <2>2, <2>3, QuietKeeps DEF Quiet
<1>5. CASE Refused(c)
  <2>1. TypeOK' BY <1>1, <1>2, <1>3, <1>5, RefusedFacts, TypesFrom, Types DEF actors
  <2>2. LockSound' BY <1>1, <1>5, RefusedFacts, Types, LockKept DEF Holding
  <2>3. \A q \in Conns : Moves(q) BY <1>1, <1>2, <1>5, RefusedFacts, Types DEF Moves
  <2> QED BY <1>2, <1>3, <2>1, <2>2, <2>3, QuietKeeps DEF Quiet
<1> QED BY <1>4, <1>5 DEF Bind

LEMMA BindAdmitKeeps ==
    ASSUME IInv, NEW c \in Conns, BindAdmit(c)
    PROVE  IInv'
<1>1. /\ pc[c] = "lock" /\ life = NoConn
      /\ slot' = [slot EXCEPT !.ready = FALSE, !.saving = FALSE, !.save = NoSave]
      /\ life' = c
      /\ got' = [got EXCEPT ![c] = slot.head]
      /\ pc' = [pc EXCEPT ![c] = IF slot.owner = NoConn THEN "activate" ELSE "close"]
      /\ UNCHANGED << store, req, lanes, wire, bound, actors, stopped, opened >>
  BY DEF BindAdmit
<1>2. slot \in Slots /\ slot.head \in Head /\ opened \in Gens BY RowFacts, Types
<1>3. slot' \in Slots /\ slot'.ready = FALSE /\ slot'.saving = FALSE /\ slot'.head = slot.head
      /\ slot'.owner = slot.owner
  BY <1>1, <1>2 DEF Slots
<1>4. SlotQuiet BY <1>1, <1>3 DEF SlotQuiet
<1>5. KernelQuiet /\ AbsentIsNew' /\ k' \in Rows /\ faulted' \in BOOLEAN /\ WorkQuiet /\ StreamsQuiet
  BY <1>1, KernelSame, WorkSame, StreamsSame
<1>6. TypeOK' BY <1>1, <1>2, <1>3, <1>5, TypesFrom, Types DEF actors, Busy
<1>7. LockSound' BY <1>1, Types, LockKept
<1>8. \A q \in Conns : Moves(q) BY <1>1, <1>3, Types DEF Moves
<1> QED BY <1>4, <1>5, <1>6, <1>7, <1>8, QuietKeeps DEF Quiet

LEMMA BindRefuseKeeps ==
    ASSUME IInv, NEW c \in Conns, BindRefuse(c)
    PROVE  IInv'
<1>1. pc[c] = "lock" /\ Refused(c)
      /\ UNCHANGED << store, slot, life, lanes, wire, bound, actors, stopped, opened >>
  BY DEF BindRefuse
<1>2. /\ KernelQuiet /\ AbsentIsNew' /\ k' \in Rows /\ faulted' \in BOOLEAN
      /\ SlotQuiet /\ slot' \in Slots /\ opened' \in Gens /\ WorkQuiet /\ StreamsQuiet
  BY <1>1, KernelSame, SlotSame, WorkSame, StreamsSame
<1>3. TypeOK' BY <1>1, <1>2, RefusedFacts, TypesFrom, Types DEF actors
<1>4. LockSound' BY <1>1, RefusedFacts, Types, LockKept DEF Holding
<1>5. \A q \in Conns : Moves(q) BY <1>1, RefusedFacts, Types DEF Moves, Live
<1> QED BY <1>2, <1>3, <1>4, <1>5, QuietKeeps DEF Quiet

LEMMA BindUnreadKeeps ==
    ASSUME IInv, NEW c \in Conns, BindUnread(c)
    PROVE  IInv'
<1>1. /\ pc[c] = "lock" /\ life = NoConn /\ faulted' = TRUE
      /\ UNCHANGED << k, wire, bound, actors, stopped, opened >>
  BY DEF BindUnread
<1>2. KernelQuiet /\ AbsentIsNew' /\ k' \in Rows /\ WorkQuiet
  BY <1>1, RowFacts, WorkSame DEF KernelQuiet, IInv, AbsentIsNew
<1>3. CASE /\ slot.owner = c /\ slot' = [slot EXCEPT !.failed = TRUE] /\ life' = c
           /\ pc' = [pc EXCEPT ![c] = "fail"] /\ lanes' = [lanes EXCEPT ![c] = "closed"]
           /\ UNCHANGED << got, req >>
  <2>1. slot \in Slots BY RowFacts
  <2>2. slot' \in Slots /\ slot'.ready = slot.ready /\ slot'.saving = slot.saving
        /\ slot'.save = slot.save /\ slot'.head = slot.head /\ slot'.owner = slot.owner
    BY <1>3, <2>1 DEF Slots
  <2>3. ~slot.ready BY <1>1, <1>3 DEF IInv, ReadySound, Live
  <2>4. SlotQuiet BY <1>1, <2>2 DEF SlotQuiet
  <2>5. StreamsQuiet BY <1>1, <1>3, Types DEF StreamsQuiet
  <2>6. TypeOK' BY <1>1, <1>2, <1>3, <2>2, TypesFrom, Types DEF actors, Busy
  <2>7. LockSound' BY <1>1, <1>3, Types, LockKept
  <2>8. \A q \in Conns : Moves(q) BY <1>1, <1>3, <2>2, <2>3, Types DEF Moves
  <2> QED BY <1>2, <2>4, <2>5, <2>6, <2>7, <2>8, QuietKeeps DEF Quiet
<1>4. CASE Refused(c) /\ UNCHANGED << slot, life, lanes >>
  <2>1. SlotQuiet /\ slot' \in Slots /\ opened' \in Gens /\ StreamsQuiet
    BY <1>1, <1>4, SlotSame, StreamsSame
  <2>2. TypeOK' BY <1>1, <1>2, <1>4, <2>1, RefusedFacts, TypesFrom, Types DEF actors
  <2>3. LockSound' BY <1>1, <1>4, RefusedFacts, Types, LockKept DEF Holding
  <2>4. \A q \in Conns : Moves(q) BY <1>1, <1>4, RefusedFacts, Types DEF Moves, Live
  <2> QED BY <1>2, <2>1, <2>2, <2>3, <2>4, QuietKeeps DEF Quiet
<1> QED BY <1>3, <1>4 DEF BindUnread

LEMMA BindFailedKeeps ==
    ASSUME IInv, NEW c \in Conns, BindFailed(c)
    PROVE  IInv'
<1>1. pc[c] = "fail" /\ life' = NoConn /\ Refused(c)
      /\ UNCHANGED << store, slot, lanes, wire, bound, actors, stopped, opened >>
  BY DEF BindFailed, Unlock
<1>2. /\ KernelQuiet /\ AbsentIsNew' /\ k' \in Rows /\ faulted' \in BOOLEAN
      /\ SlotQuiet /\ slot' \in Slots /\ opened' \in Gens /\ WorkQuiet /\ StreamsQuiet
  BY <1>1, KernelSame, SlotSame, WorkSame, StreamsSame
<1>3. TypeOK' BY <1>1, <1>2, RefusedFacts, TypesFrom, Types DEF actors
<1>4. LockSound'
  <2>1. life = c BY <1>1 DEF IInv, LockSound, Holding
  <2> QED BY <1>1, <2>1, RefusedFacts, Types, LockKept DEF Holding
<1>5. \A q \in Conns : Moves(q) BY <1>1, RefusedFacts, Types DEF Moves, Live
<1> QED BY <1>2, <1>3, <1>4, <1>5, QuietKeeps DEF Quiet

LEMMA BindCloseKeeps ==
    ASSUME IInv, NEW c \in Conns, BindClose(c)
    PROVE  IInv'
<1> DEFINE o == slot.owner
<1>1. /\ pc[c] = "close" /\ lanes' = [lanes EXCEPT ![o] = "closed"]
      /\ wire' = IF o = c THEN wire ELSE [wire EXCEPT ![o] = "closed"]
      /\ pc' = [pc EXCEPT ![c] = "deactivate"]
      /\ UNCHANGED << store, slot, life, req, got, bound, actors, stopped, opened >>
  BY DEF BindClose
<1>2. o \in Conns BY <1>1, GenFacts DEF IInv, OwnerSound
<1>3. /\ KernelQuiet /\ AbsentIsNew' /\ k' \in Rows /\ faulted' \in BOOLEAN
      /\ SlotQuiet /\ slot' \in Slots /\ opened' \in Gens /\ WorkQuiet
  BY <1>1, KernelSame, SlotSame, WorkSame
<1>4. StreamsQuiet /\ lanes'[o] = "closed" /\ (o # c => wire'[o] = "closed")
  BY <1>1, <1>2, Types DEF StreamsQuiet
<1>5. TypeOK' BY <1>1, <1>2, <1>3, TypesFrom, Types DEF actors, Busy
<1>6. LockSound'
  <2>1. life = c BY <1>1 DEF IInv, LockSound, Holding
  <2> QED BY <1>1, <2>1, Types, LockKept
<1>7. \A q \in Conns : Moves(q)
  <2>1. slot.owner = c => ~slot.ready BY <1>1 DEF IInv, ReadySound, Live
  <2> QED BY <1>1, <1>2, <1>4, <2>1, Types, GenFacts DEF Moves, Other, IInv
<1> QED BY <1>3, <1>4, <1>5, <1>6, <1>7, QuietKeeps DEF Quiet

LEMMA ReplyKeeps ==
    ASSUME IInv, NEW c \in Conns, Reply(c)
    PROVE  IInv'
<1>1. /\ pc[c] = "reply"
      /\ UNCHANGED << store, slot, life, req, lanes, wire, bound, actors, stopped, opened >>
      /\ \/ /\ pc' = [pc EXCEPT ![c] = IF got[c].status = "ready" THEN "mark" ELSE "idle"]
            /\ got' = got
         \/ /\ pc' = [pc EXCEPT ![c] = "leave"]
            /\ got' = [got EXCEPT ![c] = NoHead]
  BY DEF Reply
<1>2. /\ KernelQuiet /\ AbsentIsNew' /\ k' \in Rows /\ faulted' \in BOOLEAN
      /\ SlotQuiet /\ slot' \in Slots /\ opened' \in Gens /\ WorkQuiet /\ StreamsQuiet
  BY <1>1, KernelSame, SlotSame, WorkSame, StreamsSame
<1>3. TypeOK' BY <1>1, <1>2, NoHeadFacts, TypesFrom, Types DEF actors, Busy
<1>4. LockSound' BY <1>1, Types, LockKept DEF Holding
<1>5. \A q \in Conns : Moves(q) BY <1>1, Types DEF Moves, Live
<1> QED BY <1>2, <1>3, <1>4, <1>5, QuietKeeps DEF Quiet

\* A step of a handler to x that leaves the slot, the store and its answer.
LEMMA LeaveKeeps ==
    ASSUME IInv, NEW c \in Conns, Leave(c)
    PROVE  IInv'
<1>1. pc[c] = "idle" /\ pc' = [pc EXCEPT ![c] = "leave"]
      /\ UNCHANGED << store, slot, life, stream, actors, stopped, opened >>
  BY DEF Leave
<1>2. /\ KernelQuiet /\ AbsentIsNew' /\ k' \in Rows /\ faulted' \in BOOLEAN
      /\ SlotQuiet /\ slot' \in Slots /\ opened' \in Gens /\ WorkQuiet /\ StreamsQuiet
  BY <1>1, KernelSame, SlotSame, WorkSame, StreamsSame DEF stream
<1>3. TypeOK' BY <1>1, <1>2, TypesFrom, Types DEF stream, actors, Busy
<1>4. LockSound' BY <1>1, Types, LockKept DEF Holding
<1>5. \A q \in Conns : Moves(q) BY <1>1, Types DEF Moves, Live, stream
<1> QED BY <1>2, <1>3, <1>4, <1>5, QuietKeeps DEF Quiet

LEMMA DisconnectKeeps ==
    ASSUME IInv, NEW c \in Conns, Disconnect(c)
    PROVE  IInv'
<1>1. /\ pc[c] = "leave" /\ wire' = [wire EXCEPT ![c] = "closed"]
      /\ \/ bound[c] /\ pc' = [pc EXCEPT ![c] = "part"] /\ lanes' = lanes
         \/ /\ ~bound[c] /\ pc' = [pc EXCEPT ![c] = "foreign"]
            /\ lanes' = [lanes EXCEPT ![c] = "closed"]
      /\ UNCHANGED << store, slot, life, req, got, bound, actors, stopped, opened >>
  BY DEF Disconnect
<1>2. /\ KernelQuiet /\ AbsentIsNew' /\ k' \in Rows /\ faulted' \in BOOLEAN
      /\ SlotQuiet /\ slot' \in Slots /\ opened' \in Gens /\ WorkQuiet
  BY <1>1, KernelSame, SlotSame, WorkSame
<1>3. StreamsQuiet BY <1>1, Types DEF StreamsQuiet
<1>4. TypeOK' BY <1>1, <1>2, TypesFrom, Types DEF actors, Busy
<1>5. LockSound' BY <1>1, Types, LockKept DEF Holding
<1>6. \A q \in Conns : Moves(q)
  <2>1. ~bound[c] => slot.owner # c BY DEF IInv, OwnerSound
  <2> QED BY <1>1, <2>1, Types DEF Moves, Live
<1> QED BY <1>2, <1>3, <1>4, <1>5, <1>6, QuietKeeps DEF Quiet

LEMMA DisconnectLockKeeps ==
    ASSUME IInv, NEW c \in Conns, DisconnectLock(c)
    PROVE  IInv'
<1>1. /\ pc[c] = "part" /\ life = NoConn /\ life' = c /\ lanes' = [lanes EXCEPT ![c] = "closed"]
      /\ UNCHANGED << store, req, wire, bound, actors, stopped, opened >>
      /\ \/ /\ slot.owner = c /\ slot' = [slot EXCEPT !.ready = FALSE]
            /\ got' = [got EXCEPT ![c] = slot.head] /\ pc' = [pc EXCEPT ![c] = "retire"]
         \/ /\ slot.owner # c /\ pc' = [pc EXCEPT ![c] = "foreign"] /\ slot' = slot /\ got' = got
  BY DEF DisconnectLock
<1>2. /\ KernelQuiet /\ AbsentIsNew' /\ k' \in Rows /\ faulted' \in BOOLEAN /\ WorkQuiet
  BY <1>1, KernelSame, WorkSame
<1>3. SlotQuiet /\ slot' \in Slots /\ opened' \in Gens BY <1>1, SlotSame, SlotCloses
<1>4. StreamsQuiet BY <1>1, Types DEF StreamsQuiet
<1>5. TypeOK' BY <1>1, <1>2, <1>3, RowFacts, TypesFrom, Types DEF actors, Busy
<1>6. LockSound' BY <1>1, Types, LockKept
<1>7. \A q \in Conns : Moves(q)
  <2>1. slot.owner = c => ~slot'.ready BY <1>1, SlotCloses
  <2> QED BY <1>1, <2>1, Types DEF Moves, Live
<1> QED BY <1>2, <1>3, <1>4, <1>5, <1>6, <1>7, QuietKeeps DEF Quiet

LEMMA DisconnectForeignKeeps ==
    ASSUME IInv, NEW c \in Conns, DisconnectForeign(c)
    PROVE  IInv'
<1>1. pc[c] = "foreign" /\ life' = (IF life = c THEN NoConn ELSE life) /\ pc' = [pc EXCEPT ![c] = "gone"]
      /\ UNCHANGED << store, slot, stream, actors, stopped, opened >>
  BY DEF DisconnectForeign
<1>2. /\ KernelQuiet /\ AbsentIsNew' /\ k' \in Rows /\ faulted' \in BOOLEAN
      /\ SlotQuiet /\ slot' \in Slots /\ opened' \in Gens /\ WorkQuiet /\ StreamsQuiet
  BY <1>1, KernelSame, SlotSame, WorkSame, StreamsSame DEF stream
<1>3. TypeOK' BY <1>1, <1>2, TypesFrom, Types DEF stream, actors
<1>4. LockSound' BY <1>1, Types, LockKept DEF Holding
<1>5. \A q \in Conns : Moves(q)
  <2>1. slot.owner = c => ~slot.ready BY <1>1 DEF IInv, ReadySound, Live
  <2>2. slot' = slot BY <1>1
  <2> QED BY <1>1, <2>1, <2>2, Types DEF Moves, stream
<1> QED BY <1>2, <1>3, <1>4, <1>5, QuietKeeps DEF Quiet

\* Steps in which no handler moves.
LEMMA StillKeeps ==
    ASSUME IInv, KernelQuiet, AbsentIsNew', k' \in Rows, faulted' \in BOOLEAN,
           SlotQuiet, slot' \in Slots, opened' \in Gens, WorkQuiet,
           exec' \in [Conns -> Actor], disp' \in Actor,
           UNCHANGED << life, pc, stream >>,
           stopped' \in { "no", "streams", "dispatch", "admission", "done" }
    PROVE  IInv'
<1>1. StreamsQuiet BY StreamsSame DEF stream
<1>2. TypeOK' BY TypesFrom, Types DEF stream
<1>3. LockSound' BY LockSame
<1>4. \A q \in Conns : Moves(q) BY DEF Moves, stream
<1> QED BY <1>1, <1>2, <1>3, <1>4, QuietKeeps DEF Quiet

LEMMA CloseKeeps ==
    ASSUME IInv, Close
    PROVE  IInv'
<1>1. UNCHANGED << store, life, pc, stream, actors, opened >> BY DEF Close
<1>2. KernelQuiet /\ AbsentIsNew' /\ k' \in Rows /\ faulted' \in BOOLEAN /\ WorkQuiet
  BY <1>1, KernelSame, WorkSame
<1>3. stopped' \in { "streams", "dispatch", "admission", "done" } BY DEF Close
<1>4. SlotQuiet /\ slot' \in Slots /\ opened' \in Gens
  <2>1. CASE slot' = slot /\ stopped' # "done" BY <1>1, <2>1, SlotSame
  <2>2. CASE slot' = [slot EXCEPT !.ready = FALSE] BY <1>1, <2>2, SlotCloses
  <2> QED BY <2>1, <2>2 DEF Close
<1> QED BY <1>1, <1>2, <1>3, <1>4, Types, StillKeeps DEF actors

LEMMA ExpireBarrierKeeps ==
    ASSUME IInv, ExpireBarrier
    PROVE  IInv'
<1>1. k' = [k EXCEPT !.barrier = NoSave]
      /\ UNCHANGED << faulted, slot, life, pc, stream, actors, stopped, opened >>
  BY DEF ExpireBarrier
<1>2. k \in Rows BY RowFacts
<1>3. k' \in Rows /\ k'.head = k.head /\ k'.own = k.own /\ k'.barrier = NoSave
  BY <1>1, <1>2 DEF Rows
<1>4. KernelQuiet /\ AbsentIsNew' BY <1>1, <1>3 DEF KernelQuiet, IInv, AbsentIsNew
<1> QED BY <1>1, <1>3, <1>4, SlotSame, WorkSame, RowFacts, Types, StillKeeps DEF actors

\* A pause of generation g that memory has closed already, or closes now.
LEMMA PauseQuiet ==
    ASSUME IInv, Written, k' = k \/ Deactivated(slot.head.gen), slot'.head.status = "paused"
    PROVE  KernelQuiet /\ AbsentIsNew' /\ k' \in Rows /\ faulted' \in BOOLEAN
BY DEF Written, Deactivated, KernelQuiet, IInv, AbsentIsNew

LEMMA ClockQuiet ==
    ASSUME IInv, Written, k' = k \/ Clocked(slot.head.gen)
    PROVE  KernelQuiet /\ AbsentIsNew' /\ k' \in Rows /\ faulted' \in BOOLEAN
BY DEF Written, Clocked, KernelQuiet, IInv, AbsentIsNew

LEMMA ReportClockKeeps ==
    ASSUME IInv, NEW c \in Conns, NEW n \in Clocks, ReportClock(c, n)
    PROVE  IInv'
<1>1. pc[c] = "idle" /\ slot.owner = c /\ slot.ready
      /\ UNCHANGED << life, pc, stream, actors, stopped, opened >>
  BY DEF ReportClock, Checked
<1>2. WorkQuiet /\ slot \in Slots /\ opened \in Gens /\ slot.head.status = "ready"
  BY <1>1, WorkSame, RowFacts, Types DEF IInv, ReadySound
<1>3. PICK err \in Errors :
         \/ /\ UpdateClock(slot.head.gen, n, err)
            /\ slot' = IF err = "none" THEN [slot EXCEPT !.head = k'.head] ELSE slot
         \/ slot' = Paused("clock") /\ Deactivate(slot.head.gen, "clock", err)
  BY DEF ReportClock
<1>4. CASE /\ UpdateClock(slot.head.gen, n, err)
           /\ slot' = IF err = "none" THEN [slot EXCEPT !.head = k'.head] ELSE slot
  <2>1. /\ Written /\ (k' = k \/ Clocked(slot.head.gen))
        /\ err = "none" => Clocked(slot.head.gen) /\ k'.head \in Head
    BY <1>4, UpdateClockFacts
  <2>2. KernelQuiet /\ AbsentIsNew' /\ k' \in Rows /\ faulted' \in BOOLEAN BY <2>1, ClockQuiet
  <2>3. SlotQuiet /\ slot' \in Slots
    <3>1. CASE err = "none"
      <4>1. slot' = [slot EXCEPT !.head = k'.head] BY <1>4, <3>1
      <4>2. /\ slot' \in Slots /\ slot'.head = k'.head /\ slot'.owner = slot.owner
            /\ slot'.ready = slot.ready /\ slot'.saving = slot.saving /\ slot'.save = slot.save
        BY <1>2, <2>1, <3>1, <4>1 DEF Slots
      <4>3. k'.head.gen = slot.head.gen /\ k'.head.status = "ready"
        BY <2>1, <3>1 DEF Clocked, Serves
      <4>4. slot.owner \in Conns /\ pc'[slot.owner] \notin { "reply", "mark" } BY <1>1
      <4> QED BY <1>1, <1>2, <4>2, <4>3, <4>4 DEF SlotQuiet
    <3>2. CASE err # "none" BY <1>1, <1>4, <3>2, SlotSame
    <3> QED BY <3>1, <3>2
  <2> QED BY <1>1, <1>2, <2>2, <2>3, Types, StillKeeps DEF actors
<1>5. CASE slot' = Paused("clock") /\ Deactivate(slot.head.gen, "clock", err)
  <2>1. "clock" \in Reasons BY DEF Reasons
  <2>2. SlotQuiet /\ slot' \in Slots /\ slot'.head.status = "paused" BY <1>1, <1>5, <2>1, PausedFacts
  <2>3. Written /\ (k' = k \/ Deactivated(slot.head.gen)) BY <1>5, <2>1, DeactivateFacts
  <2>4. KernelQuiet /\ AbsentIsNew' /\ k' \in Rows /\ faulted' \in BOOLEAN BY <2>2, <2>3, PauseQuiet
  <2> QED BY <1>1, <1>2, <2>2, <2>4, Types, StillKeeps DEF actors
<1> QED BY <1>3, <1>4, <1>5

LEMMA FinishCheckpointKeeps ==
    ASSUME IInv, NEW c \in Conns, NEW g, NEW s, FinishCheckpoint(c, g, s)
    PROVE  IInv'
<1>1. UNCHANGED << life, pc, stream, actors, stopped, opened >> BY DEF FinishCheckpoint
<1>2. PICK err \in Errors :
         /\ FinishSave(g, s, err)
         /\ slot' = IF err = "none" /\ slot.saving /\ slot.save = s
                      THEN [slot EXCEPT !.saving = FALSE, !.save = NoSave]
                      ELSE slot
  BY DEF FinishCheckpoint
<1>3. Written /\ (k' = k \/ Released) BY <1>2, FinishSaveFacts
<1>4. KernelQuiet /\ AbsentIsNew' /\ k' \in Rows /\ faulted' \in BOOLEAN
  BY <1>3 DEF Written, Released, KernelQuiet, IInv, AbsentIsNew
<1>5. SlotQuiet /\ slot' \in Slots /\ opened' \in Gens
  <2>1. CASE slot' = [slot EXCEPT !.saving = FALSE, !.save = NoSave]
    <3>1. slot \in Slots BY RowFacts
    <3>2. /\ slot' \in Slots /\ slot'.head = slot.head /\ slot'.owner = slot.owner
          /\ slot'.ready = slot.ready /\ slot'.saving = FALSE
      BY <2>1, <3>1 DEF Slots
    <3> QED BY <1>1, <3>2, Types DEF SlotQuiet
  <2>2. CASE slot' = slot BY <1>1, <2>2, SlotSame
  <2> QED BY <1>2, <2>1, <2>2
<1>6. WorkQuiet BY <1>1, WorkSame
<1> QED BY <1>1, <1>4, <1>5, <1>6, Types, StillKeeps DEF actors

\* Task work comes and goes: nothing but the executions moves.
LEMMA WorkMoves ==
    ASSUME IInv, WorkQuiet, exec' \in [Conns -> Actor], disp' \in Actor,
           UNCHANGED << store, slot, life, pc, stream, stopped, opened >>
    PROVE  IInv'
BY KernelSame, SlotSame, Types, StillKeeps

LEMMA LaneStartKeeps ==
    ASSUME IInv, NEW c \in Conns, LaneStart(c)
    PROVE  IInv'
<1>1. exec[c] = Idle /\ slot.owner = c /\ lanes[c] = "open"
      /\ exec' = [exec EXCEPT ![c].gen = slot.head.gen]
      /\ UNCHANGED << store, slot, life, pc, stream, disp, stopped, opened >>
  BY DEF LaneStart, Checked
<1>2. slot.head \in Head /\ exec \in [Conns -> Actor] BY RowFacts, Types
<1>3. slot.head.gen \in Gens BY <1>2 DEF Head
<1> DEFINE a == [exec[c] EXCEPT !.gen = slot.head.gen]
<1>4. exec' = [exec EXCEPT ![c] = a] BY <1>1, <1>2
<1>5. a \in Actor /\ a.gen = slot.head.gen /\ a.code = "none"
  <2>1. exec[c] \in Actor /\ exec[c].code = "none" BY <1>1, IdleFacts
  <2> QED BY <1>3, <2>1 DEF Actor
<1> HIDE DEF a
<1>6. exec' \in [Conns -> Actor] /\ exec'[c] = a /\ \A q \in Conns : q # c => exec'[q] = exec[q]
  BY <1>2, <1>4, <1>5
<1>7. WorkQuiet BY <1>1, <1>5, <1>6 DEF WorkQuiet, ActorMoves
<1> QED BY <1>1, <1>6, <1>7, Types, WorkMoves

LEMMA LaneEndKeeps ==
    ASSUME IInv, NEW c \in Conns, LaneEnd(c)
    PROVE  IInv'
<1>1. exec' = [exec EXCEPT ![c] = Idle]
      /\ UNCHANGED << store, slot, life, pc, stream, disp, stopped, opened >>
  BY DEF LaneEnd
<1>2. exec' \in [Conns -> Actor] /\ exec'[c] = Idle /\ \A q \in Conns : q # c => exec'[q] = exec[q]
  BY <1>1, Types, IdleFacts
<1>3. WorkQuiet BY <1>1, <1>2 DEF WorkQuiet, ActorMoves
<1> QED BY <1>1, <1>2, <1>3, Types, WorkMoves

LEMMA ScanKeeps ==
    ASSUME IInv, Scan
    PROVE  IInv'
<1>1. disp = Idle /\ disp' = [disp EXCEPT !.gen = slot.head.gen]
      /\ UNCHANGED << store, slot, life, pc, stream, exec, stopped, opened >>
  BY DEF Scan
<1>2. slot.head.gen \in Gens BY RowFacts DEF Head
<1>3. disp' \in Actor /\ disp'.gen = slot.head.gen /\ disp'.code = "none"
  BY <1>1, <1>2, IdleFacts DEF Actor
<1>4. WorkQuiet BY <1>1, <1>3 DEF WorkQuiet, ActorMoves
<1> QED BY <1>1, <1>3, <1>4, Types, WorkMoves

LEMMA ScanEndKeeps ==
    ASSUME IInv, ScanEnd
    PROVE  IInv'
<1>1. disp' = Idle /\ UNCHANGED << store, slot, life, pc, stream, exec, stopped, opened >>
  BY DEF ScanEnd
<1>2. WorkQuiet BY <1>1 DEF WorkQuiet, ActorMoves
<1> QED BY <1>1, <1>2, Types, IdleFacts, WorkMoves

LEMMA LanePauseKeeps ==
    ASSUME IInv, NEW c \in Conns, NEW code \in Codes, LanePause(c, code)
    PROVE  IInv'
<1>1. exec[c] # Idle /\ slot.head.gen = exec[c].gen /\ slot' = Paused(code)
      /\ exec' = [exec EXCEPT ![c].code = code]
      /\ UNCHANGED << store, life, pc, stream, disp, stopped, opened >>
  BY DEF LanePause, PauseClose
<1>2. code \in Reasons BY DEF Reasons
<1>3. SlotQuiet /\ slot' \in Slots /\ opened' \in Gens /\ slot'.head.status = "paused"
  BY <1>1, <1>2, PausedFacts
<1> DEFINE a == [exec[c] EXCEPT !.code = code]
<1>4. exec \in [Conns -> Actor] BY Types
<1>5. exec' = [exec EXCEPT ![c] = a] BY <1>1, <1>4
<1>6. a \in Actor /\ a.gen = slot.head.gen
  <2>1. exec[c] \in Actor BY <1>4
  <2> QED BY <1>1, <2>1 DEF Actor
<1> HIDE DEF a
<1>7. exec' \in [Conns -> Actor] /\ exec'[c] = a /\ \A q \in Conns : q # c => exec'[q] = exec[q]
  BY <1>4, <1>5, <1>6
<1>8. WorkQuiet BY <1>1, <1>3, <1>6, <1>7 DEF WorkQuiet, ActorMoves
<1> QED BY <1>1, <1>3, <1>7, <1>8, KernelSame, Types, StillKeeps

LEMMA ScanPauseKeeps ==
    ASSUME IInv, NEW code \in Codes, ScanPause(code)
    PROVE  IInv'
<1>1. slot.head.gen = disp.gen /\ slot' = Paused(code) /\ disp' = [disp EXCEPT !.code = code]
      /\ UNCHANGED << store, life, pc, stream, exec, stopped, opened >>
  BY DEF ScanPause, PauseClose
<1>2. code \in Reasons BY DEF Reasons
<1>3. SlotQuiet /\ slot' \in Slots /\ opened' \in Gens /\ slot'.head.status = "paused"
  BY <1>1, <1>2, PausedFacts
<1>4. disp \in Actor BY Types
<1>5. disp' \in Actor /\ disp'.gen = slot.head.gen BY <1>1, <1>4 DEF Actor
<1>6. WorkQuiet BY <1>1, <1>3, <1>5 DEF WorkQuiet, ActorMoves
<1> QED BY <1>1, <1>3, <1>5, <1>6, KernelSame, Types, StillKeeps

\* A late pause of a generation the kernel still has finds memory paused.
LEMMA PersistQuiet ==
    ASSUME IInv, NEW g, Written, k' = k \/ Deactivated(g), UNCHANGED slot,
           g <= slot.head.gen, g = slot.head.gen => slot.head.status = "paused"
    PROVE  KernelQuiet /\ AbsentIsNew' /\ k' \in Rows /\ faulted' \in BOOLEAN
<1>1. CASE k' = k BY <1>1 DEF Written, KernelQuiet, IInv, AbsentIsNew
<1>2. CASE Deactivated(g)
  <2>1. k.head.gen = g BY <1>2 DEF Deactivated
  <2>2. slot.head.gen <= k.head.gen /\ slot.head.gen \in Nat /\ k.head.gen \in Nat
    BY GenFacts DEF IInv, GenSound
  <2>3. g = slot.head.gen BY <2>1, <2>2
  <2> QED BY <1>2, <2>3, PauseQuiet
<1> QED BY <1>1, <1>2

LEMMA LanePersistKeeps ==
    ASSUME IInv, NEW c \in Conns, LanePersist(c)
    PROVE  IInv'
<1>1. exec[c].code # "none" /\ exec' = [exec EXCEPT ![c] = Idle]
      /\ UNCHANGED << slot, life, pc, stream, disp, stopped, opened >>
  BY DEF LanePersist
<1>2. PICK err \in Errors : Deactivate(exec[c].gen, exec[c].code, err)
  BY DEF LanePersist, PausePersist
<1>3. exec[c].code \in Codes BY <1>1, Types DEF Actor
<1>4. Written /\ (k' = k \/ Deactivated(exec[c].gen)) BY <1>2, <1>3, DeactivateFacts DEF Reasons
<1>5. exec[c].gen <= slot.head.gen /\ (exec[c].gen = slot.head.gen => slot.head.status = "paused")
  BY <1>1 DEF IInv, WorkSound, ActorSound, Pausing
<1>6. KernelQuiet /\ AbsentIsNew' /\ k' \in Rows /\ faulted' \in BOOLEAN
  BY <1>1, <1>4, <1>5, PersistQuiet
<1>7. exec' \in [Conns -> Actor] /\ exec'[c] = Idle /\ \A q \in Conns : q # c => exec'[q] = exec[q]
  BY <1>1, Types, IdleFacts
<1>8. WorkQuiet BY <1>1, <1>7 DEF WorkQuiet, ActorMoves
<1> QED BY <1>1, <1>6, <1>7, <1>8, SlotSame, Types, StillKeeps

LEMMA ScanPersistKeeps ==
    ASSUME IInv, ScanPersist
    PROVE  IInv'
<1>1. disp.code # "none" /\ disp' = Idle
      /\ UNCHANGED << slot, life, pc, stream, exec, stopped, opened >>
  BY DEF ScanPersist
<1>2. PICK err \in Errors : Deactivate(disp.gen, disp.code, err)
  BY DEF ScanPersist, PausePersist
<1>3. disp.code \in Codes BY <1>1, Types DEF Actor
<1>4. Written /\ (k' = k \/ Deactivated(disp.gen)) BY <1>2, <1>3, DeactivateFacts DEF Reasons
<1>5. disp.gen <= slot.head.gen /\ (disp.gen = slot.head.gen => slot.head.status = "paused")
  BY <1>1 DEF IInv, WorkSound, ActorSound, Pausing
<1>6. KernelQuiet /\ AbsentIsNew' /\ k' \in Rows /\ faulted' \in BOOLEAN
  BY <1>1, <1>4, <1>5, PersistQuiet
<1>7. WorkQuiet BY <1>1 DEF WorkQuiet, ActorMoves
<1> QED BY <1>1, <1>6, <1>7, SlotSame, IdleFacts, Types, StillKeeps

-----------------------------------------------------------------------------
(* The steps of a takeover, under slot.lifecycle.                            *)

\* Only one handler is between taking the lock and giving it up.
LEMMA Alone ==
    ASSUME IInv, NEW c \in Conns, pc[c] \in Holding
    PROVE  life = c /\ \A q \in Conns : q # c => pc[q] \notin Holding
BY DEF IInv, LockSound

LEMMA ReasonForFacts ==
    ASSUME IInv, NEW c \in Conns
    PROVE  \A reason \in Reasons : ReasonFor(got[c], reason) \in Reasons
<1>1. got[c] \in Head BY Types
<1>2. got[c].reason \in Reasons BY <1>1 DEF Head
<1> QED BY <1>2 DEF ReasonFor

\* The previous owner is retired, or the takeover fails.
LEMMA BindDeactivateKeeps ==
    ASSUME IInv, NEW c \in Conns, BindDeactivate(c)
    PROVE  IInv'
<1> DEFINE o == slot.owner
<1>1. /\ pc[c] = "deactivate" /\ exec[o] = Idle
      /\ UNCHANGED << lanes, wire, bound, actors, stopped, opened >>
  BY DEF BindDeactivate, CloseAndWait
<1>2. PICK err \in Errors :
        /\ Deactivate(got[c].gen, ReasonFor(got[c], "world_rebind"), err)
        /\ \/ /\ err = "none" /\ pc' = [pc EXCEPT ![c] = "activate"]
              /\ UNCHANGED << slot, life, got, req >>
           \/ /\ err # "none" /\ slot' = [slot EXCEPT !.failed = TRUE]
              /\ Unlock /\ Refused(c)
  BY DEF BindDeactivate
<1>3. "world_rebind" \in Reasons BY DEF Reasons
<1>4. /\ Written /\ (k' = k \/ Deactivated(got[c].gen))
      /\ err = "none" => Deactivated(got[c].gen)
  BY <1>2, <1>3, ReasonForFacts, DeactivateFacts
<1>5. life = c /\ \A q \in Conns : q # c => pc[q] \notin Holding BY <1>1, Alone DEF Holding
<1>6. o \in Conns /\ o # NoConn BY <1>1, GenFacts DEF IInv, OwnerSound
<1>7. Other(c) => lanes[o] = "closed" /\ wire[o] = "closed" BY <1>1 DEF IInv, TakeoverSound
<1>8. slot.ready => Other(c)
  <2>1. o = c => ~slot.ready BY <1>1 DEF IInv, ReadySound, Live
  <2> QED BY <1>6, <2>1 DEF Other
<1>9. got[c].gen <= slot.head.gen /\ (slot.saving => got[c].gen < slot.head.gen)
      /\ slot.head.gen <= k.head.gen
  BY <1>1 DEF IInv, TakeoverSound, GenSound
<1>10. Deactivated(got[c].gen) => ~slot.saving
  <2>1. slot.head.gen \in Nat /\ k.head.gen \in Nat /\ got[c].gen \in Nat BY GenFacts DEF IInv
  <2> QED BY <1>9, <2>1 DEF Deactivated
<1>11. slot \in Slots BY RowFacts
<1>12. /\ slot' \in Slots /\ slot'.owner = o /\ slot'.head = slot.head /\ slot'.ready = slot.ready
       /\ slot'.saving = slot.saving /\ slot'.save = slot.save
  BY <1>2, <1>11 DEF Slots
<1>13. /\ k'.head.gen = k.head.gen /\ k'.own = k.own /\ k'.barrier = k.barrier
       /\ k'.head.status \in { k.head.status, "paused" } /\ k' \in Rows /\ faulted' \in BOOLEAN
  BY <1>4 DEF Written, Deactivated
<1>14. /\ pc'[c] \in { "activate", "reply" }
       /\ pc'[c] = "activate" => err = "none" /\ life' = c
       /\ pc'[c] = "reply" => got'[c].status = "absent"
       /\ \A q \in Conns : q # c => pc'[q] = pc[q] /\ got'[q] = got[q]
       /\ life' \in { c, NoConn }
       /\ pc' \in [Conns -> Busy \cup { "off", "idle", "gone" }] /\ got' \in [Conns -> Head]
       /\ req' \in [Conns -> Requests \cup {NoRequest}]
  <2>1. CASE err = "none" BY <1>2, <1>5, <2>1, Types DEF Busy
  <2>2. CASE err # "none" BY <1>2, <2>2, RefusedFacts, Types DEF Unlock
  <2> QED BY <2>1, <2>2
<1>15. TypeOK'
  BY <1>1, <1>12, <1>13, <1>14, TypesFrom, Types DEF actors
<1>16. AbsentIsNew' BY <1>13 DEF IInv, AbsentIsNew
<1>17. LockSound' BY <1>5, <1>14, LockKept DEF Holding
<1>18. OwnerSound'
  BY <1>1, <1>5, <1>6, <1>12, <1>14 DEF OwnerSound, IInv, Holding
<1>19. ReadySound'
  <2>1. slot.ready => o # c BY <1>8 DEF Other
  <2> QED BY <1>1, <1>6, <1>12, <1>14, <2>1 DEF ReadySound, IInv
<1>20. TakeoverSound'
  <2> SUFFICES ASSUME NEW q \in Conns, pc'[q] \in Holding
               PROVE  /\ q = c /\ pc'[q] = "activate"
                      /\ Other(q)' => lanes'[slot'.owner] = "closed" /\ wire'[slot'.owner] = "closed"
                      /\ ~slot'.saving /\ exec'[slot'.owner] = Idle
                      /\ k'.head.status = "paused"
    BY DEF TakeoverSound, Holding
  <2>1. q = c /\ pc'[q] = "activate" /\ err = "none" BY <1>5, <1>14 DEF Holding
  <2>2. ~slot.saving /\ k'.head.status = "paused" BY <1>4, <1>10, <2>1 DEF Deactivated
  <2>3. Other(q)' => Other(c) BY <1>12, <2>1 DEF Other
  <2> QED BY <1>1, <1>7, <1>12, <2>1, <2>2, <2>3 DEF actors
<1>21. GenSound' BY <1>1, <1>6, <1>12, <1>13 DEF GenSound, IInv
<1>22. WorkSound' BY <1>1, <1>12 DEF WorkSound, ActorSound, Pausing, IInv, actors
<1>23. AnswerSound'
  <2> SUFFICES ASSUME NEW q \in Conns
               PROVE  /\ pc'[q] = "mark" => got'[q].status = "ready"
                      /\ Announces(q)' => /\ got'[q].gen > opened' /\ ~slot'.saving
                                          /\ wire'[q] # "open"
    BY DEF AnswerSound
  <2>1. CASE q = c BY <1>14, <2>1 DEF Announces
  <2>2. CASE q # c
    <3>1. pc'[q] = pc[q] /\ got'[q] = got[q] BY <1>14, <2>2
    <3>2. Announces(q)' => Announces(q) BY <1>12, <3>1 DEF Announces
    <3>3. Announces(q)' => Other(c) /\ o = q BY <1>12, <1>6, <2>2 DEF Announces, Other
    <3> QED BY <1>1, <1>7, <1>12, <3>1, <3>2, <3>3 DEF AnswerSound, IInv
  <2> QED BY <2>1, <2>2
<1>24. RetiredSound' BY <1>6, <1>12 DEF RetiredSound
<1>25. AdmissionMatchesKernel'
  BY <1>1, <1>7, <1>8, <1>12 DEF AdmissionMatchesKernel, Admitted
<1> QED BY <1>15, <1>16, <1>17, <1>18, <1>19, <1>20, <1>21, <1>22, <1>23, <1>24, <1>25 DEF IInv

\* The world is activated under a new generation, or the binding is refused.
LEMMA BindActivateKeeps ==
    ASSUME IInv, NEW c \in Conns, BindActivate(c)
    PROVE  IInv'
<1> DEFINE o == slot.owner
<1>1. /\ pc[c] = "activate"
      /\ lanes' = IF o = c THEN [lanes EXCEPT ![c] = "open"] ELSE lanes
      /\ UNCHANGED << slot, wire, bound, actors, stopped, opened >>
  BY DEF BindActivate
<1>2. life = c /\ \A q \in Conns : q # c => pc[q] \notin Holding BY <1>1, Alone DEF Holding
<1>3. ~slot.saving /\ (Other(c) => exec[o] = Idle /\ lanes[o] = "closed" /\ wire[o] = "closed")
      /\ (o # NoConn => k.head.status = "paused")
  BY <1>1 DEF IInv, TakeoverSound
<1>4. slot.ready => Other(c) /\ o \in Conns
  <2>1. o = c => ~slot.ready BY <1>1 DEF IInv, ReadySound, Live
  <2>2. slot.ready => o \in Conns BY DEF IInv, ReadySound
  <2> QED BY <2>1, <2>2, GenFacts DEF Other, IInv
<1>5. req[c] \in Asks
  <2>1. req[c] \in Requests \cup {NoRequest} BY Types
  <2>2. 0 \in Gens /\ 0 \in Clocks BY Bounds DEF Gens, Clocks
  <2>3. NoRequest \in Asks BY <2>2 DEF Asks, NoRequest
  <2>4. Requests \subseteq Asks BY DEF Asks, Requests
  <2> QED BY <2>1, <2>3, <2>4
<1>6. k.head.gen \in Nat /\ slot.head.gen \in Nat BY GenFacts DEF IInv
<1> DEFINE Done == /\ pc' = [pc EXCEPT ![c] = "publish"] /\ got' = [got EXCEPT ![c] = k'.head]
                   /\ UNCHANGED << life, req >>
                   /\ k'.head \in Head /\ k'.barrier = NoSave
                   /\ Activated \/ (k' = k /\ k.own /\ k.head.status = "ready")
           Failed == life' = NoConn /\ Refused(c) /\ (~faulted' => k' = k \/ Declined)
<1>7. /\ Written /\ (k' = k \/ Activated \/ Declined)
      /\ Done \/ Failed
  <2>1. CASE Refused(c) /\ Unlock /\ UNCHANGED store
    BY <2>1, RowFacts DEF Unlock, store, Written
  <2>2. ASSUME NEW err \in Errors, ActivateWorld(req[c], err),
               \/ /\ err = "none" /\ pc' = [pc EXCEPT ![c] = "publish"]
                  /\ got' = [got EXCEPT ![c] = k'.head] /\ UNCHANGED << life, req >>
               \/ err # "none" /\ Unlock /\ Refused(c)
        PROVE  /\ Written /\ (k' = k \/ Activated \/ Declined)
               /\ Done \/ Failed
    <3>1. /\ Written /\ (k' = k \/ Activated \/ Declined)
          /\ err = "none" => /\ k'.head \in Head /\ k'.barrier = NoSave
                             /\ Activated \/ (k' = k /\ k.own /\ k.head.status = "ready")
          /\ err # "none" /\ ~faulted' => k' = k \/ Declined
      BY <1>5, <2>2, ActivateFacts
    <3> QED BY <2>2, <3>1 DEF Unlock
  <2> QED BY <2>1, <2>2 DEF BindActivate, StopBind
<1>8. k'.head.gen >= k.head.gen /\ k' \in Rows /\ faulted' \in BOOLEAN
  BY <1>6, <1>7 DEF Written, Activated, Declined
<1>9. /\ pc'[c] \in { "publish", "reply" }
      /\ pc'[c] = "publish" => Done /\ life' = c /\ got'[c] = k'.head
      /\ pc'[c] = "reply" => got'[c].status = "absent" /\ Failed
      /\ \A q \in Conns : q # c => pc'[q] = pc[q] /\ got'[q] = got[q]
      /\ life' \in { c, NoConn }
      /\ pc' \in [Conns -> Busy \cup { "off", "idle", "gone" }] /\ got' \in [Conns -> Head]
      /\ req' \in [Conns -> Requests \cup {NoRequest}]
  <2>1. CASE Done BY <1>2, <2>1, Types DEF Busy
  <2>2. CASE Failed BY <2>2, RefusedFacts, Types
  <2> QED BY <1>7, <2>1, <2>2
<1>10. TypeOK'
  <2>1. lanes' \in [Conns -> { "open", "closed" }] BY <1>1, Types
  <2>2. slot' \in Slots BY <1>1, RowFacts
  <2> QED BY <1>1, <1>8, <1>9, <2>1, <2>2, TypesFrom, Types DEF actors
<1>11. AbsentIsNew' BY <1>7 DEF IInv, AbsentIsNew, Activated, Declined
<1>12. LockSound' BY <1>2, <1>9, LockKept DEF Holding
<1>13. OwnerSound' BY <1>1, <1>2, <1>9 DEF OwnerSound, IInv, Holding
<1>14. ReadySound'
  <2>1. slot.ready => o # c BY <1>4 DEF Other
  <2> QED BY <1>1, <1>9, <2>1 DEF ReadySound, IInv
<1>15. TakeoverSound'
  <2> SUFFICES ASSUME NEW q \in Conns, pc'[q] \in Holding
               PROVE  /\ q = c /\ pc'[q] = "publish"
                      /\ Other(q)' => /\ lanes'[slot'.owner] = "closed" /\ wire'[slot'.owner] = "closed"
                                      /\ exec'[slot'.owner] = Idle
                      /\ ~slot'.saving
                      /\ Serves(k', got'[q].gen) /\ got'[q].status = "ready"
                      /\ got'[q].gen > slot'.head.gen
    BY DEF TakeoverSound, Holding, Serves
  <2>1. q = c /\ pc'[q] = "publish" /\ Done /\ got'[q] = k'.head BY <1>2, <1>9 DEF Holding
  <2>2. Other(q)' => Other(c) /\ lanes' = lanes BY <1>1, <2>1 DEF Other
  <2>3. Serves(k', k'.head.gen) /\ k'.head.status = "ready" BY <2>1 DEF Serves, Activated
  <2>4. k'.head.gen > slot.head.gen
    <3>1. slot.head.gen <= k.head.gen BY DEF IInv, GenSound
    <3>2. CASE Activated BY <1>6, <3>1, <3>2 DEF Activated
    <3>3. CASE k' = k /\ k.own /\ k.head.status = "ready" BY <1>3, <3>3 DEF IInv, GenSound
    <3> QED BY <2>1, <3>2, <3>3
  <2> QED BY <1>1, <1>3, <2>1, <2>2, <2>3, <2>4 DEF actors
<1>16. GenSound'
  <2>1. opened <= slot.head.gen /\ slot.head.gen <= k.head.gen
        /\ (slot.owner = NoConn /\ k.own /\ k.head.status = "ready" => k.head.gen > slot.head.gen)
    BY DEF IInv, GenSound
  <2>2. Activated => k'.head.gen > slot.head.gen BY <1>6, <2>1 DEF Activated
  <2>3. Declined => k'.head.status = "paused" BY DEF Declined
  <2>4. k'.head.gen \in Nat
    <3>1. k'.head.gen \in Gens BY <1>8 DEF Rows, Head
    <3> QED BY <3>1, Bounds DEF Gens
  <2>5. slot.head.gen <= k'.head.gen BY <1>6, <1>8, <2>1, <2>4
  <2> QED BY <1>1, <1>7, <2>1, <2>2, <2>3, <2>5 DEF GenSound
<1>17. WorkSound' BY <1>1 DEF WorkSound, ActorSound, Pausing, IInv, actors
<1>18. AnswerSound'
  <2> SUFFICES ASSUME NEW q \in Conns
               PROVE  /\ pc'[q] = "mark" => got'[q].status = "ready"
                      /\ Announces(q)' => /\ got'[q].gen > opened' /\ ~slot'.saving
                                          /\ wire'[q] # "open"
    BY DEF AnswerSound
  <2>1. CASE q = c BY <1>9, <2>1 DEF Announces
  <2>2. CASE q # c
    <3>1. pc'[q] = pc[q] /\ got'[q] = got[q] BY <1>9, <2>2
    <3>2. Announces(q)' => Announces(q) BY <1>1, <3>1 DEF Announces
    <3>3. Announces(q)' => Other(c) /\ o = q BY <1>1, <2>2, GenFacts DEF Announces, Other, IInv
    <3> QED BY <1>1, <1>3, <3>1, <3>2, <3>3 DEF AnswerSound, IInv
  <2> QED BY <2>1, <2>2
<1>19. RetiredSound'
  <2> SUFFICES ASSUME ~faulted', slot.owner = NoConn, k'.own, k'.head.status = "ready"
               PROVE  pc'[c] = "publish"
    <3>1. slot' = slot BY <1>1
    <3> QED BY <3>1 DEF RetiredSound
  <2>1. ASSUME pc'[c] = "reply" PROVE FALSE
    <3>1. k' = k BY <1>9, <2>1 DEF Declined
    <3>2. ~faulted BY <1>7 DEF Written
    <3>3. PICK q \in Conns : pc[q] = "publish" BY <3>1, <3>2 DEF IInv, RetiredSound
    <3> QED BY <1>1, <1>2, <3>3 DEF Holding
  <2> QED BY <1>9, <2>1
<1>20. AdmissionMatchesKernel'
  BY <1>1, <1>3, <1>4 DEF AdmissionMatchesKernel, Admitted
<1> QED BY <1>10, <1>11, <1>12, <1>13, <1>14, <1>15, <1>16, <1>17, <1>18, <1>19, <1>20 DEF IInv

\* The new owner is published; nothing is admitted by that alone.
LEMMA BindPublishKeeps ==
    ASSUME IInv, NEW c \in Conns, BindPublish(c)
    PROVE  IInv'
<1> DEFINE o == slot.owner
           new == [slot EXCEPT !.owner = c, !.head = got[c], !.saving = FALSE, !.save = NoSave]
<1>1. /\ pc[c] = "publish" /\ slot' = new /\ bound' = [bound EXCEPT ![c] = TRUE]
      /\ life' = NoConn
      /\ pc' = [pc EXCEPT ![c] = "reply"] /\ got' = [got EXCEPT ![c] = got[c]]
      /\ req' = [req EXCEPT ![c] = NoRequest]
      /\ UNCHANGED << store, lanes, wire, actors, stopped, opened >>
  BY DEF BindPublish, Unlock, Answered
<1>2. life = c /\ \A q \in Conns : q # c => pc[q] \notin Holding BY <1>1, Alone DEF Holding
<1>3. /\ ~slot.saving /\ (Other(c) => exec[o] = Idle)
      /\ Serves(k, got[c].gen) /\ got[c].status = "ready" /\ got[c].gen > slot.head.gen
  BY <1>1 DEF IInv, TakeoverSound
<1>4. slot \in Slots /\ got[c] \in Head BY RowFacts, Types
<1>5. /\ new \in Slots /\ new.owner = c /\ new.head = got[c] /\ new.ready = slot.ready
      /\ new.saving = FALSE /\ new.failed = slot.failed
  BY <1>4 DEF Slots
<1> HIDE DEF new
<1>6. k.head.gen \in Nat /\ slot.head.gen \in Nat /\ got[c].gen \in Nat /\ opened \in Nat
      /\ disp.gen \in Nat /\ \A q \in Conns : exec[q].gen \in Nat
  BY GenFacts DEF IInv
<1>7. /\ pc'[c] = "reply" /\ got' = got /\ \A q \in Conns : q # c => pc'[q] = pc[q]
      /\ pc' \in [Conns -> Busy \cup { "off", "idle", "gone" }]
      /\ req' \in [Conns -> Requests \cup {NoRequest}] /\ bound' \in [Conns -> BOOLEAN]
  BY <1>1, Types DEF Busy
<1>8. TypeOK'
  BY <1>1, <1>5, <1>7, RowFacts, TypesFrom, Types DEF actors, store
<1>9. AbsentIsNew' BY <1>1 DEF IInv, AbsentIsNew, store
<1>10. LockSound' BY <1>1, <1>2, <1>7, LockKept DEF Holding
<1>11. OwnerSound'
  <2>1. bound'[c] BY <1>1, Types
  <2> QED BY <1>1, <1>2, <1>5, <1>7, <2>1, GenFacts DEF OwnerSound, IInv, Holding
<1>12. ReadySound'
  BY <1>1, <1>3, <1>5, <1>7 DEF ReadySound, IInv, Live
<1>13. TakeoverSound'
  <2>1. \A q \in Conns : pc'[q] \notin Holding BY <1>2, <1>7 DEF Holding
  <2> QED BY <2>1 DEF TakeoverSound, Holding
<1>14. GenSound'
  <2>1. opened <= slot.head.gen BY DEF IInv, GenSound
  <2>2. k.head.gen = got[c].gen BY <1>3 DEF Serves
  <2> QED BY <1>1, <1>3, <1>5, <1>6, <2>1, <2>2, GenFacts DEF GenSound, IInv, store
<1>15. WorkSound'
  <2>1. \A a : a.gen \in Nat /\ ActorSound(a) => a.gen < got[c].gen
    BY <1>3, <1>6 DEF ActorSound
  <2>2. \A q \in Conns : exec[q] # Idle => q = c
    <3> SUFFICES ASSUME NEW q \in Conns, exec[q] # Idle, q # c PROVE FALSE OBVIOUS
    <3>1. o = q BY DEF IInv, WorkSound
    <3>2. Other(c) BY <3>1, GenFacts DEF Other, IInv
    <3> QED BY <1>3, <3>1, <3>2
  <2>3. (\A q \in Conns : exec[q].gen < got[c].gen) /\ disp.gen < got[c].gen
    BY <1>6, <2>1 DEF IInv, WorkSound
  <2> QED BY <1>1, <1>5, <1>6, <2>2, <2>3 DEF WorkSound, ActorSound, Pausing, actors
<1>16. AnswerSound'
  <2> SUFFICES ASSUME NEW q \in Conns
               PROVE  /\ pc'[q] = "mark" => got'[q].status = "ready"
                      /\ Announces(q)' => /\ got'[q].gen > opened' /\ ~slot'.saving
                                          /\ Serves(k', got'[q].gen)
    BY DEF AnswerSound, Serves
  <2>1. Announces(q)' => q = c BY <1>1, <1>5 DEF Announces
  <2>2. opened < got[c].gen
    <3>1. opened <= slot.head.gen BY DEF IInv, GenSound
    <3> QED BY <1>3, <1>6, <3>1
  <2>3. pc'[q] = "mark" => got'[q].status = "ready" BY <1>7 DEF IInv, AnswerSound
  <2>4. k' = k /\ opened' = opened BY <1>1 DEF store
  <2> QED BY <1>1, <1>3, <1>5, <1>6, <1>7, <2>1, <2>2, <2>3, <2>4
<1>17. RetiredSound' BY <1>1, <1>5, GenFacts DEF RetiredSound, IInv
<1>18. AdmissionMatchesKernel'
  BY <1>1, <1>3, <1>5 DEF AdmissionMatchesKernel, Serves, store
<1> QED BY <1>8, <1>9, <1>10, <1>11, <1>12, <1>13, <1>14, <1>15, <1>16, <1>17, <1>18 DEF IInv

\* The announced owner is admitted, unless it is not the one memory has.
LEMMA MarkReadyKeeps ==
    ASSUME IInv, NEW c \in Conns, MarkReady(c)
    PROVE  IInv'
<1>1. pc[c] = "mark" /\ got' = [got EXCEPT ![c] = NoHead]
      /\ UNCHANGED << store, life, req, lanes, wire, bound, actors, stopped >>
  BY DEF MarkReady
<1>2. CASE pc' = [pc EXCEPT ![c] = "leave"] /\ UNCHANGED << slot, opened >>
  <2>1. /\ KernelQuiet /\ AbsentIsNew' /\ k' \in Rows /\ faulted' \in BOOLEAN
        /\ SlotQuiet /\ slot' \in Slots /\ opened' \in Gens /\ WorkQuiet /\ StreamsQuiet
    BY <1>1, <1>2, KernelSame, SlotSame, WorkSame, StreamsSame
  <2>2. TypeOK' BY <1>1, <1>2, <2>1, NoHeadFacts, TypesFrom, Types DEF actors, Busy
  <2>3. LockSound' BY <1>1, <1>2, Types, LockKept DEF Holding
  <2>4. \A q \in Conns : Moves(q) BY <1>1, <1>2, Types DEF Moves, Live
  <2> QED BY <2>1, <2>2, <2>3, <2>4, QuietKeeps DEF Quiet
<1>3. CASE /\ Markable(c) /\ slot' = [slot EXCEPT !.ready = TRUE] /\ opened' = slot.head.gen
           /\ pc' = [pc EXCEPT ![c] = "idle"]
  <2>1. slot \in Slots /\ slot.head.gen \in Gens BY RowFacts DEF Head
  <2>2. /\ slot' \in Slots /\ slot'.owner = slot.owner /\ slot'.head = slot.head
        /\ slot'.ready = TRUE /\ slot'.saving = slot.saving /\ slot'.save = slot.save
    BY <1>3, <2>1 DEF Slots
  <2>3. slot.owner = c /\ slot.head = got[c] /\ stopped # "done" BY <1>3 DEF Markable, Stopped
  <2>4. got[c].status = "ready" /\ ~slot.saving /\ (wire[c] = "open" => Serves(k, got[c].gen))
    BY <1>1, <2>3 DEF IInv, AnswerSound, Announces
  <2>5. /\ pc'[c] = "idle" /\ got'[c].status = "absent"
        /\ \A q \in Conns : q # c => pc'[q] = pc[q] /\ got'[q] = got[q]
        /\ pc' \in [Conns -> Busy \cup { "off", "idle", "gone" }] /\ got' \in [Conns -> Head]
    BY <1>1, <1>3, NoHeadFacts, Types
  <2>6. TypeOK' BY <1>1, <1>3, <2>1, <2>2, <2>5, RowFacts, TypesFrom, Types DEF actors, store
  <2>7. AbsentIsNew' BY <1>1 DEF IInv, AbsentIsNew, store
  <2>8. LockSound' BY <1>1, <2>5, LockKept DEF Holding
  <2>9. OwnerSound' BY <1>1, <2>2, <2>5 DEF OwnerSound, IInv
  <2>10. ReadySound' BY <1>1, <2>2, <2>3, <2>4, <2>5 DEF ReadySound, IInv, Live
  <2>11. TakeoverSound'
    <3>1. \A q \in Conns : (Other(q)' <=> Other(q)) BY <2>2 DEF Other
    <3>2. \A q \in Conns : pc'[q] \in Holding => pc'[q] = pc[q] /\ got'[q] = got[q]
      BY <2>5 DEF Holding
    <3>3. k' = k /\ lanes' = lanes /\ wire' = wire /\ exec' = exec BY <1>1 DEF store, actors
    <3> QED BY <2>2, <3>1, <3>2, <3>3 DEF TakeoverSound, IInv, Holding, Serves
  <2>12. GenSound'
    <3>1. k' = k /\ slot.head.gen \in Nat BY <1>1, GenFacts DEF store, IInv
    <3> QED BY <1>3, <2>2, <3>1 DEF GenSound, IInv
  <2>13. WorkSound' BY <1>1, <2>2 DEF WorkSound, ActorSound, Pausing, IInv, actors
  <2>14. AnswerSound'
    <3> SUFFICES ASSUME NEW q \in Conns
                 PROVE  (pc'[q] = "mark" => got'[q].status = "ready") /\ ~Announces(q)'
      BY DEF AnswerSound
    <3>1. CASE q = c BY <2>5, <3>1 DEF Announces
    <3>2. CASE q # c BY <2>2, <2>3, <2>5, <3>2 DEF Announces, AnswerSound, IInv
    <3> QED BY <3>1, <3>2
  <2>15. RetiredSound' BY <2>2, <2>3, GenFacts DEF RetiredSound, IInv
  <2>16. AdmissionMatchesKernel'
    BY <1>1, <2>2, <2>3, <2>4 DEF AdmissionMatchesKernel, Serves, store
  <2> QED BY <2>6, <2>7, <2>8, <2>9, <2>10, <2>11, <2>12, <2>13, <2>14, <2>15, <2>16 DEF IInv
<1> QED BY <1>2, <1>3 DEF MarkReady

\* A save opens the next generation behind its barrier and closes admission,
\* in memory too unless the answer was lost.
LEMMA SavedKeeps ==
    ASSUME IInv, NEW c \in Conns, NEW s \in Saves, pc[c] = "idle", slot.owner = c,
           Written, Saved(slot.head.gen, s), slot' \in Slots, slot'.owner = c, ~slot'.ready,
           \/ slot'.head = slot.head /\ slot'.saving = slot.saving /\ slot'.save = slot.save
           \/ slot'.head = k'.head /\ slot'.saving /\ slot'.save = s,
           ~slot.saving, UNCHANGED << life, pc, stream, actors, stopped, opened >>
    PROVE  IInv'
<1>1. k.head.gen \in Nat /\ slot.head.gen \in Nat /\ opened \in Nat /\ NoConn \notin Conns
      /\ disp.gen \in Nat /\ \A q \in Conns : exec[q].gen \in Nat /\ got[q].gen \in Nat
  BY GenFacts DEF IInv
<1>2. /\ k.head.gen = slot.head.gen /\ k.head.status = "ready"
      /\ k'.head.gen = slot.head.gen + 1 /\ k'.head.status = "ready"
  BY DEF Saved, Serves
<1>3. \/ slot'.head = slot.head /\ ~slot'.saving
      \/ slot'.head.gen = slot.head.gen + 1 /\ slot'.saving /\ slot'.save # NoSave
  <2>1. s # NoSave BY RegistryAssumption
  <2> QED BY <1>2, <2>1
<1>4. \A q \in Conns : pc[q] \notin { "activate", "publish" }
  <2>1. \A q \in Conns : pc[q] # "activate" BY <1>1, <1>2 DEF IInv, TakeoverSound
  <2>2. ASSUME NEW q \in Conns, pc[q] = "publish" PROVE FALSE
    <3>1. Serves(k, got[q].gen) /\ got[q].gen > slot.head.gen BY <2>2 DEF IInv, TakeoverSound
    <3>2. got[q].gen = slot.head.gen BY <1>2, <3>1 DEF Serves
    <3> QED BY <1>1, <3>1, <3>2
  <2> QED BY <2>1, <2>2
<1>5. TypeOK' BY TypesFrom, Types DEF stream, actors, Written
<1>6. AbsentIsNew' BY <1>2 DEF AbsentIsNew
<1>7. LockSound' BY LockSame
<1>8. OwnerSound' BY DEF OwnerSound, IInv, stream
<1>9. ReadySound' BY <1>3 DEF ReadySound, IInv
<1>10. TakeoverSound'
  <2>1. \A q \in Conns : (Other(q)' <=> Other(q)) BY DEF Other
  <2>2. ASSUME NEW q \in Conns, pc[q] \in { "close", "deactivate" }
        PROVE  got[q].gen <= slot'.head.gen /\ (slot'.saving => got[q].gen < slot'.head.gen)
    <3>1. got[q].gen <= slot.head.gen BY <2>2 DEF IInv, TakeoverSound
    <3> QED BY <1>1, <1>3, <3>1
  <2>3. pc' = pc /\ got' = got /\ lanes' = lanes /\ wire' = wire BY DEF stream
  <2>4. \A q \in Conns : pc[q] = "deactivate" /\ Other(q) =>
          lanes[slot.owner] = "closed" /\ wire[slot.owner] = "closed"
    BY DEF IInv, TakeoverSound
  <2> QED BY <1>4, <2>1, <2>2, <2>3, <2>4 DEF TakeoverSound
<1>11. GenSound'
  <2>1. opened <= slot.head.gen BY DEF IInv, GenSound
  <2>2. slot'.head.gen \in { slot.head.gen, slot.head.gen + 1 } BY <1>3
  <2> QED BY <1>1, <1>2, <2>1, <2>2 DEF GenSound
<1>12. WorkSound'
  <2>1. \A a : a.gen \in Nat /\ ActorSound(a) => a.gen <= slot'.head.gen
          /\ (a.code # "none" /\ a.gen = slot'.head.gen => slot'.head.status = "paused")
    BY <1>1, <1>3 DEF ActorSound, Pausing
  <2> QED BY <1>1, <2>1 DEF WorkSound, ActorSound, Pausing, IInv, actors
<1>13. AnswerSound'
  <2>1. \A q \in Conns : ~Announces(q)' BY DEF Announces
  <2> QED BY <2>1 DEF AnswerSound, IInv, stream
<1>14. RetiredSound' BY <1>1 DEF RetiredSound
<1>15. AdmissionMatchesKernel' BY DEF AdmissionMatchesKernel, Admitted
<1> QED BY <1>5, <1>6, <1>7, <1>8, <1>9, <1>10, <1>11, <1>12, <1>13, <1>14, <1>15 DEF IInv

LEMMA PrepareCheckpointKeeps ==
    ASSUME IInv, NEW c \in Conns, NEW s \in Saves, NEW n \in Clocks, PrepareCheckpoint(c, s, n)
    PROVE  IInv'
<1> DEFINE closed == [slot EXCEPT !.ready = FALSE]
<1>1. pc[c] = "idle" /\ slot.owner = c /\ slot.ready /\ ~slot.saving
      /\ UNCHANGED << life, pc, stream, actors, stopped, opened >>
  BY DEF PrepareCheckpoint, Checked
<1>2. slot \in Slots /\ slot.head.gen \in Gens BY RowFacts DEF Head
<1>3. /\ closed \in Slots /\ closed.owner = slot.owner /\ closed.head = slot.head
      /\ closed.ready = FALSE /\ closed.saving = slot.saving /\ closed.save = slot.save
  BY <1>2 DEF Slots
<1>4. WorkQuiet BY <1>1, WorkSame
<1>5. CASE slot' = closed /\ UNCHANGED store
  <2>1. SlotQuiet /\ slot' \in Slots /\ opened' \in Gens BY <1>1, <1>5, SlotCloses
  <2> QED BY <1>1, <1>4, <1>5, <2>1, KernelSame, Types, StillKeeps DEF actors
<1>6. ASSUME NEW err \in Errors, SaveWorld(slot.head.gen, n, s, err),
             slot' = IF err = "none"
                       THEN [closed EXCEPT !.head = k'.head, !.saving = TRUE, !.save = s]
                       ELSE closed
      PROVE  IInv'
  <2>1. /\ Written /\ (k' = k \/ Clocked(slot.head.gen) \/ Saved(slot.head.gen, s))
        /\ err = "none" => Saved(slot.head.gen, s) /\ k'.head \in Head
    BY <1>2, <1>6, SaveWorldFacts
  <2>2. CASE err = "none"
    <3>1. slot' = [closed EXCEPT !.head = k'.head, !.saving = TRUE, !.save = s]
          /\ k'.head \in Head
      BY <1>6, <2>1, <2>2
    <3> HIDE DEF closed
    <3>2. /\ slot' \in Slots /\ slot'.owner = slot.owner /\ slot'.head = k'.head
          /\ slot'.ready = FALSE /\ slot'.saving = TRUE /\ slot'.save = s
      BY <1>3, <3>1 DEF Slots
    <3> QED BY <1>1, <2>1, <2>2, <3>2, SavedKeeps
  <2>3. CASE err # "none" /\ Saved(slot.head.gen, s)
    <3>1. slot' = closed BY <1>6, <2>3
    <3> QED BY <1>1, <1>3, <2>1, <2>3, <3>1, SavedKeeps
  <2>4. CASE err # "none" /\ (k' = k \/ Clocked(slot.head.gen))
    <3>1. slot' = [slot EXCEPT !.ready = FALSE] BY <1>6, <2>4
    <3>2. SlotQuiet /\ slot' \in Slots /\ opened' \in Gens BY <1>1, <3>1, SlotCloses
    <3>3. KernelQuiet /\ AbsentIsNew' /\ k' \in Rows /\ faulted' \in BOOLEAN
      BY <2>1, <2>4, ClockQuiet
    <3> QED BY <1>1, <1>4, <3>2, <3>3, Types, StillKeeps DEF actors
  <2> QED BY <2>1, <2>2, <2>3, <2>4
<1> QED BY <1>5, <1>6 DEF PrepareCheckpoint

\* What disconnect makes of the slot.
LEMMA RetiredFacts ==
    ASSUME IInv
    PROVE  \A err : \A reason \in Reasons : slot' = Retired(err, reason) =>
             /\ slot' \in Slots /\ slot'.head.gen = slot.head.gen /\ slot'.ready = slot.ready
             /\ slot'.saving => slot.saving /\ slot'.save = slot.save
             /\ \/ slot'.owner = slot.owner /\ slot'.head = slot.head /\ slot'.saving = slot.saving
                \/ err = "none" /\ slot'.owner = NoConn /\ slot'.head.status = "paused"
<1> SUFFICES ASSUME NEW err, NEW reason \in Reasons, slot' = Retired(err, reason)
             PROVE  /\ slot' \in Slots /\ slot'.head.gen = slot.head.gen /\ slot'.ready = slot.ready
                    /\ slot'.saving => slot.saving /\ slot'.save = slot.save
                    /\ \/ slot'.owner = slot.owner /\ slot'.head = slot.head
                          /\ slot'.saving = slot.saving
                       \/ err = "none" /\ slot'.owner = NoConn /\ slot'.head.status = "paused"
  OBVIOUS
<1>1. slot \in Slots /\ slot.head \in Head BY RowFacts
<1>2. CASE err = "none"
  <2> DEFINE h == [slot.head EXCEPT !.status = "paused", !.reason = reason]
             new == [slot EXCEPT !.owner = NoConn, !.saving = FALSE, !.save = NoSave, !.head = h]
  <2>1. h \in Head /\ h.status = "paused" /\ h.gen = slot.head.gen BY <1>1 DEF Head
  <2>2. slot' = [slot EXCEPT !.owner = NoConn, !.saving = FALSE, !.save = NoSave,
                             !.head.status = "paused", !.head.reason = reason]
    BY <1>2 DEF Retired
  <2>3. slot' = new BY <1>1, <2>2 DEF Slots
  <2> HIDE DEF h
  <2>4. new \in Slots /\ new.head = h /\ new.ready = slot.ready /\ new.saving = FALSE /\ new.owner = NoConn
    BY <1>1, <2>1 DEF Slots
  <2> HIDE DEF new
  <2> QED BY <1>2, <2>1, <2>3, <2>4
<1>3. CASE err = "save_in_progress"
  <2>1. slot' = slot BY <1>3 DEF Retired
  <2> QED BY <1>1, <2>1
<1>4. CASE err \notin { "none", "save_in_progress" }
  <2>1. slot' = [slot EXCEPT !.failed = TRUE] BY <1>4 DEF Retired
  <2> QED BY <1>1, <2>1 DEF Slots
<1> QED BY <1>2, <1>3, <1>4

LEMMA DisconnectOwnerKeeps ==
    ASSUME IInv, NEW c \in Conns, DisconnectOwner(c)
    PROVE  IInv'
<1>1. /\ pc[c] = "retire" /\ exec[c] = Idle /\ life' = NoConn
      /\ pc' = [pc EXCEPT ![c] = "gone"] /\ got' = [got EXCEPT ![c] = NoHead]
      /\ UNCHANGED << req, lanes, wire, bound, actors, stopped, opened >>
  BY DEF DisconnectOwner, CloseAndWait, Unlock
<1>2. life = c /\ \A q \in Conns : q # c => pc[q] \notin Holding BY <1>1, Alone DEF Holding
<1>3. slot.owner = c /\ ~slot.ready /\ c # NoConn
  <2>1. slot.owner = c BY <1>1 DEF IInv, OwnerSound
  <2> QED BY <1>1, <2>1, GenFacts DEF IInv, ReadySound, Live
<1>4. PICK err \in Errors :
        Deactivate(got[c].gen, ReasonFor(got[c], "connection_closed"), err)
          /\ slot' = Retired(err, ReasonFor(got[c], "connection_closed"))
  BY DEF DisconnectOwner
<1>5. ReasonFor(got[c], "connection_closed") \in Reasons
  <2>1. "connection_closed" \in Reasons BY DEF Reasons
  <2> QED BY <2>1, ReasonForFacts
<1>6. /\ Written /\ (k' = k \/ Deactivated(got[c].gen))
      /\ err = "none" => Deactivated(got[c].gen)
  BY <1>4, <1>5, DeactivateFacts
<1>7. /\ slot' \in Slots /\ slot'.head.gen = slot.head.gen /\ slot'.ready = slot.ready
      /\ slot'.saving => slot.saving /\ slot'.save = slot.save
      /\ \/ slot'.owner = c /\ slot'.head = slot.head
         \/ slot'.owner = NoConn /\ slot'.head.status = "paused" /\ k'.head.status = "paused"
  BY <1>3, <1>4, <1>5, <1>6, RetiredFacts DEF Deactivated
<1>8. /\ k'.head.gen = k.head.gen /\ k'.head.status \in { k.head.status, "paused" }
      /\ k' \in Rows /\ faulted' \in BOOLEAN
  BY <1>6 DEF Written, Deactivated
<1>9. /\ pc'[c] = "gone" /\ got'[c].status = "absent"
      /\ \A q \in Conns : q # c => pc'[q] = pc[q] /\ got'[q] = got[q]
      /\ pc' \in [Conns -> Busy \cup { "off", "idle", "gone" }] /\ got' \in [Conns -> Head]
  BY <1>1, NoHeadFacts, Types
<1>10. TypeOK' BY <1>1, <1>7, <1>8, <1>9, TypesFrom, Types DEF actors
<1>11. AbsentIsNew' BY <1>8 DEF IInv, AbsentIsNew
<1>12. \A q \in Conns : pc'[q] \notin Holding BY <1>2, <1>9 DEF Holding
<1>13. LockSound' BY <1>12 DEF LockSound
<1>14. OwnerSound' BY <1>1, <1>3, <1>7, <1>12, GenFacts DEF OwnerSound, IInv, Holding
<1>15. ReadySound' BY <1>1, <1>3, <1>7 DEF ReadySound, IInv
<1>16. TakeoverSound' BY <1>12 DEF TakeoverSound, Holding
<1>17. GenSound' BY <1>1, <1>3, <1>7, <1>8 DEF GenSound, IInv
<1>18. WorkSound'
  <2>1. \A q \in Conns : exec[q] = Idle BY <1>1, <1>3 DEF IInv, WorkSound
  <2>2. \A a : ActorSound(a) => a.gen <= slot'.head.gen
          /\ (a.code # "none" /\ a.gen = slot'.head.gen => slot'.head.status = "paused")
    BY <1>7 DEF ActorSound, Pausing
  <2> QED BY <1>1, <2>1, <2>2 DEF WorkSound, ActorSound, Pausing, IInv, actors
<1>19. AnswerSound'
  <2> SUFFICES ASSUME NEW q \in Conns
               PROVE  (pc'[q] = "mark" => got'[q].status = "ready") /\ ~Announces(q)'
    BY DEF AnswerSound
  <2>1. CASE q = c BY <1>9, <2>1 DEF Announces
  <2>2. CASE q # c BY <1>7, <1>9, <2>2, GenFacts DEF Announces, AnswerSound, IInv
  <2> QED BY <2>1, <2>2
<1>20. RetiredSound' BY <1>3, <1>7 DEF RetiredSound
<1>21. AdmissionMatchesKernel' BY <1>3, <1>7 DEF AdmissionMatchesKernel, Admitted
<1> QED BY <1>10, <1>11, <1>13, <1>14, <1>15, <1>16, <1>17, <1>18, <1>19, <1>20, <1>21 DEF IInv

-----------------------------------------------------------------------------
(* The invariant holds.                                                      *)

LEMMA InitEstablishes ==
    ASSUME Init
    PROVE  IInv
<1>1. 0 \in Gens /\ 1 \in Gens /\ 0 \in Clocks BY Bounds DEF Gens, Clocks
<1>2. k \in Rows /\ faulted = FALSE
      /\ \/ k.head = NoHead
         \/ k.head.gen = 1 /\ k.head.status = "ready" /\ k.own = FALSE
  <2>1. CASE k = [ head |-> NoHead, own |-> TRUE, barrier |-> NoSave, ckpt |-> NoSave,
                   saves |-> {}, recovery |-> NoRun ]
    BY <2>1, NoHeadFacts DEF Rows, Init
  <2>2. ASSUME NEW r \in Runs,
               k = [ head |-> [ run |-> r, gen |-> 1, clock |-> 0, status |-> "ready",
                                reason |-> "none" ],
                     own |-> FALSE, barrier |-> NoSave, ckpt |-> NoSave,
                     saves |-> {}, recovery |-> NoRun ]
        PROVE  k \in Rows /\ k.head.gen = 1 /\ k.head.status = "ready" /\ k.own = FALSE
    <3> DEFINE h == [ run |-> r, gen |-> 1, clock |-> 0, status |-> "ready", reason |-> "none" ]
    <3>1. h \in Head /\ h.gen = 1 /\ h.status = "ready" BY <1>1 DEF Head, Reasons
    <3> HIDE DEF h
    <3>2. k = [ head |-> h, own |-> FALSE, barrier |-> NoSave, ckpt |-> NoSave,
                saves |-> {}, recovery |-> NoRun ]
      BY <2>2 DEF h
    <3> QED BY <3>1, <3>2 DEF Rows
  <2> QED BY <2>1, <2>2 DEF Init
<1>3. /\ slot \in Slots /\ slot.owner = NoConn /\ slot.head = NoHead /\ slot.ready = FALSE
      /\ slot.saving = FALSE
  BY NoHeadFacts DEF Init, Slots
<1>4. /\ life = NoConn /\ (\A c \in Conns : pc[c] = "off" /\ exec[c] = Idle) /\ disp = Idle
      /\ stopped = "no" /\ opened = 0
  BY DEF Init
<1>5. TypeOK
  <2>1. /\ life \in Conns \cup {NoConn} /\ pc \in [Conns -> Busy \cup { "off", "idle", "gone" }]
        /\ req \in [Conns -> Requests \cup {NoRequest}] /\ got \in [Conns -> Head]
    BY NoHeadFacts DEF Init
  <2>2. /\ lanes \in [Conns -> { "open", "closed" }] /\ wire \in [Conns -> { "open", "closed" }]
        /\ bound \in [Conns -> BOOLEAN]
    BY DEF Init
  <2>3. exec \in [Conns -> Actor] /\ disp \in Actor BY IdleFacts DEF Init
  <2> QED BY <1>1, <1>2, <1>3, <1>4, <2>1, <2>2, <2>3 DEF TypeOK, Rows, Slots
<1>6. NoHead.gen = 0 /\ NoHead.status = "absent" BY DEF NoHead
<1>7. NoConn \notin Conns BY RegistryAssumption
<1>8. AbsentIsNew BY <1>2, <1>6 DEF AbsentIsNew
<1>9. LockSound /\ TakeoverSound /\ AnswerSound
  BY <1>4 DEF LockSound, TakeoverSound, AnswerSound, Announces, Holding
<1>10. OwnerSound BY <1>3, <1>4, <1>7 DEF OwnerSound
<1>11. ReadySound BY <1>3, <1>4 DEF ReadySound
<1>12. GenSound /\ RetiredSound BY <1>2, <1>3, <1>4, <1>6 DEF GenSound, RetiredSound
<1>13. WorkSound
  <2>1. Idle.gen = 0 /\ Idle.code = "none" BY DEF Idle
  <2> QED BY <1>3, <1>4, <1>6, <2>1 DEF WorkSound, ActorSound, Pausing
<1>14. AdmissionMatchesKernel BY <1>3 DEF AdmissionMatchesKernel, Admitted
<1> QED BY <1>5, <1>8, <1>9, <1>10, <1>11, <1>12, <1>13, <1>14 DEF IInv

LEMMA StutterKeeps ==
    ASSUME IInv, UNCHANGED vars
    PROVE  IInv'
<1>1. UNCHANGED << store, slot, life, pc, stream, actors, stopped, opened >> BY DEF vars
<1>2. WorkQuiet BY <1>1, WorkSame
<1> QED BY <1>1, <1>2, Types, WorkMoves DEF actors

LEMMA NextKeeps ==
    ASSUME IInv, [Next]_vars
    PROVE  IInv'
<1>1. ASSUME NEW c \in Conns, Connect(c) \/ Message(c) \/ Lock(c) \/ Handler(c) \/ LaneStep(c)
      PROVE  IInv'
  <2>1. CASE Connect(c) BY <2>1, ConnectKeeps
  <2>2. CASE Message(c)
    BY <2>2, BindKeeps, ReportClockKeeps, PrepareCheckpointKeeps, FinishCheckpointKeeps, LeaveKeeps
       DEF Message
  <2>3. CASE Lock(c)
    BY <2>3, BindAdmitKeeps, BindRefuseKeeps, BindUnreadKeeps, DisconnectLockKeeps DEF Lock
  <2>4. CASE Handler(c)
    BY <2>4, BindFailedKeeps, BindCloseKeeps, BindDeactivateKeeps, BindActivateKeeps,
       BindPublishKeeps, ReplyKeeps, MarkReadyKeeps, DisconnectKeeps, DisconnectForeignKeeps,
       DisconnectOwnerKeeps
       DEF Handler
  <2>5. CASE LaneStep(c)
    BY <2>5, LaneStartKeeps, LaneEndKeeps, LanePauseKeeps, LanePersistKeeps DEF LaneStep, Lane
  <2> QED BY <1>1, <2>1, <2>2, <2>3, <2>4, <2>5
<1>2. CASE DispatcherStep
  BY <1>2, ScanKeeps, ScanEndKeeps, ScanPauseKeeps, ScanPersistKeeps DEF DispatcherStep, Dispatcher
<1>3. CASE ExpireBarrier BY <1>3, ExpireBarrierKeeps
<1>4. CASE Close BY <1>4, CloseKeeps
<1>5. CASE UNCHANGED vars BY <1>5, StutterKeeps
<1> QED BY <1>1, <1>2, <1>3, <1>4, <1>5 DEF Next

\* The inductive invariant of the registry: the lifecycle lock, the stages of a
\* takeover, the generations of memory and kernel, and the work in flight.
THEOREM InvariantCorrect == Spec => []IInv
<1>1. Init => IInv BY InitEstablishes
<1>2. IInv /\ [Next]_vars => IInv' BY NextKeeps
<1> QED BY <1>1, <1>2, PTL DEF Spec

\* What Current and ReadyWorlds admit over a reachable stream the kernel serves
\* under the same generation, and nothing is admitted after StopAdmission.
THEOREM AdmissionCorrect == Spec => []AdmissionSound
<1>1. IInv => AdmissionSound BY DEF IInv, AdmissionSound, ReadySound, StopIsFinal
<1> QED BY <1>1, InvariantCorrect, PTL

\* Executions of two connections never overlap: CloseAndWait comes before
\* anybody else is admitted.
THEOREM ExecutorsExclude == Spec => []OneExecutor
<1>1. IInv => OneExecutor BY DEF IInv, WorkSound, OneExecutor
<1> QED BY <1>1, InvariantCorrect, PTL

\* A world whose owner disconnected is paused in the kernel, as long as no
\* transaction has failed.
THEOREM OwnerlessWorldsPause == Spec => []OwnerlessIsPaused
<1>1. ASSUME IInv PROVE OwnerlessIsPaused
  <2> SUFFICES ASSUME slot.owner = NoConn, life = NoConn, ~faulted, k.own, k.head.status = "ready"
               PROVE  FALSE
    BY DEF OwnerlessIsPaused
  <2>1. PICK c \in Conns : pc[c] = "publish" BY <1>1 DEF IInv, RetiredSound
  <2>2. life = c BY <1>1, <2>1 DEF IInv, LockSound, Holding
  <2> QED BY <1>1, <2>1, <2>2, GenFacts DEF IInv
<1> QED BY <1>1, InvariantCorrect, PTL

-----------------------------------------------------------------------------
(* What no step does.                                                        *)

\* Admission opens for a later generation only; the save barrier of memory is
\* dropped once the kernel holds none.
Tame ==
    /\ slot'.ready => slot.ready \/ slot'.head.gen > opened
    /\ slot.saving => slot'.saving \/ k'.barrier = NoSave

LEMMA HandlerTame ==
    ASSUME IInv, NEW c \in Conns, Lock(c) \/ Handler(c)
    PROVE  Tame
<1>1. slot \in Slots BY RowFacts
<1>2. CASE slot' = slot BY <1>2 DEF Tame
<1>3. CASE slot' = [slot EXCEPT !.ready = FALSE] \/ slot' = [slot EXCEPT !.failed = TRUE]
  BY <1>1, <1>3 DEF Tame, Slots
<1>4. CASE BindAdmit(c)
  <2>1. /\ slot' = [slot EXCEPT !.ready = FALSE, !.saving = FALSE, !.save = NoSave]
        /\ slot.saving => k.barrier = NoSave
        /\ k' = k
    BY <1>4 DEF BindAdmit, Bindable, store
  <2>2. slot'.ready = FALSE BY <1>1, <2>1 DEF Slots
  <2> QED BY <2>1, <2>2 DEF Tame
<1>5. CASE BindPublish(c)
  <2>1. /\ slot' = [slot EXCEPT !.owner = c, !.head = got[c], !.saving = FALSE, !.save = NoSave]
        /\ ~slot.saving
    BY <1>5 DEF BindPublish, IInv, TakeoverSound
  <2>2. slot'.ready = slot.ready BY <1>1, <2>1 DEF Slots
  <2> QED BY <2>1, <2>2 DEF Tame
<1>6. CASE MarkReady(c) /\ Markable(c)
  <2>1. pc[c] = "mark" /\ slot.owner = c /\ slot.head = got[c] /\ slot' = [slot EXCEPT !.ready = TRUE]
    BY <1>6 DEF MarkReady, Markable
  <2>2. got[c].gen > opened BY <2>1 DEF IInv, AnswerSound, Announces
  <2>3. slot'.head = slot.head /\ slot'.saving = slot.saving BY <1>1, <2>1 DEF Slots
  <2> QED BY <2>1, <2>2, <2>3 DEF Tame
<1>7. CASE DisconnectOwner(c)
  <2>1. PICK err \in Errors :
          Deactivate(got[c].gen, ReasonFor(got[c], "connection_closed"), err)
            /\ slot' = Retired(err, ReasonFor(got[c], "connection_closed"))
    BY <1>7 DEF DisconnectOwner
  <2>2. ReasonFor(got[c], "connection_closed") \in Reasons
    <3>1. "connection_closed" \in Reasons BY DEF Reasons
    <3> QED BY <3>1, ReasonForFacts
  <2>3. err = "none" => Deactivated(got[c].gen) BY <2>1, <2>2, DeactivateFacts
  <2>4. slot'.ready = slot.ready /\ (slot'.saving = slot.saving \/ err = "none")
    BY <2>1, <2>2, RetiredFacts
  <2> QED BY <2>3, <2>4 DEF Tame, Deactivated
<1>8. CASE BindRefuse(c) \/ BindFailed(c) \/ BindClose(c) \/ BindActivate(c) \/ Reply(c)
           \/ Disconnect(c) \/ DisconnectForeign(c) \/ (MarkReady(c) /\ ~Markable(c))
  <2>1. slot' = slot
    BY <1>8 DEF BindRefuse, BindFailed, BindClose, BindActivate, Reply, Disconnect,
                DisconnectForeign, MarkReady
  <2> QED BY <1>2, <2>1
<1>9. CASE BindUnread(c) \/ DisconnectLock(c) \/ BindDeactivate(c)
  BY <1>2, <1>3, <1>9 DEF BindUnread, DisconnectLock, BindDeactivate
<1> QED BY <1>4, <1>5, <1>6, <1>7, <1>8, <1>9 DEF Lock, Handler

LEMMA MessageTame ==
    ASSUME IInv, NEW c \in Conns, Message(c)
    PROVE  Tame
<1>1. slot \in Slots BY RowFacts
<1>2. CASE slot' = slot BY <1>2 DEF Tame
<1>3. CASE slot' = [slot EXCEPT !.ready = FALSE] BY <1>1, <1>3 DEF Tame, Slots
<1>4. ASSUME NEW r \in Requests, Bind(c, r) PROVE Tame BY <1>2, <1>3, <1>4 DEF Bind
<1>5. ASSUME NEW n \in Clocks, ReportClock(c, n) PROVE Tame
  <2>1. slot.ready /\ ~slot.saving BY <1>5 DEF ReportClock, Checked
  <2> QED BY <2>1 DEF Tame
<1>6. ASSUME NEW s \in Saves, NEW n \in Clocks, PrepareCheckpoint(c, s, n) PROVE Tame
  <2>1. slot.ready /\ ~slot.saving BY <1>6 DEF PrepareCheckpoint, Checked
  <2> QED BY <2>1 DEF Tame
<1>7. ASSUME NEW g \in Gens, NEW s \in Saves, FinishCheckpoint(c, g, s) PROVE Tame
  <2>1. PICK err \in Errors :
          /\ FinishSave(g, s, err)
          /\ slot' = IF err = "none" /\ slot.saving /\ slot.save = s
                       THEN [slot EXCEPT !.saving = FALSE, !.save = NoSave]
                       ELSE slot
    BY <1>7 DEF FinishCheckpoint
  <2>2. err = "none" => k'.barrier = NoSave BY <2>1, FinishSaveFacts DEF Released
  <2>3. slot'.ready = slot.ready BY <1>1, <2>1 DEF Slots
  <2>4. slot' = slot \/ err = "none" BY <2>1
  <2> QED BY <2>2, <2>3, <2>4 DEF Tame
<1>8. CASE Leave(c) BY <1>2, <1>8 DEF Leave
<1> QED BY <1>4, <1>5, <1>6, <1>7, <1>8 DEF Message

LEMMA StepTame ==
    ASSUME IInv, [Next]_vars
    PROVE  Tame
<1>1. slot \in Slots BY RowFacts
<1>2. CASE slot' = slot BY <1>2 DEF Tame
<1>3. ASSUME NEW reason, slot' = Paused(reason) PROVE Tame
  <2>1. slot'.ready = FALSE /\ slot'.saving = slot.saving BY <1>1, <1>3 DEF Paused, Slots
  <2> QED BY <2>1 DEF Tame
<1>4. ASSUME NEW c \in Conns, Connect(c) \/ LaneStep(c) PROVE Tame
  <2>1. CASE Connect(c) \/ LaneStart(c) \/ Lane(c)
    BY <1>2, <2>1 DEF Connect, LaneStart, Lane, LaneEnd, LanePersist
  <2>2. ASSUME NEW code \in Codes, LanePause(c, code) PROVE Tame
    BY <1>3, <2>2 DEF LanePause, PauseClose
  <2> QED BY <1>4, <2>1, <2>2 DEF LaneStep
<1>5. CASE DispatcherStep
  <2>1. CASE Scan \/ Dispatcher BY <1>2, <2>1 DEF Scan, Dispatcher, ScanEnd, ScanPersist
  <2>2. ASSUME NEW code \in Codes, ScanPause(code) PROVE Tame
    BY <1>3, <2>2 DEF ScanPause, PauseClose
  <2> QED BY <1>5, <2>1, <2>2 DEF DispatcherStep
<1>6. CASE ExpireBarrier \/ UNCHANGED vars BY <1>2, <1>6 DEF ExpireBarrier, vars
<1>7. CASE Close
  <2>1. slot' = slot \/ slot' = [slot EXCEPT !.ready = FALSE] BY <1>7 DEF Close
  <2> QED BY <1>1, <1>2, <2>1 DEF Tame, Slots
<1> QED BY <1>4, <1>5, <1>6, <1>7, HandlerTame, MessageTame DEF Next

\* Admission reopens only for a generation later than all that markReady has
\* opened, whatever interruptions, failed saves and late handlers come between.
THEOREM GenerationsOpenOnce == Spec => GenerationOpensOnce
<1>1. ASSUME IInv, IInv', [Next]_vars, ~Admitted, Admitted'
      PROVE  slot'.head.gen > opened
  <2>1. ~slot.ready BY <1>1, GenFacts DEF Admitted, IInv, ReadySound
  <2>2. slot'.ready BY <1>1 DEF Admitted
  <2> QED BY <1>1, <2>1, <2>2, StepTame DEF Tame
<1>2. IInv /\ IInv' /\ [Next]_vars => [~Admitted /\ Admitted' => slot'.head.gen > opened]_vars
  BY <1>1
<1> QED BY <1>2, InvariantCorrect, PTL DEF Spec, GenerationOpensOnce

\* The in-memory barrier of a save goes only when the kernel holds the barrier
\* of that save no more: CheckpointFinish, an expired barrier, or a retirement
\* the kernel accepted.
THEOREM SavesReleasedByFinish == Spec => SaveReleasedByItsFinish
<1>1. ASSUME IInv, [Next]_vars, slot.saving, ~slot'.saving
      PROVE  k'.barrier # slot.save
  <2>1. slot.save # NoSave BY <1>1 DEF IInv, ReadySound
  <2>2. k'.barrier = NoSave BY <1>1, StepTame DEF Tame
  <2> QED BY <2>1, <2>2
<1>2. IInv /\ [Next]_vars => [slot.saving /\ ~slot'.saving => k'.barrier # slot.save]_vars
  BY <1>1
<1> QED BY <1>2, InvariantCorrect, PTL DEF Spec, SaveReleasedByItsFinish
=============================================================================
