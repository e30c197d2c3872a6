------------------------- MODULE WakeDeliveryProofs -------------------------
(***************************************************************************)
(* The delivery of wakes for any number of wakes, claims and generations:  *)
(* it implements WakeOwnership, and no wake of a world that admits work is *)
(* left in nobody's hands.                                                 *)
(***************************************************************************)
EXTENDS WakeDelivery, TLAPS

-----------------------------------------------------------------------------
(* The inductive invariant.                                                *)

\* The lane will still begin the delivery of c.
Live(c) == dlv[c].eligible /\ ~dlv[c].ended

InQueue(c) == \E i \in 1..Len(queue) : queue[i] = c

\* A held wake belongs to a delivery of its own and of this generation; a save
\* leaves none; what the gate lets through is marked.
RowsSound ==
    \A w \in Wakes :
      /\ row[w].status \in Held =>
           /\ row[w].claim \in Claims
           /\ dlv[row[w].claim].wake = w
           /\ dlv[row[w].claim].gen = slot.gen
           /\ row[w].claim \in begun <=> row[w].status = "running"
           /\ row[w].status = "claimed" => ~(Live(row[w].claim) /\ dlv[row[w].claim].gate)
      /\ row[w].status \notin Held => row[w].claim = NoClaim
      /\ slot.saving => row[w].status \notin Held

\* Until its mark is certain the caller and the lane share a live delivery.
EnqSound ==
    /\ enq.pc = "idle" <=> enq.c = NoClaim
    /\ enq.pc # "idle" => dlv[enq.c].wake \in Wakes
    /\ enq.pc = "enqueue" =>
         ~InQueue(enq.c) /\ cur.c # enq.c /\ Live(enq.c) /\ invoked[enq.c] = 0
    /\ enq.pc \in { "mark", "inspectMark" } =>
         Live(enq.c) /\ (InQueue(enq.c) \/ cur.c = enq.c)

\* No delivery is on the lane twice, and none there was invoked.
QueueSound ==
    /\ \A i \in 1..Len(queue) :
         dlv[queue[i]].wake \in Wakes /\ invoked[queue[i]] = 0 /\ queue[i] # cur.c
    /\ \A i, j \in 1..Len(queue) : queue[i] = queue[j] => i = j

\* Past the gate the lane has the delivery alone.
CurSound ==
    /\ cur.pc = "idle" <=> cur.c = NoClaim
    /\ cur.pc # "idle" => dlv[cur.c].wake \in Wakes
    /\ cur.pc \notin { "idle", "gate" } => enq.c # cur.c
    /\ cur.pc \in { "begin", "inspect" } => Live(cur.c) /\ dlv[cur.c].gate
    /\ cur.pc \in { "begun", "recover", "exec" } => cur.c \in begun
    /\ cur.pc \notin { "idle", "exec" } => invoked[cur.c] = 0

\* Who will let go of claim c only with its wake settled or its world fenced.
KeptBy(c) ==
    \/ c \in lost \/ c = enq.c
    \/ c = cur.c /\ (cur.pc = "gate" => Live(c))
    \/ Live(c) /\ InQueue(c)

Admits == Current /\ ~Cancelled /\ ~stopped

HeldSound ==
    Admits => \A w \in Wakes : row[w].status \in Held => KeptBy(row[w].claim)

IInv == TypeOK /\ RowsSound /\ EnqSound /\ QueueSound /\ CurSound /\ HeldSound

-----------------------------------------------------------------------------
(* What the helpers change.                                                *)

Row == [status : Held \cup { "pending", "consumed" }, claim : Claims \cup { NoClaim }]
Delivery == [ wake : Wakes \cup { NoClaim }, gen : 0..MaxGen, eligible : BOOLEAN,
              ended : BOOLEAN, gate : BOOLEAN, failures : 0..(Limit - 1) ]
Slot == [gen : 0..MaxGen, ready : BOOLEAN, saving : BOOLEAN, lanes : { "open", "closed" }]

\* Only the flags of delivery c may have changed.
DlvKeeps(c) ==
    /\ dlv' \in [Claims -> Delivery]
    /\ dlv'[c].wake = dlv[c].wake /\ dlv'[c].gen = dlv[c].gen
    /\ \A d \in Claims \ {c} : dlv'[d] = dlv[d]

\* The world is as it was, or paused.
SlotKeeps ==
    /\ slot' \in Slot
    /\ slot'.gen = slot.gen /\ slot'.saving = slot.saving /\ slot'.lanes = slot.lanes
    /\ slot'.ready => slot.ready

LEMMA PauseWorldFacts ==
  ASSUME TypeOK, NEW g, PauseWorld(g)
  PROVE  SlotKeeps /\ (slot.gen = g => ~slot'.ready)
BY DEF TypeOK, PauseWorld, SlotKeeps, Slot

LEMMA FinishedFacts ==
  ASSUME TypeOK, NEW c \in Claims, dlv' = [dlv EXCEPT ![c] = Finished(@)]
  PROVE  DlvKeeps(c) /\ ~dlv'[c].eligible /\ dlv'[c].ended /\ dlv'[c].gate
BY DEF TypeOK, Finished, DlvKeeps, Delivery

\* The caller opens the gate, for the lane to begin the delivery or to drop it.
LEMMA OpenedFacts ==
  ASSUME TypeOK, NEW c \in Claims, dlv' = [dlv EXCEPT ![c].failures = 0, ![c].gate = TRUE]
  PROVE  DlvKeeps(c) /\ dlv'[c].eligible = dlv[c].eligible /\ dlv'[c].ended = dlv[c].ended
<1>1. dlv \in [Claims -> Delivery] /\ dlv[c] \in Delivery
  BY DEF TypeOK, Delivery
<1>2. dlv' = [dlv EXCEPT ![c] = [@ EXCEPT !.failures = 0, !.gate = TRUE]]
  BY <1>1
<1>3. [dlv[c] EXCEPT !.failures = 0, !.gate = TRUE] \in Delivery
  <2>1. 0 \in 0..(Limit - 1)
    BY DEF Limit
  <2>2. QED
    BY <1>1, <2>1 DEF Delivery
<1>4. QED
  BY <1>1, <1>2, <1>3 DEF DlvKeeps, Delivery

LEMMA DroppedFacts ==
  ASSUME TypeOK, NEW c \in Claims, dlv' = [dlv EXCEPT ![c].eligible = FALSE, ![c].gate = TRUE]
  PROVE  DlvKeeps(c) /\ ~dlv'[c].eligible
<1>1. dlv \in [Claims -> Delivery] /\ dlv[c] \in Delivery
  BY DEF TypeOK, Delivery
<1>2. dlv' = [dlv EXCEPT ![c] = [@ EXCEPT !.eligible = FALSE, !.gate = TRUE]]
  BY <1>1
<1>3. [dlv[c] EXCEPT !.eligible = FALSE, !.gate = TRUE] \in Delivery
  BY <1>1 DEF Delivery
<1>4. QED
  BY <1>1, <1>2, <1>3 DEF DlvKeeps, Delivery

LEMMA SlotStays ==
  ASSUME TypeOK, slot' = slot PROVE SlotKeeps
BY DEF TypeOK, SlotKeeps, Slot

LEMMA AgainFacts ==
  ASSUME TypeOK, NEW c \in Claims, NEW err, NEW x \in BOOLEAN, Again(c, err, x)
  PROVE  /\ DlvKeeps(c) /\ SlotKeeps /\ slot' = slot
         /\ dlv'[c].eligible = dlv[c].eligible /\ dlv'[c].ended = dlv[c].ended
         /\ dlv'[c].gate = dlv[c].gate
<1>1. dlv[c].failures + 1 \in 0..(Limit - 1)
  <2>1. dlv[c].failures \in 0..(Limit - 1)
    BY DEF TypeOK
  <2>2. dlv[c].failures + 1 < Limit
    BY DEF Again
  <2>3. QED
    BY <2>1, <2>2 DEF Limit
<1>2. dlv' = [dlv EXCEPT ![c].failures = dlv[c].failures + 1]
  BY DEF Again
<1>3. slot' = slot
  BY DEF Again
<1>4. QED
  BY <1>1, <1>2, <1>3 DEF TypeOK, DlvKeeps, SlotKeeps, Slot, Delivery

\* Whoever gives up has finished the delivery, and paused the world unless the
\* context was cancelled or the binding had moved on.
LEMMA GiveUpFacts ==
  ASSUME TypeOK, NEW c \in Claims, NEW err, NEW x \in BOOLEAN, GiveUp(c, err, x)
  PROVE  /\ DlvKeeps(c) /\ SlotKeeps
         /\ ~dlv'[c].eligible /\ dlv'[c].ended /\ dlv'[c].gate
         /\ ~x => err = "stale" \/ dlv[c].gen # slot.gen \/ ~slot'.ready
         /\ x => ~slot'.ready \/ ~Valid(c)
<1>1. dlv' = [dlv EXCEPT ![c] = Finished(@)]
  BY DEF GiveUp, Invalidate, Finish, Pause
<1>2. CASE slot' = slot /\ ((x /\ ~Valid(c)) \/ (~x /\ err = "stale"))
  BY <1>1, <1>2, FinishedFacts DEF SlotKeeps, TypeOK, Slot
<1>3. CASE PauseWorld(dlv[c].gen) /\ (x => Valid(c))
  BY <1>1, <1>3, FinishedFacts, PauseWorldFacts DEF Valid
<1>4. QED
  BY <1>2, <1>3 DEF GiveUp, Invalidate, Finish, Pause

\* What a guarded call leaves of the rows.
LEMMA CallFacts ==
  ASSUME TypeOK, NEW c \in Claims, dlv[c].wake \in Wakes, NEW pre \in BOOLEAN,
         NEW st \in Held \cup { "pending" }, NEW err \in Errors, Call(c, pre, st, err)
  PROVE  /\ row' \in [Wakes -> Row]
         /\ row' = row \/ (/\ Valid(c) /\ pre /\ err \in {"ok", "tech"}
                           /\ row' = [row EXCEPT ![dlv[c].wake] =
                                [status |-> st, claim |-> IF st \in Held THEN c ELSE NoClaim]])
         /\ err = "ok" => Valid(c) /\ row'[dlv[c].wake].status = st
         /\ err = "stale" <=> ~Valid(c)
<1>1. \/ row' = row
      \/ /\ Valid(c) /\ pre /\ err \in { "ok", "tech" }
         /\ row' = [row EXCEPT ![dlv[c].wake] =
              [status |-> st, claim |-> IF st \in Held THEN c ELSE NoClaim]]
  BY DEF Call
<1>2. err = "ok" => Valid(c) /\ row' = [row EXCEPT ![dlv[c].wake] =
              [status |-> st, claim |-> IF st \in Held THEN c ELSE NoClaim]]
  BY DEF Call
<1>3. err = "stale" <=> ~Valid(c)
  BY DEF Call
<1>4. [status |-> st, claim |-> IF st \in Held THEN c ELSE NoClaim] \in Row
  BY DEF Row
<1>5. row \in [Wakes -> Row]
  BY DEF TypeOK, Row
<1>6. QED
  BY <1>1, <1>2, <1>3, <1>4, <1>5

\* What one delivery may do to the row of its wake.
Becomes(c, st, cl) == row' = [row EXCEPT ![dlv[c].wake] = [status |-> st, claim |-> cl]]

RowStep(c) ==
    /\ row' \in [Wakes -> Row]
    /\ \/ row' = row /\ begun' = begun
       \/ Owns(c, { "claimed", "enqueued" }) /\ Becomes(c, "enqueued", c) /\ begun' = begun
       \/ Owns(c, { "enqueued" }) /\ Becomes(c, "running", c) /\ begun' = begun \cup {c}
       \/ Owns(c, { "claimed", "running" }) /\ Becomes(c, "pending", NoClaim) /\ begun' = begun
       \/ Owns(c, { "running" }) /\ Becomes(c, "consumed", NoClaim) /\ begun' = begun

\* The same, row by row.
LEMMA RowStepFacts ==
  ASSUME TypeOK, NEW c \in Claims, dlv[c].wake \in Wakes, RowStep(c), NEW v \in Wakes
  PROVE  /\ begun' = begun \/ begun' = begun \cup {c}
         /\ row[v] \in Row /\ row'[v] \in Row
         /\ \/ row'[v] = row[v] /\ (v = dlv[c].wake => begun' = begun)
            \/ /\ v = dlv[c].wake /\ row[v].claim = c /\ row[v].status \in Held
               /\ \/ /\ row[v].status \in { "claimed", "enqueued" } /\ begun' = begun
                     /\ row'[v].status = "enqueued" /\ row'[v].claim = c
                  \/ /\ row[v].status = "enqueued" /\ begun' = begun \cup {c}
                     /\ row'[v].status = "running" /\ row'[v].claim = c
                  \/ /\ row'[v].status \in { "pending", "consumed" } /\ begun' = begun
                     /\ row'[v].claim = NoClaim
<1>0. row \in [Wakes -> Row]
  BY DEF TypeOK, Row
<1> USE <1>0
<1>1. CASE row' = row /\ begun' = begun
  BY <1>1
<1>2. CASE Owns(c, { "claimed", "enqueued" }) /\ Becomes(c, "enqueued", c) /\ begun' = begun
  BY <1>2 DEF Owns, Becomes, Row, Held
<1>3. CASE Owns(c, { "enqueued" }) /\ Becomes(c, "running", c) /\ begun' = begun \cup {c}
  BY <1>3 DEF Owns, Becomes, Row, Held
<1>4. CASE Owns(c, { "claimed", "running" }) /\ Becomes(c, "pending", NoClaim) /\ begun' = begun
  BY <1>4 DEF Owns, Becomes, Row, Held
<1>5. CASE Owns(c, { "running" }) /\ Becomes(c, "consumed", NoClaim) /\ begun' = begun
  BY <1>5 DEF Owns, Becomes, Row, Held
<1>6. QED
  BY <1>1, <1>2, <1>3, <1>4, <1>5 DEF RowStep

\* The gate opens only behind a certain mark.
GateSafe(c) ==
    Live(c)' /\ dlv'[c].gate =>
      (Live(c) /\ dlv[c].gate) \/ \A w \in Wakes : row'[w].claim = c => row'[w].status # "claimed"

LEMMA RowsStep ==
  ASSUME TypeOK, RowsSound, NEW c \in Claims, dlv[c].wake \in Wakes,
         RowStep(c), DlvKeeps(c), SlotKeeps, GateSafe(c)
  PROVE  RowsSound'
<1> SUFFICES ASSUME NEW v \in Wakes PROVE RowsSound!(v)'
  BY DEF RowsSound
<1> DEFINE w == dlv[c].wake
           d == row'[v].claim
<1>1. /\ row[v].status \in Held =>
           /\ row[v].claim \in Claims
           /\ dlv[row[v].claim].wake = v
           /\ dlv[row[v].claim].gen = slot.gen
           /\ row[v].claim \in begun <=> row[v].status = "running"
           /\ row[v].status = "claimed" => ~(Live(row[v].claim) /\ dlv[row[v].claim].gate)
      /\ row[v].status \notin Held => row[v].claim = NoClaim
      /\ slot.saving => row[v].status \notin Held
  BY DEF RowsSound
<1>2. NoClaim \notin Claims /\ { "pending", "consumed" } \cap Held = {}
  BY DeliveryAssumption DEF Held
<1>3. CASE row'[v] = row[v] /\ d # c
  BY <1>1, <1>2, <1>3, RowStepFacts DEF DlvKeeps, SlotKeeps, Live
<1>4. CASE row'[v] = row[v] /\ d = c
  <2>1. v = w /\ begun' = begun
    BY <1>1, <1>2, <1>4, RowStepFacts
  <2>2. row'[v].status = "claimed" => ~(Live(c)' /\ dlv'[c].gate)
    BY <1>1, <1>2, <1>4 DEF GateSafe
  <2>3. QED
    BY <1>1, <1>2, <1>4, <2>1, <2>2 DEF DlvKeeps, SlotKeeps
<1>5. CASE row'[v] # row[v]
  <2>1. CASE d = NoClaim
    BY <1>2, <1>5, <2>1, RowStepFacts
  <2>2. CASE d # NoClaim
    BY <1>1, <1>2, <1>5, <2>2, RowStepFacts DEF DlvKeeps, SlotKeeps, Held
  <2>3. QED
    BY <2>1, <2>2
<1>6. QED
  BY <1>3, <1>4, <1>5

\* A step on the delivery of c leaves every other wake with its keeper.
LEMMA HeldStep ==
  ASSUME TypeOK, RowsSound, HeldSound, NEW c \in Claims, dlv[c].wake \in Wakes,
         RowStep(c), SlotKeeps, stopped' = stopped,
         \A d \in Claims \ {c} : KeptBy(d) => KeptBy(d)',
         Admits' => KeptBy(c)' \/ \A w \in Wakes : row'[w].claim # c,
         RowsSound'
  PROVE  HeldSound'
<1> SUFFICES ASSUME Admits', NEW v \in Wakes, row'[v].status \in Held,
                    NEW d \in Claims, row'[v].claim = d
             PROVE  KeptBy(d)'
  BY DEF HeldSound, RowsSound, KeptBy, Live, InQueue
<1>1. Admits
  BY DEF Admits, Current, Cancelled, SlotKeeps
<1>2. CASE d = c
  BY <1>2
<1>3. CASE d # c
  <2>1. row'[v] = row[v]
    BY <1>3, DeliveryAssumption, RowStepFacts
  <2>2. KeptBy(d)
    BY <1>1, <2>1 DEF HeldSound
  <2>3. QED
    BY <1>3, <2>2
<1>4. QED
  BY <1>2, <1>3

LEMMA QueueElements ==
  ASSUME queue \in Seq(Claims), NEW i \in 1..Len(queue)
  PROVE  queue[i] \in Claims
OBVIOUS

-----------------------------------------------------------------------------
(* A step of the enqueue caller on its delivery, past the enqueue.         *)

CallerStep(c) ==
    /\ UNCHANGED << stopped, disp, queue, cur, lost, begun, invoked >>
    /\ RowStep(c) /\ DlvKeeps(c) /\ SlotKeeps /\ GateSafe(c)
    /\ \/ /\ enq' = Idle
          /\ \/ Live(c)' /\ (InQueue(c) \/ cur.c = c)
             \/ ~Admits'
             \/ \A w \in Wakes : row'[w].claim # c
       \/ /\ \E pc \in { "release", "inspectRelease" } : enq' = [c |-> c, pc |-> pc]
       \/ /\ \E pc \in { "mark", "inspectMark" } : enq' = [c |-> c, pc |-> pc]
          /\ Live(c)' /\ enq.pc \in { "mark", "inspectMark" }

LEMMA CallerKeeps ==
  ASSUME IInv, NEW c, c = enq.c, enq.pc # "idle", CallerStep(c)
  PROVE  IInv'
<1> USE DEF IInv
<1>1. c \in Claims /\ dlv[c].wake \in Wakes /\ NoClaim \notin Claims
  BY DeliveryAssumption DEF EnqSound, TypeOK
<1>2. /\ UNCHANGED << stopped, disp, queue, cur, lost, begun, invoked >>
      /\ RowStep(c) /\ DlvKeeps(c) /\ SlotKeeps /\ GateSafe(c)
  BY DEF CallerStep
<1>3. /\ enq' \in [c : Claims \cup { NoClaim },
                   pc : { "idle", "mark", "release", "inspectMark", "inspectRelease" }]
      /\ enq'.pc = "idle" <=> enq'.c = NoClaim
      /\ enq'.c \in { c, NoClaim }
  <2>1. CASE enq' = Idle
    BY <1>1, <2>1 DEF Idle
  <2>2. ASSUME NEW pc \in { "mark", "release", "inspectMark", "inspectRelease" },
               enq' = [c |-> c, pc |-> pc]
        PROVE  enq'.c = c /\ enq'.pc = pc
    BY <2>2
  <2>3. QED
    BY <1>1, <2>1, <2>2 DEF CallerStep
<1>4. TypeOK'
  BY <1>1, <1>2, <1>3 DEF TypeOK, RowStep, DlvKeeps, SlotKeeps, Row, Delivery, Slot
<1>5. RowsSound'
  BY <1>1, <1>2, RowsStep
<1>6. EnqSound'
  <2>1. enq'.pc # "idle" => enq'.c = c /\ dlv'[c].wake \in Wakes
    BY <1>1, <1>2, <1>3 DEF DlvKeeps
  <2>2. enq'.pc \in { "mark", "inspectMark" } =>
          Live(c)' /\ enq.pc \in { "mark", "inspectMark" }
    BY DEF CallerStep, Idle, Live
  <2>3. enq.pc \in { "mark", "inspectMark" } => InQueue(c) \/ cur.c = c
    BY DEF EnqSound
  <2>4. QED
    BY <1>2, <1>3, <2>1, <2>2, <2>3 DEF EnqSound, InQueue, Live
<1>7. QueueSound'
  <2>1. \A i \in 1..Len(queue) : queue[i] \in Claims
    BY QueueElements DEF TypeOK
  <2>2. QED
    BY <1>1, <1>2, <2>1 DEF QueueSound, DlvKeeps
<1>8. CurSound'
  <2>1. cur.pc # "idle" => cur.c \in Claims
    BY DEF TypeOK, CurSound
  <2>2. cur.pc \notin { "idle", "gate" } => cur.c # c
    BY DEF CurSound
  <2>3. QED
    BY <1>1, <1>2, <1>3, <2>1, <2>2 DEF CurSound, DlvKeeps, Live
<1>9. HeldSound'
  <2>1. ASSUME NEW d \in Claims \ {c}, KeptBy(d) PROVE KeptBy(d)'
    BY <1>1, <1>2, <2>1 DEF KeptBy, DlvKeeps, Live, InQueue
  <2>2. ASSUME Admits' PROVE KeptBy(c)' \/ \A w \in Wakes : row'[w].claim # c
    <3>1. CASE enq' = Idle
      BY <1>1, <1>2, <2>2, <3>1 DEF CallerStep, KeptBy, InQueue, Idle
    <3>2. CASE enq' # Idle
      BY <1>1, <1>2, <1>3, <3>2 DEF CallerStep, KeptBy
    <3>3. QED
      BY <3>1, <3>2
  <2>3. QED
    BY <1>1, <1>2, <1>5, <2>1, <2>2, HeldStep
<1>10. QED
  BY <1>4, <1>5, <1>6, <1>7, <1>8, <1>9

-----------------------------------------------------------------------------
(* A step of the lane on a delivery it has let through the gate.           *)

LaneStep(c) ==
    /\ UNCHANGED << stopped, disp, enq, queue, lost >>
    /\ RowStep(c) /\ DlvKeeps(c) /\ SlotKeeps /\ GateSafe(c)
    /\ \/ /\ cur' = Idle /\ invoked' = invoked
          /\ \/ ~Admits'
             \/ \A w \in Wakes : row'[w].claim # c
       \/ /\ \E pc \in { "begin", "inspect" } : cur' = [c |-> c, pc |-> pc]
          /\ Live(c)' /\ dlv'[c].gate /\ invoked' = invoked
          /\ cur.pc # "exec"
       \/ /\ \E pc \in { "begun", "recover" } : cur' = [c |-> c, pc |-> pc]
          /\ c \in begun' /\ invoked' = invoked
          /\ cur.pc # "exec"
       \/ /\ cur' = [c |-> c, pc |-> "exec"]
          /\ c \in begun' /\ invoked' = [invoked EXCEPT ![c] = @ + 1]

LEMMA LaneKeeps ==
  ASSUME IInv, NEW c, c = cur.c, cur.pc \notin { "idle", "gate" }, LaneStep(c)
  PROVE  IInv'
<1> USE DEF IInv
<1>1. c \in Claims /\ dlv[c].wake \in Wakes /\ NoClaim \notin Claims /\ enq.c # c
  BY DeliveryAssumption DEF CurSound, TypeOK
<1>2. /\ UNCHANGED << stopped, disp, enq, queue, lost >>
      /\ RowStep(c) /\ DlvKeeps(c) /\ SlotKeeps /\ GateSafe(c)
  BY DEF LaneStep
<1>3. /\ cur' \in [c : Claims \cup { NoClaim },
                   pc : { "idle", "begin", "inspect", "begun", "recover", "exec" }]
      /\ cur'.pc = "idle" <=> cur'.c = NoClaim
      /\ cur'.c \in { c, NoClaim }
  <2>1. CASE cur' = Idle
    BY <1>1, <2>1 DEF Idle
  <2>2. ASSUME NEW pc \in { "begin", "inspect", "begun", "recover", "exec" },
               cur' = [c |-> c, pc |-> pc]
        PROVE  cur'.c = c /\ cur'.pc = pc
    BY <2>2
  <2>3. QED
    BY <1>1, <2>1, <2>2 DEF LaneStep
<1>4. /\ invoked' \in [Claims -> Nat]
      /\ \A d \in Claims \ {c} : invoked'[d] = invoked[d]
      /\ cur'.pc \notin { "idle", "exec" } => invoked'[c] = invoked[c]
  <2>1. CASE invoked' = invoked
    BY <2>1 DEF TypeOK
  <2>2. CASE cur' = [c |-> c, pc |-> "exec"] /\ invoked' = [invoked EXCEPT ![c] = @ + 1]
    <3>1. invoked \in [Claims -> Nat]
      BY DEF TypeOK
    <3>2. QED
      BY <1>1, <2>2, <3>1
  <2>3. QED
    BY <2>1, <2>2 DEF LaneStep
<1>5. begun' \subseteq Claims /\ begun \subseteq begun' /\ begun' \subseteq begun \cup {c}
  BY <1>1, <1>2 DEF RowStep, TypeOK
<1>6. TypeOK'
  BY <1>1, <1>2, <1>3, <1>4, <1>5 DEF TypeOK, RowStep, DlvKeeps, SlotKeeps, Row, Delivery, Slot
<1>7. RowsSound'
  BY <1>1, <1>2, RowsStep
<1>8. EnqSound'
  <2>1. enq.pc # "idle" => enq.c \in Claims
    BY DEF TypeOK, EnqSound
  <2>2. QED
    BY <1>1, <1>2, <1>3, <1>4, <2>1 DEF EnqSound, DlvKeeps, InQueue, Live
<1>9. QueueSound'
  <2>1. \A i \in 1..Len(queue) : queue[i] \in Claims /\ queue[i] # c
    BY QueueElements DEF TypeOK, QueueSound
  <2>2. QED
    BY <1>1, <1>2, <1>3, <1>4, <2>1 DEF QueueSound, DlvKeeps
<1>10. CurSound'
  <2>1. cur'.pc # "idle" => cur'.c = c /\ dlv'[c].wake \in Wakes /\ enq'.c # c
    BY <1>1, <1>2, <1>3 DEF DlvKeeps
  <2>2. cur'.pc \in { "begin", "inspect" } => Live(c)' /\ dlv'[c].gate
    BY DEF LaneStep, Idle
  <2>3. cur'.pc \in { "begun", "recover", "exec" } => c \in begun'
    BY DEF LaneStep, Idle
  <2>4. cur'.pc \notin { "idle", "exec" } => cur.pc # "exec"
    BY DEF LaneStep, Idle
  <2>5. cur'.pc \notin { "idle", "exec" } => invoked'[c] = 0
    BY <1>4, <2>4 DEF CurSound
  <2>6. QED
    BY <1>3, <2>1, <2>2, <2>3, <2>5 DEF CurSound, Live
<1>11. HeldSound'
  <2>1. ASSUME NEW d \in Claims \ {c}, KeptBy(d) PROVE KeptBy(d)'
    BY <1>1, <1>2, <2>1 DEF KeptBy, DlvKeeps, Live, InQueue
  <2>2. ASSUME Admits' PROVE KeptBy(c)' \/ \A w \in Wakes : row'[w].claim # c
    <3>1. CASE cur' = Idle
      BY <1>1, <1>2, <2>2, <3>1 DEF LaneStep, Idle, TypeOK
    <3>2. CASE cur' # Idle
      BY <1>1, <1>2, <1>3, <3>2 DEF LaneStep, KeptBy
    <3>3. QED
      BY <3>1, <3>2
  <2>3. QED
    BY <1>1, <1>2, <1>7, <2>1, <2>2, HeldStep
<1>12. QED
  BY <1>6, <1>7, <1>8, <1>9, <1>10, <1>11

-----------------------------------------------------------------------------
(* The actions of the enqueue caller.                                      *)

LEMMA EnqGoto ==
  ASSUME TypeOK, NEW p PROVE [enq EXCEPT !.pc = p] = [c |-> enq.c, pc |-> p]
BY DEF TypeOK

LEMMA CurGoto ==
  ASSUME TypeOK, NEW p PROVE [cur EXCEPT !.pc = p] = [c |-> cur.c, pc |-> p]
<1>1. cur \in [c : Claims \cup { NoClaim },
              pc : { "idle", "gate", "begin", "inspect", "begun", "recover", "exec" }]
  BY DEF TypeOK
<1>2. QED
  BY <1>1

\* In a world that admits work a claim whose binding moved on holds nothing.
LEMMA ForeignHoldsNothing ==
  ASSUME TypeOK, RowsSound, NEW c \in Claims, Current, ~Valid(c), NEW w \in Wakes
  PROVE  row[w].claim # c
<1>1. dlv[c].gen # slot.gen
  BY DEF Valid
<1>2. c # NoClaim
  BY DeliveryAssumption
<1>3. QED
  BY <1>1, <1>2 DEF RowsSound

\* A delivery that gave up is finished, and holds nothing where work goes on.
LEMMA GivenUp ==
  ASSUME TypeOK, RowsSound, NEW c \in Claims, NEW err, NEW x \in BOOLEAN, GiveUp(c, err, x),
         err = "stale" => ~Valid(c), row' = row \/ Valid(c), x => ~Admits'
  PROVE  /\ DlvKeeps(c) /\ SlotKeeps /\ ~Live(c)'
         /\ ~Admits' \/ \A w \in Wakes : row'[w].claim # c
<1>1. DlvKeeps(c) /\ SlotKeeps /\ ~Live(c)'
  BY GiveUpFacts DEF Live
<1>2. ASSUME Admits' PROVE \A w \in Wakes : row'[w].claim # c
  <2>1. Current
    BY <1>1, <1>2 DEF Admits, Current, SlotKeeps
  <2>2. err = "stale" \/ dlv[c].gen # slot.gen
    BY <1>2, GiveUpFacts DEF Admits, Current
  <2>3. ~Valid(c)
    BY <2>2 DEF Valid
  <2>4. QED
    BY <2>1, <2>3, ForeignHoldsNothing
<1>3. QED
  BY <1>1, <1>2

LEMMA MarkKeeps == IInv /\ Mark => IInv'
<1> SUFFICES ASSUME IInv, Mark, NEW c, c = enq.c PROVE IInv'
  OBVIOUS
<1> USE DEF IInv
<1>1. c \in Claims /\ dlv[c].wake \in Wakes /\ enq.pc = "mark" /\ Live(c) /\ (InQueue(c) \/ cur.c = c)
  BY DEF Mark, EnqSound, TypeOK
<1>2. PICK err \in Errors :
        /\ Call(c, Owns(c, { "claimed", "enqueued" }), "enqueued", err)
        /\ CASE err = "ok" ->
                  /\ dlv' = [dlv EXCEPT ![c].failures = 0, ![c].gate = TRUE]
                  /\ enq' = Idle /\ UNCHANGED slot
             [] err = "stale" \/ (err # "ok" /\ stopped) -> Finish(c) /\ enq' = Idle
             [] err = "changed" /\ ~stopped ->
                  /\ dlv' = [dlv EXCEPT ![c].eligible = FALSE, ![c].gate = TRUE]
                  /\ enq' = [enq EXCEPT !.pc = "release"] /\ UNCHANGED slot
             [] OTHER -> \/ GiveUp(c, err, stopped) /\ enq' = Idle
                         \/ Again(c, err, stopped) /\ enq' = [enq EXCEPT !.pc = "inspectMark"]
  BY DEF Mark
<1>3. UNCHANGED << stopped, disp, queue, cur, lost, begun, invoked >>
  BY DEF Mark, history
<1>4. /\ row' \in [Wakes -> Row]
      /\ row' = row \/ (/\ Valid(c) /\ Owns(c, { "claimed", "enqueued" })
                        /\ Becomes(c, "enqueued", c))
      /\ err = "ok" => Valid(c) /\ Becomes(c, "enqueued", c)
      /\ err = "stale" <=> ~Valid(c)
  <2>1. Owns(c, { "claimed", "enqueued" }) \in BOOLEAN
    BY DEF Owns
  <2>2. "enqueued" \in Held
    BY DEF Held
  <2>3. Call(c, Owns(c, { "claimed", "enqueued" }), "enqueued", err)
    BY <1>2
  <2>4. QED
    BY <1>1, <2>1, <2>2, <2>3, CallFacts DEF Becomes, Call
<1>5. RowStep(c)
  BY <1>3, <1>4 DEF RowStep
<1>6. CASE err = "ok"
  <2>1. /\ dlv' = [dlv EXCEPT ![c].failures = 0, ![c].gate = TRUE]
        /\ enq' = Idle /\ slot' = slot
    BY <1>2, <1>6
  <2>2. DlvKeeps(c) /\ SlotKeeps /\ Live(c)'
    BY <1>1, <2>1, OpenedFacts, SlotStays DEF Live
  <2>3. \A w \in Wakes : row'[w].claim = c => row'[w].status # "claimed"
    <3>1. ASSUME NEW w \in Wakes, row'[w].claim = c, row'[w].status = "claimed" PROVE FALSE
      <4>1. w # dlv[c].wake
        BY <1>1, <1>4, <1>6, <3>1 DEF Becomes, TypeOK
      <4>2. row[w] = row'[w]
        BY <1>4, <1>6, <4>1, <1>1, <3>1 DEF Becomes, TypeOK
      <4>3. QED
        BY <1>1, <3>1, <4>1, <4>2 DEF RowsSound, Held
    <3>2. QED
      BY <3>1
  <2>4. CallerStep(c)
    BY <1>1, <1>3, <1>5, <2>1, <2>2, <2>3 DEF CallerStep, GateSafe
  <2>5. QED
    BY <1>1, <2>4, CallerKeeps
<1>7. CASE err = "stale" \/ (err # "ok" /\ stopped)
  <2>1. dlv' = [dlv EXCEPT ![c] = Finished(@)] /\ slot' = slot /\ enq' = Idle
    BY <1>2, <1>7 DEF Finish
  <2>2. DlvKeeps(c) /\ SlotKeeps /\ ~Live(c)'
    BY <1>1, <2>1, FinishedFacts DEF SlotKeeps, TypeOK, Slot, Live
  <2>3. ~Admits' \/ \A w \in Wakes : row'[w].claim # c
    BY <1>1, <1>3, <1>4, <1>7, <2>1, ForeignHoldsNothing DEF Admits, Current
  <2>4. CallerStep(c)
    BY <1>3, <1>5, <2>1, <2>2, <2>3 DEF CallerStep, GateSafe
  <2>5. QED
    BY <1>1, <2>4, CallerKeeps
<1>8. CASE err = "changed" /\ ~stopped
  <2>1. /\ dlv' = [dlv EXCEPT ![c].eligible = FALSE, ![c].gate = TRUE]
        /\ enq' = [c |-> c, pc |-> "release"] /\ slot' = slot
    BY <1>2, <1>8, EnqGoto
  <2>2. DlvKeeps(c) /\ SlotKeeps /\ ~Live(c)'
    BY <1>1, <2>1, DroppedFacts, SlotStays DEF Live
  <2>3. CallerStep(c)
    BY <1>3, <1>5, <2>1, <2>2 DEF CallerStep, GateSafe
  <2>4. QED
    BY <1>1, <2>3, CallerKeeps
<1>9. CASE err = "tech" /\ ~stopped /\ GiveUp(c, err, stopped) /\ enq' = Idle
  <2>1. DlvKeeps(c) /\ SlotKeeps /\ ~Live(c)' /\ (~Admits' \/ \A w \in Wakes : row'[w].claim # c)
    BY <1>1, <1>4, <1>9, GivenUp DEF TypeOK
  <2>2. CallerStep(c)
    BY <1>3, <1>5, <1>9, <2>1 DEF CallerStep, GateSafe
  <2>3. QED
    BY <1>1, <2>2, CallerKeeps
<1>10. CASE err = "tech" /\ ~stopped /\ Again(c, err, stopped) /\ enq' = [enq EXCEPT !.pc = "inspectMark"]
  <2>1. DlvKeeps(c) /\ SlotKeeps /\ Live(c)' /\ dlv'[c].gate = dlv[c].gate
    BY <1>1, <1>10, AgainFacts DEF TypeOK, Live
  <2>2. enq' = [c |-> c, pc |-> "inspectMark"]
    BY <1>10, EnqGoto
  <2>3. CallerStep(c)
    BY <1>1, <1>3, <1>5, <2>1, <2>2 DEF CallerStep, GateSafe
  <2>4. QED
    BY <1>1, <2>3, CallerKeeps
<1>11. QED
  BY <1>2, <1>6, <1>7, <1>8, <1>9, <1>10 DEF Errors, TypeOK

LEMMA ReleaseKeeps == IInv /\ Release => IInv'
<1> SUFFICES ASSUME IInv, Release, NEW c, c = enq.c PROVE IInv'
  OBVIOUS
<1> USE DEF IInv
<1>1. c \in Claims /\ dlv[c].wake \in Wakes /\ enq.pc = "release" /\ stopped \in BOOLEAN
  BY DEF Release, EnqSound, TypeOK
<1>2. PICK err \in Errors :
        /\ Call(c, Owns(c, { "claimed" }), "pending", err)
        /\ IF err = "ok" THEN Finish(c) /\ enq' = Idle
           ELSE \/ GiveUp(c, err, stopped) /\ enq' = Idle
                \/ Again(c, err, stopped) /\ enq' = [enq EXCEPT !.pc = "inspectRelease"]
  BY DEF Release
<1>3. UNCHANGED << stopped, disp, queue, cur, lost, begun, invoked >>
  BY DEF Release, history
<1>4. /\ row' \in [Wakes -> Row]
      /\ row' = row \/ (Valid(c) /\ Owns(c, { "claimed" }) /\ Becomes(c, "pending", NoClaim))
      /\ err = "ok" => Owns(c, { "claimed" }) /\ Becomes(c, "pending", NoClaim)
      /\ err = "stale" <=> ~Valid(c)
  <2>1. Owns(c, { "claimed" }) \in BOOLEAN
    BY DEF Owns
  <2>2. "pending" \notin Held
    BY DEF Held
  <2>3. QED
    BY <1>1, <1>2, <2>1, <2>2, CallFacts DEF Becomes, Call
<1>5. RowStep(c)
  BY <1>3, <1>4 DEF RowStep, Owns
<1>6. CASE err = "ok"
  <2>1. dlv' = [dlv EXCEPT ![c] = Finished(@)] /\ slot' = slot /\ enq' = Idle
    BY <1>2, <1>6 DEF Finish
  <2>2. DlvKeeps(c) /\ SlotKeeps /\ ~Live(c)'
    BY <1>1, <2>1, FinishedFacts DEF SlotKeeps, TypeOK, Slot, Live
  <2>3. ASSUME NEW w \in Wakes PROVE row'[w].claim # c
    <3>1. row[w].claim = c => w = dlv[c].wake
      BY <1>1, DeliveryAssumption DEF RowsSound
    <3>2. QED
      BY <1>1, <1>4, <1>6, <3>1, DeliveryAssumption DEF Becomes, TypeOK
  <2>4. CallerStep(c)
    BY <1>3, <1>5, <2>1, <2>2, <2>3 DEF CallerStep, GateSafe
  <2>5. QED
    BY <1>1, <2>4, CallerKeeps
<1>7. CASE err # "ok" /\ GiveUp(c, err, stopped) /\ enq' = Idle
  <2>1. stopped => ~Admits'
    BY <1>3 DEF Admits
  <2>2. DlvKeeps(c) /\ SlotKeeps /\ ~Live(c)' /\ (~Admits' \/ \A w \in Wakes : row'[w].claim # c)
    BY <1>1, <1>4, <1>7, <2>1, GivenUp
  <2>3. CallerStep(c)
    BY <1>3, <1>5, <1>7, <2>2 DEF CallerStep, GateSafe
  <2>4. QED
    BY <1>1, <2>3, CallerKeeps
<1>8. CASE err # "ok" /\ Again(c, err, stopped) /\ enq' = [enq EXCEPT !.pc = "inspectRelease"]
  <2>1. DlvKeeps(c) /\ SlotKeeps /\ (Live(c)' <=> Live(c)) /\ dlv'[c].gate = dlv[c].gate
    BY <1>1, <1>8, AgainFacts DEF Live
  <2>2. enq' = [c |-> c, pc |-> "inspectRelease"]
    BY <1>8, EnqGoto
  <2>3. CallerStep(c)
    BY <1>3, <1>5, <2>1, <2>2 DEF CallerStep, GateSafe
  <2>4. QED
    BY <1>1, <2>3, CallerKeeps
<1>9. QED
  BY <1>2, <1>6, <1>7, <1>8

LEMMA InspectKeeps == IInv /\ Inspect => IInv'
<1> SUFFICES ASSUME IInv, Inspect, NEW c, c = enq.c PROVE IInv'
  OBVIOUS
<1> USE DEF IInv
<1>1. /\ c \in Claims /\ dlv[c].wake \in Wakes /\ stopped \in BOOLEAN
      /\ enq.pc \in { "inspectMark", "inspectRelease" }
  BY DEF Inspect, EnqSound, TypeOK
<1>2. enq.pc = "inspectMark" => Live(c) /\ (InQueue(c) \/ cur.c = c)
  BY DEF EnqSound
<1>3. UNCHANGED << row, stopped, disp, queue, cur, lost, begun, invoked >>
  BY DEF Inspect, history
<1>4. RowStep(c)
  BY <1>3 DEF RowStep, TypeOK, Row
<1>5. CASE GiveUp(c, "tech", stopped) /\ enq' = Idle
  <2>1. stopped => ~Admits'
    BY <1>3 DEF Admits
  <2>2. DlvKeeps(c) /\ SlotKeeps /\ ~Live(c)' /\ (~Admits' \/ \A w \in Wakes : row'[w].claim # c)
    BY <1>1, <1>3, <1>5, <2>1, GivenUp
  <2>3. CallerStep(c)
    BY <1>3, <1>4, <1>5, <2>2 DEF CallerStep, GateSafe
  <2>4. QED
    BY <1>1, <2>3, CallerKeeps
<1>6. CASE Again(c, "tech", stopped) /\ UNCHANGED enq
  <2>1. DlvKeeps(c) /\ SlotKeeps /\ (Live(c)' <=> Live(c)) /\ dlv'[c].gate = dlv[c].gate
    BY <1>1, <1>6, AgainFacts DEF Live
  <2>2. enq' = [c |-> c, pc |-> enq.pc]
    BY <1>6 DEF TypeOK
  <2>3. CallerStep(c)
    BY <1>1, <1>2, <1>3, <1>4, <2>1, <2>2 DEF CallerStep, GateSafe
  <2>4. QED
    BY <1>1, <2>3, CallerKeeps
<1>7. CASE Seen(c) = "gone" /\ Finish(c) /\ enq' = Idle
  <2>1. dlv' = [dlv EXCEPT ![c] = Finished(@)] /\ slot' = slot
    BY <1>7 DEF Finish
  <2>2. DlvKeeps(c) /\ SlotKeeps /\ ~Live(c)'
    BY <1>1, <2>1, FinishedFacts DEF SlotKeeps, TypeOK, Slot, Live
  <2>3. ~Valid(c) \/ row[dlv[c].wake].claim # c
    BY <1>1, <1>7 DEF Seen, TypeOK, Held
  <2>4. ASSUME Admits', NEW w \in Wakes PROVE row'[w].claim # c
    BY <1>1, <1>3, <2>1, <2>3, <2>4, DeliveryAssumption DEF RowsSound, Admits, Current, Valid
  <2>5. CallerStep(c)
    BY <1>3, <1>4, <1>7, <2>2, <2>4 DEF CallerStep, GateSafe
  <2>6. QED
    BY <1>1, <2>5, CallerKeeps
<1>8. CASE /\ enq' = [enq EXCEPT !.pc = IF enq.pc = "inspectMark" THEN "mark" ELSE "release"]
           /\ UNCHANGED << slot, dlv >>
  <2>1. DlvKeeps(c) /\ SlotKeeps /\ (Live(c)' <=> Live(c)) /\ dlv'[c].gate = dlv[c].gate
    BY <1>1, <1>8 DEF DlvKeeps, SlotKeeps, TypeOK, Slot, Delivery, Live
  <2>2. enq' = [c |-> c, pc |-> IF enq.pc = "inspectMark" THEN "mark" ELSE "release"]
    BY <1>8, EnqGoto
  <2>3. CallerStep(c)
    BY <1>1, <1>2, <1>3, <1>4, <2>1, <2>2 DEF CallerStep, GateSafe
  <2>4. QED
    BY <1>1, <2>3, CallerKeeps
<1>9. CASE /\ Seen(c) = "enqueued" /\ enq' = Idle /\ enq.pc = "inspectMark"
           /\ dlv' = [dlv EXCEPT ![c].failures = 0, ![c].gate = TRUE]
           /\ UNCHANGED slot
  <2>1. DlvKeeps(c) /\ SlotKeeps /\ Live(c)'
    BY <1>1, <1>2, <1>9, OpenedFacts, SlotStays DEF Live
  <2>2. row[dlv[c].wake].status = "enqueued"
    BY <1>9 DEF Seen
  <2>3. ASSUME NEW w \in Wakes, row'[w].claim = c PROVE row'[w].status # "claimed"
    BY <1>1, <1>3, <2>2, <2>3, DeliveryAssumption DEF RowsSound
  <2>4. CallerStep(c)
    BY <1>2, <1>3, <1>4, <1>9, <2>1, <2>3 DEF CallerStep, GateSafe
  <2>5. QED
    BY <1>1, <2>4, CallerKeeps
<1>10. CASE Seen(c) = "enqueued" /\ enq' = Idle /\ Pause(c)
  <2>1. dlv' = [dlv EXCEPT ![c] = Finished(@)] /\ PauseWorld(dlv[c].gen)
    BY <1>10 DEF Pause
  <2>2. DlvKeeps(c) /\ SlotKeeps /\ ~Live(c)' /\ (slot.gen = dlv[c].gen => ~slot'.ready)
    BY <1>1, <2>1, FinishedFacts, PauseWorldFacts DEF Live
  <2>3. slot.gen = dlv[c].gen
    BY <1>10 DEF Seen, Valid
  <2>4. ~Admits'
    BY <2>2, <2>3 DEF Admits, Current
  <2>5. CallerStep(c)
    BY <1>3, <1>4, <1>10, <2>2, <2>4 DEF CallerStep, GateSafe
  <2>6. QED
    BY <1>1, <2>5, CallerKeeps
<1>11. QED
  BY <1>5, <1>6, <1>7, <1>8, <1>9, <1>10 DEF Inspect

-----------------------------------------------------------------------------
(* The actions of the lane past the gate.                                  *)

\* A delivery whose wake has another claim, or none, holds nothing.
LEMMA HoldsNothing ==
  ASSUME RowsSound, NEW c \in Claims, row[dlv[c].wake].claim # c, NEW w \in Wakes
  PROVE  row[w].claim # c
BY DeliveryAssumption DEF RowsSound

\* invalidate() of a fenced or cancelled delivery.
LEMMA Invalidated ==
  ASSUME TypeOK, RowsSound, NEW c \in Claims, Invalidate(c), Cancelled \/ ~Valid(c), row' = row
  PROVE  /\ DlvKeeps(c) /\ SlotKeeps /\ ~Live(c)'
         /\ ~Admits' \/ \A w \in Wakes : row'[w].claim # c
<1>1. dlv' = [dlv EXCEPT ![c] = Finished(@)]
  BY DEF Invalidate, Pause, Finish
<1>2. DlvKeeps(c) /\ ~Live(c)'
  BY <1>1, FinishedFacts DEF Live
<1>3. SlotKeeps
  BY PauseWorldFacts, SlotStays DEF Invalidate, Pause, Finish
<1>4. CASE Cancelled
  BY <1>2, <1>3, <1>4 DEF Admits, Cancelled, SlotKeeps
<1>5. CASE ~Valid(c)
  BY <1>2, <1>3, <1>5, ForeignHoldsNothing DEF Admits, Current, SlotKeeps
<1>6. QED
  BY <1>2, <1>3, <1>4, <1>5

LEMMA BeginWakeKeeps == IInv /\ BeginWake => IInv'
<1> SUFFICES ASSUME IInv, BeginWake, NEW c, c = cur.c PROVE IInv'
  OBVIOUS
<1> USE DEF IInv
<1>1. /\ c \in Claims /\ dlv[c].wake \in Wakes /\ cur.pc = "begin" /\ Cancelled \in BOOLEAN
      /\ Live(c) /\ dlv[c].gate
  BY DEF BeginWake, CurSound, TypeOK, Cancelled
<1>2. UNCHANGED << stopped, disp, enq, queue, lost, invoked >>
  BY DEF BeginWake
<1>3. CASE /\ Cancelled \/ ~Valid(c)
           /\ Invalidate(c) /\ Leave /\ UNCHANGED << row, begun >>
  <2>1. RowStep(c)
    BY <1>3 DEF RowStep, TypeOK, Row
  <2>2. DlvKeeps(c) /\ SlotKeeps /\ ~Live(c)' /\ (~Admits' \/ \A w \in Wakes : row'[w].claim # c)
    BY <1>1, <1>3, Invalidated
  <2>3. LaneStep(c)
    BY <1>2, <1>3, <2>1, <2>2 DEF LaneStep, GateSafe, Leave
  <2>4. QED
    BY <1>1, <2>3, LaneKeeps
<1>4. ASSUME ~Cancelled, NEW err \in Errors, Call(c, Owns(c, { "enqueued" }), "running", err),
             begun' = IF row' = row THEN begun ELSE begun \cup {c},
             \/ err = "ok" /\ Finish(c) /\ cur' = [cur EXCEPT !.pc = "begun"]
             \/ err # "ok" /\ GiveUp(c, err, Cancelled) /\ Leave
             \/ err # "ok" /\ Again(c, err, Cancelled) /\ cur' = [cur EXCEPT !.pc = "inspect"]
      PROVE  IInv'
  <2>1. /\ row' \in [Wakes -> Row]
        /\ row' = row \/ (Valid(c) /\ Owns(c, { "enqueued" }) /\ Becomes(c, "running", c))
        /\ err = "ok" => Owns(c, { "enqueued" }) /\ Becomes(c, "running", c)
        /\ err = "stale" <=> ~Valid(c)
    <3>1. Owns(c, { "enqueued" }) \in BOOLEAN
      BY DEF Owns
    <3>2. "running" \in Held
      BY DEF Held
    <3>3. QED
      BY <1>1, <1>4, <3>1, <3>2, CallFacts DEF Becomes, Call
  <2>2. Becomes(c, "running", c) => row'[dlv[c].wake].status = "running"
    BY <1>1 DEF Becomes, TypeOK
  <2>3. Owns(c, { "enqueued" }) /\ Becomes(c, "running", c) => row' # row
    BY <2>2 DEF Owns
  <2>4. RowStep(c)
    BY <1>4, <2>1, <2>3 DEF RowStep
  <2>5. CASE err = "ok" /\ Finish(c) /\ cur' = [cur EXCEPT !.pc = "begun"]
    <3>1. DlvKeeps(c) /\ SlotKeeps /\ ~Live(c)'
      BY <1>1, <2>5, FinishedFacts, SlotStays DEF Finish, Live
    <3>2. c \in begun'
      BY <1>4, <2>1, <2>3, <2>5
    <3>3. LaneStep(c)
      BY <1>1, <1>2, <2>4, <2>5, <3>1, <3>2, CurGoto DEF LaneStep, GateSafe
    <3>4. QED
      BY <1>1, <3>3, LaneKeeps
  <2>6. CASE GiveUp(c, err, Cancelled) /\ Leave
    <3>1. DlvKeeps(c) /\ SlotKeeps /\ ~Live(c)' /\ (~Admits' \/ \A w \in Wakes : row'[w].claim # c)
      BY <1>1, <1>4, <2>1, <2>6, GivenUp
    <3>2. LaneStep(c)
      BY <1>2, <2>4, <2>6, <3>1 DEF LaneStep, GateSafe, Leave
    <3>3. QED
      BY <1>1, <3>2, LaneKeeps
  <2>7. CASE Again(c, err, Cancelled) /\ cur' = [cur EXCEPT !.pc = "inspect"]
    <3>1. DlvKeeps(c) /\ SlotKeeps /\ Live(c)' /\ dlv'[c].gate
      BY <1>1, <2>7, AgainFacts DEF Live
    <3>2. LaneStep(c)
      BY <1>1, <1>2, <2>4, <2>7, <3>1, CurGoto DEF LaneStep, GateSafe
    <3>3. QED
      BY <1>1, <3>2, LaneKeeps
  <2>8. QED
    BY <1>4, <2>5, <2>6, <2>7
<1>5. QED
  BY <1>3, <1>4 DEF BeginWake

LEMMA InspectBegunKeeps == IInv /\ InspectBegun => IInv'
<1> SUFFICES ASSUME IInv, InspectBegun, NEW c, c = cur.c PROVE IInv'
  OBVIOUS
<1> USE DEF IInv
<1>1. /\ c \in Claims /\ dlv[c].wake \in Wakes /\ cur.pc = "inspect" /\ Cancelled \in BOOLEAN
      /\ Live(c) /\ dlv[c].gate
  BY DEF InspectBegun, CurSound, TypeOK, Cancelled
<1>2. UNCHANGED << row, stopped, disp, enq, queue, lost, begun, invoked >>
  BY DEF InspectBegun, history
<1>3. RowStep(c)
  BY <1>2 DEF RowStep, TypeOK, Row
<1>4. CASE GiveUp(c, "tech", Cancelled) /\ Leave
  <2>1. Cancelled => ~Admits'
    <3>1. SlotKeeps
      BY <1>1, <1>4, GiveUpFacts
    <3>2. QED
      BY <3>1 DEF Admits, Cancelled, SlotKeeps
  <2>2. DlvKeeps(c) /\ SlotKeeps /\ ~Live(c)' /\ (~Admits' \/ \A w \in Wakes : row'[w].claim # c)
    BY <1>1, <1>2, <1>4, <2>1, GivenUp
  <2>3. LaneStep(c)
    BY <1>2, <1>3, <1>4, <2>2 DEF LaneStep, GateSafe, Leave
  <2>4. QED
    BY <1>1, <2>3, LaneKeeps
<1>5. CASE Again(c, "tech", Cancelled) /\ UNCHANGED cur
  <2>1. DlvKeeps(c) /\ SlotKeeps /\ Live(c)' /\ dlv'[c].gate
    BY <1>1, <1>5, AgainFacts DEF Live
  <2>2. cur' = [c |-> c, pc |-> "inspect"]
    BY <1>1, <1>5 DEF TypeOK
  <2>3. LaneStep(c)
    BY <1>1, <1>2, <1>3, <2>1, <2>2 DEF LaneStep, GateSafe
  <2>4. QED
    BY <1>1, <2>3, LaneKeeps
<1>6. CASE Seen(c) \in { "gone", "claimed" } /\ Finish(c) /\ Leave
  <2>1. DlvKeeps(c) /\ SlotKeeps /\ ~Live(c)' /\ slot' = slot
    BY <1>1, <1>6, FinishedFacts, SlotStays DEF Finish, Live
  <2>2. Seen(c) # "claimed"
    BY <1>1 DEF Seen, RowsSound, Held
  <2>3. ~Valid(c) \/ row[dlv[c].wake].claim # c
    BY <1>1, <1>6, <2>2 DEF Seen, TypeOK, Held
  <2>4. ASSUME Admits', NEW w \in Wakes PROVE row'[w].claim # c
    BY <1>1, <1>2, <2>1, <2>3, <2>4, HoldsNothing, ForeignHoldsNothing DEF Admits, Current
  <2>5. LaneStep(c)
    BY <1>2, <1>3, <1>6, <2>1, <2>4 DEF LaneStep, GateSafe, Leave
  <2>6. QED
    BY <1>1, <2>5, LaneKeeps
<1>7. CASE cur' = [cur EXCEPT !.pc = "begin"] /\ UNCHANGED << slot, dlv >>
  <2>1. DlvKeeps(c) /\ SlotKeeps /\ Live(c)' /\ dlv'[c].gate
    BY <1>1, <1>7, SlotStays DEF DlvKeeps, TypeOK, Delivery, Live
  <2>2. LaneStep(c)
    BY <1>1, <1>2, <1>3, <1>7, <2>1, CurGoto DEF LaneStep, GateSafe
  <2>3. QED
    BY <1>1, <2>2, LaneKeeps
<1>8. CASE Seen(c) = "running" /\ Finish(c) /\ cur' = [cur EXCEPT !.pc = "recover"]
  <2>1. DlvKeeps(c) /\ SlotKeeps /\ ~Live(c)'
    BY <1>1, <1>8, FinishedFacts, SlotStays DEF Finish, Live
  <2>2. c \in begun
    BY <1>1, <1>8 DEF Seen, RowsSound, Held
  <2>3. LaneStep(c)
    BY <1>1, <1>2, <1>3, <1>8, <2>1, <2>2, CurGoto DEF LaneStep, GateSafe
  <2>4. QED
    BY <1>1, <2>3, LaneKeeps
<1>9. QED
  BY <1>4, <1>5, <1>6, <1>7, <1>8 DEF InspectBegun

LEMMA InvokeKeeps == IInv /\ Invoke => IInv'
<1> SUFFICES ASSUME IInv, Invoke, NEW c, c = cur.c PROVE IInv'
  OBVIOUS
<1> USE DEF IInv
<1>1. c \in Claims /\ dlv[c].wake \in Wakes /\ cur.pc \in { "begun", "recover" } /\ c \in begun
  BY DEF Invoke, CurSound, TypeOK
<1>2. UNCHANGED << row, stopped, disp, enq, queue, lost, begun >>
  BY DEF Invoke
<1>3. RowStep(c)
  BY <1>2 DEF RowStep, TypeOK, Row
<1>4. UNCHANGED << slot, dlv >> => DlvKeeps(c) /\ SlotKeeps /\ GateSafe(c)
  BY <1>1, SlotStays DEF DlvKeeps, TypeOK, Delivery, Live, GateSafe
<1>5. CASE /\ invoked' = [invoked EXCEPT ![c] = @ + 1]
           /\ cur' = [cur EXCEPT !.pc = "exec"] /\ UNCHANGED << slot, dlv >>
  <2>1. LaneStep(c)
    BY <1>1, <1>2, <1>3, <1>4, <1>5, CurGoto DEF LaneStep
  <2>2. QED
    BY <1>1, <2>1, LaneKeeps
<1>6. CASE /\ Cancelled \/ ~Valid(c)
           /\ Leave /\ Invalidate(c) /\ UNCHANGED invoked
  <2>1. DlvKeeps(c) /\ SlotKeeps /\ ~Live(c)' /\ (~Admits' \/ \A w \in Wakes : row'[w].claim # c)
    BY <1>1, <1>2, <1>6, Invalidated
  <2>2. LaneStep(c)
    BY <1>2, <1>3, <1>6, <2>1 DEF LaneStep, GateSafe, Leave
  <2>3. QED
    BY <1>1, <2>2, LaneKeeps
<1>7. CASE /\ Cancelled \/ ~Valid(c)
           /\ Leave /\ UNCHANGED << slot, dlv, invoked >>
  <2>1. ASSUME Admits', NEW w \in Wakes PROVE row'[w].claim # c
    BY <1>1, <1>2, <1>7, <2>1, ForeignHoldsNothing DEF Admits, Current, Cancelled
  <2>2. LaneStep(c)
    BY <1>2, <1>3, <1>4, <1>7, <2>1 DEF LaneStep, Leave
  <2>3. QED
    BY <1>1, <2>2, LaneKeeps
<1>8. QED
  BY <1>5, <1>6, <1>7 DEF Invoke

LEMMA ExecutionEndsKeeps == IInv /\ ExecutionEnds => IInv'
<1> SUFFICES ASSUME IInv, ExecutionEnds, NEW c, c = cur.c PROVE IInv'
  OBVIOUS
<1> USE DEF IInv
<1>1. /\ c \in Claims /\ dlv[c].wake \in Wakes /\ cur.pc = "exec" /\ c \in begun /\ Leave
      /\ UNCHANGED << stopped, disp, enq, queue, dlv, lost, begun, invoked >>
  BY DEF ExecutionEnds, CurSound, TypeOK, history
<1>2. DlvKeeps(c) /\ GateSafe(c)
  BY <1>1 DEF DlvKeeps, TypeOK, Delivery, Live, GateSafe
<1>3. CASE /\ Owns(c, { "running" }) /\ slot' = slot
           /\ \E st \in { "pending", "consumed" } : Becomes(c, st, NoClaim)
  <2>1. row' \in [Wakes -> Row]
    <3>1. row \in [Wakes -> Row]
      BY DEF TypeOK, Row
    <3>2. \A st \in { "pending", "consumed" } : [status |-> st, claim |-> NoClaim] \in Row
      BY DEF Row
    <3>3. QED
      BY <1>3, <3>1, <3>2 DEF Becomes
  <2>2. RowStep(c)
    BY <1>1, <1>3, <2>1 DEF RowStep, Owns
  <2>3. ASSUME NEW w \in Wakes PROVE row'[w].claim # c
    <3>1. row[w].claim = c => w = dlv[c].wake
      BY <1>1, DeliveryAssumption DEF RowsSound
    <3>2. QED
      BY <1>1, <1>3, <3>1, DeliveryAssumption DEF Becomes, TypeOK
  <2>4. LaneStep(c)
    BY <1>1, <1>2, <1>3, <2>2, <2>3, SlotStays DEF LaneStep, Leave
  <2>5. QED
    BY <1>1, <2>4, LaneKeeps
<1>4. CASE row' = row /\ (slot' = slot \/ PauseWorld(dlv[c].gen))
           /\ (slot' = slot => ~(Valid(c) /\ Owns(c, { "running" })) \/ PauseWorld(dlv[c].gen))
  <2>1. RowStep(c) /\ SlotKeeps
    BY <1>1, <1>4, SlotStays, PauseWorldFacts DEF RowStep, TypeOK, Row
  <2>2. ASSUME Admits', NEW w \in Wakes PROVE row'[w].claim # c
    <3>1. Current /\ (Valid(c) => ~PauseWorld(dlv[c].gen))
      BY <2>1, <2>2, PauseWorldFacts DEF Admits, Current, Valid, SlotKeeps
    <3>2. row[dlv[c].wake].claim = c => row[dlv[c].wake].status = "running"
      BY <1>1, DeliveryAssumption DEF RowsSound
    <3>3. ~Valid(c) \/ row[dlv[c].wake].claim # c
      BY <1>4, <3>1, <3>2 DEF Owns
    <3>4. QED
      BY <1>1, <1>4, <3>1, <3>3, HoldsNothing, ForeignHoldsNothing
  <2>3. LaneStep(c)
    BY <1>1, <1>2, <2>1, <2>2 DEF LaneStep, Leave
  <2>4. QED
    BY <1>1, <2>3, LaneKeeps
<1>5. QED
  BY <1>3, <1>4 DEF ExecutionEnds, Becomes

-----------------------------------------------------------------------------
(* The dispatcher up to the enqueue.                                       *)

LEMMA StoppedKeeps == IInv /\ Stopped => IInv'
<1> SUFFICES ASSUME IInv, Stopped, NEW c, c = enq.c PROVE IInv'
  OBVIOUS
<1> USE DEF IInv
<1>1. /\ c \in Claims /\ dlv[c].wake \in Wakes /\ enq.pc = "enqueue" /\ stopped /\ enq' = Idle
      /\ UNCHANGED << row, slot, stopped, disp, queue, cur, dlv, lost, begun, invoked >>
  BY DEF Stopped, EnqSound, TypeOK, history
<1>2. RowStep(c) /\ DlvKeeps(c) /\ SlotKeeps /\ GateSafe(c)
  BY <1>1, SlotStays DEF RowStep, DlvKeeps, TypeOK, Row, Delivery, Live, GateSafe
<1>3. CallerStep(c)
  BY <1>1, <1>2 DEF CallerStep, Admits
<1>4. QED
  BY <1>1, <1>3, CallerKeeps

LEMMA EnqueueWakeKeeps == IInv /\ EnqueueWake => IInv'
<1> SUFFICES ASSUME IInv, EnqueueWake, NEW c, c = enq.c PROVE IInv'
  OBVIOUS
<1> USE DEF IInv
<1>1. /\ c \in Claims /\ dlv[c].wake \in Wakes /\ enq.pc = "enqueue" /\ NoClaim \notin Claims
      /\ UNCHANGED << row, stopped, disp, cur, lost, begun, invoked >>
  BY DeliveryAssumption DEF EnqueueWake, EnqSound, TypeOK, history
<1>2. ~InQueue(c) /\ cur.c # c /\ Live(c) /\ invoked[c] = 0
  BY <1>1 DEF EnqSound
<1>3. RowStep(c)
  BY <1>1 DEF RowStep, TypeOK, Row
<1>4. dlv' = dlv => DlvKeeps(c) /\ GateSafe(c)
  BY <1>1 DEF DlvKeeps, TypeOK, Delivery, Live, GateSafe
<1>5. CASE ~Valid(c) /\ enq' = Idle /\ UNCHANGED << slot, queue, dlv >>
  <2>1. ASSUME Admits', NEW w \in Wakes PROVE row'[w].claim # c
    BY <1>1, <1>5, <2>1, ForeignHoldsNothing DEF Admits, Current
  <2>2. CallerStep(c)
    BY <1>1, <1>3, <1>4, <1>5, <2>1, SlotStays DEF CallerStep
  <2>3. QED
    BY <1>1, <2>2, CallerKeeps
<1>6. CASE Valid(c) /\ PauseWorld(dlv[c].gen) /\ enq' = Idle /\ UNCHANGED << queue, dlv >>
  <2>1. SlotKeeps /\ ~Admits'
    BY <1>6, PauseWorldFacts DEF Admits, Current, Valid
  <2>2. CallerStep(c)
    BY <1>1, <1>3, <1>4, <1>6, <2>1 DEF CallerStep
  <2>3. QED
    BY <1>1, <2>2, CallerKeeps
<1>7. CASE /\ dlv' = [dlv EXCEPT ![c].eligible = FALSE]
           /\ enq' = [enq EXCEPT !.pc = "release"] /\ UNCHANGED << slot, queue >>
  <2>1. DlvKeeps(c) /\ ~Live(c)'
    <3>1. dlv \in [Claims -> Delivery]
      BY DEF TypeOK, Delivery
    <3>2. QED
      BY <1>1, <1>7, <3>1 DEF DlvKeeps, Delivery, Live
  <2>2. CallerStep(c)
    BY <1>1, <1>3, <1>7, <2>1, SlotStays, EnqGoto DEF CallerStep, GateSafe
  <2>3. QED
    BY <1>1, <2>2, CallerKeeps
<1>8. CASE /\ queue' = Append(queue, c)
           /\ enq' = [enq EXCEPT !.pc = "mark"] /\ UNCHANGED << slot, dlv >>
  <2>1. /\ queue' \in Seq(Claims) /\ Len(queue') = Len(queue) + 1 /\ Len(queue) \in Nat
        /\ queue'[Len(queue) + 1] = c
        /\ \A i \in 1..Len(queue) : queue'[i] = queue[i]
    BY <1>1, <1>8 DEF TypeOK
  <2>2. enq' = [c |-> c, pc |-> "mark"]
    BY <1>8, EnqGoto
  <2>3. InQueue(c)' /\ \A d \in Claims : InQueue(d) => InQueue(d)'
    BY <2>1 DEF InQueue
  <2>4. TypeOK'
    BY <1>1, <1>8, <2>1, <2>2 DEF TypeOK
  <2>5. RowsSound'
    BY <1>1, <1>8 DEF RowsSound, Live
  <2>6. EnqSound'
    BY <1>1, <1>2, <1>8, <2>2, <2>3 DEF EnqSound, Live
  <2>7. QueueSound'
    <3>1. \A i \in 1..Len(queue) : queue[i] # c
      BY <1>2 DEF InQueue
    <3>2. \A i \in 1..Len(queue') : i \in 1..Len(queue) \/ i = Len(queue) + 1
      BY <2>1
    <3>3. \A i \in 1..Len(queue') :
            dlv'[queue'[i]].wake \in Wakes /\ invoked'[queue'[i]] = 0 /\ queue'[i] # cur'.c
      BY <1>1, <1>2, <1>8, <2>1, <3>2 DEF QueueSound
    <3>4. \A i, j \in 1..Len(queue') : queue'[i] = queue'[j] => i = j
      BY <2>1, <3>1, <3>2 DEF QueueSound
    <3>5. QED
      BY <3>3, <3>4 DEF QueueSound
  <2>8. CurSound'
    BY <1>1, <1>8, <2>2 DEF CurSound, Live
  <2>9. HeldSound'
    <3>1. \A d \in Claims : KeptBy(d) => KeptBy(d)'
      BY <1>1, <1>8, <2>2, <2>3 DEF KeptBy, Live
    <3>2. ASSUME Admits', NEW w \in Wakes, row'[w].status \in Held, NEW d, d = row'[w].claim
          PROVE  KeptBy(d)'
      <4>1. KeptBy(d)
        BY <1>1, <1>8, <3>2 DEF HeldSound, Admits, Current, Cancelled
      <4>2. d \in Claims
        BY <1>1, <3>2 DEF RowsSound
      <4>3. QED
        BY <3>1, <4>1, <4>2
    <3>3. QED
      BY <3>2 DEF HeldSound, KeptBy, Live, InQueue
  <2>10. QED
    BY <2>4, <2>5, <2>6, <2>7, <2>8, <2>9
<1>9. QED
  BY <1>5, <1>6, <1>7, <1>8 DEF EnqueueWake

\* The claim of a due wake takes an identity nothing refers to.
LEMMA ClaimDueKeeps ==
  ASSUME IInv, NEW w \in Wakes, NEW c \in Claims, ClaimDue(w, c)
  PROVE  IInv'
<1> USE DEF IInv
<1>1. /\ enq = Idle /\ Current /\ row[w].status = "pending" /\ Free(c) /\ ~stopped
      /\ row' = [row EXCEPT ![w] = [status |-> "claimed", claim |-> c]]
      /\ begun' = begun \ {c} /\ invoked' = [invoked EXCEPT ![c] = 0]
      /\ UNCHANGED << stopped, queue, cur >>
      /\ NoClaim \notin Claims
  BY DeliveryAssumption DEF ClaimDue, Claimed
<1>2. /\ dlv' \in [Claims -> Delivery]
      /\ dlv'[c].wake = w /\ dlv'[c].gen = slot.gen /\ Live(c)' /\ ~dlv'[c].gate
      /\ \A d \in Claims \ {c} : dlv'[d] = dlv[d]
  <2>1. dlv \in [Claims -> Delivery] /\ slot.gen \in 0..MaxGen
    BY DEF TypeOK, Delivery
  <2>2. NoDelivery \in Delivery /\ ~NoDelivery.ended /\ ~NoDelivery.gate
    BY DeliveryAssumption DEF NoDelivery, Delivery, Limit
  <2> DEFINE new == [NoDelivery EXCEPT !.wake = w, !.gen = slot.gen, !.eligible = TRUE]
  <2>3. /\ new \in Delivery /\ new.wake = w /\ new.gen = slot.gen
        /\ new.eligible /\ ~new.ended /\ ~new.gate
    BY <2>1, <2>2 DEF Delivery
  <2>4. dlv' = [dlv EXCEPT ![c] = new]
    BY DEF ClaimDue
  <2> HIDE DEF new
  <2>5. QED
    BY <2>1, <2>3, <2>4 DEF Live
<1>3. SlotKeeps
  BY PauseWorldFacts, SlotStays DEF ClaimDue
<1>4. disp' \in 0..(Limit - 1)
  <2>1. disp \in 0..(Limit - 1) /\ Limit = 3
    BY DEF TypeOK, Limit
  <2>2. disp' = 0 \/ disp' = (disp + 1) % Limit
    BY DEF ClaimDue
  <2>3. QED
    BY <2>1, <2>2
<1>5. \/ enq' = [c |-> c, pc |-> "enqueue"] /\ lost' = lost \ {c}
      \/ enq' = Idle /\ lost' = lost \cup {c}
  BY <1>1 DEF ClaimDue
<1>6. /\ row' \in [Wakes -> Row] /\ row'[w].status = "claimed" /\ row'[w].claim = c
      /\ \A v \in Wakes \ {w} : row'[v] = row[v]
      /\ \A v \in Wakes : row[v].claim # c
      /\ cur.c # c /\ ~InQueue(c)
  <2>1. [status |-> "claimed", claim |-> c] \in Row /\ row \in [Wakes -> Row]
    BY DEF Row, Held, TypeOK
  <2>2. QED
    BY <1>1, <2>1 DEF Free, InQueue
<1>7. \A i \in 1..Len(queue) : queue[i] \in Claims /\ queue[i] # c
  BY <1>6, QueueElements DEF TypeOK, InQueue
<1>8. /\ invoked' \in [Claims -> Nat] /\ invoked'[c] = 0
      /\ \A d \in Claims \ {c} : invoked'[d] = invoked[d]
  <2>1. invoked \in [Claims -> Nat]
    BY DEF TypeOK
  <2>2. QED
    BY <1>1, <2>1
<1>9. TypeOK'
  <2>1. row' \in [Wakes -> Row] /\ slot' \in Slot /\ stopped' \in BOOLEAN /\ queue' \in Seq(Claims)
    BY <1>1, <1>3, <1>6 DEF TypeOK, SlotKeeps
  <2>2. /\ enq' \in [c : Claims \cup { NoClaim },
                pc : { "idle", "enqueue", "mark", "release", "inspectMark", "inspectRelease" }]
        /\ cur' = cur
    BY <1>1, <1>5 DEF Idle
  <2>3. lost' \subseteq Claims /\ begun' \subseteq Claims
    BY <1>1, <1>5 DEF TypeOK
  <2>4. QED
    BY <1>2, <1>4, <1>8, <2>1, <2>2, <2>3 DEF TypeOK, Row, Slot, Delivery
<1>10. RowsSound'
  <2> SUFFICES ASSUME NEW v \in Wakes PROVE RowsSound!(v)'
    BY DEF RowsSound
  <2>1. CASE v = w
    BY <1>1, <1>2, <1>3, <1>6, <2>1 DEF SlotKeeps, Held, Current
  <2>2. CASE v # w
    <3>1. row'[v] = row[v] /\ row[v].claim # c
      BY <1>6, <2>2
    <3>2. QED
      BY <1>1, <1>2, <1>3, <3>1 DEF RowsSound, SlotKeeps, Live
  <2>3. QED
    BY <2>1, <2>2
<1>11. EnqSound'
  BY <1>1, <1>2, <1>5, <1>6, <1>8 DEF EnqSound, InQueue, Idle, Live
<1>12. QueueSound'
  BY <1>1, <1>2, <1>7, <1>8 DEF QueueSound
<1>13. CurSound'
  <2>1. cur.pc # "idle" => cur.c \in Claims \ {c}
    BY <1>6 DEF CurSound, TypeOK
  <2>2. QED
    BY <1>1, <1>2, <1>5, <1>8, <2>1 DEF CurSound, Live, Idle
<1>14. HeldSound'
  <2> SUFFICES ASSUME Admits', NEW v \in Wakes, row'[v].status \in Held,
                      NEW d, d = row'[v].claim
               PROVE  KeptBy(d)'
    BY DEF HeldSound, KeptBy, Live, InQueue
  <2>1. CASE v = w
    BY <1>5, <1>6, <2>1 DEF KeptBy
  <2>2. CASE v # w
    <3>1. row'[v] = row[v] /\ d \in Claims \ {c}
      BY <1>6, <2>2 DEF RowsSound
    <3>2. KeptBy(d)
      BY <1>1, <1>3, <3>1 DEF HeldSound, Admits, Current, Cancelled, SlotKeeps
    <3>3. d # enq.c
      BY <1>1, <3>1 DEF Idle
    <3>4. QED
      BY <1>1, <1>2, <1>5, <3>1, <3>2, <3>3 DEF KeptBy, Live, InQueue
  <2>3. QED
    BY <2>1, <2>2
<1>15. QED
  BY <1>9, <1>10, <1>11, <1>12, <1>13, <1>14

-----------------------------------------------------------------------------
(* The lane up to the gate.                                                *)

LEMMA RunKeeps == IInv /\ Run => IInv'
<1> SUFFICES ASSUME IInv, Run, NEW c, c = cur.c PROVE IInv'
  OBVIOUS
<1> USE DEF IInv
<1>1. /\ c \in Claims /\ dlv[c].wake \in Wakes /\ cur.pc = "gate" /\ invoked[c] = 0
      /\ dlv[c].gate /\ enq.c # c /\ NoClaim \notin Claims
      /\ UNCHANGED << row, slot, stopped, disp, enq, queue, dlv, lost, begun, invoked >>
  BY DeliveryAssumption DEF Run, CurSound, TypeOK, history
<1>2. \/ ~Live(c) /\ cur' = Idle
      \/ Live(c) /\ cur' = [c |-> c, pc |-> "begin"]
  BY CurGoto DEF Run, Leave, Live, TypeOK
<1>3. cur'.c \in { c, NoClaim } /\ cur'.pc \in { "idle", "begin" }
  BY <1>2 DEF Idle
<1>4. TypeOK'
  <2>1. cur' \in [c : Claims \cup { NoClaim },
                  pc : { "idle", "gate", "begin", "inspect", "begun", "recover", "exec" }]
    BY <1>1, <1>2 DEF Idle
  <2>2. QED
    BY <1>1, <2>1 DEF TypeOK
<1>5. RowsSound'
  BY <1>1 DEF RowsSound, Live
<1>6. EnqSound'
  BY <1>1, <1>3 DEF EnqSound, Live, InQueue, TypeOK
<1>7. QueueSound'
  <2>1. \A i \in 1..Len(queue) : queue[i] \in Claims /\ queue[i] # cur'.c
    BY <1>1, <1>3, QueueElements DEF TypeOK, QueueSound
  <2>2. QED
    BY <1>1, <2>1 DEF QueueSound
<1>8. CurSound'
  BY <1>1, <1>2 DEF CurSound, Live, Idle
<1>9. HeldSound'
  <2>1. ASSUME NEW d \in Claims, KeptBy(d) PROVE KeptBy(d)'
    BY <1>1, <1>2, <2>1 DEF KeptBy, Live, InQueue
  <2>2. Admits' = Admits
    BY <1>1 DEF Admits, Current, Cancelled
  <2>3. QED
    BY <1>1, <2>1, <2>2 DEF HeldSound, RowsSound
<1>10. QED
  BY <1>4, <1>5, <1>6, <1>7, <1>8, <1>9

\* What is left of the lane once its head is taken.
LEMMA TailFacts ==
  ASSUME TypeOK, QueueSound, queue # << >>, queue' = Tail(queue), NEW h, h = Head(queue)
  PROVE  /\ queue' \in Seq(Claims) /\ h \in Claims
         /\ dlv[h].wake \in Wakes /\ invoked[h] = 0 /\ InQueue(h) /\ h # cur.c
         /\ \A i \in 1..Len(queue') :
              i + 1 \in 1..Len(queue) /\ queue'[i] = queue[i + 1] /\ queue'[i] # h
         /\ \A d : InQueue(d) => d = h \/ InQueue(d)'
         /\ \A d : InQueue(d)' => InQueue(d)
<1>1. /\ queue' \in Seq(Claims) /\ h = queue[1] /\ 1 \in 1..Len(queue) /\ h \in Claims
      /\ Len(queue) \in Nat /\ Len(queue') = Len(queue) - 1
  BY DEF TypeOK
<1>2. \A i \in 1..Len(queue') : i + 1 \in 1..Len(queue) /\ queue'[i] = queue[i + 1]
  BY <1>1 DEF TypeOK
<1>3. \A i \in 1..Len(queue') : queue'[i] # h
  BY <1>1, <1>2 DEF QueueSound
<1>4. dlv[h].wake \in Wakes /\ invoked[h] = 0 /\ InQueue(h) /\ h # cur.c
  BY <1>1 DEF QueueSound, InQueue
<1>5. ASSUME NEW d, InQueue(d), d # h PROVE InQueue(d)'
  <2>1. PICK i \in 1..Len(queue) : queue[i] = d
    BY <1>5 DEF InQueue
  <2>2. i # 1 /\ i - 1 \in 1..Len(queue') /\ (i - 1) + 1 = i
    BY <1>1, <1>5, <2>1
  <2>3. queue'[i - 1] = d
    BY <1>2, <2>1, <2>2
  <2>4. QED
    BY <2>2, <2>3 DEF InQueue
<1>6. ASSUME NEW d, InQueue(d)' PROVE InQueue(d)
  BY <1>2, <1>6 DEF InQueue
<1>7. QED
  BY <1>1, <1>2, <1>3, <1>4, <1>5, <1>6

LEMMA DequeueKeeps == IInv /\ Dequeue => IInv'
<1> SUFFICES ASSUME IInv, Dequeue, NEW h, h = Head(queue) PROVE IInv'
  OBVIOUS
<1> USE DEF IInv
<1>1. /\ cur = Idle /\ queue # << >> /\ queue' = Tail(queue)
      /\ cur' = [c |-> h, pc |-> "gate"] /\ NoClaim \notin Claims
      /\ UNCHANGED << row, slot, stopped, disp, enq, dlv, lost, begun, invoked >>
  BY DeliveryAssumption DEF Dequeue, history
<1>2. /\ queue' \in Seq(Claims) /\ h \in Claims
      /\ dlv[h].wake \in Wakes /\ invoked[h] = 0 /\ InQueue(h)
      /\ \A i \in 1..Len(queue') :
           i + 1 \in 1..Len(queue) /\ queue'[i] = queue[i + 1] /\ queue'[i] # h
      /\ \A d : InQueue(d) => d = h \/ InQueue(d)'
      /\ \A d : InQueue(d)' => InQueue(d)
  BY <1>1, TailFacts
<1>3. TypeOK'
  <2>1. cur' \in [c : Claims \cup { NoClaim },
                  pc : { "idle", "gate", "begin", "inspect", "begun", "recover", "exec" }]
    BY <1>1, <1>2
  <2>2. QED
    BY <1>1, <1>2, <2>1 DEF TypeOK
<1>4. RowsSound'
  BY <1>1 DEF RowsSound, Live
<1>5. EnqSound'
  <2>1. enq.pc = "enqueue" => ~InQueue(enq.c)' /\ cur'.c # enq.c
    BY <1>1, <1>2 DEF EnqSound
  <2>2. enq.pc \in { "mark", "inspectMark" } => InQueue(enq.c)' \/ cur'.c = enq.c
    <3>1. enq.pc \in { "mark", "inspectMark" } => InQueue(enq.c) \/ enq.c = NoClaim
      BY <1>1 DEF EnqSound, Idle
    <3>2. enq.pc \in { "mark", "inspectMark" } => InQueue(enq.c)
      BY <3>1 DEF EnqSound
    <3>3. ASSUME NEW e, e = enq.c PROVE InQueue(e) => InQueue(e)' \/ cur'.c = e
      BY <1>1, <1>2
    <3>4. QED
      BY <1>1, <3>2, <3>3 DEF InQueue
  <2>3. QED
    BY <1>1, <2>1, <2>2 DEF EnqSound, Live, InQueue
<1>6. QueueSound'
  <2>1. \A i \in 1..Len(queue') :
          dlv[queue'[i]].wake \in Wakes /\ invoked[queue'[i]] = 0 /\ queue'[i] # cur'.c
    BY <1>1, <1>2 DEF QueueSound
  <2>2. ASSUME NEW i \in 1..Len(queue'), NEW j \in 1..Len(queue'), queue'[i] = queue'[j]
        PROVE  i = j
    <3>1. i + 1 = j + 1
      BY <1>2, <2>2 DEF QueueSound
    <3>2. QED
      BY <3>1
  <2>3. QED
    BY <1>1, <2>1, <2>2 DEF QueueSound
<1>7. CurSound'
  BY <1>1, <1>2 DEF CurSound, Live
<1>8. HeldSound'
  <2>1. ASSUME NEW d \in Claims, KeptBy(d) PROVE KeptBy(d)'
    <3>1. d # cur.c
      BY <1>1 DEF Idle
    <3>2. Live(d)' = Live(d)
      BY <1>1 DEF Live
    <3>3. QED
      BY <1>1, <1>2, <2>1, <3>1, <3>2 DEF KeptBy
  <2>2. Admits' = Admits
    BY <1>1 DEF Admits, Current, Cancelled
  <2>3. QED
    BY <1>1, <2>1, <2>2 DEF HeldSound, RowsSound
<1>9. QED
  BY <1>3, <1>4, <1>5, <1>6, <1>7, <1>8

\* abort() after the lanes were closed: nothing is admitted any more.
LEMMA AbortOfFacts ==
  ASSUME TypeOK, NEW c \in Claims, dlv[c].wake \in Wakes, Cancelled, AbortOf(c)
  PROVE  /\ enq.c # c /\ RowStep(c) /\ DlvKeeps(c) /\ SlotKeeps /\ GateSafe(c) /\ ~Admits'
         /\ UNCHANGED << stopped, disp, enq, lost, begun, invoked >>
<1>1. enq.c # c /\ UNCHANGED << row, stopped, disp, enq, lost, begun, invoked >>
  BY DEF AbortOf, history
<1>2. RowStep(c)
  BY <1>1 DEF RowStep, TypeOK, Row
<1>3. CASE UNCHANGED << slot, dlv >>
  <2>1. DlvKeeps(c) /\ GateSafe(c)
    BY <1>3 DEF DlvKeeps, TypeOK, Delivery, Live, GateSafe
  <2>2. QED
    BY <1>1, <1>2, <1>3, <2>1, SlotStays DEF Admits, Cancelled
<1>4. CASE Invalidate(c)
  <2>1. DlvKeeps(c) /\ ~Live(c)'
    BY <1>4, FinishedFacts DEF Invalidate, Pause, Finish, Live
  <2>2. SlotKeeps
    BY <1>4, PauseWorldFacts, SlotStays DEF Invalidate, Pause, Finish
  <2>3. QED
    BY <1>1, <1>2, <2>1, <2>2 DEF GateSafe, Admits, Cancelled, SlotKeeps
<1>5. QED
  BY <1>3, <1>4 DEF AbortOf

LEMMA AbortKeeps == IInv /\ Abort => IInv'
<1> SUFFICES ASSUME IInv, Abort PROVE IInv'
  OBVIOUS
<1> USE DEF IInv
<1>0. Cancelled /\ NoClaim \notin Claims
  BY DeliveryAssumption DEF Abort
<1>1. ASSUME NEW c, c = cur.c, cur.pc = "gate", AbortOf(c), cur' = Idle, queue' = queue
      PROVE  IInv'
  <2>1. c \in Claims /\ dlv[c].wake \in Wakes
    BY <1>1 DEF CurSound, TypeOK
  <2>2. /\ enq.c # c /\ RowStep(c) /\ DlvKeeps(c) /\ SlotKeeps /\ GateSafe(c) /\ ~Admits'
        /\ UNCHANGED << stopped, disp, enq, lost, begun, invoked >>
    BY <1>0, <1>1, <2>1, AbortOfFacts
  <2>3. TypeOK'
    <3>1. cur' \in [c : Claims \cup { NoClaim },
                    pc : { "idle", "gate", "begin", "inspect", "begun", "recover", "exec" }]
      BY <1>1 DEF Idle
    <3>2. QED
      BY <1>1, <2>2, <3>1 DEF TypeOK, RowStep, DlvKeeps, SlotKeeps, Row, Slot, Delivery
  <2>4. RowsSound'
    BY <2>1, <2>2, RowsStep
  <2>5. EnqSound'
    <3>1. enq.pc # "idle" => enq.c \in Claims \ {c}
      BY <2>2 DEF TypeOK, EnqSound
    <3>2. QED
      BY <1>0, <1>1, <2>1, <2>2, <3>1 DEF EnqSound, DlvKeeps, InQueue, Live, Idle
  <2>6. QueueSound'
    <3>1. \A i \in 1..Len(queue) : queue[i] \in Claims \ {c}
      BY <1>1, QueueElements DEF TypeOK, QueueSound
    <3>2. QED
      BY <1>0, <1>1, <2>2, <3>1 DEF QueueSound, DlvKeeps, Idle
  <2>7. CurSound'
    BY <1>1 DEF CurSound, Idle
  <2>8. QED
    BY <2>2, <2>3, <2>4, <2>5, <2>6, <2>7 DEF HeldSound
<1>2. ASSUME NEW h, h = Head(queue), cur = Idle, queue # << >>, AbortOf(h),
             queue' = Tail(queue), cur' = cur
      PROVE  IInv'
  <2>1. /\ queue' \in Seq(Claims) /\ h \in Claims
        /\ dlv[h].wake \in Wakes /\ InQueue(h)
        /\ \A i \in 1..Len(queue') :
             i + 1 \in 1..Len(queue) /\ queue'[i] = queue[i + 1] /\ queue'[i] # h
        /\ \A d : InQueue(d) => d = h \/ InQueue(d)'
        /\ \A d : InQueue(d)' => InQueue(d)
    BY <1>2, TailFacts
  <2>2. /\ enq.c # h /\ RowStep(h) /\ DlvKeeps(h) /\ SlotKeeps /\ GateSafe(h) /\ ~Admits'
        /\ UNCHANGED << stopped, disp, enq, lost, begun, invoked >>
    BY <1>0, <1>2, <2>1, AbortOfFacts
  <2>3. TypeOK'
    BY <1>2, <2>1, <2>2 DEF TypeOK, RowStep, DlvKeeps, SlotKeeps, Row, Slot, Delivery
  <2>4. RowsSound'
    BY <2>1, <2>2, RowsStep
  <2>5. EnqSound'
    <3>1. enq.pc # "idle" => enq.c \in Claims \ {h}
      BY <2>2 DEF TypeOK, EnqSound
    <3>2. ASSUME NEW e, e = enq.c PROVE InQueue(e) <=> InQueue(e)'
      BY <2>1, <2>2, <3>2
    <3>3. InQueue(enq.c) <=> InQueue(enq.c)'
      BY <2>2, <3>2 DEF InQueue
    <3>4. QED
      BY <1>2, <2>2, <3>1, <3>3 DEF EnqSound, DlvKeeps, Live
  <2>6. QueueSound'
    <3>1. \A i \in 1..Len(queue') : queue'[i] \in Claims \ {h}
      BY <2>1
    <3>2. \A i \in 1..Len(queue') :
            dlv'[queue'[i]].wake \in Wakes /\ invoked'[queue'[i]] = 0 /\ queue'[i] # cur'.c
      BY <1>2, <2>1, <2>2, <3>1 DEF QueueSound, DlvKeeps
    <3>3. ASSUME NEW i \in 1..Len(queue'), NEW j \in 1..Len(queue'), queue'[i] = queue'[j]
          PROVE  i = j
      <4>1. i + 1 = j + 1
        BY <2>1, <3>3 DEF QueueSound
      <4>2. QED
        BY <4>1
    <3>4. QED
      BY <3>2, <3>3 DEF QueueSound
  <2>7. CurSound'
    BY <1>2 DEF CurSound, Idle
  <2>8. QED
    BY <2>2, <2>3, <2>4, <2>5, <2>6, <2>7 DEF HeldSound
<1>3. QED
  BY <1>1, <1>2 DEF Abort, Leave

-----------------------------------------------------------------------------
(* The world, which never touches a delivery.                              *)

\* What is left is as it was, or free of its holder.
LEMMA WorldKeeps ==
  ASSUME IInv,
         UNCHANGED << enq, queue, cur, dlv, begun, invoked >>,
         stopped' \in BOOLEAN, disp' \in 0..(Limit - 1), slot' \in Slot, lost' \subseteq Claims,
         row' \in [Wakes -> Row],
         \A w \in Wakes : \/ row'[w] = row[w] /\ slot'.gen = slot.gen
                          \/ row'[w].status \notin Held /\ row'[w].claim = NoClaim,
         slot'.saving => slot.saving \/ \A w \in Wakes : row'[w].status \notin Held,
         Admits' => \/ Admits /\ lost \subseteq lost'
                    \/ \A w \in Wakes : row'[w].status \notin Held
  PROVE  IInv'
<1> USE DEF IInv
<1>1. TypeOK'
  BY DEF TypeOK, Row, Slot
<1>2. RowsSound'
  <2> SUFFICES ASSUME NEW v \in Wakes PROVE RowsSound!(v)'
    BY DEF RowsSound
  <2>1. CASE row'[v] = row[v] /\ slot'.gen = slot.gen
    BY <2>1 DEF RowsSound, Live
  <2>2. CASE row'[v].status \notin Held /\ row'[v].claim = NoClaim
    BY <2>2
  <2>3. QED
    BY <2>1, <2>2
<1>3. EnqSound'
  BY DEF EnqSound, InQueue, Live
<1>4. QueueSound'
  BY DEF QueueSound
<1>5. CurSound'
  BY DEF CurSound, Live
<1>6. HeldSound'
  <2> SUFFICES ASSUME Admits', NEW v \in Wakes, row'[v].status \in Held,
                      NEW d, d = row'[v].claim
               PROVE  KeptBy(d)'
    BY DEF HeldSound, KeptBy, Live, InQueue
  <2>1. Admits /\ lost \subseteq lost' /\ row'[v] = row[v]
    OBVIOUS
  <2>2. KeptBy(d)
    BY <2>1 DEF HeldSound
  <2>3. QED
    BY <2>1, <2>2 DEF KeptBy, Live, InQueue
<1>7. QED
  BY <1>1, <1>2, <1>3, <1>4, <1>5, <1>6

\* A claim that failed, an end of save, a lost stream, an unbind and a stop
\* leave every row.
LEMMA QuietKeeps ==
  ASSUME IInv,
         UNCHANGED << row, enq, queue, cur, dlv, lost, begun, invoked >>,
         stopped' \in BOOLEAN, disp' \in 0..(Limit - 1), slot' \in Slot,
         slot'.gen = slot.gen, slot'.saving => slot.saving,
         Admits' => Admits \/ slot.saving
  PROVE  IInv'
<1>1. row' \in [Wakes -> Row] /\ lost' \subseteq Claims
  BY DEF IInv, TypeOK, Row
<1>2. slot.saving => \A w \in Wakes : row'[w].status \notin Held
  BY DEF IInv, RowsSound
<1>3. QED
  BY <1>1, <1>2, WorldKeeps

LEMMA ClaimFailsKeeps == IInv /\ ClaimFails => IInv'
<1> SUFFICES ASSUME IInv, ClaimFails PROVE IInv'
  OBVIOUS
<1>1. /\ UNCHANGED << row, stopped, enq, queue, cur, dlv, lost, begun, invoked >>
      /\ TypeOK /\ stopped \in BOOLEAN
  BY DEF ClaimFails, hands, history, IInv, TypeOK
<1>2. SlotKeeps
  BY <1>1, PauseWorldFacts, SlotStays DEF ClaimFails
<1>3. disp' \in 0..(Limit - 1)
  <2>1. disp \in 0..(Limit - 1) /\ Limit = 3
    BY <1>1 DEF TypeOK, Limit
  <2>2. disp' = (disp + 1) % Limit
    BY DEF ClaimFails
  <2>3. QED
    BY <2>1, <2>2
<1>4. Admits' => Admits
  BY <1>1, <1>2 DEF SlotKeeps, Admits, Current, Cancelled
<1>5. QED
  BY <1>1, <1>2, <1>3, <1>4, QuietKeeps DEF SlotKeeps

LEMMA FinishSaveKeeps == IInv /\ FinishSave => IInv'
<1> SUFFICES ASSUME IInv, FinishSave PROVE IInv'
  OBVIOUS
<1>1. /\ UNCHANGED << row, stopped, disp, enq, queue, cur, dlv, lost, begun, invoked >>
      /\ slot.saving /\ slot' = [slot EXCEPT !.saving = FALSE]
      /\ slot \in Slot /\ stopped \in BOOLEAN /\ disp \in 0..(Limit - 1)
  BY DEF FinishSave, hands, history, IInv, TypeOK, Slot
<1>2. slot' \in Slot /\ slot'.gen = slot.gen /\ ~slot'.saving
  BY <1>1 DEF Slot
<1>3. QED
  BY <1>1, <1>2, QuietKeeps

LEMMA StreamLostKeeps == IInv /\ StreamLost => IInv'
<1> SUFFICES ASSUME IInv, StreamLost PROVE IInv'
  OBVIOUS
<1>1. /\ UNCHANGED << row, stopped, disp, enq, queue, cur, dlv, lost, begun, invoked >>
      /\ slot' = [slot EXCEPT !.lanes = "closed"]
      /\ slot \in Slot /\ stopped \in BOOLEAN /\ disp \in 0..(Limit - 1)
  BY DEF StreamLost, hands, history, IInv, TypeOK, Slot
<1>2. slot' \in Slot /\ slot'.gen = slot.gen /\ slot'.saving = slot.saving /\ slot'.lanes = "closed"
  BY <1>1 DEF Slot
<1>3. ~Admits'
  BY <1>2 DEF Admits, Cancelled
<1>4. QED
  BY <1>1, <1>2, <1>3, QuietKeeps

LEMMA UnbindKeeps == IInv /\ Unbind => IInv'
<1> SUFFICES ASSUME IInv, Unbind PROVE IInv'
  OBVIOUS
<1>1. /\ UNCHANGED << row, stopped, disp, enq, queue, cur, dlv, lost, begun, invoked >>
      /\ slot' = [slot EXCEPT !.ready = FALSE, !.lanes = "closed"]
      /\ slot \in Slot /\ stopped \in BOOLEAN /\ disp \in 0..(Limit - 1)
  BY DEF Unbind, hands, history, IInv, TypeOK, Slot
<1>2. slot' \in Slot /\ slot'.gen = slot.gen /\ slot'.saving = slot.saving /\ slot'.lanes = "closed"
  BY <1>1 DEF Slot
<1>3. ~Admits'
  BY <1>2 DEF Admits, Cancelled
<1>4. QED
  BY <1>1, <1>2, <1>3, QuietKeeps

LEMMA StopKeeps == IInv /\ Stop => IInv'
<1> SUFFICES ASSUME IInv, Stop PROVE IInv'
  OBVIOUS
<1>1. /\ UNCHANGED << row, slot, disp, enq, queue, cur, dlv, lost, begun, invoked >>
      /\ stopped' = TRUE /\ slot \in Slot /\ disp \in 0..(Limit - 1)
  BY DEF Stop, hands, history, IInv, TypeOK, Slot
<1>2. ~Admits'
  BY <1>1 DEF Admits
<1>3. QED
  BY <1>1, <1>2, QuietKeeps

LEMMA OtherWorkKeeps ==
  ASSUME IInv, NEW w \in Wakes, OtherWork(w)
  PROVE  IInv'
<1>1. /\ UNCHANGED << slot, stopped, disp, enq, queue, cur, dlv, lost, begun, invoked >>
      /\ slot \in Slot /\ stopped \in BOOLEAN /\ disp \in 0..(Limit - 1) /\ lost \subseteq Claims
      /\ row \in [Wakes -> Row]
  BY DEF OtherWork, hands, history, IInv, TypeOK, Slot, Row
<1>2. PICK st \in { "pending", "consumed" } : row' = [row EXCEPT ![w] = [status |-> st, claim |-> NoClaim]]
  BY DEF OtherWork
<1>3. row' \in [Wakes -> Row] /\ row'[w].status \notin Held /\ row'[w].claim = NoClaim
      /\ \A v \in Wakes \ {w} : row'[v] = row[v]
  <2>1. [status |-> st, claim |-> NoClaim] \in Row /\ st \notin Held
    BY DEF Row, Held
  <2>2. QED
    BY <1>1, <1>2, <2>1
<1>4. Admits' => Admits
  BY <1>1 DEF Admits, Current, Cancelled
<1>5. QED
  BY <1>1, <1>3, <1>4, WorldKeeps

\* A save or a rebind takes every wake back.
LEMMA FencedFacts ==
  ASSUME IInv, row' = Fenced
  PROVE  /\ row' \in [Wakes -> Row]
         /\ \A w \in Wakes : row'[w].status \notin Held /\ row'[w].claim = NoClaim
<1>1. row \in [Wakes -> Row] /\ \A w \in Wakes : row[w].status \notin Held => row[w].claim = NoClaim
  BY DEF IInv, TypeOK, Row, RowsSound
<1>2. [status |-> "pending", claim |-> NoClaim] \in Row /\ { "pending", "consumed" } \cap Held = {}
  BY DEF Row, Held
<1>3. ASSUME NEW w \in Wakes
      PROVE  row'[w] \in Row /\ row'[w].status \notin Held /\ row'[w].claim = NoClaim
  <2>1. row'[w] = IF row[w].status = "consumed" THEN row[w]
                  ELSE [status |-> "pending", claim |-> NoClaim]
    BY DEF Fenced
  <2>2. QED
    BY <1>1, <1>2, <2>1
<1>4. QED
  BY <1>3 DEF Fenced

LEMMA PrepareSaveKeeps == IInv /\ PrepareSave => IInv'
<1> SUFFICES ASSUME IInv, PrepareSave PROVE IInv'
  OBVIOUS
<1>1. /\ UNCHANGED << stopped, disp, enq, queue, cur, dlv, begun, invoked >>
      /\ slot' = [slot EXCEPT !.gen = slot.gen + 1, !.saving = TRUE] /\ slot.gen < MaxGen
      /\ row' = Fenced /\ lost' = {}
      /\ slot \in Slot /\ stopped \in BOOLEAN /\ disp \in 0..(Limit - 1)
  BY DEF PrepareSave, hands, history, IInv, TypeOK, Slot
<1>2. slot' \in Slot
  <2>1. slot.gen + 1 \in 0..MaxGen
    BY <1>1, DeliveryAssumption DEF Slot
  <2>2. QED
    BY <1>1, <2>1 DEF Slot
<1>3. QED
  BY <1>1, <1>2, FencedFacts, WorldKeeps

LEMMA RebindKeeps == IInv /\ Rebind => IInv'
<1> SUFFICES ASSUME IInv, Rebind PROVE IInv'
  OBVIOUS
<1>1. /\ UNCHANGED << stopped, disp, enq, queue, cur, dlv, begun, invoked >>
      /\ slot' = [gen |-> slot.gen + 1, ready |-> TRUE, saving |-> FALSE, lanes |-> "open"]
      /\ slot.gen < MaxGen /\ row' = Fenced /\ lost' = {}
      /\ slot \in Slot /\ stopped \in BOOLEAN /\ disp \in 0..(Limit - 1)
  BY DEF Rebind, hands, history, IInv, TypeOK, Slot
<1>2. slot' \in Slot
  <2>1. slot.gen + 1 \in 0..MaxGen
    BY <1>1, DeliveryAssumption DEF Slot
  <2>2. QED
    BY <1>1, <2>1 DEF Slot
<1>3. QED
  BY <1>1, <1>2, FencedFacts, WorldKeeps

-----------------------------------------------------------------------------
(* The invariant.                                                          *)

LEMMA InitIInv == Init => IInv
<1> SUFFICES ASSUME Init PROVE IInv
  OBVIOUS
<1>1. TypeOK
  <2>1. slot \in Slot /\ disp \in 0..(Limit - 1) /\ stopped \in BOOLEAN
    <3>1. [gen |-> 0, ready |-> TRUE, saving |-> FALSE, lanes |-> "open"] \in Slot
      BY DeliveryAssumption DEF Slot
    <3>2. 0 \in 0..(Limit - 1)
      BY DEF Limit
    <3>3. QED
      BY <3>1, <3>2 DEF Init
  <2>2. row \in [Wakes -> Row]
    BY DEF Init, Row
  <2>3. dlv \in [Claims -> Delivery]
    <3>1. NoDelivery \in Delivery
      BY DeliveryAssumption DEF NoDelivery, Delivery, Limit
    <3>2. QED
      BY <3>1 DEF Init
  <2>4. QED
    BY <2>1, <2>2, <2>3 DEF Init, TypeOK, Row, Slot, Delivery, Idle
<1>2. \A w \in Wakes : row[w].status \notin Held /\ row[w].claim = NoClaim
  BY DEF Init, Held
<1>3. RowsSound /\ HeldSound
  BY <1>2 DEF RowsSound, HeldSound
<1>4. EnqSound /\ QueueSound /\ CurSound
  BY DEF Init, Idle, EnqSound, QueueSound, CurSound
<1>5. QED
  BY <1>1, <1>3, <1>4 DEF IInv

LEMMA IInvInductive == IInv /\ [Next]_vars => IInv'
<1> SUFFICES ASSUME IInv, [Next]_vars PROVE IInv'
  OBVIOUS
<1>1. CASE UNCHANGED vars
  <2>1. UNCHANGED << row, slot, stopped, disp, enq, queue, cur, dlv, lost, begun, invoked >>
    BY <1>1 DEF vars, hands, history
  <2>2. slot \in Slot /\ stopped \in BOOLEAN /\ disp \in 0..(Limit - 1)
    BY DEF IInv, TypeOK, Slot
  <2>3. Admits' => Admits
    BY <2>1 DEF Admits, Current, Cancelled
  <2>4. QED
    BY <2>1, <2>2, <2>3, QuietKeeps
<1>2. CASE Dispatcher
  BY <1>2, ClaimDueKeeps, ClaimFailsKeeps, StoppedKeeps, EnqueueWakeKeeps, MarkKeeps,
     ReleaseKeeps, InspectKeeps DEF Dispatcher
<1>3. CASE Lane
  BY <1>3, DequeueKeeps, RunKeeps, AbortKeeps, BeginWakeKeeps, InspectBegunKeeps, InvokeKeeps,
     ExecutionEndsKeeps DEF Lane
<1>4. CASE World
  BY <1>4, OtherWorkKeeps, PrepareSaveKeeps, FinishSaveKeeps, StreamLostKeeps, UnbindKeeps,
     RebindKeeps, StopKeeps DEF World
<1>5. QED
  BY <1>1, <1>2, <1>3, <1>4 DEF Next

\* The inductive invariant holds of every step of the dispatcher, the lane and
\* the world (dispatcher.go, wake_delivery.go).
THEOREM InvariantCorrect == Spec => []IInv
<1>1. QED
  BY InitIInv, IInvInductive, PTL DEF Spec

\* The rows, the world and the hands a delivery passes through keep their types:
\* the failures of a delivery and of the scan stay below Limit.
THEOREM TypeCorrect == Spec => []TypeOK
<1>1. IInv => TypeOK
  BY DEF IInv
<1>2. QED
  BY <1>1, InvariantCorrect, PTL

LEMMA IInvNoOrphan == IInv => NoOrphanedWake
<1> SUFFICES ASSUME IInv, Admits, NEW w \in Wakes, row[w].status \in Held,
                    NEW c, c = row[w].claim
             PROVE  c \in lost \/ Custodian(c)
  BY DEF NoOrphanedWake, Admits, Custodian
<1>1. KeptBy(c)
  BY DEF IInv, HeldSound
<1>2. QED
  BY <1>1 DEF KeptBy, Custodian, Live, InQueue

\* Wherever a mark, a release or a begin failed or lost its answer, the delivery
\* inspected, released or paused the world before it let go of its wake
\* (wakeDelivery.failed, inspect and abort): in a world that admits work every
\* held wake is in somebody's hands, for any number of wakes and claims.
THEOREM NoWakeOrphaned == Spec => []NoOrphanedWake
<1>1. QED
  BY InvariantCorrect, IInvNoOrphan, PTL

-----------------------------------------------------------------------------
(* The refinement of WakeOwnership.                                        *)

LEMMA Stutters ==
  ASSUME \A w \in Wakes : row'[w].claim = row[w].claim, begun' = begun, invoked' = invoked
  PROVE  UNCHANGED Ownership!vars
BY DEF Ownership!vars

\* One wake loses its holder.
LEMMA Drops ==
  ASSUME NEW w \in Wakes, row \in [Wakes -> Row], NEW st,
         row' = [row EXCEPT ![w] = [status |-> st, claim |-> NoClaim]],
         begun' = begun, invoked' = invoked
  PROVE  Ownership!Next
<1>1. \A v \in Wakes : row'[v].claim = IF v \in {w} THEN NoClaim ELSE row[v].claim
  OBVIOUS
<1>2. Ownership!Drop({w})
  BY <1>1 DEF Ownership!Drop
<1>3. QED
  BY <1>2 DEF Ownership!Next

LEMMA FencedDrops ==
  ASSUME IInv, row' = Fenced, begun' = begun, invoked' = invoked
  PROVE  Ownership!Next
<1>1. \A w \in Wakes : row'[w].claim = IF w \in Wakes THEN NoClaim ELSE row[w].claim
  BY FencedFacts
<1>2. Ownership!Drop(Wakes)
  BY <1>1 DEF Ownership!Drop
<1>3. QED
  BY <1>2 DEF Ownership!Next

LEMMA ClaimDueGrants ==
  ASSUME IInv, NEW w \in Wakes, NEW c \in Claims, ClaimDue(w, c)
  PROVE  Ownership!Next
<1>1. /\ row[w].status = "pending" /\ Free(c)
      /\ row' = [row EXCEPT ![w] = [status |-> "claimed", claim |-> c]]
      /\ begun' = begun \ {c} /\ invoked' = [invoked EXCEPT ![c] = 0]
      /\ row \in [Wakes -> Row]
  BY DEF ClaimDue, Claimed, IInv, TypeOK, Row
<1>2. row[w].claim = NoClaim /\ \A v \in Wakes : row[v].claim # c
  BY <1>1 DEF IInv, RowsSound, Free, Held
<1>3. \A v \in Wakes : row'[v].claim = IF v = w THEN c ELSE row[v].claim
  BY <1>1
<1>4. Ownership!Grant(w, c)
  BY <1>1, <1>2, <1>3 DEF Ownership!Grant
<1>5. QED
  BY <1>4 DEF Ownership!Next

\* What a guarded call of delivery c, which needs the wake in one of the given
\* statuses, does to the holders.
LEMMA CallHolds ==
  ASSUME IInv, NEW c \in Claims, dlv[c].wake \in Wakes, NEW ss, NEW st, NEW err,
         Call(c, Owns(c, ss), st, err), NEW v \in Wakes
  PROVE  /\ st \in Held => row'[v].claim = row[v].claim
         /\ \/ row' = row
            \/ /\ Owns(c, ss)
               /\ row' = [row EXCEPT ![dlv[c].wake] =
                            [status |-> st, claim |-> IF st \in Held THEN c ELSE NoClaim]]
<1>1. row \in [Wakes -> Row]
  BY DEF IInv, TypeOK, Row
<1>2. \/ row' = row
      \/ /\ Owns(c, ss)
         /\ row' = [row EXCEPT ![dlv[c].wake] =
                      [status |-> st, claim |-> IF st \in Held THEN c ELSE NoClaim]]
  BY DEF Call
<1>3. QED
  BY <1>1, <1>2 DEF Owns

LEMMA DispatcherOwns == IInv /\ Dispatcher => [Ownership!Next]_(Ownership!vars)
<1> SUFFICES ASSUME IInv, Dispatcher PROVE Ownership!Next \/ UNCHANGED Ownership!vars
  OBVIOUS
<1>1. CASE \E w \in Wakes, c \in Claims : ClaimDue(w, c)
  BY <1>1, ClaimDueGrants
<1>2. CASE ClaimFails \/ Stopped \/ EnqueueWake \/ Inspect
  BY <1>2, Stutters DEF ClaimFails, Stopped, EnqueueWake, Inspect, history
<1>3. ASSUME Mark, NEW c, c = enq.c PROVE UNCHANGED Ownership!vars
  <2>1. c \in Claims /\ dlv[c].wake \in Wakes /\ begun' = begun /\ invoked' = invoked
    BY <1>3 DEF Mark, IInv, EnqSound, TypeOK, history
  <2>2. PICK err \in Errors : Call(c, Owns(c, { "claimed", "enqueued" }), "enqueued", err)
    BY <1>3 DEF Mark
  <2>3. "enqueued" \in Held
    BY DEF Held
  <2>4. QED
    BY <2>1, <2>2, <2>3, CallHolds, Stutters
<1>4. ASSUME Release, NEW c, c = enq.c PROVE Ownership!Next \/ UNCHANGED Ownership!vars
  <2>1. /\ c \in Claims /\ dlv[c].wake \in Wakes /\ begun' = begun /\ invoked' = invoked
        /\ row \in [Wakes -> Row]
    BY <1>4 DEF Release, IInv, EnqSound, TypeOK, Row, history
  <2>2. PICK err \in Errors : Call(c, Owns(c, { "claimed" }), "pending", err)
    BY <1>4 DEF Release
  <2>3. "pending" \notin Held
    BY DEF Held
  <2>4. \/ row' = row
        \/ row' = [row EXCEPT ![dlv[c].wake] = [status |-> "pending", claim |-> NoClaim]]
    BY <2>1, <2>2, <2>3, CallHolds
  <2>5. QED
    BY <2>1, <2>4, Stutters, Drops
<1>5. QED
  BY <1>1, <1>2, <1>3, <1>4 DEF Dispatcher

LEMMA LaneOwns == IInv /\ Lane => [Ownership!Next]_(Ownership!vars)
<1> SUFFICES ASSUME IInv, Lane, NEW c, c = cur.c PROVE Ownership!Next \/ UNCHANGED Ownership!vars
  OBVIOUS
<1>1. CASE Dequeue \/ Run \/ InspectBegun \/ Abort
  BY <1>1, Stutters DEF Dequeue, Run, InspectBegun, Abort, AbortOf, history
<1>2. cur.pc # "idle" => c \in Claims /\ dlv[c].wake \in Wakes
  BY DEF IInv, CurSound, TypeOK
<1>3. row \in [Wakes -> Row]
  BY DEF IInv, TypeOK, Row
<1>4. CASE BeginWake
  <2>1. c \in Claims /\ dlv[c].wake \in Wakes /\ invoked' = invoked
    BY <1>2, <1>4 DEF BeginWake
  <2>2. CASE row' = row /\ begun' = begun
    BY <2>1, <2>2, Stutters
  <2>3. ASSUME NEW err \in Errors, Call(c, Owns(c, { "enqueued" }), "running", err),
               row' # row, begun' = begun \cup {c}
        PROVE  Ownership!Next
    <3>1. Owns(c, { "enqueued" }) /\ \A v \in Wakes : row'[v].claim = row[v].claim
      <4>1. "running" \in Held
        BY DEF Held
      <4>2. QED
        BY <2>1, <2>3, <4>1, CallHolds
    <3>2. row[dlv[c].wake].claim = c /\ c \notin begun
      BY <2>1, <3>1 DEF Owns, IInv, RowsSound, Held
    <3>3. Ownership!Begin(dlv[c].wake)
      BY <2>1, <2>3, <3>1, <3>2 DEF Ownership!Begin
    <3>4. QED
      BY <2>1, <3>3 DEF Ownership!Next
  <2>4. QED
    BY <1>4, <2>2, <2>3 DEF BeginWake
<1>5. CASE Invoke
  <2>1. c \in Claims /\ c \in begun /\ invoked[c] = 0 /\ row' = row /\ begun' = begun
    BY <1>2, <1>5 DEF Invoke, IInv, CurSound
  <2>2. CASE invoked' = invoked
    BY <2>1, <2>2, Stutters
  <2>3. CASE invoked' = [invoked EXCEPT ![c] = @ + 1]
    <3>1. invoked' = [invoked EXCEPT ![c] = 1]
      BY <2>1, <2>3
    <3>2. Ownership!Invoke(c)
      BY <2>1, <3>1 DEF Ownership!Invoke
    <3>3. QED
      BY <2>1, <3>2 DEF Ownership!Next
  <2>4. QED
    BY <1>5, <2>2, <2>3 DEF Invoke
<1>6. CASE ExecutionEnds
  <2>1. c \in Claims /\ dlv[c].wake \in Wakes /\ begun' = begun /\ invoked' = invoked
    BY <1>2, <1>6 DEF ExecutionEnds, history
  <2>2. \/ row' = row
        \/ \E st \in { "pending", "consumed" } :
             row' = [row EXCEPT ![dlv[c].wake] = [status |-> st, claim |-> NoClaim]]
    BY <1>6 DEF ExecutionEnds
  <2>3. QED
    BY <1>3, <2>1, <2>2, Stutters, Drops
<1>7. QED
  BY <1>1, <1>4, <1>5, <1>6 DEF Lane

LEMMA WorldOwns == IInv /\ World => [Ownership!Next]_(Ownership!vars)
<1> SUFFICES ASSUME IInv, World PROVE Ownership!Next \/ UNCHANGED Ownership!vars
  OBVIOUS
<1>1. CASE FinishSave \/ StreamLost \/ Unbind \/ Stop
  BY <1>1, Stutters DEF FinishSave, StreamLost, Unbind, Stop, history
<1>2. CASE PrepareSave \/ Rebind
  BY <1>2, FencedDrops DEF PrepareSave, Rebind, history
<1>3. ASSUME NEW w \in Wakes, OtherWork(w) PROVE Ownership!Next
  <2>1. row \in [Wakes -> Row] /\ begun' = begun /\ invoked' = invoked
    BY <1>3 DEF IInv, TypeOK, Row, OtherWork, history
  <2>2. \E st \in { "pending", "consumed" } :
          row' = [row EXCEPT ![w] = [status |-> st, claim |-> NoClaim]]
    BY <1>3 DEF OtherWork
  <2>3. QED
    BY <2>1, <2>2, Drops
<1>4. QED
  BY <1>1, <1>2, <1>3 DEF World

\* The delivery of wakes (dispatcher.go, wake_delivery.go and the guarded calls
\* of service.go) implements WakeOwnership, whatever answers are lost and
\* whichever worlds are fenced: a wake has one holder, and the agent is invoked
\* at most once per claim and only after the claim began.
THEOREM DeliveryImplementsOwnership == Spec => OwnershipSpec
<1>1. Init => Ownership!Init
  BY DEF Init, Ownership!Init
<1>2. IInv /\ [Next]_vars => [Ownership!Next]_(Ownership!vars)
  <2>1. UNCHANGED vars => UNCHANGED Ownership!vars
    BY Stutters DEF vars, history
  <2>2. QED
    BY <2>1, DispatcherOwns, LaneOwns, WorldOwns DEF Next
<1>3. QED
  BY <1>1, <1>2, InvariantCorrect, PTL DEF Spec, OwnershipSpec, Ownership!Spec
=============================================================================
