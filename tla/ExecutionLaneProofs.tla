------------------------ MODULE ExecutionLaneProofs ------------------------
(***************************************************************************)
(* The safety of the execution lane, for any number of tasks and any       *)
(* capacity.                                                               *)
(***************************************************************************)
EXTENDS ExecutionLane, TLAPS

\* The extra slot is safe because a lane whose last selection was maintenance
\* has no player selected.
Slots ==
    /\ Occupancy <= QueueSize + 1
    /\ activeMaintenance => current \notin Players

\* The worker holds a task exactly between selecting and settling it.
Hands == current # NoTask <=> pc \in Holding \cup {"running"}

\* Past closeAdmission nobody holds mu and nobody gets in again.
Shutdown ==
    /\ pc \in { "drain", "drainAbort", "done" } => closed /\ entering = NoTask
    /\ pc = "done" => queue = << >> /\ maintenance = NoTask

LaneInv ==
    /\ TypeOK
    /\ NoLostWakeup
    /\ Slots
    /\ Hands
    /\ Custody
    /\ Shutdown

-----------------------------------------------------------------------------
(* The operations on the queue.                                             *)

\* Enqueue's send: one more element, behind the others.
LEMMA AppendFacts ==
  ASSUME NEW S, NEW q \in Seq(S), NEW x \in S
  PROVE  /\ Append(q, x) \in Seq(S)
         /\ Len(Append(q, x)) = Len(q) + 1
         /\ \A i \in 1 .. Len(q) : Append(q, x)[i] = q[i]
         /\ Append(q, x)[Len(q) + 1] = x
  OBVIOUS

\* dequeue's receive: the first element leaves, the others move up.
LEMMA TailFacts ==
  ASSUME NEW S, NEW q \in Seq(S), q # << >>
  PROVE  /\ Head(q) \in S /\ Head(q) = q[1]
         /\ Tail(q) \in Seq(S)
         /\ Len(q) \in Nat /\ Len(q) > 0
         /\ Len(Tail(q)) = Len(q) - 1
         /\ \A i \in 1 .. Len(q) - 1 : Tail(q)[i] = q[i + 1]
  OBVIOUS

-----------------------------------------------------------------------------
\* dequeue() keeps the types, wherever the worker goes next.
LEMMA DequeueType ==
  ASSUME TypeOK, NEW found \in Locations, NEW none \in Locations,
         DequeueTo(found, none)
  PROVE  TypeOK'
<1> USE DEF TypeOK
<1>1. UNCHANGED << ready, closed, cancelled, entering, opened, outcome >>
  BY DEF DequeueTo
<1>2. CASE queue # << >>
  <2>1. /\ current' = Head(queue) /\ queue' = Tail(queue)
        /\ activeMaintenance' = FALSE /\ pc' = found /\ maintenance' = maintenance
    BY <1>2 DEF DequeueTo
  <2>2. Head(queue) \in Players /\ Tail(queue) \in Seq(Players)
    BY <1>2, TailFacts
  <2>3. QED
    BY <1>1, <2>1, <2>2 DEF Tasks
<1>3. CASE queue = << >> /\ maintenance # NoTask
  <2>1. /\ current' = maintenance /\ queue' = queue /\ maintenance' = NoTask
        /\ activeMaintenance' = TRUE /\ pc' = found
    BY <1>3 DEF DequeueTo
  <2>2. QED
    BY <1>1, <1>3, <2>1 DEF Tasks
<1>4. CASE queue = << >> /\ maintenance = NoTask
  <2>1. /\ current' = current /\ queue' = queue /\ maintenance' = maintenance
        /\ activeMaintenance' = FALSE /\ pc' = none
    BY <1>4 DEF DequeueTo
  <2>2. QED
    BY <1>1, <2>1
<1>5. QED
  BY <1>2, <1>3, <1>4

\* The empty lane that NewExecutionLane returns has its types.
LEMMA TypeInit == Init => TypeOK
<1> SUFFICES ASSUME Init PROVE TypeOK
  OBVIOUS
<1> USE DEF Init
<1>1. queue \in Seq(Players)
  OBVIOUS
<1>2. outcome \in [Tasks -> Outcomes]
  BY DEF Outcomes
<1>3. QED
  BY <1>1, <1>2 DEF TypeOK, Locations

\* Every operation of lane.go keeps the types of the lane's fields.
LEMMA TypeStep == TypeOK /\ [Next]_vars => TypeOK'
<1> SUFFICES ASSUME TypeOK, [Next]_vars PROVE TypeOK'
  OBVIOUS
<1> USE LaneAssumption DEF TypeOK, Tasks, Outcomes, Locations
<1>1. CASE UNCHANGED vars
  BY <1>1 DEF vars
<1>2. ASSUME NEW t \in Tasks, Enter(t) PROVE TypeOK'
  BY <1>2 DEF Enter
<1>3. ASSUME NEW t \in Tasks, OpenGate(t) PROVE TypeOK'
  BY <1>3 DEF OpenGate
<1>4. CASE Enqueue
  BY <1>4, AppendFacts DEF Enqueue
<1>5. CASE EnqueueMaintenance
  BY <1>5 DEF EnqueueMaintenance
<1>6. CASE Close
  BY <1>6 DEF Close
<1>7. CASE ParentCancel
  BY <1>7 DEF ParentCancel
<1>8. CASE Check
  BY <1>8 DEF Check
<1>9. CASE Dequeue
  BY <1>9, DequeueType DEF Dequeue
<1>10. CASE Unpark
  BY <1>10 DEF Unpark
<1>11. CASE WaitAdmitted
  BY <1>11 DEF WaitAdmitted
<1>12. CASE Start
  BY <1>12 DEF Start
<1>13. CASE Finish
  BY <1>13 DEF Finish
<1>14. CASE Abort
  BY <1>14 DEF Abort, AbortTo
<1>15. CASE CloseAdmission
  BY <1>15 DEF CloseAdmission
<1>16. CASE Drain
  BY <1>16, DequeueType DEF Drain
<1>17. CASE DrainAbort
  BY <1>17 DEF DrainAbort, AbortTo
<1>18. QED
  BY <1>1, <1>2, <1>3, <1>4, <1>5, <1>6, <1>7, <1>8, <1>9, <1>10, <1>11,
     <1>12, <1>13, <1>14, <1>15, <1>16, <1>17 DEF Next, Worker

-----------------------------------------------------------------------------
(* The conjuncts that do not depend on where each task is.                  *)

\* The wakeup token: a worker parks only after dequeue() found nothing with mu
\* free, and each push leaves a token.
LEMMA WakeupStep == TypeOK /\ NoLostWakeup /\ [Next]_vars => NoLostWakeup'
<1> SUFFICES ASSUME TypeOK, NoLostWakeup, [Next]_vars PROVE NoLostWakeup'
  OBVIOUS
<1> USE DEF NoLostWakeup
<1>1. CASE UNCHANGED vars
  BY <1>1 DEF vars
<1>2. ASSUME NEW t \in Tasks, Enter(t) \/ OpenGate(t) PROVE NoLostWakeup'
  BY <1>2 DEF Enter, OpenGate
<1>3. CASE Enqueue \/ EnqueueMaintenance
  BY <1>3 DEF Enqueue, EnqueueMaintenance
<1>4. CASE Close \/ ParentCancel
  BY <1>4 DEF Close, ParentCancel
<1>5. CASE Check \/ Unpark \/ WaitAdmitted \/ Start \/ Finish \/ CloseAdmission
  BY <1>5 DEF Check, Unpark, WaitAdmitted, Start, Finish, CloseAdmission
<1>6. CASE Abort \/ DrainAbort
  BY <1>6 DEF Abort, DrainAbort, AbortTo
<1>7. CASE Dequeue \/ Drain
  BY <1>7 DEF Dequeue, Drain, DequeueTo
<1>8. QED
  BY <1>1, <1>2, <1>3, <1>4, <1>5, <1>6, <1>7 DEF Next, Worker

\* The worker's hands are empty exactly where run holds no task.
LEMMA HandsStep == TypeOK /\ Hands /\ [Next]_vars => Hands'
<1> SUFFICES ASSUME TypeOK, Hands, [Next]_vars PROVE Hands'
  OBVIOUS
<1> USE DEF Hands, Holding
<1>1. CASE UNCHANGED vars
  BY <1>1 DEF vars
<1>2. ASSUME NEW t \in Tasks, Enter(t) \/ OpenGate(t) PROVE Hands'
  BY <1>2 DEF Enter, OpenGate
<1>3. CASE Enqueue \/ EnqueueMaintenance \/ Close \/ ParentCancel
  BY <1>3 DEF Enqueue, EnqueueMaintenance, Close, ParentCancel
<1>4. CASE Check \/ Unpark \/ WaitAdmitted \/ Start \/ Finish \/ CloseAdmission
  BY <1>4 DEF Check, Unpark, WaitAdmitted, Start, Finish, CloseAdmission
<1>5. CASE Abort \/ DrainAbort
  BY <1>5 DEF Abort, DrainAbort, AbortTo
<1>6. CASE Dequeue \/ Drain
  <2>1. queue # << >> => Head(queue) # NoTask
    BY TailFacts, LaneAssumption DEF TypeOK, Tasks
  <2>2. QED
    BY <1>6, <2>1 DEF Dequeue, Drain, DequeueTo
<1>7. QED
  BY <1>1, <1>2, <1>3, <1>4, <1>5, <1>6 DEF Next, Worker

\* closeAdmission needs mu, and a closed lane admits nobody.
LEMMA ShutdownStep == TypeOK /\ Shutdown /\ [Next]_vars => Shutdown'
<1> SUFFICES ASSUME TypeOK, Shutdown, [Next]_vars PROVE Shutdown'
  OBVIOUS
<1> USE DEF Shutdown
<1>1. CASE UNCHANGED vars
  BY <1>1 DEF vars
<1>2. ASSUME NEW t \in Tasks, Enter(t) \/ OpenGate(t) PROVE Shutdown'
  BY <1>2 DEF Enter, OpenGate, Admissible
<1>3. CASE Enqueue \/ EnqueueMaintenance
  BY <1>3, LaneAssumption DEF Enqueue, EnqueueMaintenance, Tasks
<1>4. CASE Close \/ ParentCancel
  BY <1>4 DEF Close, ParentCancel
<1>5. CASE Check \/ Unpark \/ WaitAdmitted \/ Start \/ Finish
  BY <1>5 DEF Check, Unpark, WaitAdmitted, Start, Finish
<1>6. CASE CloseAdmission
  BY <1>6 DEF CloseAdmission, MuFree
<1>7. CASE Abort \/ DrainAbort
  BY <1>7 DEF Abort, DrainAbort, AbortTo
<1>8. CASE Dequeue \/ Drain
  BY <1>8 DEF Dequeue, Drain, DequeueTo
<1>9. QED
  BY <1>1, <1>2, <1>3, <1>4, <1>5, <1>6, <1>7, <1>8 DEF Next, Worker

\* Players that a value of current or entering counts for.
One(t) == IF t \in Players THEN 1 ELSE 0

\* Enqueue admits a player into a lane with room for it; the extra slot is
\* granted only while no player is selected.
LEMMA SlotsStep == TypeOK /\ Slots /\ [Next]_vars => Slots'
<1> SUFFICES ASSUME TypeOK, Slots, [Next]_vars PROVE Slots'
  OBVIOUS
<1>0. /\ Len(queue) \in Nat /\ QueueSize \in Nat
      /\ \A t : One(t) \in {0, 1}
      /\ \A t : t \in Players => One(t) = 1
      /\ \A t : t \notin Players => One(t) = 0
      /\ NoTask \notin Players
  BY LaneAssumption DEF TypeOK, One, Tasks
<1>1. Len(queue) + One(current) + One(entering) <= QueueSize + 1
  BY DEF Slots, Occupancy, One
<1>2. activeMaintenance => current \notin Players
  BY DEF Slots
<1>3. /\ (activeMaintenance' => current' \notin Players)
      /\ Len(queue') + One(current') + One(entering') <= QueueSize + 1
      => Slots'
  BY DEF Slots, Occupancy, One
<1>4. CASE UNCHANGED << queue, activeMaintenance, entering, current >>
  BY <1>1, <1>2, <1>3, <1>4
<1>5. ASSUME NEW t \in Tasks, Enter(t) PROVE Slots'
  <2>1. UNCHANGED << queue, activeMaintenance, current >> /\ entering = NoTask
    BY <1>5 DEF Enter, MuFree
  <2>2. CASE entering' = NoTask
    BY <1>4, <2>1, <2>2
  <2>3. CASE entering' = t /\ t \in Players /\ Admissible(t)
    <3>1. CASE activeMaintenance
      <4>1. Len(queue) < QueueSize + 1
        BY <2>3, <3>1 DEF Admissible, Limit
      <4>2. One(current') = 0
        BY <1>0, <1>2, <2>1, <3>1
      <4>3. QED
        BY <1>0, <1>2, <1>3, <2>1, <2>3, <4>1, <4>2
    <3>2. CASE ~activeMaintenance
      <4>1. Len(queue) < QueueSize
        BY <1>0, <2>3, <3>2 DEF Admissible, Limit
      <4>2. QED
        BY <1>0, <1>2, <1>3, <2>1, <2>3, <4>1
    <3>3. QED
      BY <3>1, <3>2
  <2>4. CASE entering' = t /\ t \notin Players
    BY <1>0, <1>1, <1>2, <1>3, <2>1, <2>4
  <2>5. QED
    BY <1>5, <2>1, <2>2, <2>3, <2>4 DEF Enter
<1>6. CASE Enqueue
  <2>1. /\ UNCHANGED << activeMaintenance, current >>
        /\ entering \in Players /\ entering' = NoTask
        /\ queue' = Append(queue, entering)
    BY <1>6 DEF Enqueue
  <2>2. Len(queue') = Len(queue) + 1
    BY <2>1, AppendFacts DEF TypeOK
  <2>3. QED
    BY <1>0, <1>1, <1>2, <1>3, <2>1, <2>2
<1>7. CASE EnqueueMaintenance
  <2>1. UNCHANGED << queue, activeMaintenance, current >> /\ entering' = NoTask
    BY <1>7 DEF EnqueueMaintenance
  <2>2. QED
    BY <1>0, <1>1, <1>2, <1>3, <2>1
<1>8. CASE Finish \/ Abort \/ DrainAbort
  <2>1. UNCHANGED << queue, activeMaintenance, entering >> /\ current' = NoTask
    BY <1>8 DEF Finish, Abort, DrainAbort, AbortTo
  <2>2. QED
    BY <1>0, <1>1, <1>2, <1>3, <2>1
<1>9. CASE Dequeue \/ Drain
  <2>1. /\ entering = NoTask /\ entering' = NoTask
        /\ \/ queue # << >> /\ queue' = Tail(queue) /\ ~activeMaintenance'
           \/ queue' = queue /\ current' \notin Players
           \/ queue' = queue /\ current' = current /\ ~activeMaintenance'
    BY <1>9, LaneAssumption DEF Dequeue, Drain, DequeueTo, MuFree, TypeOK
  <2>2. queue # << >> => Len(Tail(queue)) = Len(queue) - 1
    BY TailFacts DEF TypeOK
  <2>3. QED
    BY <1>0, <1>1, <1>3, <2>1, <2>2
<1>10. CASE UNCHANGED vars
  BY <1>4, <1>10 DEF vars
<1>11. CASE \/ \E t \in Tasks : OpenGate(t)
            \/ Close \/ ParentCancel \/ Check \/ Unpark \/ WaitAdmitted \/ Start
            \/ CloseAdmission
  BY <1>4, <1>11 DEF OpenGate, Close, ParentCancel, Check, Unpark, WaitAdmitted,
                     Start, CloseAdmission
<1>12. QED
  BY <1>5, <1>6, <1>7, <1>8, <1>9, <1>10, <1>11 DEF Next, Worker

-----------------------------------------------------------------------------
(* Where each task is.                                                      *)

In(q, t) == \E i \in 1 .. Len(q) : q[i] = t

Distinct(q) == \A i, j \in 1 .. Len(q) : q[i] = q[j] => i = j

\* What the send does to the tasks in the channel.
LEMMA AppendMembers ==
  ASSUME NEW S, NEW q \in Seq(S), NEW x \in S
  PROVE  /\ \A t : In(Append(q, x), t) <=> In(q, t) \/ t = x
         /\ Distinct(q) /\ ~In(q, x) => Distinct(Append(q, x))
<1> DEFINE p == Append(q, x)
<1>1. /\ Len(q) \in Nat /\ Len(p) = Len(q) + 1 /\ p[Len(q) + 1] = x
      /\ \A i \in 1 .. Len(q) : p[i] = q[i]
  BY AppendFacts
<1> HIDE DEF p
<1>2. \A i \in 1 .. Len(p) : i \in 1 .. Len(q) \/ i = Len(q) + 1
  BY <1>1
<1>3. \A i \in 1 .. Len(q) : i \in 1 .. Len(p)
  BY <1>1
<1>4. Len(q) + 1 \in 1 .. Len(p)
  BY <1>1
<1>5. \A t : In(p, t) <=> In(q, t) \/ t = x
  BY <1>1, <1>2, <1>3, <1>4 DEF In
<1>6. Distinct(q) /\ ~In(q, x) => Distinct(p)
  BY <1>1, <1>2 DEF Distinct, In
<1>7. QED
  BY <1>5, <1>6 DEF p

\* What the receive does to the tasks in the channel.
LEMMA TailMembers ==
  ASSUME NEW S, NEW q \in Seq(S), q # << >>
  PROVE  /\ \A t : In(q, t) <=> t = Head(q) \/ In(Tail(q), t)
         /\ Distinct(q) => Distinct(Tail(q)) /\ ~In(Tail(q), Head(q))
<1> DEFINE p == Tail(q)
           h == Head(q)
<1>1. /\ Len(q) \in Nat /\ Len(q) > 0 /\ Len(p) = Len(q) - 1 /\ h = q[1]
      /\ \A i \in 1 .. Len(q) - 1 : p[i] = q[i + 1]
  BY TailFacts
<1> HIDE DEF p, h
<1>2. \A i \in 1 .. Len(p) : i + 1 \in 1 .. Len(q) /\ p[i] = q[i + 1] /\ i + 1 # 1
  BY <1>1
<1>3. 1 \in 1 .. Len(q)
  BY <1>1
<1>4. ASSUME NEW t, In(q, t), t # h PROVE In(p, t)
  <2>1. PICK i \in 1 .. Len(q) : q[i] = t
    BY <1>4 DEF In
  <2>2. i # 1
    BY <1>1, <1>4, <2>1
  <2>3. i - 1 \in 1 .. Len(p) /\ p[i - 1] = q[i]
    BY <1>1, <2>2
  <2>4. QED
    BY <2>1, <2>3 DEF In
<1>5. \A t : t = h \/ In(p, t) => In(q, t)
  BY <1>1, <1>2, <1>3 DEF In
<1>6. ASSUME Distinct(q) PROVE Distinct(p)
  <2>1. ASSUME NEW i \in 1 .. Len(p), NEW j \in 1 .. Len(p), p[i] = p[j]
        PROVE  i = j
    <3>1. i + 1 = j + 1
      BY <1>2, <1>6, <2>1 DEF Distinct
    <3>2. QED
      BY <3>1
  <2>2. QED
    BY <2>1 DEF Distinct
<1>7. Distinct(q) => ~In(p, h)
  BY <1>1, <1>2, <1>3 DEF Distinct, In
<1>8. QED
  BY <1>4, <1>5, <1>6, <1>7 DEF p, h

\* Each operation moves at most one task, from one place to the next.
LEMMA CustodyStep == TypeOK /\ Hands /\ Custody /\ [Next]_vars => Custody'
<1> SUFFICES ASSUME TypeOK, Hands, Custody, [Next]_vars PROVE Custody'
  OBVIOUS
<1> USE DEF Custody, Queued
<1>0. NoTask \notin Tasks /\ Players \cap Maint = {} /\ outcome \in [Tasks -> Outcomes]
  BY LaneAssumption DEF TypeOK
<1>1. CASE UNCHANGED << queue, maintenance, entering, pc, current, outcome >>
  BY <1>1
<1>2. ASSUME NEW t \in Tasks, Enter(t) PROVE Custody'
  <2>1. UNCHANGED << queue, maintenance, pc, current >> /\ outcome[t] = "new"
    BY <1>2 DEF Enter
  <2>2. CASE entering' = t /\ outcome' = outcome
    BY <2>1, <2>2
  <2>3. CASE entering' = entering /\ entering = NoTask
             /\ outcome' = [outcome EXCEPT ![t] = "refused"]
    BY <1>0, <2>1, <2>3
  <2>4. QED
    BY <1>2, <2>2, <2>3 DEF Enter, MuFree
<1>3. CASE Enqueue
  <2>1. /\ entering \in Players /\ entering' = NoTask
        /\ queue' = Append(queue, entering)
        /\ outcome' = [outcome EXCEPT ![entering] = "accepted"]
        /\ UNCHANGED << maintenance, pc, current >>
    BY <1>3 DEF Enqueue
  <2>2. /\ entering \in Tasks /\ outcome[entering] = "new"
        /\ ~In(queue, entering) /\ entering # current /\ entering # maintenance
    BY <1>0, <2>1 DEF Tasks, In, TypeOK, Hands
  <2>3. \A t : In(queue', t) <=> In(queue, t) \/ t = entering
    BY <2>1, AppendMembers DEF TypeOK
  <2>4. Distinct(queue')
    BY <2>1, <2>2, AppendMembers DEF TypeOK, Distinct
  <2>5. QED
    BY <1>0, <2>1, <2>2, <2>3, <2>4 DEF In, Distinct
<1>4. CASE EnqueueMaintenance
  <2>1. /\ entering \in Maint /\ entering' = NoTask
        /\ maintenance' = entering
        /\ outcome' = [t \in Tasks |-> IF t = entering THEN "accepted"
                                       ELSE IF t = maintenance THEN "replaced"
                                       ELSE outcome[t]]
        /\ UNCHANGED << queue, pc, current >>
    BY <1>4 DEF EnqueueMaintenance
  <2>2. /\ entering \in Tasks /\ outcome[entering] = "new"
        /\ ~In(queue, entering) /\ entering # current /\ entering # maintenance
    BY <1>0, <2>1 DEF Tasks, In, TypeOK, Hands
  <2>3. ~In(queue, maintenance)
    BY <1>0 DEF In, TypeOK, Tasks
  <2>4. ASSUME NEW t \in Tasks
        PROVE  /\ outcome'[t] = "accepted" <=>
                    In(queue, t) \/ t = entering \/ (t = current /\ pc \in Holding)
               /\ outcome'[t] = "running" <=> t = current /\ pc = "running"
    <3>1. CASE t = entering
      BY <2>1, <2>2, <3>1
    <3>2. CASE t # entering /\ t = maintenance
      BY <1>0, <2>1, <2>3, <3>2 DEF In
    <3>3. CASE t # entering /\ t # maintenance
      BY <2>1, <3>3 DEF In
    <3>4. QED
      BY <3>1, <3>2, <3>3
  <2>5. QED
    BY <1>0, <2>1, <2>2, <2>4 DEF In
<1>5. CASE Dequeue \/ Drain
  <2>1. /\ entering = NoTask /\ entering' = NoTask /\ outcome' = outcome
        /\ current = NoTask /\ pc \notin Holding \cup {"running"}
    BY <1>5 DEF Dequeue, Drain, DequeueTo, MuFree, Hands, Holding
  <2>2. CASE /\ queue # << >> /\ queue' = Tail(queue) /\ current' = Head(queue)
             /\ maintenance' = maintenance /\ pc' \in Holding /\ pc' # "running"
    <3>1. \A t : In(queue, t) <=> t = Head(queue) \/ In(Tail(queue), t)
      BY <2>2, TailMembers DEF TypeOK
    <3>2. Distinct(Tail(queue)) /\ ~In(Tail(queue), Head(queue))
      BY <2>2, TailMembers DEF TypeOK, Distinct
    <3>3. Head(queue) # maintenance
      BY <1>0, <2>2, TailFacts DEF TypeOK, Tasks
    <3>4. QED
      BY <1>0, <2>1, <2>2, <3>1, <3>2, <3>3 DEF In, Distinct
  <2>3. CASE /\ queue' = queue /\ maintenance # NoTask /\ maintenance' = NoTask
             /\ current' = maintenance /\ pc' \in Holding /\ pc' # "running"
    <3>1. ~In(queue, maintenance)
      BY <1>0 DEF In, TypeOK, Tasks
    <3>2. QED
      BY <1>0, <2>1, <2>3, <3>1 DEF In
  <2>4. CASE /\ queue' = queue /\ maintenance' = maintenance /\ current' = current
             /\ pc' \notin Holding \cup {"running"}
    BY <2>1, <2>4
  <2>5. QED
    BY <1>5, <2>2, <2>3, <2>4 DEF Dequeue, Drain, DequeueTo, Holding
<1>6. CASE Start
  <2>1. /\ UNCHANGED << queue, maintenance, entering, current >>
        /\ current \in Tasks /\ pc = "recheck"
    BY <1>6 DEF Start, Hands, Holding, TypeOK
  <2>2. CASE pc' = "abort" /\ outcome' = outcome
    BY <2>1, <2>2 DEF Holding
  <2>3. CASE pc' = "running" /\ outcome' = [outcome EXCEPT ![current] = "running"]
    BY <1>0, <2>1, <2>3 DEF Holding
  <2>4. QED
    BY <1>6, <2>2, <2>3 DEF Start
<1>7. CASE Finish \/ Abort \/ DrainAbort
  <2>1. /\ UNCHANGED << queue, maintenance, entering >> /\ current' = NoTask
        /\ current \in Tasks /\ pc \in Holding \cup {"running"}
        /\ pc' \notin Holding \cup {"running"}
        /\ \E o \in {"ran", "aborted"} : outcome' = [outcome EXCEPT ![current] = o]
    BY <1>7 DEF Finish, Abort, DrainAbort, AbortTo, Hands, Holding, TypeOK
  <2>2. QED
    BY <1>0, <2>1 DEF Holding
<1>8. CASE Check \/ Unpark \/ WaitAdmitted \/ CloseAdmission
  <2>1. /\ UNCHANGED << queue, maintenance, entering, current, outcome >>
        /\ pc \in Holding <=> pc' \in Holding
        /\ pc # "running" /\ pc' # "running"
    BY <1>8 DEF Check, Unpark, WaitAdmitted, CloseAdmission, Holding
  <2>2. QED
    BY <2>1
<1>9. CASE UNCHANGED vars
  BY <1>1, <1>9 DEF vars
<1>10. CASE (\E t \in Tasks : OpenGate(t)) \/ Close \/ ParentCancel
  BY <1>1, <1>10 DEF OpenGate, Close, ParentCancel
<1>11. QED
  BY <1>2, <1>3, <1>4, <1>5, <1>6, <1>7, <1>8, <1>9, <1>10 DEF Next, Worker

-----------------------------------------------------------------------------
\* The inductive invariant holds in every reachable state of the lane.
THEOREM LaneInvariant == Spec => []LaneInv
<1>1. Init => LaneInv
  <2> SUFFICES ASSUME Init PROVE LaneInv
    OBVIOUS
  <2>1. TypeOK
    BY TypeInit
  <2>2. Len(queue) = 0 /\ current \notin Players /\ entering \notin Players
    BY LaneAssumption DEF Init, Tasks
  <2>3. Slots
    BY <2>2, LaneAssumption DEF Slots, Occupancy
  <2>4. Custody
    BY <2>2, LaneAssumption DEF Init, Custody, Queued, Holding
  <2>5. NoLostWakeup /\ Hands /\ Shutdown
    BY DEF Init, NoLostWakeup, Hands, Holding, Shutdown
  <2>6. QED
    BY <2>1, <2>3, <2>4, <2>5 DEF LaneInv
<1>2. LaneInv /\ [Next]_vars => LaneInv'
  BY TypeStep, WakeupStep, SlotsStep, HandsStep, CustodyStep, ShutdownStep
     DEF LaneInv
<1>3. QED
  BY <1>1, <1>2, PTL DEF Spec

\* The fields of the lane keep their types.
THEOREM LaneTypeCorrect == Spec => []TypeOK
<1>1. LaneInv => TypeOK
  BY DEF LaneInv
<1>2. QED
  BY <1>1, LaneInvariant, PTL

\* run never sleeps on a pending task: for every lane, the token of Enqueue and
\* EnqueueMaintenance is there when the worker parks with work to do.
THEOREM LaneNeverSleepsOnWork == Spec => []NoLostWakeup
<1>1. LaneInv => NoLostWakeup
  BY DEF LaneInv
<1>2. QED
  BY <1>1, LaneInvariant, PTL

\* The send that Enqueue makes while holding mu never blocks, and the lane never
\* holds more than one active and QueueSize queued players.
THEOREM LaneBounded == Spec => []BoundedPlayers
<1>1. LaneInv => BoundedPlayers
  <2> SUFFICES ASSUME LaneInv PROVE BoundedPlayers
    OBVIOUS
  <2>1. Occupancy <= QueueSize + 1 /\ Len(queue) \in Nat /\ QueueSize \in Nat
    BY LaneAssumption DEF LaneInv, Slots, TypeOK
  <2>2. entering \in Players => Len(queue) < QueueSize + 1
    BY <2>1 DEF Occupancy
  <2>3. QED
    BY <2>1, <2>2 DEF BoundedPlayers
<1>2. QED
  BY <1>1, LaneInvariant, PTL

\* No accepted task is lost or settled twice.
THEOREM LaneKeepsCustody == Spec => []Custody
<1>1. LaneInv => Custody
  BY DEF LaneInv
<1>2. QED
  BY <1>1, LaneInvariant, PTL

\* When Done is closed everything the lane accepted has been settled.
THEOREM LaneDoneIsFinal == Spec => []DoneIsFinal
<1>1. LaneInv => DoneIsFinal
  <2> SUFFICES ASSUME LaneInv, pc = "done" PROVE DoneIsFinal
    BY DEF DoneIsFinal
  <2>1. /\ closed /\ entering = NoTask /\ queue = << >> /\ maintenance = NoTask
        /\ current = NoTask
    BY DEF LaneInv, Shutdown, Hands, Holding
  <2>2. \A t \in Tasks : ~Queued(t) /\ t # maintenance /\ t # current
    BY <2>1, LaneAssumption DEF Queued
  <2>3. \A t \in Tasks : outcome[t] \notin { "accepted", "running" }
    BY <2>2 DEF LaneInv, Custody
  <2>4. QED
    BY <2>1, <2>3 DEF DoneIsFinal
<1>2. QED
  BY <1>1, LaneInvariant, PTL

\* A cancelled lane starts nothing: only the second ctx.Err check of run leads
\* to Run.
THEOREM LaneStopsStarting == Spec => NoStartAfterCancel
<1> DEFINE Starts == \A t \in Tasks : outcome'[t] = "running"
                                       /\ outcome[t] # "running" => ~cancelled
<1>1. TypeOK /\ [Next]_vars => [Starts]_vars
  <2> SUFFICES ASSUME TypeOK, Next PROVE Starts
    OBVIOUS
  <2>1. CASE Start
    BY <2>1 DEF Start, TypeOK
  <2>2. CASE \E t \in Tasks : Enter(t) \/ OpenGate(t)
    BY <2>2 DEF Enter, OpenGate, TypeOK
  <2>3. CASE Enqueue \/ EnqueueMaintenance \/ Close \/ ParentCancel
    BY <2>3 DEF Enqueue, EnqueueMaintenance, Close, ParentCancel, TypeOK
  <2>4. CASE Check \/ Dequeue \/ Drain \/ Unpark \/ WaitAdmitted \/ CloseAdmission
    BY <2>4 DEF Check, Dequeue, Drain, DequeueTo, Unpark, WaitAdmitted,
                CloseAdmission
  <2>5. CASE Finish \/ Abort \/ DrainAbort
    BY <2>5 DEF Finish, Abort, DrainAbort, AbortTo, TypeOK
  <2>6. QED
    BY <2>1, <2>2, <2>3, <2>4, <2>5 DEF Next, Worker
<1>2. QED
  BY <1>1, LaneTypeCorrect, PTL DEF Spec, NoStartAfterCancel
=============================================================================
