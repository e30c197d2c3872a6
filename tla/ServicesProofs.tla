--------------------------- MODULE ServicesProofs ---------------------------
(***************************************************************************)
(* The services around the task runtime, for any number of streams, keys,  *)
(* calls, accounts and requests: the relay of the hosted edition, its      *)
(* accounts and its workers, and the event dispatch of the gateway.        *)
(***************************************************************************)
EXTENDS Services, TLAPS, FiniteSetTheorems

-----------------------------------------------------------------------------
(* HostedRelay.                                                            *)

RelayKeys == [state : { "none", "active", "ended" }, device : Devices \cup { None }]
RelayRows == [status : { "none", "pending", "settled", "uncertain", "failed" }, charged : Usages \cup { None }]
RelayStreams ==
    [ pc : { "new", "hello", "enter", "wait", "ensure", "relay", "leave", "gone" },
      key : Keys \cup { None }, device : Devices \cup { None }, cancelled : BOOLEAN,
      old : Conns \cup { None } ]
RelayCalls ==
    [ pc : { "idle", "check", "reserve", "guard", "send", "flight", "settle", "mark", "end" },
      id : Ids \cup { None }, conn : Conns \cup { None }, key : Keys \cup { None },
      cancelled : BOOLEAN, outcome : { "uncertain", "failed" }, usage : Usages \cup { None } ]

RelayTypes ==
    /\ enabled \in BOOLEAN /\ keys \in [Keys -> RelayKeys] /\ rows \in [Ids -> RelayRows]
    /\ conn \in [Conns -> RelayStreams] /\ connections \in Conns \cup { None }
    /\ call \in [Calls -> RelayCalls] /\ modelActive \in BOOLEAN
    /\ modelCancels \in Calls \cup { None }
    /\ web \in [what : { "none", "key", "user" }, key : Keys \cup { None }]
    /\ sent \in [Ids -> Nat] /\ reported \in [Ids -> Usages \cup { None }]

\* The handler m has the one model request of the account.
Serving(m) == call[m].pc \notin { "idle", "check" }

OneRequest ==
    \A m \in Calls : Serving(m) => modelActive /\ \A n \in Calls : Serving(n) => n = m

RowsBilled ==
    \A i \in Ids :
      /\ sent[i] <= 1
      /\ rows[i].status = "none" => sent[i] = 0
      /\ rows[i].status = "settled" <=> rows[i].charged # None
      /\ rows[i].charged # None => rows[i].charged = reported[i]

\* From the reservation to the settlement the row of a request is pending, and
\* from the guard on the request is the one a disconnect cancels.
CallsSound ==
    \A m \in Calls :
      /\ call[m].pc \notin { "idle", "end" } => call[m].id \in Ids
      /\ call[m].pc \in { "check", "reserve", "guard" } => call[m].conn \in Conns
      /\ call[m].pc \in { "guard", "send", "flight", "settle" } =>
           /\ rows[call[m].id].status = "pending"
           /\ sent[call[m].id] = IF call[m].pc \in { "guard", "send" } THEN 0 ELSE 1
      /\ call[m].pc = "settle" => call[m].usage = reported[call[m].id] /\ call[m].usage \in Usages
      /\ call[m].pc \in { "send", "flight" } =>
           modelCancels = m /\ (call[m].cancelled \/ connections # None)

RelayInv == RelayTypes /\ OneRequest /\ RowsBilled /\ CallsSound

\* The invariants look at one stream pointer, the calls and the rows only.
LEMMA RelayQuiet ==
  ASSUME RelayConstants, RelayInv, RelayTypes',
         UNCHANGED << rows, call, modelActive, modelCancels, sent, reported >>,
         connections' = connections \/ connections' # None
  PROVE  RelayInv'
<1> USE DEF RelayInv
<1>1. OneRequest'
  BY DEF OneRequest, Serving
<1>2. RowsBilled'
  BY DEF RowsBilled
<1>3. CallsSound'
  BY DEF CallsSound
<1>4. QED
  BY <1>1, <1>2, <1>3

-----------------------------------------------------------------------------
\* A call that is cancelled is otherwise as it was.
LEMMA RelayCancelFacts ==
  ASSUME RelayConstants, RelayTypes, NEW x \in Calls \cup { None },
         call' = Relay!ModelCancelled(x), NEW m \in Calls
  PROVE  /\ call' \in [Calls -> RelayCalls]
         /\ call'[m].pc = call[m].pc /\ call'[m].id = call[m].id /\ call'[m].conn = call[m].conn
         /\ call'[m].usage = call[m].usage
         /\ call[m].cancelled \/ x = m => call'[m].cancelled
<1>1. call \in [Calls -> RelayCalls] /\ call[m] \in RelayCalls
  BY DEF RelayTypes
<1>2. CASE x = None
  BY <1>1, <1>2 DEF Relay!ModelCancelled, RelayConstants
<1>3. CASE x \in Calls
  <2>1. call' = [call EXCEPT ![x].cancelled = TRUE]
    BY <1>3 DEF Relay!ModelCancelled, RelayConstants
  <2>2. [call[x] EXCEPT !.cancelled = TRUE] \in RelayCalls
    BY <1>1, <1>3 DEF RelayCalls, RelayTypes
  <2>3. call' \in [Calls -> RelayCalls]
    BY <1>1, <1>3, <2>1, <2>2
  <2>4. CASE x = m
    <3>1. call'[m] = [call[m] EXCEPT !.cancelled = TRUE]
      BY <1>1, <2>1, <2>4
    <3>2. QED
      BY <1>1, <2>3, <3>1 DEF RelayCalls
  <2>5. CASE x # m
    <3>1. call'[m] = call[m]
      BY <1>1, <1>3, <2>1, <2>5
    <3>2. QED
      BY <2>3, <2>5, <3>1
  <2>6. QED
    BY <2>3, <2>4, <2>5
<1>4. QED
  BY <1>2, <1>3

LEMMA RelayStreamCancelled ==
  ASSUME RelayConstants, RelayTypes, NEW x \in Conns \cup { None }
  PROVE  Relay!Cancelled(x) \in [Conns -> RelayStreams]
<1>1. conn \in [Conns -> RelayStreams]
  BY DEF RelayTypes
<1>2. QED
  BY <1>1 DEF Relay!Cancelled, RelayStreams

\* Whoever takes the stream away cancels the request.
LEMMA RelayCancels ==
  ASSUME RelayConstants, RelayInv, NEW x \in Calls \cup { None }, call' = Relay!ModelCancelled(x),
         UNCHANGED << rows, modelActive, modelCancels, sent, reported >>, RelayTypes',
         connections' = connections \/ x = modelCancels
  PROVE  RelayInv'
<1> USE DEF RelayInv
<1>1. \A m \in Calls :
         /\ call'[m].pc = call[m].pc /\ call'[m].id = call[m].id /\ call'[m].conn = call[m].conn
         /\ call'[m].usage = call[m].usage
         /\ call[m].cancelled \/ x = m => call'[m].cancelled
  BY RelayCancelFacts
<1>2. OneRequest'
  BY <1>1 DEF OneRequest, Serving
<1>3. RowsBilled'
  BY DEF RowsBilled
<1>4. CallsSound'
  BY <1>1 DEF CallsSound
<1>5. QED
  BY <1>2, <1>3, <1>4

LEMMA RelayMove ==
  ASSUME RelayConstants, RelayTypes, NEW c \in Conns,
         NEW pc \in { "enter", "ensure", "relay", "leave", "gone" }, Relay!Move(c, pc)
  PROVE  conn' \in [Conns -> RelayStreams]
<1>1. conn \in [Conns -> RelayStreams] /\ conn[c] \in RelayStreams
  BY DEF RelayTypes
<1>2. Relay!Gone \in RelayStreams
  BY DEF Relay!Gone, Relay!Fresh, RelayStreams
<1> DEFINE moved == [conn[c] EXCEPT !.pc = pc, !.old = None, !.cancelled = conn[c].cancelled /\ pc # "leave"]
<1>3. moved \in RelayStreams
  BY <1>1 DEF RelayStreams
<1>4. conn' = [conn EXCEPT ![c] = IF pc = "gone" THEN Relay!Gone ELSE moved]
  BY DEF Relay!Move
<1> HIDE DEF moved
<1>5. QED
  BY <1>1, <1>2, <1>3, <1>4

\* Keys, the account and the streams move under the requests.
LEMMA RelayStreamSteps ==
  ASSUME RelayConstants, RelayInv,
         \/ \E k \in Keys : Relay!CreateKey(k) \/ Relay!ExpireKey(k) \/ Relay!RevokeKey(k)
         \/ \E on \in BOOLEAN : Relay!DropCredentials(on) \/ Relay!OperatorDropsCredentials(on)
         \/ Relay!EnableAccount
         \/ \E c \in Conns, k \in Keys, d \in Devices : Relay!Open(c, k, d)
         \/ \E c \in Conns :
              \/ Relay!Hello(c) \/ Relay!AwaitOld(c) \/ Relay!EnsureWorker(c)
              \/ Relay!KeyTick(c) \/ Relay!RelayEnds(c) \/ Relay!Enter(c)
  PROVE  RelayInv'
<1> USE DEF RelayInv
<1>1. /\ UNCHANGED << rows, call, modelActive, modelCancels, sent, reported >>
      /\ connections' = connections \/ connections' \in Conns
  BY DEF Relay!CreateKey, Relay!ExpireKey, Relay!RevokeKey, Relay!DropCredentials,
         Relay!OperatorDropsCredentials, Relay!EnableAccount, Relay!Open, Relay!Hello,
         Relay!AwaitOld, Relay!EnsureWorker, Relay!KeyTick, Relay!RelayEnds, Relay!Enter,
         Relay!memory, Relay!history, Relay!store
<1>2. enabled' \in BOOLEAN
  BY DEF RelayTypes, Relay!CreateKey, Relay!ExpireKey, Relay!RevokeKey, Relay!DropCredentials,
         Relay!OperatorDropsCredentials, Relay!EnableAccount, Relay!Open, Relay!Hello,
         Relay!AwaitOld, Relay!EnsureWorker, Relay!KeyTick, Relay!RelayEnds, Relay!Enter,
         Relay!memory, Relay!history, Relay!store
<1>3. web' \in [what : { "none", "key", "user" }, key : Keys \cup { None }]
  <2>1. web \in [what : { "none", "key", "user" }, key : Keys \cup { None }]
    BY DEF RelayTypes
  <2>2. \/ web' = web \/ web' = [ what |-> "user", key |-> None ]
        \/ \E k \in Keys : web' = [ what |-> "key", key |-> k ]
    BY DEF Relay!CreateKey, Relay!ExpireKey, Relay!RevokeKey, Relay!DropCredentials,
         Relay!OperatorDropsCredentials, Relay!EnableAccount, Relay!Open, Relay!Hello,
         Relay!AwaitOld, Relay!EnsureWorker, Relay!KeyTick, Relay!RelayEnds, Relay!Enter
  <2>3. QED
    BY <2>1, <2>2
<1>4. keys' \in [Keys -> RelayKeys]
  <2>1. keys \in [Keys -> RelayKeys]
    BY DEF RelayTypes
  <2>2. CASE keys' = keys
    BY <2>1, <2>2
  <2>3. ASSUME NEW k \in Keys, NEW st \in { "active", "ended" }, keys' = [keys EXCEPT ![k].state = st]
        PROVE  keys' \in [Keys -> RelayKeys]
    BY <2>1, <2>3 DEF RelayKeys
  <2>4. CASE keys' = Relay!Revoked
    BY <2>1, <2>4 DEF RelayKeys, Relay!Revoked
  <2>5. ASSUME NEW c \in Conns, keys' = [keys EXCEPT ![conn[c].key].device = conn[c].device]
        PROVE  keys' \in [Keys -> RelayKeys]
    <3>1. conn[c].device \in Devices \cup { None }
      BY <2>5 DEF RelayTypes, RelayStreams
    <3>2. QED
      BY <2>1, <2>5, <3>1 DEF RelayKeys
  <2>6. QED
    BY <2>2, <2>3, <2>4, <2>5
       DEF Relay!CreateKey, Relay!ExpireKey, Relay!RevokeKey, Relay!DropCredentials,
         Relay!OperatorDropsCredentials, Relay!EnableAccount, Relay!Open, Relay!Hello,
         Relay!AwaitOld, Relay!EnsureWorker, Relay!KeyTick, Relay!RelayEnds, Relay!Enter,
         Relay!store
<1>5. conn' \in [Conns -> RelayStreams]
  <2>1. conn \in [Conns -> RelayStreams]
    BY DEF RelayTypes
  <2>2. CASE conn' = conn
    BY <2>1, <2>2
  <2>3. ASSUME NEW c \in Conns, NEW k \in Keys, NEW d \in Devices, Relay!Open(c, k, d)
        PROVE  conn' \in [Conns -> RelayStreams]
    <3>1. [conn[c] EXCEPT !.pc = "hello", !.key = k, !.device = d] \in RelayStreams
      BY <2>1 DEF RelayStreams
    <3>2. conn' = [conn EXCEPT ![c] = [conn[c] EXCEPT !.pc = "hello", !.key = k, !.device = d]]
      BY <2>3 DEF Relay!Open
    <3>3. QED
      BY <2>1, <3>1, <3>2
  <2>4. ASSUME NEW c \in Conns, NEW pc \in { "enter", "ensure", "relay", "leave", "gone" }, Relay!Move(c, pc)
        PROVE  conn' \in [Conns -> RelayStreams]
    BY <2>4, RelayMove
  <2>5. ASSUME NEW c \in Conns, Relay!Enter(c) PROVE conn' \in [Conns -> RelayStreams]
    <3>1. CASE Relay!Move(c, "gone")
      BY <2>4, <3>1
    <3>2. ASSUME NEW pc \in { "ensure", "wait" },
                 conn' = [Relay!Cancelled(connections) EXCEPT ![c].pc = pc, ![c].old = connections]
          PROVE  conn' \in [Conns -> RelayStreams]
      <4>1. connections \in Conns \cup { None }
        BY DEF RelayTypes
      <4> DEFINE f == Relay!Cancelled(connections)
      <4>2. f \in [Conns -> RelayStreams]
        BY <4>1, RelayStreamCancelled
      <4>3. conn' = [f EXCEPT ![c].pc = pc, ![c].old = connections]
        BY <3>2
      <4> HIDE DEF f
      <4>4. f[c] \in RelayStreams
        BY <4>2
      <4>5. [f[c] EXCEPT !.pc = pc, !.old = connections] \in RelayStreams
        BY <4>1, <4>4 DEF RelayStreams
      <4>6. conn' = [f EXCEPT ![c] = [f[c] EXCEPT !.pc = pc, !.old = connections]]
        BY <4>2, <4>3
      <4>7. QED
        BY <4>2, <4>5, <4>6
    <3>3. QED
      BY <2>5, <3>1, <3>2 DEF Relay!Enter
  <2>6. QED
    BY <2>2, <2>3, <2>4, <2>5
       DEF Relay!CreateKey, Relay!ExpireKey, Relay!RevokeKey, Relay!DropCredentials,
         Relay!OperatorDropsCredentials, Relay!EnableAccount, Relay!Hello,
         Relay!AwaitOld, Relay!EnsureWorker, Relay!KeyTick, Relay!RelayEnds
<1>6. RelayTypes'
  BY <1>1, <1>2, <1>3, <1>4, <1>5 DEF RelayTypes
<1>7. QED
  BY <1>1, <1>6, RelayQuiet DEF RelayConstants

\* A disconnect, a close and the end of a stream cancel the request.
LEMMA RelayCancelSteps ==
  ASSUME RelayConstants, RelayInv,
         Relay!Disconnect \/ Relay!Close \/ \E c \in Conns : Relay!Leave(c)
  PROVE  RelayInv'
<1> USE DEF RelayInv
<1>1. UNCHANGED << enabled, keys, rows, modelActive, modelCancels, sent, reported >>
  BY DEF Relay!Disconnect, Relay!Close, Relay!Leave, Relay!store, Relay!memory, Relay!history
<1>2. modelCancels \in Calls \cup { None } /\ connections \in Conns \cup { None }
      /\ web \in [what : { "none", "key", "user" }, key : Keys \cup { None }]
  BY DEF RelayTypes
<1>3. web' \in [what : { "none", "key", "user" }, key : Keys \cup { None }]
  BY <1>2 DEF Relay!Disconnect, Relay!Close, Relay!Leave, Relay!Nothing
<1>4. conn' \in [Conns -> RelayStreams]
  <2>1. CASE Relay!Disconnect \/ Relay!Close
    BY <1>2, <2>1, RelayStreamCancelled
       DEF Relay!Disconnect, Relay!Close, Relay!disconnectKey, Relay!disconnectUser
  <2>2. QED
    BY <2>1, RelayMove DEF Relay!Leave
<1>5. PICK x \in { modelCancels, None } :
        call' = Relay!ModelCancelled(x) /\ (connections' = connections \/ x = modelCancels)
        /\ connections' \in Conns \cup { None }
  <2>1. CASE Relay!Disconnect \/ Relay!Close
    BY <1>2, <2>1 DEF Relay!Disconnect, Relay!Close, Relay!disconnectKey, Relay!disconnectUser, Relay!memory
  <2>2. ASSUME NEW c \in Conns, Relay!Leave(c)
        PROVE  \E x \in { modelCancels, None } :
                 /\ call' = Relay!ModelCancelled(x) /\ (connections' = connections \/ x = modelCancels)
                 /\ connections' \in Conns \cup { None }
    BY <1>2, <2>2 DEF Relay!Leave, Relay!ModelCancelled
  <2>3. QED
    BY <2>1, <2>2
<1>6. call' \in [Calls -> RelayCalls]
  <2>1. CASE Calls = {}
    <3>1. call' = call
      BY <1>2, <1>5, <2>1 DEF Relay!ModelCancelled
    <3>2. QED
      BY <3>1 DEF RelayTypes
  <2>2. CASE Calls # {}
    BY <1>2, <1>5, <2>2, RelayCancelFacts
  <2>3. QED
    BY <2>1, <2>2
<1>7. RelayTypes'
  BY <1>1, <1>3, <1>4, <1>5, <1>6 DEF RelayTypes
<1>8. QED
  BY <1>1, <1>2, <1>5, <1>7, RelayCancels

-----------------------------------------------------------------------------
(* The requests.                                                           *)

\* A step of request m, seen by the others.
RelayCallStep(m) ==
    /\ UNCHANGED << enabled, keys, conn, connections, web >>
    /\ call' \in [Calls -> RelayCalls]
    /\ \A n \in Calls \ {m} : call'[n] = call[n]

LEMMA RelayRequestStep ==
  ASSUME RelayConstants, RelayInv, NEW m \in Calls, RelayCallStep(m),
         rows' \in [Ids -> RelayRows], sent' \in [Ids -> Nat],
         reported' \in [Ids -> Usages \cup { None }],
         modelActive' \in BOOLEAN, modelCancels' \in Calls \cup { None },
         Serving(m)' => modelActive' /\ \A n \in Calls : Serving(n) => n = m,
         modelActive => modelActive' \/ (Serving(m) /\ ~Serving(m)'),
         RowsBilled', CallsSound!(m)',
         \/ Serving(m)
         \/ UNCHANGED << rows, sent, reported, modelCancels >>
  PROVE  RelayInv'
<1> USE DEF RelayInv
<1>1. RelayTypes'
  BY DEF RelayTypes, RelayCallStep
<1>2. OneRequest'
  BY DEF OneRequest, Serving, RelayCallStep
<1>3. ASSUME NEW n \in Calls, n # m PROVE CallsSound!(n)'
  <2>1. call'[n] = call[n] /\ connections' = connections
    BY <1>3 DEF RelayCallStep
  <2>2. CASE Serving(m)
    <3>1. call[n].pc \in { "idle", "check" }
      BY <1>3, <2>2 DEF OneRequest, Serving
    <3>2. QED
      BY <2>1, <3>1 DEF CallsSound
  <2>3. CASE UNCHANGED << rows, sent, reported, modelCancels >>
    BY <2>1, <2>3 DEF CallsSound
  <2>4. QED
    BY <2>2, <2>3
<1>4. CallsSound'
  BY <1>3 DEF CallsSound
<1>5. QED
  BY <1>1, <1>2, <1>4

\* At: the handler moves, and forgets everything when it ends.
LEMMA RelayAtFacts ==
  ASSUME RelayTypes, NEW m \in Calls, NEW pc \in { "reserve", "guard", "flight", "mark", "end" }, Relay!At(m, pc)
  PROVE  /\ call' \in [Calls -> RelayCalls] /\ \A n \in Calls \ {m} : call'[n] = call[n]
         /\ call'[m].pc = pc
         /\ pc # "end" => /\ call'[m].id = call[m].id /\ call'[m].conn = call[m].conn
                          /\ call'[m].cancelled = call[m].cancelled /\ call'[m].usage = call[m].usage
<1>1. call \in [Calls -> RelayCalls] /\ call[m] \in RelayCalls
  BY DEF RelayTypes
<1>2. Relay!Idle \in RelayCalls
  BY DEF Relay!Idle, RelayCalls
<1>3. CASE pc = "end"
  <2> DEFINE new == [Relay!Idle EXCEPT !.pc = pc]
  <2>1. new \in RelayCalls /\ new.pc = pc
    BY <1>2, <1>3 DEF RelayCalls
  <2>2. call' = [call EXCEPT ![m] = new]
    BY <1>3 DEF Relay!At
  <2> HIDE DEF new
  <2>3. QED
    BY <1>1, <1>3, <2>1, <2>2
<1>4. CASE pc # "end"
  <2> DEFINE new == [call[m] EXCEPT !.pc = pc]
  <2>1. /\ new \in RelayCalls /\ new.pc = pc /\ new.id = call[m].id /\ new.conn = call[m].conn
        /\ new.cancelled = call[m].cancelled /\ new.usage = call[m].usage
    BY <1>1 DEF RelayCalls
  <2>2. call' = [call EXCEPT ![m] = new]
    BY <1>4 DEF Relay!At
  <2> HIDE DEF new
  <2>3. QED
    BY <1>1, <2>1, <2>2
<1>5. QED
  BY <1>3, <1>4

LEMMA RelayPastGuardFacts ==
  ASSUME RelayTypes, NEW m \in Calls, NEW pc \in { "send", "mark" }, Relay!PastGuard(m, pc)
  PROVE  /\ call' \in [Calls -> RelayCalls] /\ \A n \in Calls \ {m} : call'[n] = call[n]
         /\ call'[m].pc = pc /\ call'[m].id = call[m].id
         /\ call'[m].cancelled = call[m].cancelled /\ call'[m].usage = call[m].usage
<1>1. call \in [Calls -> RelayCalls] /\ call[m] \in RelayCalls
  BY DEF RelayTypes
<1> DEFINE new == [call[m] EXCEPT !.pc = pc, !.conn = None, !.key = None]
<1>2. /\ new \in RelayCalls /\ new.pc = pc /\ new.id = call[m].id
      /\ new.cancelled = call[m].cancelled /\ new.usage = call[m].usage
  BY <1>1 DEF RelayCalls
<1>3. call' = [call EXCEPT ![m] = new]
  BY DEF Relay!PastGuard
<1> HIDE DEF new
<1>4. QED
  BY <1>1, <1>2, <1>3

LEMMA RelayIdleFacts ==
  ASSUME RelayTypes, NEW m \in Calls, call' = [call EXCEPT ![m] = Relay!Idle]
  PROVE  /\ call' \in [Calls -> RelayCalls] /\ \A n \in Calls \ {m} : call'[n] = call[n]
         /\ call'[m].pc = "idle"
<1>1. call \in [Calls -> RelayCalls]
  BY DEF RelayTypes
<1>2. Relay!Idle \in RelayCalls /\ Relay!Idle.pc = "idle"
  BY DEF Relay!Idle, RelayCalls
<1>3. QED
  BY <1>1, <1>2

LEMMA RelayArriveKeeps ==
  ASSUME RelayConstants, RelayInv, NEW m \in Calls, NEW i \in Ids, Relay!Arrive(m, i)
  PROVE  RelayInv'
<1> USE DEF RelayInv
<1>1. /\ call[m].pc = "idle" /\ connections \in Conns
      /\ UNCHANGED << enabled, keys, rows, conn, connections, modelActive, modelCancels, web, sent, reported >>
  BY DEF Relay!Arrive, Relay!store, Relay!memory, Relay!history, RelayTypes
<1>2. call \in [Calls -> RelayCalls] /\ conn[connections].key \in Keys \cup { None }
  BY <1>1 DEF RelayTypes, RelayStreams
<1> DEFINE new == [Relay!Idle EXCEPT !.pc = "check", !.id = i, !.conn = connections,
                                     !.key = conn[connections].key]
<1>3. new \in RelayCalls /\ new.pc = "check" /\ new.id = i /\ new.conn = connections
  <2>1. Relay!Idle \in RelayCalls
    BY DEF Relay!Idle, RelayCalls
  <2>2. QED
    BY <1>1, <1>2, <2>1 DEF RelayCalls
<1>4. call' = [call EXCEPT ![m] = new]
  BY DEF Relay!Arrive
<1> HIDE DEF new
<1>5. call'[m] = new /\ RelayCallStep(m)
  BY <1>1, <1>2, <1>3, <1>4 DEF RelayCallStep
<1>6. RowsBilled'
  BY <1>1 DEF RowsBilled
<1>7. CallsSound!(m)'
  BY <1>1, <1>3, <1>5
<1>8. ~Serving(m) /\ ~Serving(m)'
  BY <1>1, <1>3, <1>5 DEF Serving
<1>9. QED
  BY <1>1, <1>5, <1>6, <1>7, <1>8, RelayRequestStep DEF RelayTypes

LEMMA RelayAdmitKeeps ==
  ASSUME RelayConstants, RelayInv, NEW m \in Calls, Relay!Admit(m)
  PROVE  RelayInv'
<1> USE DEF RelayInv
<1>1. /\ call[m].pc = "check" /\ call[m].id \in Ids /\ call[m].conn \in Conns
      /\ UNCHANGED << enabled, keys, rows, conn, connections, modelCancels, web, sent, reported >>
  BY DEF Relay!Admit, Relay!store, Relay!history, CallsSound
<1>2. RowsBilled'
  BY <1>1 DEF RowsBilled
<1>3. CASE ~modelActive /\ modelActive' = TRUE /\ Relay!At(m, "reserve")
  <2>1. /\ RelayCallStep(m) /\ call'[m].pc = "reserve"
        /\ call'[m].id = call[m].id /\ call'[m].conn = call[m].conn
    BY <1>1, <1>3, RelayAtFacts DEF RelayCallStep
  <2>2. \A n \in Calls : ~Serving(n)
    BY <1>3 DEF OneRequest
  <2>3. CallsSound!(m)'
    BY <1>1, <2>1
  <2>4. QED
    BY <1>1, <1>2, <1>3, <2>1, <2>2, <2>3, RelayRequestStep DEF RelayTypes
<1>4. CASE modelActive' = modelActive /\ call' = [call EXCEPT ![m] = Relay!Idle]
  <2>1. RelayCallStep(m) /\ call'[m].pc = "idle"
    BY <1>1, <1>4, RelayIdleFacts DEF RelayCallStep
  <2>2. ~Serving(m) /\ ~Serving(m)'
    BY <1>1, <2>1 DEF Serving
  <2>3. CallsSound!(m)'
    BY <2>1
  <2>4. QED
    BY <1>1, <1>2, <1>4, <2>1, <2>2, <2>3, RelayRequestStep DEF RelayTypes
<1>5. QED
  BY <1>3, <1>4 DEF Relay!Admit

\* A request that serves is alone, and goes on being so until it ends.
LEMMA RelayServingStep ==
  ASSUME RelayConstants, RelayInv, NEW m \in Calls, Serving(m), RelayCallStep(m),
         modelActive' = modelActive, rows' \in [Ids -> RelayRows], sent' \in [Ids -> Nat],
         reported' \in [Ids -> Usages \cup { None }], modelCancels' \in Calls \cup { None },
         RowsBilled', CallsSound!(m)'
  PROVE  RelayInv'
<1>1. modelActive /\ \A n \in Calls : Serving(n) => n = m
  BY DEF RelayInv, OneRequest
<1>2. modelActive \in BOOLEAN
  BY DEF RelayInv, RelayTypes
<1>3. QED
  BY <1>1, <1>2, RelayRequestStep

LEMMA RelayReserveKeeps ==
  ASSUME RelayConstants, RelayInv, NEW m \in Calls, Relay!Reserve(m), NEW i, i = call[m].id
  PROVE  RelayInv'
<1> USE DEF RelayInv
<1>1. /\ call[m].pc = "reserve" /\ i \in Ids /\ Serving(m)
      /\ UNCHANGED << enabled, keys, conn, connections, modelActive, modelCancels, web, sent, reported >>
  BY DEF Relay!Reserve, Relay!memory, Relay!history, CallsSound, Serving
<1>2. /\ rows \in [Ids -> RelayRows] /\ sent \in [Ids -> Nat]
      /\ reported \in [Ids -> Usages \cup { None }] /\ modelCancels \in Calls \cup { None }
  BY DEF RelayTypes
<1>3. CASE /\ rows[i].status = "none"
           /\ rows' = [rows EXCEPT ![i] = [ status |-> "pending", charged |-> None ]]
           /\ Relay!At(m, "guard") \/ Relay!At(m, "end")
  <2>1. /\ rows' \in [Ids -> RelayRows] /\ rows'[i].status = "pending" /\ rows'[i].charged = None
        /\ \A j \in Ids \ {i} : rows'[j] = rows[j]
    <3>1. [ status |-> "pending", charged |-> None ] \in RelayRows
      BY DEF RelayRows
    <3>2. QED
      BY <1>1, <1>2, <1>3, <3>1
  <2>2. /\ RelayCallStep(m) /\ call'[m].pc \in { "guard", "end" }
        /\ call'[m].pc = "guard" => call'[m].id = i /\ call'[m].conn = call[m].conn
    BY <1>1, <1>3, RelayAtFacts DEF RelayCallStep
  <2>3. sent[i] = 0
    BY <1>1, <1>3 DEF RowsBilled
  <2>4. RowsBilled'
    BY <1>1, <2>1, <2>3 DEF RowsBilled
  <2>5. CallsSound!(m)'
    BY <1>1, <2>1, <2>2, <2>3 DEF CallsSound
  <2>6. QED
    BY <1>1, <1>2, <2>1, <2>2, <2>4, <2>5, RelayServingStep
<1>4. CASE Relay!At(m, "end") /\ rows' = rows
  <2>1. RelayCallStep(m) /\ call'[m].pc = "end"
    BY <1>1, <1>4, RelayAtFacts DEF RelayCallStep
  <2>2. RowsBilled' /\ CallsSound!(m)'
    BY <1>1, <1>4, <2>1 DEF RowsBilled
  <2>3. QED
    BY <1>1, <1>2, <1>4, <2>1, <2>2, RelayServingStep
<1>5. QED
  BY <1>3, <1>4 DEF Relay!Reserve, Relay!Reservable

LEMMA RelayGuardKeeps ==
  ASSUME RelayConstants, RelayInv, NEW m \in Calls, Relay!Guard(m)
  PROVE  RelayInv'
<1> USE DEF RelayInv
<1>1. /\ call[m].pc = "guard" /\ call[m].id \in Ids /\ call[m].conn \in Conns /\ Serving(m)
      /\ rows[call[m].id].status = "pending" /\ sent[call[m].id] = 0
      /\ UNCHANGED << enabled, keys, rows, conn, connections, modelActive, web, sent, reported >>
  BY DEF Relay!Guard, Relay!store, Relay!history, CallsSound, Serving
<1>2. /\ rows \in [Ids -> RelayRows] /\ sent \in [Ids -> Nat]
      /\ reported \in [Ids -> Usages \cup { None }] /\ modelCancels \in Calls \cup { None }
  BY DEF RelayTypes
<1>3. RowsBilled'
  BY <1>1 DEF RowsBilled
<1>4. CASE connections = call[m].conn /\ modelCancels' = m /\ Relay!PastGuard(m, "send")
  <2>1. RelayCallStep(m) /\ call'[m].pc = "send" /\ call'[m].id = call[m].id
    BY <1>1, <1>4, RelayPastGuardFacts DEF RelayCallStep
  <2>2. CallsSound!(m)'
    BY <1>1, <1>4, <2>1 DEF RelayConstants
  <2>3. QED
    BY <1>1, <1>2, <1>3, <1>4, <2>1, <2>2, RelayServingStep
<1>5. CASE Relay!PastGuard(m, "mark") /\ modelCancels' = modelCancels
  <2>1. RelayCallStep(m) /\ call'[m].pc = "mark" /\ call'[m].id = call[m].id
    BY <1>1, <1>5, RelayPastGuardFacts DEF RelayCallStep
  <2>2. CallsSound!(m)'
    BY <1>1, <2>1
  <2>3. QED
    BY <1>1, <1>2, <1>3, <1>5, <2>1, <2>2, RelayServingStep
<1>6. QED
  BY <1>4, <1>5 DEF Relay!Guard

LEMMA RelaySendKeeps ==
  ASSUME RelayConstants, RelayInv, NEW m \in Calls, Relay!Send(m), NEW i, i = call[m].id
  PROVE  RelayInv'
<1> USE DEF RelayInv
<1>1. /\ call[m].pc = "send" /\ i \in Ids /\ Serving(m)
      /\ rows[i].status = "pending" /\ sent[i] = 0 /\ modelCancels = m
      /\ call[m].cancelled \/ connections # None
      /\ UNCHANGED << enabled, keys, rows, conn, connections, modelActive, modelCancels, web, reported >>
  BY DEF Relay!Send, Relay!store, Relay!memory, CallsSound, Serving
<1>2. /\ rows \in [Ids -> RelayRows] /\ sent \in [Ids -> Nat]
      /\ reported \in [Ids -> Usages \cup { None }] /\ modelCancels \in Calls \cup { None }
  BY DEF RelayTypes
<1>3. CASE Relay!At(m, "mark") /\ sent' = sent
  <2>1. RelayCallStep(m) /\ call'[m].pc = "mark" /\ call'[m].id = i
    BY <1>1, <1>3, RelayAtFacts DEF RelayCallStep
  <2>2. RowsBilled'
    BY <1>1, <1>3 DEF RowsBilled
  <2>3. CallsSound!(m)'
    BY <1>1, <2>1
  <2>4. QED
    BY <1>1, <1>2, <1>3, <2>1, <2>2, <2>3, RelayServingStep
<1>4. CASE /\ ~call[m].cancelled /\ Relay!At(m, "flight")
           /\ sent' = [sent EXCEPT ![i] = @ + 1]
  <2>1. /\ RelayCallStep(m) /\ call'[m].pc = "flight" /\ call'[m].id = i
        /\ call'[m].cancelled = call[m].cancelled
    BY <1>1, <1>4, RelayAtFacts DEF RelayCallStep
  <2>2. sent' \in [Ids -> Nat] /\ sent'[i] = 1 /\ \A j \in Ids \ {i} : sent'[j] = sent[j]
    BY <1>1, <1>2, <1>4
  <2>3. RowsBilled'
    BY <1>1, <2>2 DEF RowsBilled
  <2>4. CallsSound!(m)'
    BY <1>1, <1>4, <2>1, <2>2
  <2>5. QED
    BY <1>1, <1>2, <2>1, <2>2, <2>3, <2>4, RelayServingStep
<1>5. QED
  BY <1>3, <1>4 DEF Relay!Send

LEMMA RelayAnswerKeeps ==
  ASSUME RelayConstants, RelayInv, NEW m \in Calls, Relay!Answer(m), NEW i, i = call[m].id
  PROVE  RelayInv'
<1> USE DEF RelayInv
<1>1. /\ call[m].pc = "flight" /\ i \in Ids /\ Serving(m)
      /\ rows[i].status = "pending" /\ sent[i] = 1
      /\ UNCHANGED << enabled, keys, rows, conn, connections, modelActive, modelCancels, web, sent >>
  BY DEF Relay!Answer, Relay!store, Relay!memory, CallsSound, Serving
<1>2. /\ rows \in [Ids -> RelayRows] /\ sent \in [Ids -> Nat]
      /\ reported \in [Ids -> Usages \cup { None }] /\ modelCancels \in Calls \cup { None }
      /\ call \in [Calls -> RelayCalls] /\ call[m] \in RelayCalls
  BY DEF RelayTypes
<1>3. ASSUME RelayCallStep(m), call'[m].pc = "mark", call'[m].id = i, reported' = reported
      PROVE  RelayInv'
  <2>1. RowsBilled'
    BY <1>1, <1>3 DEF RowsBilled
  <2>2. CallsSound!(m)'
    BY <1>1, <1>3
  <2>3. QED
    BY <1>1, <1>2, <1>3, <2>1, <2>2, RelayServingStep
<1>4. CASE Relay!At(m, "mark") /\ reported' = reported
  <2>1. RelayCallStep(m) /\ call'[m].pc = "mark" /\ call'[m].id = i
    BY <1>1, <1>4, RelayAtFacts DEF RelayCallStep
  <2>2. QED
    BY <1>3, <1>4, <2>1
<1>5. CASE /\ call' = [call EXCEPT ![m].pc = "mark", ![m].outcome = "failed"]
           /\ reported' = reported
  <2> DEFINE new == [call[m] EXCEPT !.pc = "mark", !.outcome = "failed"]
  <2>1. new \in RelayCalls /\ new.pc = "mark" /\ new.id = i
    BY <1>2 DEF RelayCalls
  <2>2. call' = [call EXCEPT ![m] = new]
    BY <1>2, <1>5
  <2> HIDE DEF new
  <2>3. RelayCallStep(m) /\ call'[m].pc = "mark" /\ call'[m].id = i
    BY <1>1, <1>2, <2>1, <2>2 DEF RelayCallStep
  <2>4. QED
    BY <1>3, <1>5, <2>3
<1>6. ASSUME NEW u \in Usages, call' = [call EXCEPT ![m].pc = "settle", ![m].usage = u],
             reported' = [reported EXCEPT ![i] = u]
      PROVE  RelayInv'
  <2> DEFINE new == [call[m] EXCEPT !.pc = "settle", !.usage = u]
  <2>1. new \in RelayCalls /\ new.pc = "settle" /\ new.id = i /\ new.usage = u
    BY <1>2 DEF RelayCalls
  <2>2. call' = [call EXCEPT ![m] = new]
    BY <1>2, <1>6
  <2> HIDE DEF new
  <2>3. RelayCallStep(m) /\ call'[m].pc = "settle" /\ call'[m].id = i /\ call'[m].usage = u
    BY <1>1, <1>2, <2>1, <2>2 DEF RelayCallStep
  <2>4. /\ reported' \in [Ids -> Usages \cup { None }] /\ reported'[i] = u
        /\ \A j \in Ids \ {i} : reported'[j] = reported[j]
    BY <1>1, <1>2, <1>6
  <2>5. rows[i].charged = None
    BY <1>1 DEF RowsBilled
  <2>6. RowsBilled'
    BY <1>1, <2>4, <2>5 DEF RowsBilled
  <2>7. CallsSound!(m)'
    BY <1>1, <2>3, <2>4
  <2>8. QED
    BY <1>1, <1>2, <2>3, <2>4, <2>6, <2>7, RelayServingStep
<1>7. QED
  BY <1>4, <1>5, <1>6 DEF Relay!Answer

LEMMA RelaySettleKeeps ==
  ASSUME RelayConstants, RelayInv, NEW m \in Calls, Relay!Settle(m), NEW i, i = call[m].id
  PROVE  RelayInv'
<1> USE DEF RelayInv
<1>1. /\ call[m].pc = "settle" /\ i \in Ids /\ Serving(m)
      /\ rows[i].status = "pending" /\ sent[i] = 1
      /\ call[m].usage = reported[i] /\ call[m].usage \in Usages
      /\ UNCHANGED << enabled, keys, conn, connections, modelActive, modelCancels, web, sent, reported >>
  BY DEF Relay!Settle, Relay!memory, Relay!history, CallsSound, Serving
<1>2. /\ rows \in [Ids -> RelayRows] /\ sent \in [Ids -> Nat] /\ rows[i] \in RelayRows
      /\ reported \in [Ids -> Usages \cup { None }] /\ modelCancels \in Calls \cup { None }
  BY <1>1 DEF RelayTypes
<1>3. Relay!At(m, "end") \/ Relay!At(m, "mark")
  BY DEF Relay!Settle
<1>4. /\ RelayCallStep(m) /\ call'[m].pc \in { "mark", "end" }
      /\ call'[m].pc = "mark" => call'[m].id = i
  BY <1>1, <1>3, RelayAtFacts DEF RelayCallStep
<1>5. CallsSound!(m)'
  BY <1>1, <1>4
<1>6. CASE rows' = rows
  <2>1. RowsBilled'
    BY <1>1, <1>6 DEF RowsBilled
  <2>2. QED
    BY <1>1, <1>2, <1>4, <1>5, <1>6, <2>1, RelayServingStep
<1>7. CASE rows' = [rows EXCEPT ![i].status = "settled", ![i].charged = call[m].usage]
  <2> DEFINE new == [rows[i] EXCEPT !.status = "settled", !.charged = call[m].usage]
  <2>1. new \in RelayRows /\ new.status = "settled" /\ new.charged = call[m].usage
    BY <1>1, <1>2 DEF RelayRows
  <2>2. rows' = [rows EXCEPT ![i] = new]
    BY <1>2, <1>7
  <2> HIDE DEF new
  <2>3. /\ rows' \in [Ids -> RelayRows] /\ rows'[i] = new
        /\ \A j \in Ids \ {i} : rows'[j] = rows[j]
    BY <1>1, <1>2, <2>1, <2>2
  <2>4. RowsBilled'
    BY <1>1, <2>1, <2>3 DEF RowsBilled, RelayConstants
  <2>5. QED
    BY <1>1, <1>2, <1>4, <1>5, <2>3, <2>4, RelayServingStep
<1>8. QED
  BY <1>6, <1>7 DEF Relay!Settle

LEMMA RelayMarkKeeps ==
  ASSUME RelayConstants, RelayInv, NEW m \in Calls, Relay!Mark(m), NEW i, i = call[m].id
  PROVE  RelayInv'
<1> USE DEF RelayInv
<1>1. /\ call[m].pc = "mark" /\ i \in Ids /\ Serving(m) /\ Relay!At(m, "end")
      /\ UNCHANGED << enabled, keys, conn, connections, modelActive, modelCancels, web, sent, reported >>
  BY DEF Relay!Mark, Relay!memory, Relay!history, CallsSound, Serving
<1>2. /\ rows \in [Ids -> RelayRows] /\ sent \in [Ids -> Nat] /\ rows[i] \in RelayRows
      /\ reported \in [Ids -> Usages \cup { None }] /\ modelCancels \in Calls \cup { None }
      /\ call[m].outcome \in { "uncertain", "failed" }
  BY <1>1 DEF RelayTypes, RelayCalls
<1>3. RelayCallStep(m) /\ call'[m].pc = "end"
  BY <1>1, RelayAtFacts DEF RelayCallStep
<1>4. CallsSound!(m)'
  BY <1>3
<1>5. CASE rows' = rows
  <2>1. RowsBilled'
    BY <1>1, <1>5 DEF RowsBilled
  <2>2. QED
    BY <1>1, <1>2, <1>3, <1>4, <1>5, <2>1, RelayServingStep
<1>6. CASE rows[i].charged = None /\ rows' = [rows EXCEPT ![i].status = call[m].outcome]
  <2> DEFINE new == [rows[i] EXCEPT !.status = call[m].outcome]
  <2>1. new \in RelayRows /\ new.status \in { "uncertain", "failed" } /\ new.charged = None
    BY <1>2, <1>6 DEF RelayRows
  <2>2. rows' = [rows EXCEPT ![i] = new]
    BY <1>2, <1>6
  <2> HIDE DEF new
  <2>3. /\ rows' \in [Ids -> RelayRows] /\ rows'[i] = new
        /\ \A j \in Ids \ {i} : rows'[j] = rows[j]
    BY <1>1, <1>2, <2>1, <2>2
  <2>4. RowsBilled'
    BY <1>1, <2>1, <2>3 DEF RowsBilled
  <2>5. QED
    BY <1>1, <1>2, <1>3, <1>4, <2>3, <2>4, RelayServingStep
<1>7. QED
  BY <1>5, <1>6 DEF Relay!Mark, Relay!MarkCallOutcome

LEMMA RelayEndKeeps ==
  ASSUME RelayConstants, RelayInv, NEW m \in Calls, Relay!End(m)
  PROVE  RelayInv'
<1> USE DEF RelayInv
<1>1. /\ call[m].pc = "end" /\ Serving(m) /\ modelActive' = FALSE /\ modelCancels' = None
      /\ call' = [call EXCEPT ![m] = Relay!Idle]
      /\ UNCHANGED << enabled, keys, rows, conn, connections, web, sent, reported >>
  BY DEF Relay!End, Relay!store, Relay!history, Serving
<1>2. RelayCallStep(m) /\ call'[m].pc = "idle"
  BY <1>1, RelayIdleFacts DEF RelayCallStep
<1>3. ~Serving(m)'
  BY <1>2 DEF Serving
<1>4. RowsBilled'
  BY <1>1 DEF RowsBilled
<1>5. CallsSound!(m)'
  BY <1>2
<1>6. QED
  BY <1>1, <1>2, <1>3, <1>4, <1>5, RelayRequestStep DEF RelayTypes

\* The process ends anywhere; the rows it left pending are uncertain.
LEMMA RelayRestartKeeps ==
  ASSUME RelayConstants, RelayInv, Relay!Restart
  PROVE  RelayInv'
<1> USE DEF RelayInv
<1>1. /\ connections' = None /\ modelActive' = FALSE /\ modelCancels' = None
      /\ call' = [m \in Calls |-> Relay!Idle] /\ web' = Relay!Nothing
      /\ UNCHANGED << enabled, keys, sent, reported >>
  BY DEF Relay!Restart, Relay!history
<1>2. rows \in [Ids -> RelayRows] /\ conn \in [Conns -> RelayStreams]
  BY DEF RelayTypes
<1>3. /\ rows' \in [Ids -> RelayRows]
      /\ \A i \in Ids : rows'[i] = rows[i] \/ (/\ rows[i].status = "pending" /\ rows'[i].status = "uncertain"
                                               /\ rows'[i].charged = rows[i].charged)
  <2>1. ASSUME NEW i \in Ids
        PROVE  /\ rows'[i] \in RelayRows
               /\ rows'[i] = rows[i] \/ (/\ rows[i].status = "pending" /\ rows'[i].status = "uncertain"
                                         /\ rows'[i].charged = rows[i].charged)
    <3>1. rows[i] \in RelayRows
      BY <1>2
    <3>2. rows'[i] = IF rows[i].status = "pending" THEN [rows[i] EXCEPT !.status = "uncertain"] ELSE rows[i]
      BY DEF Relay!Restart, Relay!RecoverPendingCalls
    <3>3. QED
      BY <3>1, <3>2 DEF RelayRows
  <2>2. QED
    BY <2>1 DEF Relay!Restart, Relay!RecoverPendingCalls
<1>4. conn' \in [Conns -> RelayStreams]
  <2>1. Relay!Gone \in RelayStreams
    BY DEF Relay!Gone, Relay!Fresh, RelayStreams
  <2>2. QED
    BY <1>2, <2>1 DEF Relay!Restart
<1>5. Relay!Idle \in RelayCalls /\ Relay!Idle.pc = "idle"
  BY DEF Relay!Idle, RelayCalls
<1>6. RelayTypes'
  BY <1>1, <1>3, <1>4, <1>5 DEF RelayTypes, Relay!Nothing
<1>7. OneRequest' /\ CallsSound'
  BY <1>1, <1>5 DEF OneRequest, Serving, CallsSound
<1>8. RowsBilled'
  BY <1>1, <1>3 DEF RowsBilled
<1>9. QED
  BY <1>6, <1>7, <1>8

LEMMA RelayInit ==
  ASSUME RelayConstants, Relay!Init
  PROVE  RelayInv
<1>1. Relay!Idle \in RelayCalls /\ Relay!Idle.pc = "idle"
  BY DEF Relay!Idle, RelayCalls
<1>2. Relay!Fresh \in RelayStreams
  BY DEF Relay!Fresh, RelayStreams
<1>3. /\ Relay!NoRow \in RelayRows /\ Relay!NoRow.status = "none" /\ Relay!NoRow.charged = None
      /\ [ state |-> "none", device |-> None ] \in RelayKeys
  BY DEF Relay!NoRow, RelayRows, RelayKeys
<1>4. RelayTypes
  BY <1>1, <1>2, <1>3 DEF Relay!Init, Relay!Nothing, RelayTypes
<1>5. OneRequest /\ CallsSound
  BY <1>1 DEF Relay!Init, OneRequest, Serving, CallsSound
<1>6. RowsBilled
  BY <1>3 DEF Relay!Init, RowsBilled
<1>7. QED
  BY <1>4, <1>5, <1>6 DEF RelayInv

LEMMA RelayInductive ==
  ASSUME RelayConstants, RelayInv, [Relay!RelayNext]_(Relay!vars)
  PROVE  RelayInv'
<1>1. CASE UNCHANGED Relay!vars
  <2>1. UNCHANGED << enabled, keys, rows, conn, connections, call, modelActive, modelCancels, web, sent, reported >>
    BY <1>1 DEF Relay!vars, Relay!store, Relay!memory, Relay!history
  <2>2. RelayTypes'
    BY <2>1 DEF RelayInv, RelayTypes
  <2>3. QED
    BY <2>1, <2>2, RelayQuiet
<1>2. CASE \E m \in Calls, i \in Ids : Relay!Arrive(m, i)
  BY <1>2, RelayArriveKeeps
<1>3. CASE \E m \in Calls :
         \/ Relay!Admit(m) \/ Relay!Reserve(m) \/ Relay!Guard(m) \/ Relay!Send(m)
         \/ Relay!Answer(m) \/ Relay!Settle(m) \/ Relay!Mark(m) \/ Relay!End(m)
  BY <1>3, RelayAdmitKeeps, RelayReserveKeeps, RelayGuardKeeps, RelaySendKeeps, RelayAnswerKeeps,
     RelaySettleKeeps, RelayMarkKeeps, RelayEndKeeps
<1>4. CASE Relay!Disconnect \/ Relay!Close \/ \E c \in Conns : Relay!Leave(c)
  BY <1>4, RelayCancelSteps
<1>5. CASE Relay!Restart
  BY <1>5, RelayRestartKeeps
<1>6. QED
  BY <1>1, <1>2, <1>3, <1>4, <1>5, RelayStreamSteps DEF Relay!RelayNext, Relay!StreamStep

\* HostedGateway and its store, for any number of streams, keys and model calls,
\* keep the invariant of the relay.
THEOREM RelayInvariant ==
  ASSUME RelayConstants PROVE Relay!RelaySpec => []RelayInv
<1>1. Relay!Init => RelayInv
  BY RelayInit
<1>2. RelayInv /\ [Relay!RelayNext]_(Relay!vars) => RelayInv'
  BY RelayInductive
<1>3. QED
  BY <1>1, <1>2, PTL DEF Relay!RelaySpec

\* serveModel and the store: a request identity goes to the model at most once,
\* and what went is on the account by the reported usage or in full, for any
\* number of handlers, over restarts, lost answers and late marks.
THEOREM RelayBills ==
  ASSUME RelayConstants PROVE Relay!RelaySpec => []Relay!SentOnceAndBilled
<1>1. RelayInv => Relay!SentOnceAndBilled
  BY DEF RelayInv, RowsBilled, Relay!SentOnceAndBilled, RelayTypes
<1>2. QED
  BY <1>1, RelayInvariant, PTL

\* The guard of serveModel and the deferred end of Connect: a model request that
\* was not cancelled has a stream of the game behind it.
THEOREM RelayRequestsHaveStreams ==
  ASSUME RelayConstants PROVE Relay!RelaySpec => []Relay!InFlightHasConnection
<1>1. RelayInv => Relay!InFlightHasConnection
  BY DEF RelayInv, CallsSound, Relay!InFlightHasConnection
<1>2. QED
  BY <1>1, RelayInvariant, PTL

-----------------------------------------------------------------------------
(* AccountStore.                                                           *)

AccountUsers == [state : { "none", "on", "off" }, verified : BOOLEAN]
AccountMails ==
    [ state : { "none", "pending", "failed", "ready", "superseded", "consumed" },
      email : Emails \cup { None }, purpose : { "register", "verify", "reset", None }, tries : Nat ]
AccountRequests ==
    [ pc : { "idle", "mail", "activate", "register", "reset" }, email : Emails \cup { None },
      invite : Invites \cup { None }, code : Codes \cup { None } ]

AccountTypes ==
    /\ users \in [Emails -> AccountUsers]
    /\ invites \in [Invites -> { "none", "open", "revoked" } \cup Emails]
    /\ mail \in [Codes -> AccountMails]
    /\ req \in [Requests -> AccountRequests]
    /\ spent \in [Emails -> Codes \cup { None }]

\* A request under way knows what it works on.
RequestsKnow ==
    \A r \in Requests :
      /\ req[r].pc # "idle" => req[r].code \in Codes
      /\ req[r].pc = "register" => req[r].email \in Emails /\ req[r].invite \in Invites

\* InvitationBuysOneAccount without its cardinality.
InvitationsSpent ==
    /\ \A i \in Invites : invites[i] \in Emails =>
         users[invites[i]].state # "none" /\ spent[invites[i]] # None
    /\ \A e \in Emails : spent[e] # None =>
         /\ \E i \in Invites : \A j \in Invites : invites[j] = e <=> j = i
         /\ mail[spent[e]].state = "consumed"
         /\ \A f \in Emails : spent[f] = spent[e] => f = e

AccountInv == AccountTypes /\ RequestsKnow /\ InvitationsSpent /\ Accounts!LatestCodeWins

Activated == { "ready", "consumed", "superseded" }
SamePurpose(c, d) == mail[c].email = mail[d].email /\ mail[c].purpose = mail[d].purpose

LEMMA CodesAreNumbers ==
  ASSUME AccountConstants PROVE \A d \in Codes : d \in Nat
<1>1. MaxCodes \in Nat
  BY DEF AccountConstants
<1>2. QED
  BY <1>1 DEF Codes

\* Nothing becomes ready, and what leaves its activation leaves nothing ready.
LEMMA LatestKept ==
  ASSUME Accounts!LatestCodeWins,
         \A c \in Codes : mail'[c].state = "ready" =>
           mail[c].state = "ready" /\ mail'[c].email = mail[c].email /\ mail'[c].purpose = mail[c].purpose,
         \A d \in Codes : mail'[d].state \in Activated =>
           \/ /\ mail[d].state \in Activated
              /\ mail'[d].email = mail[d].email /\ mail'[d].purpose = mail[d].purpose
           \/ \A c \in Codes : mail'[c].state = "ready" => ~SamePurpose(c, d)'
  PROVE  Accounts!LatestCodeWins'
BY DEF Accounts!LatestCodeWins, Activated, SamePurpose, Codes, Accounts!Codes

\* The accounts' side of a step that registers nobody.
LEMMA InvitationsKept ==
  ASSUME AccountConstants, AccountTypes, InvitationsSpent, spent' = spent,
         \A e \in Emails : users[e].state # "none" => users'[e].state # "none",
         \A i \in Invites : invites'[i] = invites[i] \/ (invites[i] \notin Emails /\ invites'[i] \notin Emails),
         \A c \in Codes : mail[c].state = "consumed" => mail'[c].state = "consumed"
  PROVE  InvitationsSpent'
<1>1. \A i \in Invites, e \in Emails : invites'[i] = e <=> invites[i] = e
  OBVIOUS
<1>2. ASSUME NEW i \in Invites, invites'[i] \in Emails
      PROVE  users'[invites'[i]].state # "none" /\ spent'[invites'[i]] # None
  BY <1>1, <1>2 DEF InvitationsSpent
<1>3. ASSUME NEW e \in Emails, spent'[e] # None
      PROVE  /\ \E i \in Invites : \A j \in Invites : invites'[j] = e <=> j = i
             /\ mail'[spent'[e]].state = "consumed"
             /\ \A f \in Emails : spent'[f] = spent'[e] => f = e
  <2>1. spent[e] \in Codes
    BY <1>3 DEF AccountTypes
  <2>2. QED
    BY <1>1, <1>3, <2>1 DEF InvitationsSpent
<1>4. QED
  BY <1>2, <1>3 DEF InvitationsSpent

\* The challenges of a step: one challenge moves on.
MailMoves(c, new) ==
    /\ mail' = [mail EXCEPT ![c] = new]
    /\ new \in AccountMails
    /\ \/ mail[c].state \in { "none", "pending" } /\ new.state \in { "pending", "failed" }
       \/ /\ new.email = mail[c].email /\ new.purpose = mail[c].purpose
          /\ \/ mail[c].state = "ready" /\ new.state \in { "ready", "consumed", "superseded" }
             \/ new.state = mail[c].state

LEMMA MailMovesFacts ==
  ASSUME AccountTypes, Accounts!LatestCodeWins, NEW c \in Codes, NEW new, MailMoves(c, new)
  PROVE  /\ mail' \in [Codes -> AccountMails] /\ Accounts!LatestCodeWins'
         /\ \A d \in Codes : mail[d].state = "consumed" => mail'[d].state = "consumed"
<1>1. mail \in [Codes -> AccountMails]
  BY DEF AccountTypes
<1>2. /\ mail' \in [Codes -> AccountMails] /\ mail'[c] = new
      /\ \A d \in Codes \ {c} : mail'[d] = mail[d]
  BY <1>1 DEF MailMoves
<1>3. \A d \in Codes : mail[d].state = "consumed" => mail'[d].state = "consumed"
  BY <1>2 DEF MailMoves
<1>4. \A d \in Codes : mail'[d].state \in Activated =>
        /\ mail[d].state \in Activated
        /\ mail'[d].email = mail[d].email /\ mail'[d].purpose = mail[d].purpose
        /\ mail'[d].state = "ready" => mail[d].state = "ready"
  BY <1>2 DEF MailMoves, Activated
<1>5. Accounts!LatestCodeWins'
  BY <1>4, LatestKept DEF Activated
<1>6. QED
  BY <1>2, <1>3, <1>5

\* A set of challenges that holds with each all of its address and purpose is
\* consumed as a whole.
MailConsumed(S) ==
    /\ mail' = [c \in Codes |-> IF c \in S THEN [mail[c] EXCEPT !.state = "consumed", !.tries = 0] ELSE mail[c]]
    /\ \A c, d \in Codes :
         c \in S /\ mail[d].state = "ready" /\ SamePurpose(c, d) => d \in S

LEMMA MailConsumedFacts ==
  ASSUME AccountTypes, Accounts!LatestCodeWins, NEW S, MailConsumed(S)
  PROVE  /\ mail' \in [Codes -> AccountMails] /\ Accounts!LatestCodeWins'
         /\ \A d \in Codes : mail[d].state = "consumed" => mail'[d].state = "consumed"
<1>1. mail \in [Codes -> AccountMails]
  BY DEF AccountTypes
<1>2. ASSUME NEW c \in Codes
      PROVE  /\ mail'[c] \in AccountMails
             /\ mail'[c].email = mail[c].email /\ mail'[c].purpose = mail[c].purpose
             /\ c \in S => mail'[c].state = "consumed"
             /\ c \notin S => mail'[c] = mail[c]
  <2>1. mail[c] \in AccountMails
    BY <1>1
  <2>2. mail'[c] = IF c \in S THEN [mail[c] EXCEPT !.state = "consumed", !.tries = 0] ELSE mail[c]
    BY DEF MailConsumed
  <2> DEFINE new == [mail[c] EXCEPT !.state = "consumed", !.tries = 0]
  <2>3. /\ new \in AccountMails /\ new.state = "consumed"
        /\ new.email = mail[c].email /\ new.purpose = mail[c].purpose
    BY <2>1 DEF AccountMails
  <2> HIDE DEF new
  <2>4. QED
    BY <2>1, <2>2, <2>3 DEF new
<1>3. mail' \in [Codes -> AccountMails]
  BY <1>2 DEF MailConsumed
<1>4. Accounts!LatestCodeWins'
  <2>1. ASSUME NEW c \in Codes, mail'[c].state = "ready"
        PROVE  mail[c].state = "ready" /\ c \notin S
    BY <1>2, <2>1
  <2>2. ASSUME NEW d \in Codes, mail'[d].state \in Activated, mail[d].state \notin Activated,
               NEW c \in Codes, mail'[c].state = "ready"
        PROVE  ~SamePurpose(c, d)'
    <3>1. d \in S
      BY <1>2, <2>2
    <3>2. ~SamePurpose(c, d)
      BY <2>1, <2>2, <3>1 DEF MailConsumed, SamePurpose
    <3>3. QED
      BY <1>2, <3>2 DEF SamePurpose
  <2>3. QED
    BY <1>2, <2>1, <2>2, LatestKept
<1>5. QED
  BY <1>2, <1>3, <1>4

\* ActivateChallenge: the newest of its purpose, and what was ready is not.
MailActivated(c) ==
    mail' = [d \in Codes |->
      IF d = c THEN [mail[d] EXCEPT !.state = "ready"]
      ELSE IF d \in Accounts!OfPurpose(mail[c].email, mail[c].purpose) /\ mail[d].state = "ready"
        THEN [mail[d] EXCEPT !.state = "superseded", !.tries = 0]
      ELSE mail[d]]

LEMMA MailActivatedFacts ==
  ASSUME AccountConstants, AccountTypes, Accounts!LatestCodeWins, NEW c \in Codes,
         mail[c].state = "pending", ~Accounts!Overtaken(c), MailActivated(c)
  PROVE  /\ mail' \in [Codes -> AccountMails] /\ Accounts!LatestCodeWins'
         /\ \A d \in Codes : mail[d].state = "consumed" => mail'[d].state = "consumed"
<1>1. mail \in [Codes -> AccountMails]
  BY DEF AccountTypes
<1>2. ASSUME NEW d \in Codes
      PROVE  /\ mail'[d] \in AccountMails
             /\ mail'[d].email = mail[d].email /\ mail'[d].purpose = mail[d].purpose
             /\ d = c => mail'[d].state = "ready"
             /\ d # c => IF mail[d].state = "ready" /\ SamePurpose(c, d)
                         THEN mail'[d].state = "superseded" ELSE mail'[d].state = mail[d].state
  <2>1. mail[d] \in AccountMails
    BY <1>1
  <2>2. d \in Accounts!OfPurpose(mail[c].email, mail[c].purpose) <=> mail[d].state # "none" /\ SamePurpose(c, d)
    BY DEF Accounts!OfPurpose, SamePurpose, Codes, Accounts!Codes
  <2>3. mail'[d] = IF d = c THEN [mail[d] EXCEPT !.state = "ready"]
           ELSE IF d \in Accounts!OfPurpose(mail[c].email, mail[c].purpose) /\ mail[d].state = "ready"
             THEN [mail[d] EXCEPT !.state = "superseded", !.tries = 0]
           ELSE mail[d]
    BY DEF MailActivated
  <2> DEFINE activated == [mail[d] EXCEPT !.state = "ready"]
             superseded == [mail[d] EXCEPT !.state = "superseded", !.tries = 0]
  <2>4. /\ activated \in AccountMails /\ activated.state = "ready"
        /\ activated.email = mail[d].email /\ activated.purpose = mail[d].purpose
    BY <2>1 DEF AccountMails
  <2>5. /\ superseded \in AccountMails /\ superseded.state = "superseded"
        /\ superseded.email = mail[d].email /\ superseded.purpose = mail[d].purpose
    BY <2>1 DEF AccountMails
  <2>6. mail'[d] = IF d = c THEN activated
                   ELSE IF SamePurpose(c, d) /\ mail[d].state = "ready" THEN superseded ELSE mail[d]
    BY <2>2, <2>3
  <2> HIDE DEF activated, superseded
  <2>7. QED
    BY <2>1, <2>4, <2>5, <2>6
<1>3. mail' \in [Codes -> AccountMails]
  BY <1>2 DEF MailActivated
<1>0. \A d \in Codes : d \in Nat
  BY CodesAreNumbers
<1>4. ASSUME NEW d \in Codes, mail[d].state \in Activated, SamePurpose(c, d) PROVE d <= c
  BY <1>0, <1>4 DEF Accounts!Overtaken, Accounts!OfPurpose, Activated, SamePurpose, Codes, Accounts!Codes
<1>5. ASSUME NEW a \in Codes, NEW d \in Codes, mail'[a].state = "ready", mail'[d].state \in Activated,
             SamePurpose(a, d)'
      PROVE  d <= a
  <2>1. SamePurpose(a, d)
    BY <1>2, <1>5 DEF SamePurpose
  <2>2. d = c \/ mail[d].state \in Activated
    BY <1>2, <1>5 DEF Activated
  <2>3. CASE a = c
    <3>1. CASE d = c
      BY <1>0, <2>3, <3>1
    <3>2. CASE d # c
      BY <1>4, <2>1, <2>2, <2>3, <3>2
    <3>3. QED
      BY <3>1, <3>2
  <2>4. CASE a # c
    <3>1. mail[a].state = "ready" /\ ~SamePurpose(c, a)
      BY <1>2, <1>5, <2>4
    <3>2. d # c
      BY <2>1, <3>1 DEF SamePurpose
    <3>3. QED
      BY <2>1, <2>2, <3>1, <3>2 DEF Accounts!LatestCodeWins, SamePurpose, Activated, Codes, Accounts!Codes
  <2>5. QED
    BY <2>3, <2>4
<1>6. Accounts!LatestCodeWins'
  BY <1>5 DEF Accounts!LatestCodeWins, SamePurpose, Activated, Codes, Accounts!Codes
<1>7. \A d \in Codes : mail[d].state = "consumed" => mail'[d].state = "consumed"
  BY <1>2
<1>8. QED
  BY <1>3, <1>6, <1>7

\* What a step leaves of the requests, of the challenges and of the accounts.
RequestsKept == req' \in [Requests -> AccountRequests] /\ RequestsKnow'
MailKept ==
    /\ mail' \in [Codes -> AccountMails] /\ Accounts!LatestCodeWins'
    /\ \A d \in Codes : mail[d].state = "consumed" => mail'[d].state = "consumed"
AccountsKept ==
    /\ users' \in [Emails -> AccountUsers]
    /\ \A e \in Emails : users[e].state # "none" => users'[e].state # "none"

LEMMA AccountStep ==
  ASSUME AccountConstants, AccountInv, RequestsKept, MailKept, AccountsKept, spent' = spent, invites' = invites
  PROVE  AccountInv'
<1>1. AccountTypes'
  BY DEF AccountInv, AccountTypes, RequestsKept, MailKept, AccountsKept
<1>2. InvitationsSpent'
  BY InvitationsKept DEF AccountInv, MailKept, AccountsKept
<1>3. QED
  BY <1>1, <1>2 DEF AccountInv, RequestsKept, MailKept

LEMMA AccountStutters ==
  ASSUME AccountInv
  PROVE  /\ req' = req => RequestsKept
         /\ mail' = mail => MailKept
         /\ users' = users => AccountsKept
<1>1. req' = req => RequestsKept
  BY DEF AccountInv, AccountTypes, RequestsKnow, RequestsKept
<1>2. mail' = mail => MailKept
  <2> SUFFICES ASSUME mail' = mail PROVE MailKept
    OBVIOUS
  <2>1. Accounts!LatestCodeWins'
    BY DEF AccountInv, Accounts!LatestCodeWins
  <2>2. QED
    BY <2>1 DEF AccountInv, AccountTypes, MailKept
<1>3. users' = users => AccountsKept
  BY DEF AccountInv, AccountTypes, AccountsKept
<1>4. QED
  BY <1>1, <1>2, <1>3

LEMMA RequestMoves ==
  ASSUME AccountInv, NEW r \in Requests, NEW new \in AccountRequests, req' = [req EXCEPT ![r] = new],
         new.pc # "idle" => new.code \in Codes,
         new.pc = "register" => new.email \in Emails /\ new.invite \in Invites
  PROVE  RequestsKept
<1>1. req \in [Requests -> AccountRequests]
  BY DEF AccountInv, AccountTypes
<1>2. req' \in [Requests -> AccountRequests] /\ req'[r] = new /\ \A q \in Requests \ {r} : req'[q] = req[q]
  BY <1>1
<1>3. RequestsKnow'
  BY <1>2 DEF AccountInv, RequestsKnow
<1>4. QED
  BY <1>2, <1>3 DEF RequestsKept

LEMMA RequestDone ==
  ASSUME AccountInv, NEW r \in Requests, Accounts!Done(r) PROVE RequestsKept
<1>1. Accounts!Idle \in AccountRequests /\ Accounts!Idle.pc = "idle"
  BY DEF Accounts!Idle, AccountRequests
<1>2. QED
  BY <1>1, RequestMoves DEF Accounts!Done

LEMMA BeginChallengeKeeps ==
  ASSUME AccountConstants, AccountInv, NEW r \in Requests, NEW e \in Emails, NEW p \in Accounts!Purposes,
         NEW i \in Invites \cup { None }, Accounts!BeginChallenge(r, e, p, i)
  PROVE  AccountInv'
<1>0. e \in Emails /\ p \in { "register", "verify", "reset" }
  BY DEF Accounts!Purposes
<1>1. PICK c \in Codes :
         /\ mail[c].state = "none"
         /\ mail' = [mail EXCEPT ![c] = [Accounts!NoMail EXCEPT !.state = "pending", !.email = e, !.purpose = p]]
         /\ req' = [req EXCEPT ![r] = [Accounts!Idle EXCEPT !.pc = "mail", !.code = c]]
  BY DEF Accounts!BeginChallenge, Codes, Accounts!Codes
<1> DEFINE m == [Accounts!NoMail EXCEPT !.state = "pending", !.email = e, !.purpose = p]
           q == [Accounts!Idle EXCEPT !.pc = "mail", !.code = c]
<1>2. Accounts!NoMail \in AccountMails /\ Accounts!Idle \in AccountRequests
  BY DEF Accounts!NoMail, Accounts!Idle, AccountMails, AccountRequests
<1>3. m \in AccountMails /\ m.state = "pending"
  BY <1>0, <1>2 DEF AccountMails
<1>5. q \in AccountRequests /\ q.pc = "mail" /\ q.code = c
  BY <1>2 DEF AccountRequests
<1>6. mail' = [mail EXCEPT ![c] = m] /\ req' = [req EXCEPT ![r] = q]
  BY <1>1
<1> HIDE DEF m, q
<1>7. RequestsKept
  BY <1>5, <1>6, RequestMoves
<1>8. MailMoves(c, m)
  BY <1>1, <1>3, <1>6 DEF MailMoves
<1>9. MailKept
  BY <1>8, MailMovesFacts DEF MailKept, AccountInv
<1>10. users' = users /\ invites' = invites /\ spent' = spent
  BY DEF Accounts!BeginChallenge
<1>11. QED
  BY <1>7, <1>9, <1>10, AccountStep, AccountStutters

\* A challenge of a request or of a step: failed, expired, guessed at, used.
LEMMA MailFields ==
  ASSUME AccountConstants, AccountInv, NEW c \in Codes
  PROVE  /\ mail[c].state = "pending" /\ mail' = [mail EXCEPT ![c].state = "failed"] => MailKept
         /\ mail[c].state = "ready" /\ mail' = [mail EXCEPT ![c].state = "superseded", ![c].tries = 0] => MailKept
         /\ Accounts!WrongCode(c) => MailKept
         /\ mail[c].state = "ready" /\ mail' = Accounts!Consumed(c) =>
              MailKept /\ mail'[c].state = "consumed"
<1>1. mail \in [Codes -> AccountMails] /\ mail[c] \in AccountMails
  BY DEF AccountInv, AccountTypes
<1> DEFINE fail == [mail[c] EXCEPT !.state = "failed"]
           over == [mail[c] EXCEPT !.state = "superseded", !.tries = 0]
           wrong == [mail[c] EXCEPT !.tries = mail[c].tries + 1]
           used == [mail[c] EXCEPT !.state = "consumed", !.tries = 0]
<1>2. fail \in AccountMails /\ fail.state = "failed"
  BY <1>1 DEF AccountMails
<1>3. over \in AccountMails /\ over.state = "superseded" /\ over.email = mail[c].email /\ over.purpose = mail[c].purpose
  BY <1>1 DEF AccountMails
<1>4. wrong \in AccountMails /\ wrong.state = mail[c].state /\ wrong.email = mail[c].email /\ wrong.purpose = mail[c].purpose
  BY <1>1 DEF AccountMails
<1>5. used \in AccountMails /\ used.state = "consumed" /\ used.email = mail[c].email /\ used.purpose = mail[c].purpose
  BY <1>1 DEF AccountMails
<1>6. /\ mail' = [mail EXCEPT ![c].state = "failed"] => mail' = [mail EXCEPT ![c] = fail]
      /\ mail' = [mail EXCEPT ![c].state = "superseded", ![c].tries = 0] => mail' = [mail EXCEPT ![c] = over]
      /\ Accounts!WrongCode(c) => mail' = [mail EXCEPT ![c] = wrong]
      /\ mail' = Accounts!Consumed(c) => mail' = [mail EXCEPT ![c] = used]
  BY <1>1 DEF Accounts!WrongCode, Accounts!Consumed, Accounts!AsConsumed
<1> HIDE DEF fail, over, wrong, used
<1>7. ASSUME NEW new, MailMoves(c, new) PROVE MailKept /\ mail'[c] = new
  <2>1. MailKept
    BY <1>7, MailMovesFacts DEF MailKept, AccountInv
  <2>2. QED
    BY <1>1, <1>7, <2>1 DEF MailMoves
<1>8. mail[c].state = "pending" /\ mail' = [mail EXCEPT ![c] = fail] => MailMoves(c, fail)
  BY <1>2 DEF MailMoves
<1>9. mail[c].state = "ready" /\ mail' = [mail EXCEPT ![c] = over] => MailMoves(c, over)
  BY <1>3 DEF MailMoves
<1>10. mail' = [mail EXCEPT ![c] = wrong] => MailMoves(c, wrong)
  BY <1>4 DEF MailMoves
<1>11. mail[c].state = "ready" /\ mail' = [mail EXCEPT ![c] = used] => MailMoves(c, used)
  BY <1>5 DEF MailMoves
<1>12. QED
  BY <1>5, <1>6, <1>7, <1>8, <1>9, <1>10, <1>11

LEMMA MailStepsKeep ==
  ASSUME AccountConstants, AccountInv, NEW r \in Requests,
         Accounts!MailSent(r) \/ Accounts!MailRefused(r) \/ Accounts!ActivateChallenge(r) \/ Accounts!Abandon(r)
  PROVE  AccountInv'
<1>1. /\ users' = users /\ invites' = invites /\ spent' = spent
  BY DEF Accounts!MailSent, Accounts!MailRefused, Accounts!ActivateChallenge, Accounts!Abandon
<1>2. req \in [Requests -> AccountRequests] /\ req[r] \in AccountRequests
  BY DEF AccountInv, AccountTypes
<1>3. CASE Accounts!MailSent(r)
  <2> DEFINE new == [req[r] EXCEPT !.pc = "activate"]
  <2>1. new \in AccountRequests /\ new.pc = "activate" /\ new.code = req[r].code
    BY <1>2 DEF AccountRequests
  <2>2. req' = [req EXCEPT ![r] = new] /\ mail' = mail /\ req[r].pc = "mail"
    BY <1>2, <1>3 DEF Accounts!MailSent, Accounts!To
  <2>3. req[r].code \in Codes
    BY <2>2 DEF AccountInv, RequestsKnow
  <2> HIDE DEF new
  <2>4. RequestsKept
    BY <2>1, <2>2, <2>3, RequestMoves
  <2>5. QED
    BY <1>1, <2>2, <2>4, AccountStep, AccountStutters
<1>4. CASE Accounts!MailRefused(r)
  <2>1. RequestsKept
    BY <1>4, RequestDone DEF Accounts!MailRefused
  <2>2. req[r].code \in Codes
    BY <1>4 DEF AccountInv, RequestsKnow, Accounts!MailRefused
  <2>3. MailKept
    <3> SUFFICES ASSUME NEW c \in Codes, c = req[r].code PROVE MailKept
      BY <2>2
    <3>1. CASE mail' = mail
      BY <3>1, AccountStutters
    <3>2. CASE mail[c].state = "pending" /\ mail' = [mail EXCEPT ![c].state = "failed"]
      BY <3>2, MailFields
    <3>3. QED
      BY <1>4, <3>1, <3>2 DEF Accounts!MailRefused
  <2>4. QED
    BY <1>1, <2>1, <2>3, AccountStep, AccountStutters
<1>5. CASE Accounts!ActivateChallenge(r)
  <2>1. RequestsKept
    BY <1>5, RequestDone DEF Accounts!ActivateChallenge
  <2>2. req[r].code \in Codes
    BY <1>5 DEF AccountInv, RequestsKnow, Accounts!ActivateChallenge
  <2>3. MailKept
    <3> SUFFICES ASSUME NEW c \in Codes, c = req[r].code PROVE MailKept
      BY <2>2
    <3>1. CASE mail' = mail
      BY <3>1, AccountStutters
    <3>2. CASE mail[c].state = "pending" /\ ~Accounts!Overtaken(c) /\ MailActivated(c)
      BY <3>2, MailActivatedFacts DEF MailKept, AccountInv
    <3>3. QED
      BY <1>5, <3>1, <3>2 DEF Accounts!ActivateChallenge, MailActivated, Codes, Accounts!Codes
  <2>4. QED
    BY <1>1, <2>1, <2>3, AccountStep, AccountStutters
<1>6. CASE Accounts!Abandon(r)
  <2>1. RequestsKept /\ mail' = mail
    BY <1>6, RequestDone DEF Accounts!Abandon
  <2>2. QED
    BY <1>1, <2>1, AccountStep, AccountStutters
<1>7. QED
  BY <1>3, <1>4, <1>5, <1>6

LEMMA ChecksKeep ==
  ASSUME AccountConstants, AccountInv, NEW r \in Requests, NEW c \in Codes,
         \/ \E e \in Emails, i \in Invites : Accounts!RegisterCheck(r, e, i, c)
         \/ Accounts!ResetCheck(r, c)
  PROVE  AccountInv'
<1>1. users' = users /\ invites' = invites /\ spent' = spent /\ mail' = mail
  BY DEF Accounts!RegisterCheck, Accounts!ResetCheck
<1>2. CASE \E e \in Emails, i \in Invites : Accounts!RegisterCheck(r, e, i, c)
  <2>1. PICK e \in Emails, i \in Invites :
          req' = [req EXCEPT ![r] = [ pc |-> "register", email |-> e, invite |-> i, code |-> c ]]
    BY <1>2 DEF Accounts!RegisterCheck
  <2> DEFINE new == [ pc |-> "register", email |-> e, invite |-> i, code |-> c ]
  <2>2. new \in AccountRequests /\ new.pc = "register" /\ new.email = e /\ new.invite = i /\ new.code = c
    BY DEF AccountRequests
  <2> HIDE DEF new
  <2>3. RequestsKept
    BY <2>1, <2>2, RequestMoves DEF new
  <2>4. QED
    BY <1>1, <2>3, AccountStep, AccountStutters
<1>3. CASE Accounts!ResetCheck(r, c)
  <2> DEFINE new == [Accounts!Idle EXCEPT !.pc = "reset", !.email = mail[c].email, !.code = c]
  <2>1. Accounts!Idle \in AccountRequests
    BY DEF Accounts!Idle, AccountRequests
  <2>2. mail[c] \in AccountMails
    BY DEF AccountInv, AccountTypes
  <2>3. mail[c].email \in Emails \cup { None }
    BY <2>2 DEF AccountMails
  <2>4. new \in AccountRequests /\ new.pc = "reset" /\ new.code = c
    BY <2>1, <2>3 DEF AccountRequests
  <2>5. req' = [req EXCEPT ![r] = new]
    BY <1>3 DEF Accounts!ResetCheck
  <2> HIDE DEF new
  <2>6. RequestsKept
    BY <2>4, <2>5, RequestMoves
  <2>7. QED
    BY <1>1, <2>6, AccountStep, AccountStutters
<1>4. QED
  BY <1>2, <1>3

LEMMA UsableIsReady ==
  ASSUME NEW c, NEW e, NEW p, Accounts!Usable(c, e, p)
  PROVE  c \in Codes /\ mail[c].state = "ready" /\ mail[c].email = e /\ mail[c].purpose = p
BY DEF Accounts!Usable, Accounts!OfPurpose, Codes, Accounts!Codes

\* replacePassword and the end of an account's challenges.
LEMMA ManyConsumed ==
  ASSUME AccountConstants, AccountInv, NEW e
  PROVE  /\ Accounts!replacePassword(e) => MailKept
         /\ mail' = [c \in Codes |-> IF mail[c].state # "none" /\ mail[c].email = e
                                       THEN Accounts!AsConsumed(c) ELSE mail[c]] => MailKept
<1> DEFINE R == { c \in Codes : mail[c].state # "none" /\ mail[c].email = e /\ mail[c].purpose = "reset" }
           A == { c \in Codes : mail[c].state # "none" /\ mail[c].email = e }
<1>1. ASSUME Accounts!replacePassword(e) PROVE MailConsumed(R)
  BY <1>1 DEF MailConsumed, Accounts!replacePassword, Accounts!AsConsumed, Accounts!OfPurpose, SamePurpose,
     Codes, Accounts!Codes
<1>2. ASSUME mail' = [c \in Codes |-> IF mail[c].state # "none" /\ mail[c].email = e
                                       THEN Accounts!AsConsumed(c) ELSE mail[c]]
      PROVE  MailConsumed(A)
  BY <1>2 DEF MailConsumed, Accounts!AsConsumed, SamePurpose
<1>3. ASSUME NEW S, MailConsumed(S) PROVE MailKept
  BY <1>3, MailConsumedFacts DEF MailKept, AccountInv
<1>4. QED
  BY <1>1, <1>2, <1>3

\* Register: the account is new, so no invitation was spent on its address,
\* and the code is ready, so it bought no other account.
LEMMA Registered ==
  ASSUME AccountConstants, AccountInv, NEW e \in Emails, NEW i \in Invites, NEW c \in Codes,
         users[e].state = "none", mail[c].state = "ready", invites[i] = "open",
         mail' = Accounts!Consumed(c), RequestsKept,
         NEW u \in AccountUsers, u.state = "on", users' = [users EXCEPT ![e] = u],
         invites' = [invites EXCEPT ![i] = e],
         spent' = [spent EXCEPT ![e] = c]
  PROVE  AccountInv'
<1>1. MailKept /\ mail'[c].state = "consumed"
  BY MailFields
<1>2. AccountTypes
  BY DEF AccountInv
<1>3. /\ users' \in [Emails -> AccountUsers] /\ users'[e].state = "on"
      /\ \A f \in Emails \ {e} : users'[f] = users[f]
  <2>1. users \in [Emails -> AccountUsers]
    BY <1>2 DEF AccountTypes
  <2>2. QED
    BY <2>1
<1>4. /\ invites' \in [Invites -> { "none", "open", "revoked" } \cup Emails] /\ invites'[i] = e
      /\ \A j \in Invites \ {i} : invites'[j] = invites[j]
  BY <1>2 DEF AccountTypes
<1>5. /\ spent' \in [Emails -> Codes \cup { None }] /\ spent'[e] = c
      /\ \A f \in Emails \ {e} : spent'[f] = spent[f]
  BY <1>2 DEF AccountTypes
<1>6. AccountTypes'
  BY <1>1, <1>3, <1>4, <1>5 DEF AccountTypes, MailKept, RequestsKept
<1>7. InvitationsSpent /\ c # None /\ "open" \notin Emails
  BY DEF AccountInv, AccountConstants
<1>8. \A j \in Invites : invites[j] # e
  BY <1>7 DEF InvitationsSpent
<1>9. ASSUME NEW f \in Emails \ {e}, spent[f] # None
      PROVE  /\ \E k \in Invites : \A j \in Invites : invites'[j] = f <=> j = k
             /\ mail'[spent[f]].state = "consumed" /\ spent[f] # c
             /\ \A g \in Emails \ {e} : spent[g] = spent[f] => g = f
  <2>1. PICK k \in Invites : \A j \in Invites : invites[j] = f <=> j = k
    BY <1>7, <1>9 DEF InvitationsSpent
  <2>2. i # k
    BY <1>7, <2>1
  <2>3. \A j \in Invites : invites'[j] = f <=> j = k
    BY <1>4, <2>1, <2>2
  <2>4. spent[f] \in Codes /\ mail[spent[f]].state = "consumed"
    BY <1>2, <1>7, <1>9 DEF AccountTypes, InvitationsSpent
  <2>5. mail'[spent[f]].state = "consumed" /\ spent[f] # c
    BY <1>1, <2>4 DEF MailKept
  <2>6. QED
    BY <1>7, <1>9, <2>3, <2>5 DEF InvitationsSpent
<1>10. \E k \in Invites : \A j \in Invites : invites'[j] = e <=> j = k
  BY <1>4, <1>8
<1>11. ASSUME NEW j \in Invites, invites'[j] \in Emails
       PROVE  users'[invites'[j]].state # "none" /\ spent'[invites'[j]] # None
  BY <1>3, <1>4, <1>5, <1>7, <1>11 DEF InvitationsSpent
<1>12. ASSUME NEW f \in Emails, spent'[f] # None
       PROVE  /\ \E k \in Invites : \A j \in Invites : invites'[j] = f <=> j = k
              /\ mail'[spent'[f]].state = "consumed"
              /\ \A g \in Emails : spent'[g] = spent'[f] => g = f
  <2>1. CASE f = e
    <3>1. \A g \in Emails : spent'[g] = c => g = e
      BY <1>5, <1>7, <1>9
    <3>2. QED
      BY <1>1, <1>5, <1>10, <2>1, <3>1
  <2>2. CASE f # e
    <3>1. f \in Emails \ {e} /\ spent'[f] = spent[f] /\ spent[f] # None
      BY <1>5, <1>12, <2>2
    <3>2. QED
      BY <1>5, <1>9, <3>1
  <2>3. QED
    BY <2>1, <2>2
<1>13. InvitationsSpent'
  BY <1>11, <1>12 DEF InvitationsSpent
<1>14. QED
  BY <1>1, <1>6, <1>13 DEF AccountInv, MailKept, RequestsKept

LEMMA RegisterKeeps ==
  ASSUME AccountConstants, AccountInv, NEW r \in Requests, Accounts!Register(r)
  PROVE  AccountInv'
<1>1. req[r].pc = "register"
  BY DEF Accounts!Register
<1>2. req[r].email \in Emails /\ req[r].invite \in Invites /\ req[r].code \in Codes
  BY <1>1 DEF AccountInv, RequestsKnow
<1>3. RequestsKept
  BY RequestDone DEF Accounts!Register
<1> SUFFICES ASSUME NEW e \in Emails, e = req[r].email, NEW i \in Invites, i = req[r].invite,
                    NEW c \in Codes, c = req[r].code
             PROVE  AccountInv'
  BY <1>2
<1>4. CASE /\ users[e].state = "none" /\ Accounts!Usable(c, e, "register") /\ Accounts!StillOpen(i)
           /\ mail' = Accounts!Consumed(c)
           /\ users' = [users EXCEPT ![e] = [ state |-> "on", verified |-> TRUE ]]
           /\ invites' = [invites EXCEPT ![i] = e]
           /\ spent' = [spent EXCEPT ![e] = c]
  <2>1. mail[c].state = "ready" /\ invites[i] = "open"
    BY <1>4, UsableIsReady DEF Accounts!StillOpen
  <2> DEFINE u == [ state |-> "on", verified |-> TRUE ]
  <2>2. u \in AccountUsers /\ u.state = "on"
    BY DEF AccountUsers
  <2>3. users' = [users EXCEPT ![e] = u]
    BY <1>4
  <2> HIDE DEF u
  <2>4. QED
    BY <1>3, <1>4, <2>1, <2>2, <2>3, Registered
<1>5. CASE Accounts!WrongCode(c) /\ UNCHANGED << users, invites, spent >>
  BY <1>3, <1>5, MailFields, AccountStep, AccountStutters
<1>6. CASE UNCHANGED << users, invites, mail, spent >>
  BY <1>3, <1>6, AccountStep, AccountStutters
<1>7. QED
  BY <1>4, <1>5, <1>6 DEF Accounts!Register

LEMMA VerifyEmailKeeps ==
  ASSUME AccountConstants, AccountInv, NEW e \in Emails, NEW c \in Codes, Accounts!VerifyEmail(e, c)
  PROVE  AccountInv'
<1>1. /\ invites' = invites /\ req' = req /\ spent' = spent
      /\ mail[c].state = "ready"
  BY UsableIsReady DEF Accounts!VerifyEmail
<1>2. MailKept
  BY <1>1, MailFields DEF Accounts!VerifyEmail
<1>3. CASE users' = [users EXCEPT ![e].verified = TRUE]
  <2>1. users \in [Emails -> AccountUsers] /\ users[e] \in AccountUsers
    BY DEF AccountInv, AccountTypes
  <2> DEFINE u == [users[e] EXCEPT !.verified = TRUE]
  <2>2. u \in AccountUsers /\ u.state = users[e].state
    BY <2>1 DEF AccountUsers
  <2>3. users' = [users EXCEPT ![e] = u]
    BY <1>3, <2>1
  <2> HIDE DEF u
  <2>4. AccountsKept
    BY <2>1, <2>2, <2>3 DEF AccountsKept
  <2>5. QED
    BY <1>1, <1>2, <2>4, AccountStep, AccountStutters
<1>4. CASE users' = users
  BY <1>1, <1>2, <1>4, AccountStep, AccountStutters
<1>5. QED
  BY <1>3, <1>4 DEF Accounts!VerifyEmail

LEMMA ResetWithProofKeeps ==
  ASSUME AccountConstants, AccountInv, NEW r \in Requests, Accounts!ResetWithProof(r)
  PROVE  AccountInv'
<1>1. RequestsKept /\ users' = users /\ invites' = invites /\ spent' = spent
  BY RequestDone DEF Accounts!ResetWithProof
<1>2. req[r].code \in Codes
  BY DEF AccountInv, RequestsKnow, Accounts!ResetWithProof
<1> SUFFICES ASSUME NEW e, e = req[r].email, NEW c \in Codes, c = req[r].code PROVE AccountInv'
  BY <1>2
<1>3. Accounts!replacePassword(e) \/ Accounts!WrongCode(c) \/ mail' = mail
  BY DEF Accounts!ResetWithProof
<1>4. MailKept
  BY <1>3, ManyConsumed, MailFields, AccountStutters
<1>5. QED
  BY <1>1, <1>4, AccountStep, AccountStutters

LEMMA AdministrationKeeps ==
  ASSUME AccountConstants, AccountInv, NEW e \in Emails,
         \/ \E on \in BOOLEAN : Accounts!SetEnabled(e, on)
         \/ Accounts!ResetPassword(e)
         \/ Accounts!BootstrapAdmin(e)
  PROVE  AccountInv'
<1>1. invites' = invites /\ req' = req /\ spent' = spent
  BY DEF Accounts!SetEnabled, Accounts!ResetPassword, Accounts!BootstrapAdmin
<1>2. users \in [Emails -> AccountUsers] /\ users[e] \in AccountUsers
  BY DEF AccountInv, AccountTypes
<1>3. ASSUME NEW on \in BOOLEAN, Accounts!SetEnabled(e, on) PROVE AccountsKept /\ MailKept
  <2> DEFINE u == [users[e] EXCEPT !.state = IF on THEN "on" ELSE "off"]
  <2>1. u \in AccountUsers /\ u.state # "none"
    BY <1>2 DEF AccountUsers
  <2>2. users' = [users EXCEPT ![e] = u]
    BY <1>2, <1>3 DEF Accounts!SetEnabled, Accounts!setEnabledTx
  <2> HIDE DEF u
  <2>3. AccountsKept
    BY <1>2, <2>1, <2>2 DEF AccountsKept
  <2>4. mail' = mail \/ mail' = [c \in Codes |-> IF mail[c].state # "none" /\ mail[c].email = e
                                       THEN Accounts!AsConsumed(c) ELSE mail[c]]
    BY <1>3 DEF Accounts!SetEnabled, Accounts!setEnabledTx, Codes, Accounts!Codes
  <2>5. MailKept
    BY <2>4, ManyConsumed, AccountStutters
  <2>6. QED
    BY <2>3, <2>5
<1>4. ASSUME Accounts!ResetPassword(e) PROVE AccountsKept /\ MailKept
  BY <1>4, ManyConsumed, AccountStutters DEF Accounts!ResetPassword
<1>5. ASSUME Accounts!BootstrapAdmin(e) PROVE AccountsKept /\ MailKept
  <2> DEFINE u == [ state |-> "on", verified |-> TRUE ]
  <2>1. u \in AccountUsers /\ u.state = "on"
    BY DEF AccountUsers
  <2>2. users' = [users EXCEPT ![e] = u] /\ mail' = mail
    BY <1>5 DEF Accounts!BootstrapAdmin
  <2> HIDE DEF u
  <2>3. AccountsKept
    BY <1>2, <2>1, <2>2 DEF AccountsKept
  <2>4. QED
    BY <2>2, <2>3, AccountStutters
<1>6. QED
  BY <1>1, <1>3, <1>4, <1>5, AccountStep, AccountStutters

LEMMA InvitationsKeep ==
  ASSUME AccountConstants, AccountInv, NEW i \in Invites, Accounts!NewInvitation(i) \/ Accounts!RevokeInvitation(i)
  PROVE  AccountInv'
<1>1. users' = users /\ req' = req /\ spent' = spent /\ mail' = mail
  BY DEF Accounts!NewInvitation, Accounts!RevokeInvitation
<1>2. AccountTypes /\ RequestsKept /\ MailKept /\ AccountsKept
  BY <1>1, AccountStutters DEF AccountInv
<1>3. /\ invites' \in [Invites -> { "none", "open", "revoked" } \cup Emails]
      /\ \A j \in Invites : invites'[j] = invites[j] \/ (invites[j] \notin Emails /\ invites'[j] \notin Emails)
  BY <1>2 DEF Accounts!NewInvitation, Accounts!RevokeInvitation, AccountConstants, AccountTypes
<1>4. InvitationsSpent'
  BY <1>1, <1>2, <1>3, InvitationsKept DEF AccountInv, MailKept, AccountsKept
<1>5. QED
  BY <1>1, <1>2, <1>3, <1>4 DEF AccountInv, AccountTypes, MailKept, RequestsKept

LEMMA ExpireKeeps ==
  ASSUME AccountConstants, AccountInv, NEW c \in Codes, Accounts!Expire(c)
  PROVE  AccountInv'
<1>1. users' = users /\ req' = req /\ spent' = spent /\ invites' = invites
  BY DEF Accounts!Expire
<1>2. MailKept
  BY MailFields DEF Accounts!Expire
<1>3. QED
  BY <1>1, <1>2, AccountStep, AccountStutters

LEMMA AccountInit ==
  ASSUME AccountConstants, Accounts!Init PROVE AccountInv
<1>1. /\ Accounts!NoMail \in AccountMails /\ Accounts!NoMail.state = "none"
      /\ Accounts!Idle \in AccountRequests /\ Accounts!Idle.pc = "idle"
  BY DEF Accounts!NoMail, Accounts!Idle, AccountMails, AccountRequests
<1>2. { Accounts!NoUser, [ state |-> "on", verified |-> FALSE ] } \subseteq AccountUsers
  BY DEF Accounts!NoUser, AccountUsers
<1>3. /\ mail = [c \in Codes |-> Accounts!NoMail] /\ invites = [i \in Invites |-> "none"]
      /\ req = [r \in Requests |-> Accounts!Idle] /\ spent = [e \in Emails |-> None]
      /\ users \in [Emails -> AccountUsers]
  BY <1>2 DEF Accounts!Init, Codes, Accounts!Codes
<1>4. AccountTypes /\ RequestsKnow
  BY <1>1, <1>3 DEF AccountTypes, RequestsKnow
<1>5. InvitationsSpent
  BY <1>3 DEF InvitationsSpent, AccountConstants
<1>6. Accounts!LatestCodeWins
  BY <1>1, <1>3 DEF Accounts!LatestCodeWins, Codes, Accounts!Codes
<1>7. QED
  BY <1>4, <1>5, <1>6 DEF AccountInv

LEMMA AccountInductive ==
  ASSUME AccountConstants, AccountInv, [Accounts!Next]_(Accounts!vars) PROVE AccountInv'
<1>1. CASE UNCHANGED Accounts!vars
  BY <1>1, AccountStep, AccountStutters DEF Accounts!vars
<1>2. Accounts!Codes = Codes
  BY DEF Accounts!Codes, Codes
<1>3. CASE \E r \in Requests, e \in Emails, p \in Accounts!Purposes, i \in Invites \cup { None } :
             Accounts!BeginChallenge(r, e, p, i)
  BY <1>3, BeginChallengeKeeps
<1>4. CASE \/ \E r \in Requests, e \in Emails, i \in Invites, c \in Codes : Accounts!RegisterCheck(r, e, i, c)
           \/ \E r \in Requests, c \in Codes : Accounts!ResetCheck(r, c)
  BY <1>4, ChecksKeep
<1>5. CASE \E e \in Emails, c \in Codes : Accounts!VerifyEmail(e, c)
  BY <1>5, VerifyEmailKeeps
<1>6. CASE \E r \in Requests :
             \/ Accounts!MailSent(r) \/ Accounts!MailRefused(r) \/ Accounts!ActivateChallenge(r)
             \/ Accounts!Register(r) \/ Accounts!ResetWithProof(r) \/ Accounts!Abandon(r)
  BY <1>6, MailStepsKeep, RegisterKeeps, ResetWithProofKeeps
<1>7. CASE \/ \E e \in Emails, on \in BOOLEAN : Accounts!SetEnabled(e, on)
           \/ \E e \in Emails : Accounts!ResetPassword(e) \/ Accounts!BootstrapAdmin(e)
  BY <1>7, AdministrationKeeps
<1>8. CASE \E i \in Invites : Accounts!NewInvitation(i) \/ Accounts!RevokeInvitation(i)
  BY <1>8, InvitationsKeep
<1>9. CASE \E c \in Codes : Accounts!Expire(c)
  BY <1>9, ExpireKeeps
<1>10. QED
  BY <1>1, <1>2, <1>3, <1>4, <1>5, <1>6, <1>7, <1>8, <1>9 DEF Accounts!Next

\* The account store of any size keeps its invariant.
THEOREM AccountInvariant ==
  ASSUME AccountConstants PROVE Accounts!Spec => []AccountInv
<1>1. Accounts!Init => AccountInv
  BY AccountInit
<1>2. AccountInv /\ [Accounts!Next]_(Accounts!vars) => AccountInv'
  BY AccountInductive
<1>3. QED
  BY <1>1, <1>2, PTL DEF Accounts!Spec

\* ActivateChallenge and consumeProof: of the codes mailed to an address for a
\* purpose only the newest that was activated works, however late the mail
\* server accepts them, for any number of requests and challenges.
THEOREM NewestCodeWins ==
  ASSUME AccountConstants PROVE Accounts!Spec => []Accounts!LatestCodeWins
<1>1. AccountInv => Accounts!LatestCodeWins
  BY DEF AccountInv
<1>2. QED
  BY <1>1, AccountInvariant, PTL

\* Register: an invitation and a code buy one account, whatever registrations,
\* revocations and administrators race for them.
THEOREM InvitationsBuyOnce ==
  ASSUME AccountConstants PROVE Accounts!Spec => []Accounts!InvitationBuysOneAccount
<1>1. AccountInv => Accounts!InvitationBuysOneAccount
  <2> SUFFICES ASSUME AccountInv PROVE Accounts!InvitationBuysOneAccount
    OBVIOUS
  <2>1. InvitationsSpent
    BY DEF AccountInv
  <2>2. ASSUME NEW e \in Emails, spent[e] # None
        PROVE  /\ Cardinality({ i \in Invites : invites[i] = e }) = 1
               /\ mail[spent[e]].state = "consumed"
               /\ \A f \in Emails : spent[f] = spent[e] => f = e
    <3>1. PICK i \in Invites : \A j \in Invites : invites[j] = e <=> j = i
      BY <2>1, <2>2 DEF InvitationsSpent
    <3>2. { j \in Invites : invites[j] = e } = {i}
      BY <3>1
    <3>3. Cardinality({ k \in Invites : invites[k] = e }) = 1
      BY <3>2, FS_Singleton
    <3>4. QED
      BY <2>1, <2>2, <3>3 DEF InvitationsSpent
  <2>3. \A i \in Invites : invites[i] \in Emails =>
          users[invites[i]].state # "none" /\ spent[invites[i]] # None
    BY <2>1 DEF InvitationsSpent
  <2>4. QED
    BY <2>2, <2>3 DEF Accounts!InvitationBuysOneAccount, Accounts!Cardinality, Cardinality
<1>2. QED
  BY <1>1, AccountInvariant, PTL

-----------------------------------------------------------------------------
(* HostedWorkers.                                                          *)

WorkerBoxes == [here : BOOLEAN, running : BOOLEAN, gen : Nat, image : Images \cup {"none"}]
WorkerJobs ==
    [ pc : { "list", "volume", "mark", "inspect", "replace", "create", "start", "probe" },
      user : Users, exists : BOOLEAN ]
Present == { u \in Users : box[u].here }

WorkerTypes ==
    /\ gen \in [Users -> Nat] /\ initialized \in [Users -> BOOLEAN]
    /\ box \in [Users -> WorkerBoxes]
    /\ volume \in [Users -> { "none", "empty", "written" }]
    /\ allocations \in [Users -> Nat] /\ worked \in [Users -> BOOLEAN] /\ image \in Images
    /\ job = Workers!NoJob \/ job \in WorkerJobs

\* A container is of the current generation, on a volume that is marked, and
\* so is data; an assignment is of the current generation.
BoxesSound ==
    \A u \in Users :
      /\ box[u].here => box[u].gen = gen[u] /\ gen[u] # 0 /\ initialized[u]
      /\ box[u].running => box[u].here
      /\ worked[u] => initialized[u] /\ volume[u] # "empty"
      /\ allocations[u] \in { 0, gen[u] }

\* The Ensure that holds the mutex: its account has a generation and no
\* assignment, its volume is marked before a container is touched, and no
\* container is there when the generation is replaced.
JobSound ==
    job # Workers!NoJob =>
      /\ gen[job.user] # 0 /\ allocations[job.user] = 0
      /\ job.pc \in { "inspect", "replace", "create", "start", "probe" } => initialized[job.user]
      /\ job.pc \in { "volume", "mark" } /\ ~job.exists => ~box[job.user].here
      /\ job.pc = "replace" => ~box[job.user].here

\* The place of the container is taken when the containers are listed.
PlacesHeld ==
    /\ Cardinality(Present) <= MaxWorkers
    /\ job # Workers!NoJob /\ job.pc # "list" => Cardinality(Present \cup { job.user }) <= MaxWorkers

WorkerInv == WorkerTypes /\ BoxesSound /\ JobSound /\ PlacesHeld

LEMMA WorkerJobFacts ==
  ASSUME WorkerTypes, job # Workers!NoJob
  PROVE  job \in WorkerJobs /\ job.user \in Users /\ job.exists \in BOOLEAN
BY DEF WorkerTypes, WorkerJobs

\* A step that only loses containers keeps what is held of the places.
LEMMA PlacesKept ==
  ASSUME WorkerConstants, PlacesHeld, Present' \subseteq Present,
         job' = Workers!NoJob \/ (/\ job # Workers!NoJob /\ job'.user = job.user
                                  /\ job.pc # "list" \/ job'.pc = "list")
  PROVE  PlacesHeld'
<1>1. IsFiniteSet(Present) /\ \A u : IsFiniteSet(Present \cup { u })
  <2>1. IsFiniteSet(Present)
    BY FS_Subset, Present \subseteq Users DEF WorkerConstants, Present
  <2>2. QED
    BY <2>1, FS_AddElement
<1>2. /\ Cardinality(Present') <= Cardinality(Present) /\ Cardinality(Present') \in Nat
      /\ Cardinality(Present) \in Nat
  BY <1>1, FS_Subset, FS_CardinalityType
<1>3. /\ Cardinality(Present' \cup { job.user }) <= Cardinality(Present \cup { job.user })
      /\ Cardinality(Present' \cup { job.user }) \in Nat /\ Cardinality(Present \cup { job.user }) \in Nat
  <2>1. IsFiniteSet(Present \cup { job.user }) /\ (Present' \cup { job.user }) \subseteq (Present \cup { job.user })
    BY <1>1
  <2>2. IsFiniteSet(Present' \cup { job.user }) /\ Cardinality(Present' \cup { job.user }) <= Cardinality(Present \cup { job.user })
    BY <2>1, FS_Subset
  <2>3. QED
    BY <2>1, <2>2, FS_CardinalityType
<1>4. MaxWorkers \in Nat
  BY DEF WorkerConstants
<1>5. (Cardinality(Present) <= MaxWorkers)'
  BY <1>2, <1>4 DEF PlacesHeld
<1>6. ASSUME job' # Workers!NoJob, job'.pc # "list"
      PROVE  Cardinality(Present' \cup { job'.user }) <= MaxWorkers
  <2>1. job # Workers!NoJob /\ job.pc # "list" /\ job'.user = job.user
    BY <1>6
  <2>2. Cardinality(Present \cup { job.user }) <= MaxWorkers
    BY <2>1 DEF PlacesHeld
  <2>3. Cardinality(Present' \cup { job.user }) <= MaxWorkers
    BY <1>3, <1>4, <2>2
  <2>4. QED
    BY <2>1, <2>3
<1>7. Workers!NoJob' = Workers!NoJob
  BY DEF Workers!NoJob
<1>8. QED
  BY <1>5, <1>6, <1>7 DEF PlacesHeld

\* The step of the Ensure that only moves the Ensure on, or ends it.
LEMMA WorkerGo ==
  ASSUME WorkerTypes, job # Workers!NoJob,
         NEW pc \in { "volume", "mark", "inspect", "replace", "create", "start", "probe" }, Workers!Go(pc)
  PROVE  /\ job' \in WorkerJobs /\ job'.pc = pc /\ job'.user = job.user /\ job'.exists = job.exists
         /\ job' # Workers!NoJob
<1>1. job \in WorkerJobs
  BY WorkerJobFacts
<1>2. job' \in WorkerJobs /\ job'.pc = pc /\ job'.user = job.user /\ job'.exists = job.exists
  BY <1>1 DEF Workers!Go, WorkerJobs
<1>3. QED
  BY <1>2 DEF Workers!NoJob, WorkerJobs

\* Ensure starts: the account has a generation and no assignment.
LEMMA EnsureBeginKeeps ==
  ASSUME WorkerConstants, WorkerInv, NEW u \in Users, Workers!EnsureBegin(u)
  PROVE  WorkerInv'
<1>1. WorkerTypes /\ BoxesSound /\ PlacesHeld
  BY DEF WorkerInv
<1>2. /\ gen' \in [Users -> Nat] /\ gen'[u] # 0 /\ (gen[u] # 0 => gen'[u] = gen[u])
      /\ \A v \in Users \ {u} : gen'[v] = gen[v]
  BY <1>1 DEF Workers!EnsureBegin, WorkerTypes
<1>3. /\ allocations' \in [Users -> Nat] /\ allocations'[u] = 0
      /\ \A v \in Users \ {u} : allocations'[v] = allocations[v]
  BY <1>1 DEF Workers!EnsureBegin, WorkerTypes
<1>4. initialized' = initialized /\ box' = box /\ volume' = volume /\ worked' = worked /\ image' = image
  BY DEF Workers!EnsureBegin, Workers!docker
<1>5. job' \in WorkerJobs /\ job'.pc = "list" /\ job'.user = u
  BY DEF Workers!EnsureBegin, WorkerJobs
<1>6. WorkerTypes'
  BY <1>1, <1>2, <1>3, <1>4, <1>5 DEF WorkerTypes
<1>7. BoxesSound'
  BY <1>1, <1>2, <1>3, <1>4 DEF BoxesSound
<1>8. JobSound'
  BY <1>2, <1>3, <1>5 DEF JobSound
<1>9. PlacesHeld'
  BY <1>1, <1>4, <1>5 DEF PlacesHeld, Present
<1>10. QED
  BY <1>6, <1>7, <1>8, <1>9 DEF WorkerInv

\* EnsureList takes the place.
LEMMA EnsureListKeeps ==
  ASSUME WorkerConstants, WorkerInv, Workers!EnsureList
  PROVE  WorkerInv'
<1>1. WorkerTypes /\ BoxesSound /\ JobSound /\ PlacesHeld /\ job.pc = "list"
  BY DEF WorkerInv, Workers!EnsureList
<1>2. job # Workers!NoJob
  BY <1>1 DEF Workers!NoJob
<1>3. job \in WorkerJobs /\ job.user \in Users
  BY <1>1, <1>2, WorkerJobFacts
<1>4. /\ gen' = gen /\ initialized' = initialized /\ box' = box /\ volume' = volume
      /\ allocations' = allocations /\ worked' = worked /\ image' = image
  BY DEF Workers!EnsureList, Workers!store, Workers!docker
<1>5. BoxesSound'
  BY <1>1, <1>4 DEF BoxesSound
<1>6. CASE job' = Workers!NoJob
  <2>1. PlacesHeld'
    BY <1>1, <1>4, <1>6, PlacesKept DEF Present
  <2>2. QED
    BY <1>1, <1>4, <1>5, <1>6, <2>1 DEF WorkerInv, WorkerTypes, JobSound, Workers!NoJob
<1>7. CASE /\ box[job.user].here \/ Cardinality(Workers!Boxes) < MaxWorkers
           /\ job' = [job EXCEPT !.pc = "volume", !.exists = box[job.user].here]
  <2> SUFFICES ASSUME NEW u \in Users, u = job.user PROVE WorkerInv'
    BY <1>3
  <2>1. box[u] \in WorkerBoxes
    BY <1>1 DEF WorkerTypes
  <2>2. box[u].here \in BOOLEAN
    BY <2>1 DEF WorkerBoxes
  <2>3. job' \in WorkerJobs /\ job'.pc = "volume" /\ job'.user = u /\ job'.exists = box[u].here
    BY <1>3, <1>7, <2>2 DEF WorkerJobs
  <2>4. IsFiniteSet(Present)
    BY FS_Subset, Present \subseteq Users DEF WorkerConstants, Present
  <2>5. Cardinality(Present \cup { u }) <= MaxWorkers
    <3>1. CASE box[u].here
      <4>1. Present \cup { u } = Present
        BY <3>1 DEF Present
      <4>2. QED
        BY <1>1, <4>1 DEF PlacesHeld
    <3>2. CASE ~box[u].here
      <4>1. u \notin Present
        BY <3>2 DEF Present
      <4>2. Cardinality(Present) < MaxWorkers
        BY <1>7, <3>2 DEF Workers!Boxes, Present, Workers!Cardinality, Cardinality
      <4>3. Cardinality(Present \cup { u }) = Cardinality(Present) + 1 /\ Cardinality(Present) \in Nat
        BY <2>4, <4>1, FS_AddElement, FS_CardinalityType
      <4>4. MaxWorkers \in Nat
        BY DEF WorkerConstants
      <4>5. QED
        BY <4>2, <4>3, <4>4
    <3>3. QED
      BY <3>1, <3>2
  <2>6. PlacesHeld'
    <3>1. Present' = Present
      BY <1>4 DEF Present
    <3>2. QED
      BY <1>1, <2>3, <2>5, <3>1 DEF PlacesHeld
  <2>7. WorkerTypes'
    BY <1>1, <1>4, <2>3 DEF WorkerTypes
  <2>8. JobSound'
    BY <1>1, <1>2, <1>4, <2>3 DEF JobSound
  <2>9. QED
    BY <1>5, <2>6, <2>7, <2>8 DEF WorkerInv
<1>9. \/ job' = Workers!NoJob
      \/ /\ box[job.user].here \/ Cardinality(Workers!Boxes) < MaxWorkers
         /\ job' = [job EXCEPT !.pc = "volume", !.exists = box[job.user].here]
  BY DEF Workers!EnsureList, Workers!Return, Workers!Cardinality, Cardinality
<1>10. QED
  BY <1>6, <1>7, <1>9

\* A later step of the Ensure, or its end, that makes no container.
WorkerMoves(pcs) ==
    /\ job # Workers!NoJob /\ job.pc # "list"
    /\ \/ job' = Workers!NoJob
       \/ \E pc \in pcs : Workers!Go(pc)

LEMMA EnsureMoves ==
  ASSUME WorkerTypes,
         NEW pcs \in SUBSET { "volume", "mark", "inspect", "replace", "create", "start", "probe" }, WorkerMoves(pcs)
  PROVE  /\ job \in WorkerJobs /\ job.user \in Users
         /\ \/ job' = Workers!NoJob
            \/ /\ job' \in WorkerJobs /\ job'.pc \in pcs /\ job'.pc # "list"
               /\ job'.user = job.user /\ job'.exists = job.exists
         /\ job' = Workers!NoJob' \/ job' \in WorkerJobs'
         /\ WorkerConstants /\ PlacesHeld /\ Present' \subseteq Present => PlacesHeld'
<1>1. job # Workers!NoJob /\ job.pc # "list"
  BY DEF WorkerMoves
<1>2. job \in WorkerJobs /\ job.user \in Users
  BY <1>1, WorkerJobFacts
<1>3. \/ job' = Workers!NoJob
      \/ /\ job' \in WorkerJobs /\ job'.pc \in pcs /\ job'.pc # "list"
         /\ job'.user = job.user /\ job'.exists = job.exists
  BY <1>1, WorkerGo DEF WorkerMoves
<1>4. job' = Workers!NoJob' \/ job' \in WorkerJobs'
  BY <1>3 DEF Workers!NoJob, WorkerJobs
<1>5. WorkerConstants /\ PlacesHeld /\ Present' \subseteq Present => PlacesHeld'
  BY <1>1, <1>3, PlacesKept
<1>6. QED
  BY <1>2, <1>3, <1>4, <1>5

\* The volume is made unless data of the account is missing, and marked.
LEMMA EnsureVolumeKeeps ==
  ASSUME WorkerConstants, WorkerInv, Workers!EnsureVolume
  PROVE  WorkerInv'
<1>1. WorkerTypes /\ BoxesSound /\ JobSound /\ PlacesHeld /\ job.pc = "volume"
  BY DEF WorkerInv, Workers!EnsureVolume
<1>2. WorkerMoves({ "mark" })
  BY <1>1 DEF Workers!EnsureVolume, Workers!Return, WorkerMoves, Workers!NoJob
<1>3. /\ gen' = gen /\ initialized' = initialized /\ box' = box
      /\ allocations' = allocations /\ worked' = worked /\ image' = image
  BY DEF Workers!EnsureVolume, Workers!store
<1>4. job.user \in Users /\ job # Workers!NoJob
  BY <1>1, <1>2, EnsureMoves DEF WorkerMoves
<1>5. /\ volume' \in [Users -> { "none", "empty", "written" }]
      /\ \A v \in Users : volume'[v] = "empty" => volume[v] = "empty" \/ ~initialized[v]
  <2> SUFFICES ASSUME NEW u \in Users, u = job.user
               PROVE  /\ volume' \in [Users -> { "none", "empty", "written" }]
                      /\ \A v \in Users : volume'[v] = "empty" => volume[v] = "empty" \/ ~initialized[v]
    BY <1>4
  <2>1. volume \in [Users -> { "none", "empty", "written" }]
    BY <1>1 DEF WorkerTypes
  <2>2. CASE volume' = volume
    BY <2>1, <2>2
  <2>3. CASE ~Workers!DataMissing(u) /\ volume' = [volume EXCEPT ![u] = IF @ = "none" THEN "empty" ELSE @]
    BY <2>1, <2>3 DEF Workers!DataMissing
  <2>4. QED
    BY <2>2, <2>3 DEF Workers!EnsureVolume
<1>6. WorkerTypes'
  BY <1>1, <1>2, <1>3, <1>5, EnsureMoves DEF WorkerTypes
<1>7. BoxesSound'
  BY <1>1, <1>3, <1>5 DEF BoxesSound
<1>8. JobSound'
  BY <1>1, <1>2, <1>3, <1>4, EnsureMoves DEF JobSound, Workers!NoJob
<1>9. PlacesHeld'
  BY <1>1, <1>2, <1>3, EnsureMoves DEF Present
<1>10. QED
  BY <1>6, <1>7, <1>8, <1>9 DEF WorkerInv

LEMMA EnsureMarkKeeps ==
  ASSUME WorkerConstants, WorkerInv, Workers!EnsureMark
  PROVE  WorkerInv'
<1>1. WorkerTypes /\ BoxesSound /\ JobSound /\ PlacesHeld /\ job.pc = "mark"
  BY DEF WorkerInv, Workers!EnsureMark
<1>2. WorkerMoves({ "inspect", "replace" })
  BY <1>1 DEF Workers!EnsureMark, Workers!Return, WorkerMoves, Workers!NoJob
<1>3. /\ gen' = gen /\ box' = box /\ volume' = volume
      /\ allocations' = allocations /\ worked' = worked /\ image' = image
  BY DEF Workers!EnsureMark, Workers!docker
<1>4. job \in WorkerJobs /\ job.user \in Users /\ job # Workers!NoJob
  BY <1>1, <1>2, EnsureMoves DEF WorkerMoves
<1>5. /\ initialized' \in [Users -> BOOLEAN]
      /\ \A v \in Users : initialized[v] => initialized'[v]
      /\ job' # Workers!NoJob => initialized'[job.user] /\ (job'.pc = "replace" => ~job.exists)
  <2> SUFFICES ASSUME NEW u \in Users, u = job.user
               PROVE  /\ initialized' \in [Users -> BOOLEAN]
                      /\ \A v \in Users : initialized[v] => initialized'[v]
                      /\ job' # Workers!NoJob => initialized'[job.user] /\ (job'.pc = "replace" => ~job.exists)
    BY <1>4
  <2>1. initialized \in [Users -> BOOLEAN]
    BY <1>1 DEF WorkerTypes
  <2>2. CASE /\ initialized' = [initialized EXCEPT ![u] = TRUE]
             /\ Workers!Go(IF job.exists THEN "inspect" ELSE "replace") \/ Workers!Return
    BY <1>4, <2>1, <2>2 DEF Workers!Go, Workers!Return, WorkerJobs
  <2>3. CASE Workers!Return /\ initialized' = initialized
    BY <2>1, <2>3 DEF Workers!Return
  <2>4. QED
    BY <2>2, <2>3 DEF Workers!EnsureMark
<1>6. WorkerTypes'
  BY <1>1, <1>2, <1>3, <1>5, EnsureMoves DEF WorkerTypes
<1>7. BoxesSound'
  BY <1>1, <1>3, <1>5 DEF BoxesSound
<1>8. JobSound'
  BY <1>1, <1>2, <1>3, <1>4, <1>5, EnsureMoves DEF JobSound, Workers!NoJob
<1>9. PlacesHeld'
  BY <1>1, <1>2, <1>3, EnsureMoves DEF Present
<1>10. QED
  BY <1>6, <1>7, <1>8, <1>9 DEF WorkerInv

\* A container runs or stops running; nothing else of it changes.
LEMMA BoxFlips ==
  ASSUME WorkerTypes, NEW u \in Users, NEW on \in BOOLEAN, box' = [box EXCEPT ![u].running = on]
  PROVE  /\ box' \in [Users -> WorkerBoxes]
         /\ \A v \in Users : box'[v].here = box[v].here /\ box'[v].gen = box[v].gen
         /\ \A v \in Users \ {u} : box'[v] = box[v]
         /\ box'[u].running = on
         /\ Present' = Present
<1>1. box \in [Users -> WorkerBoxes] /\ box[u] \in WorkerBoxes
  BY DEF WorkerTypes
<1> DEFINE new == [box[u] EXCEPT !.running = on]
<1>2. new \in WorkerBoxes /\ new.here = box[u].here /\ new.gen = box[u].gen /\ new.running = on
  BY <1>1 DEF WorkerBoxes
<1>3. box' = [box EXCEPT ![u] = new]
  BY <1>1
<1> HIDE DEF new
<1>4. /\ box' \in [Users -> WorkerBoxes] /\ box'[u] = new
      /\ \A v \in Users \ {u} : box'[v] = box[v]
  BY <1>1, <1>2, <1>3
<1>5. \A v \in Users : box'[v].here = box[v].here /\ box'[v].gen = box[v].gen
  BY <1>2, <1>4
<1>6. Present' = Present
  BY <1>5 DEF Present
<1>7. QED
  BY <1>2, <1>4, <1>5, <1>6

\* A container that is there is started, by an Ensure that found or made it.
LEMMA EnsureRunsKeeps ==
  ASSUME WorkerConstants, WorkerInv, Workers!EnsureInspect \/ Workers!EnsureStart
  PROVE  WorkerInv'
<1>1. /\ WorkerTypes /\ BoxesSound /\ JobSound /\ PlacesHeld /\ job.pc \in { "inspect", "start" }
      /\ WorkerMoves({ "probe" })
  BY DEF WorkerInv, Workers!EnsureInspect, Workers!EnsureStart, WorkerMoves, Workers!Return, Workers!NoJob
<1>2. /\ gen' = gen /\ initialized' = initialized /\ volume' = volume
      /\ allocations' = allocations /\ worked' = worked /\ image' = image
  BY DEF Workers!EnsureInspect, Workers!EnsureStart, Workers!store
<1>3. job.user \in Users /\ job # Workers!NoJob
  BY <1>1, EnsureMoves DEF WorkerMoves
<1>4. /\ box' \in [Users -> WorkerBoxes] /\ Present' = Present
      /\ \A v \in Users : /\ box'[v].here = box[v].here /\ box'[v].gen = box[v].gen
                          /\ box'[v].running => box[v].running \/ box[v].here
  <2> SUFFICES ASSUME NEW u \in Users, u = job.user
               PROVE  /\ box' \in [Users -> WorkerBoxes] /\ Present' = Present
                      /\ \A v \in Users : /\ box'[v].here = box[v].here /\ box'[v].gen = box[v].gen
                                          /\ box'[v].running => box[v].running \/ box[v].here
    BY <1>3
  <2>1. CASE box' = box
    BY <1>1, <2>1 DEF WorkerTypes, Present
  <2>2. CASE box[u].here /\ box' = [box EXCEPT ![u].running = TRUE]
    BY <1>1, <2>2, BoxFlips
  <2>3. QED
    BY <2>1, <2>2 DEF Workers!EnsureInspect, Workers!EnsureStart
<1>5. WorkerTypes'
  BY <1>1, <1>2, <1>4, EnsureMoves DEF WorkerTypes
<1>6. BoxesSound'
  BY <1>1, <1>2, <1>4 DEF BoxesSound
<1>7. JobSound'
  BY <1>1, <1>2, <1>3, EnsureMoves DEF JobSound, Workers!NoJob
<1>8. PlacesHeld'
  BY <1>1, <1>4, EnsureMoves
<1>9. QED
  BY <1>5, <1>6, <1>7, <1>8 DEF WorkerInv

\* The generation is replaced while no container and no assignment has it.
LEMMA EnsureReplaceKeeps ==
  ASSUME WorkerConstants, WorkerInv, Workers!EnsureReplace
  PROVE  WorkerInv'
<1>1. /\ WorkerTypes /\ BoxesSound /\ JobSound /\ PlacesHeld /\ job.pc = "replace"
      /\ WorkerMoves({ "create" })
  BY DEF WorkerInv, Workers!EnsureReplace, WorkerMoves, Workers!Return, Workers!NoJob
<1>2. /\ initialized' = initialized /\ box' = box /\ volume' = volume
      /\ allocations' = allocations /\ worked' = worked /\ image' = image
  BY DEF Workers!EnsureReplace, Workers!docker
<1>3. job.user \in Users /\ job # Workers!NoJob
  BY <1>1, EnsureMoves DEF WorkerMoves
<1>4. ~box[job.user].here /\ allocations[job.user] = 0 /\ gen[job.user] # 0
  BY <1>1, <1>3 DEF JobSound
<1>5. /\ gen' \in [Users -> Nat] /\ gen'[job.user] # 0
      /\ \A v \in Users : gen'[v] = gen[v] \/ (~box[v].here /\ allocations[v] = 0)
  <2> SUFFICES ASSUME NEW u \in Users, u = job.user
               PROVE  /\ gen' \in [Users -> Nat] /\ gen'[u] # 0
                      /\ \A v \in Users : gen'[v] = gen[v] \/ (~box[v].here /\ allocations[v] = 0)
    BY <1>3
  <2>1. gen \in [Users -> Nat]
    BY <1>1 DEF WorkerTypes
  <2>2. CASE gen' = gen
    BY <1>4, <2>1, <2>2
  <2>3. CASE gen' = [gen EXCEPT ![u] = @ + 1]
    BY <1>4, <2>1, <2>3
  <2>4. QED
    BY <2>2, <2>3 DEF Workers!EnsureReplace
<1>6. WorkerTypes'
  BY <1>1, <1>2, <1>5, EnsureMoves DEF WorkerTypes
<1>7. BoxesSound'
  BY <1>1, <1>2, <1>5 DEF BoxesSound
<1>8. JobSound'
  BY <1>1, <1>2, <1>3, <1>5, EnsureMoves DEF JobSound, Workers!NoJob
<1>9. PlacesHeld'
  BY <1>1, <1>2, EnsureMoves DEF Present
<1>10. QED
  BY <1>6, <1>7, <1>8, <1>9 DEF WorkerInv

\* The container takes the place that was held for it.
LEMMA EnsureCreateKeeps ==
  ASSUME WorkerConstants, WorkerInv, Workers!EnsureCreate
  PROVE  WorkerInv'
<1>1. /\ WorkerTypes /\ BoxesSound /\ JobSound /\ PlacesHeld /\ job.pc = "create"
      /\ WorkerMoves({ "start" })
  BY DEF WorkerInv, Workers!EnsureCreate, WorkerMoves, Workers!Return, Workers!NoJob
<1>2. /\ gen' = gen /\ initialized' = initialized /\ volume' = volume
      /\ allocations' = allocations /\ worked' = worked /\ image' = image
  BY DEF Workers!EnsureCreate, Workers!store
<1>3. job.user \in Users /\ job # Workers!NoJob
  BY <1>1, EnsureMoves DEF WorkerMoves
<1>4. gen[job.user] # 0 /\ initialized[job.user]
  BY <1>1, <1>3 DEF JobSound
<1>5. CASE box' = box
  <2>1. BoxesSound' /\ WorkerTypes'
    BY <1>1, <1>2, <1>5, EnsureMoves DEF BoxesSound, WorkerTypes
  <2>2. JobSound'
    BY <1>1, <1>2, <1>3, EnsureMoves DEF JobSound, Workers!NoJob
  <2>3. PlacesHeld'
    BY <1>1, <1>5, EnsureMoves DEF Present
  <2>4. QED
    BY <2>1, <2>2, <2>3 DEF WorkerInv
<1>6. CASE box' = [box EXCEPT ![job.user] = [ here |-> TRUE, running |-> FALSE,
                                              gen |-> gen[job.user], image |-> image ]]
  <2> SUFFICES ASSUME NEW u \in Users, u = job.user PROVE WorkerInv'
    BY <1>3
  <2> DEFINE new == [ here |-> TRUE, running |-> FALSE, gen |-> gen[u], image |-> image ]
  <2>1. gen[u] \in Nat /\ image \in Images /\ box \in [Users -> WorkerBoxes]
    BY <1>1 DEF WorkerTypes
  <2>2. new \in WorkerBoxes /\ new.here /\ ~new.running /\ new.gen = gen[u]
    BY <2>1 DEF WorkerBoxes
  <2>3. box' = [box EXCEPT ![u] = new]
    BY <1>6
  <2> HIDE DEF new
  <2>4. /\ box' \in [Users -> WorkerBoxes] /\ box'[u] = new
        /\ \A v \in Users \ {u} : box'[v] = box[v]
    BY <2>1, <2>2, <2>3
  <2>5. WorkerTypes'
    BY <1>1, <1>2, <2>4, EnsureMoves DEF WorkerTypes
  <2>6. BoxesSound'
    BY <1>1, <1>2, <1>4, <2>2, <2>4 DEF BoxesSound
  <2>7. JobSound'
    BY <1>1, <1>2, <1>3, EnsureMoves DEF JobSound, Workers!NoJob
  <2>8. Present' = Present \cup { u } /\ Present \cup { u } = Present' \cup { u }
    BY <2>2, <2>4 DEF Present
  <2>9. Cardinality(Present') <= MaxWorkers /\ Cardinality(Present' \cup { u }) <= MaxWorkers
    <3>1. Cardinality(Present \cup { job.user }) <= MaxWorkers
      BY <1>1, <1>3 DEF PlacesHeld
    <3>2. Present \cup { job.user } = Present' /\ Present \cup { job.user } = Present' \cup { u }
      BY <2>8
    <3>3. QED
      BY <3>1, <3>2
  <2>10. PlacesHeld'
    <3>1. job' = Workers!NoJob \/ job'.user = u
      BY <1>1, EnsureMoves
    <3>2. (Cardinality(Present) <= MaxWorkers)'
      BY <2>9
    <3>3. ASSUME job' # Workers!NoJob PROVE Cardinality(Present' \cup { job'.user }) <= MaxWorkers
      <4>1. { job'.user } = { u }
        BY <3>1, <3>3
      <4>2. QED
        BY <2>9, <4>1
    <3>4. QED
      BY <3>2, <3>3 DEF PlacesHeld, Workers!NoJob
  <2>11. QED
    BY <2>5, <2>6, <2>7, <2>10 DEF WorkerInv
<1>7. QED
  BY <1>5, <1>6 DEF Workers!EnsureCreate

LEMMA EnsureProbeKeeps ==
  ASSUME WorkerConstants, WorkerInv, Workers!EnsureProbe
  PROVE  WorkerInv'
<1>1. /\ WorkerTypes /\ BoxesSound /\ JobSound /\ PlacesHeld /\ job.pc = "probe"
      /\ WorkerMoves({}) /\ job' = Workers!NoJob
  BY DEF WorkerInv, Workers!EnsureProbe, WorkerMoves, Workers!Return, Workers!NoJob
<1>2. gen' = gen /\ initialized' = initialized /\ box' = box /\ volume' = volume /\ worked' = worked /\ image' = image
  BY DEF Workers!EnsureProbe, Workers!store, Workers!docker
<1>3. job.user \in Users /\ job # Workers!NoJob
  BY <1>1, EnsureMoves DEF WorkerMoves
<1>4. /\ allocations' \in [Users -> Nat]
      /\ \A v \in Users : allocations'[v] \in { allocations[v], gen[v] }
  <2> SUFFICES ASSUME NEW u \in Users, u = job.user
               PROVE  /\ allocations' \in [Users -> Nat]
                      /\ \A v \in Users : allocations'[v] \in { allocations[v], gen[v] }
    BY <1>3
  <2>1. allocations \in [Users -> Nat] /\ gen \in [Users -> Nat]
    BY <1>1 DEF WorkerTypes
  <2>2. allocations' = allocations \/ allocations' = [allocations EXCEPT ![u] = gen[u]]
    BY DEF Workers!EnsureProbe
  <2>3. QED
    BY <2>1, <2>2
<1>5. WorkerTypes' /\ BoxesSound'
  BY <1>1, <1>2, <1>4 DEF WorkerTypes, BoxesSound, Workers!NoJob
<1>6. JobSound'
  BY <1>1 DEF JobSound, Workers!NoJob
<1>7. PlacesHeld'
  BY <1>1, <1>2, EnsureMoves DEF Present
<1>8. QED
  BY <1>5, <1>6, <1>7 DEF WorkerInv

\* What happens outside the Ensure: containers stop, go, and write data;
\* volumes without a container are lost.
LEMMA OutsideKeeps ==
  ASSUME WorkerConstants, WorkerInv, NEW u \in Users,
         Workers!WorkerWrites(u) \/ Workers!WorkerDies(u) \/ Workers!BoxRemoved(u) \/ Workers!VolumeLost(u)
  PROVE  WorkerInv'
<1>1. WorkerTypes /\ BoxesSound /\ JobSound /\ PlacesHeld
  BY DEF WorkerInv
<1>2. gen' = gen /\ initialized' = initialized /\ allocations' = allocations /\ job' = job
  BY DEF Workers!WorkerWrites, Workers!WorkerDies, Workers!BoxRemoved, Workers!VolumeLost, Workers!store
<1>3. /\ box' \in [Users -> WorkerBoxes] /\ Present' \subseteq Present
      /\ \A v \in Users : /\ box'[v].here => box[v].here /\ box'[v].gen = box[v].gen
                          /\ box'[v].running => box'[v].here
  <2>1. box \in [Users -> WorkerBoxes]
    BY <1>1 DEF WorkerTypes
  <2>2. CASE box' = box
    BY <1>1, <2>1, <2>2 DEF BoxesSound, Present
  <2>3. CASE box' = [box EXCEPT ![u].running = FALSE]
    BY <1>1, <2>3, BoxFlips DEF BoxesSound
  <2>4. CASE box' = [box EXCEPT ![u] = Workers!NoBox]
    <3>1. Workers!NoBox \in WorkerBoxes /\ ~Workers!NoBox.here /\ ~Workers!NoBox.running
      BY DEF Workers!NoBox, WorkerBoxes
    <3>2. /\ box' \in [Users -> WorkerBoxes] /\ box'[u] = Workers!NoBox
          /\ \A v \in Users \ {u} : box'[v] = box[v]
      BY <2>1, <2>4, <3>1
    <3>3. QED
      BY <1>1, <3>1, <3>2 DEF BoxesSound, Present
  <2>5. QED
    BY <2>2, <2>3, <2>4
    DEF Workers!WorkerWrites, Workers!WorkerDies, Workers!BoxRemoved, Workers!VolumeLost
<1>4. /\ volume' \in [Users -> { "none", "empty", "written" }] /\ worked' \in [Users -> BOOLEAN]
      /\ image' = image
      /\ \A v \in Users : volume'[v] = "empty" => volume[v] = "empty" /\ worked'[v] = worked[v]
      /\ \A v \in Users : worked'[v] => worked[v] \/ box[v].running
  BY <1>1 DEF WorkerTypes, Workers!WorkerWrites, Workers!WorkerDies, Workers!BoxRemoved, Workers!VolumeLost
<1>5. WorkerTypes'
  BY <1>1, <1>2, <1>3, <1>4 DEF WorkerTypes, Workers!NoJob
<1>6. BoxesSound'
  BY <1>1, <1>2, <1>3, <1>4 DEF BoxesSound
<1>7. JobSound'
  BY <1>1, <1>2, <1>3, WorkerJobFacts DEF JobSound, Workers!NoJob
<1>8. PlacesHeld'
  BY <1>1, <1>2, <1>3, PlacesKept DEF Workers!NoJob
<1>9. QED
  BY <1>5, <1>6, <1>7, <1>8 DEF WorkerInv

LEMMA ControllerKeeps ==
  ASSUME WorkerConstants, WorkerInv, Workers!CloseWorkers \/ Workers!Restart
  PROVE  WorkerInv'
<1>1. WorkerTypes /\ BoxesSound /\ JobSound /\ PlacesHeld
  BY DEF WorkerInv
<1>2. /\ gen' = gen /\ initialized' = initialized /\ volume' = volume /\ worked' = worked
      /\ job' = Workers!NoJob
  BY DEF Workers!CloseWorkers, Workers!Restart, Workers!store, Workers!docker
<1>3. /\ allocations' \in [Users -> Nat] /\ image' \in Images
      /\ \A v \in Users : allocations'[v] \in { 0, allocations[v] }
  BY <1>1 DEF Workers!CloseWorkers, Workers!Restart, WorkerTypes
<1>4. /\ box' \in [Users -> WorkerBoxes] /\ Present' = Present
      /\ \A v \in Users : /\ box'[v].here = box[v].here /\ box'[v].gen = box[v].gen
                          /\ box'[v].running => box[v].running
  <2>1. box \in [Users -> WorkerBoxes]
    BY <1>1 DEF WorkerTypes
  <2>2. CASE box' = box
    BY <2>1, <2>2 DEF Present
  <2>3. CASE Workers!CloseWorkers
    <3>1. PICK halted \in SUBSET Workers!Boxes :
            box' = [v \in Users |-> IF v \in halted THEN [box[v] EXCEPT !.running = FALSE] ELSE box[v]]
      BY <2>3 DEF Workers!CloseWorkers
    <3>2. ASSUME NEW v \in Users
          PROVE  /\ box'[v] \in WorkerBoxes /\ box'[v].here = box[v].here /\ box'[v].gen = box[v].gen
                 /\ box'[v].running => box[v].running
      <4> DEFINE off == [box[v] EXCEPT !.running = FALSE]
      <4>1. box[v] \in WorkerBoxes
        BY <2>1
      <4>2. off \in WorkerBoxes /\ off.here = box[v].here /\ off.gen = box[v].gen /\ off.running = FALSE
        BY <4>1 DEF WorkerBoxes
      <4>3. box'[v] = off \/ box'[v] = box[v]
        BY <3>1
      <4> HIDE DEF off
      <4>4. QED
        BY <4>1, <4>2, <4>3
    <3>3. box' \in [Users -> WorkerBoxes]
      BY <3>1, <3>2
    <3>4. QED
      BY <3>2, <3>3 DEF Present
  <2>4. QED
    BY <2>2, <2>3 DEF Workers!Restart, Workers!docker
<1>5. WorkerTypes' /\ BoxesSound'
  BY <1>1, <1>2, <1>3, <1>4 DEF WorkerTypes, BoxesSound, Workers!NoJob
<1>6. JobSound'
  BY <1>2 DEF JobSound, Workers!NoJob
<1>7. PlacesHeld'
  BY <1>1, <1>2, <1>4, PlacesKept DEF Workers!NoJob
<1>8. QED
  BY <1>5, <1>6, <1>7 DEF WorkerInv

LEMMA WorkerInit ==
  ASSUME WorkerConstants, Workers!Init PROVE WorkerInv
<1>1. Workers!NoBox \in WorkerBoxes /\ ~Workers!NoBox.here /\ ~Workers!NoBox.running
  BY DEF Workers!NoBox, WorkerBoxes
<1>2. WorkerTypes /\ BoxesSound /\ JobSound
  BY <1>1 DEF Workers!Init, WorkerTypes, BoxesSound, JobSound
<1>3. Present = {} /\ job = Workers!NoJob
  BY <1>1 DEF Workers!Init, Present
<1>4. PlacesHeld
  BY <1>3, FS_EmptySet DEF PlacesHeld, WorkerConstants
<1>5. QED
  BY <1>2, <1>4 DEF WorkerInv

LEMMA WorkerInductive ==
  ASSUME WorkerConstants, WorkerInv, [Workers!Next]_(Workers!vars) PROVE WorkerInv'
<1>1. CASE UNCHANGED Workers!vars
  <2>1. /\ gen' = gen /\ initialized' = initialized /\ box' = box /\ volume' = volume
        /\ allocations' = allocations /\ job' = job /\ worked' = worked /\ image' = image
    BY <1>1 DEF Workers!vars, Workers!store, Workers!docker
  <2>2. QED
    BY <2>1 DEF WorkerInv, WorkerTypes, BoxesSound, JobSound, PlacesHeld, Present, Workers!NoJob
<1>2. CASE \E u \in Users : Workers!EnsureCached(u)
  BY <1>1, <1>2 DEF Workers!EnsureCached
<1>3. CASE \E u \in Users : Workers!EnsureBegin(u)
  BY <1>3, EnsureBeginKeeps
<1>4. CASE \/ Workers!EnsureList \/ Workers!EnsureVolume \/ Workers!EnsureMark \/ Workers!EnsureInspect
           \/ Workers!EnsureReplace \/ Workers!EnsureCreate \/ Workers!EnsureStart \/ Workers!EnsureProbe
  BY <1>4, EnsureListKeeps, EnsureVolumeKeeps, EnsureMarkKeeps, EnsureRunsKeeps, EnsureReplaceKeeps,
     EnsureCreateKeeps, EnsureProbeKeeps
<1>5. CASE Workers!CloseWorkers \/ Workers!Restart
  BY <1>5, ControllerKeeps
<1>6. CASE \E u \in Users : \/ Workers!WorkerWrites(u) \/ Workers!WorkerDies(u)
                            \/ Workers!BoxRemoved(u) \/ Workers!VolumeLost(u)
  BY <1>6, OutsideKeeps
<1>7. QED
  BY <1>1, <1>2, <1>3, <1>4, <1>5, <1>6 DEF Workers!Next

\* DockerWorkers, for any finite set of accounts and any limit: whatever step of
\* Ensure the controller dies at, and whatever image the next one names, written
\* data is not replaced by an empty volume, recovery is blocked only by a lost
\* volume or by a container of another image, an assignment carries the current
\* token, and the containers stay in their limit.
THEOREM WorkersStayRecoverable ==
  ASSUME WorkerConstants PROVE Workers!Spec => []Workers!WorkersRecoverable
<1>1. Workers!Init => WorkerInv
  BY WorkerInit
<1>2. WorkerInv /\ [Workers!Next]_(Workers!vars) => WorkerInv'
  BY WorkerInductive
<1>3. WorkerInv => Workers!WorkersRecoverable
  <2> SUFFICES ASSUME WorkerInv PROVE Workers!WorkersRecoverable
    OBVIOUS
  <2>1. WorkerTypes /\ BoxesSound /\ PlacesHeld
    BY DEF WorkerInv
  <2>2. Cardinality(Present) <= MaxWorkers /\ Workers!Boxes = Present
    BY <2>1 DEF PlacesHeld, Workers!Boxes, Present
  <2>3. Workers!Cardinality(Workers!Boxes) <= MaxWorkers
    BY <2>2 DEF Workers!Cardinality, Cardinality
  <2>4. ASSUME NEW u \in Users
        PROVE  /\ worked[u] => volume[u] # "empty"
               /\ Workers!Inspect(u) = "recovery_blocked" =>
                    volume[u] = "none" \/ (box[u].here /\ box[u].image # image)
               /\ allocations[u] \in { 0, gen[u] }
    <3>1. /\ worked[u] => volume[u] # "empty"
          /\ allocations[u] \in { 0, gen[u] }
          /\ box[u].here => box[u].gen = gen[u]
      BY <2>1 DEF BoxesSound
    <3>2. Workers!Inspect(u) = "recovery_blocked" =>
            volume[u] = "none" \/ (box[u].here /\ box[u].image # image)
      BY <3>1 DEF Workers!Inspect, Workers!DataMissing, Workers!Ours
    <3>3. QED
      BY <3>1, <3>2
  <2>5. QED
    BY <2>3, <2>4 DEF Workers!WorkersRecoverable
<1>4. QED
  BY <1>1, <1>2, <1>3, PTL DEF Workers!Spec

-----------------------------------------------------------------------------
(* GatewayDispatch.                                                        *)

GatewayPcs == { "new", "register", "gone", "open", "ack", "leave", "drain", "bind", "bound" }
GatewayConns == [pc : GatewayPcs, tasks : BOOLEAN, closed : BOOLEAN, bound : BOOLEAN]
GatewayScopes == [run : Runs \cup { None }, gen : Nat]
GatewayJobs == [event : Events, scope : GatewayScopes, gate : BOOLEAN, stage : { "wait", "claim", "turn" }]
GatewayWorlds ==
    [ owner : Streams \cup { None }, ready : BOOLEAN, saving : BOOLEAN, binding : GatewayScopes,
      identity : { e.target : e \in Events } \cup { None } ]

GatewayTypes ==
    /\ stream \in [Streams -> GatewayConns]
    /\ lane \in [Streams -> Seq(GatewayJobs)]
    /\ world \in GatewayWorlds
    /\ turns \in [Streams -> [Gateway!EventIds -> Nat]]
    /\ seen \in [Streams -> SUBSET Gateway!EventIds]
    /\ answered \in [Gateway!AllKeys -> Nat]

\* The receive loop may not have acknowledged its last event, and never will
\* once it leaves.
Unacknowledged(c) == stream[c].pc \in { "ack", "leave", "drain" }

\* A job whose gate is open was acknowledged; only the last one may wait for
\* that, and only the first one has started.  No event is queued twice, and
\* none that is waiting was run.
LaneSound(c) ==
    \A n \in 1 .. Len(lane[c]) :
      /\ lane[c][n].gate \/ (n = Len(lane[c]) /\ Unacknowledged(c) /\ lane[c][n].stage = "wait")
      /\ lane[c][n].gate <=> lane[c][n].event.id \in seen[c]
      /\ lane[c][n].stage = "wait" \/ n = 1
      /\ lane[c][n].stage # "turn" => turns[c][lane[c][n].event.id] = 0
      /\ \A m \in 1 .. Len(lane[c]) : lane[c][m].event.id = lane[c][n].event.id => m = n

TurnsSound(c) ==
    \A i \in Gateway!EventIds : turns[c][i] \in { 0, 1 } /\ (turns[c][i] = 1 => i \in seen[c])

ClaimsSound == \A k \in Gateway!AllKeys : answered[k] \in { 0, 1 } /\ (answered[k] = 1 => k \in interactions)

GatewayInv ==
    /\ GatewayTypes /\ ClaimsSound
    /\ \A c \in Streams : LaneSound(c) /\ TurnsSound(c)

LEMMA EventIdsKnown == \A e \in Events : e.id \in Gateway!EventIds
BY DEF Gateway!EventIds

\* A stream a step does not touch, beyond closing it or moving its loop.
LEMMA LaneUntouched ==
  ASSUME NEW c \in Streams, LaneSound(c), TurnsSound(c), lane'[c] = lane[c], seen'[c] = seen[c], turns'[c] = turns[c],
         Unacknowledged(c) => Unacknowledged(c)'
  PROVE  LaneSound(c)' /\ TurnsSound(c)'
<1>1. TurnsSound(c)'
  BY DEF TurnsSound, Gateway!EventIds
<1>2. LaneSound(c)'
  BY DEF LaneSound
<1>3. QED
  BY <1>1, <1>2

\* The first job leaves the lane.
LEMMA LanePopped ==
  ASSUME NEW c \in Streams, GatewayTypes, LaneSound(c), TurnsSound(c), lane[c] # << >>, Gateway!Pop(c),
         seen'[c] = seen[c], turns'[c] = turns[c], stream' = stream
  PROVE  /\ LaneSound(c)' /\ TurnsSound(c)'
         /\ lane' \in [Streams -> Seq(GatewayJobs)] /\ \A d \in Streams \ {c} : lane'[d] = lane[d]
<1>1. lane \in [Streams -> Seq(GatewayJobs)] /\ lane[c] \in Seq(GatewayJobs)
  BY DEF GatewayTypes
<1>2. Tail(lane[c]) \in Seq(GatewayJobs)
  BY <1>1
<1>3. /\ lane' \in [Streams -> Seq(GatewayJobs)] /\ lane'[c] = Tail(lane[c])
      /\ \A d \in Streams \ {c} : lane'[d] = lane[d]
  BY <1>1, <1>2 DEF Gateway!Pop
<1>4. /\ Len(lane'[c]) = Len(lane[c]) - 1 /\ Len(lane[c]) \in Nat
      /\ \A n \in 1 .. Len(lane'[c]) : n + 1 \in 1 .. Len(lane[c]) /\ lane'[c][n] = lane[c][n + 1]
  BY <1>1, <1>3
<1>5. TurnsSound(c)'
  BY DEF TurnsSound, Gateway!EventIds
<1>6. LaneSound(c)'
  <2> SUFFICES ASSUME NEW n \in 1 .. Len(lane'[c])
               PROVE  /\ lane'[c][n].gate \/ (n = Len(lane'[c]) /\ Unacknowledged(c)' /\ lane'[c][n].stage = "wait")
                      /\ lane'[c][n].gate <=> lane'[c][n].event.id \in seen'[c]
                      /\ lane'[c][n].stage = "wait" \/ n = 1
                      /\ lane'[c][n].stage # "turn" => turns'[c][lane'[c][n].event.id] = 0
                      /\ \A m \in 1 .. Len(lane'[c]) : lane'[c][m].event.id = lane'[c][n].event.id => m = n
    BY DEF LaneSound
  <2>1. n + 1 \in 1 .. Len(lane[c]) /\ lane'[c][n] = lane[c][n + 1] /\ n \in Nat /\ n + 1 # 1
    BY <1>4
  <2>2. /\ lane[c][n + 1].gate \/ (n + 1 = Len(lane[c]) /\ Unacknowledged(c) /\ lane[c][n + 1].stage = "wait")
        /\ lane[c][n + 1].gate <=> lane[c][n + 1].event.id \in seen[c]
        /\ lane[c][n + 1].stage = "wait"
        /\ lane[c][n + 1].stage # "turn" => turns[c][lane[c][n + 1].event.id] = 0
        /\ \A m \in 1 .. Len(lane[c]) : lane[c][m].event.id = lane[c][n + 1].event.id => m = n + 1
    BY <2>1 DEF LaneSound
  <2>3. n + 1 = Len(lane[c]) => n = Len(lane'[c])
    BY <1>4, <2>1
  <2>4. \A m \in 1 .. Len(lane'[c]) : lane'[c][m].event.id = lane'[c][n].event.id => m = n
    <3> SUFFICES ASSUME NEW m \in 1 .. Len(lane'[c]), lane'[c][m].event.id = lane'[c][n].event.id PROVE m = n
      OBVIOUS
    <3>1. m + 1 \in 1 .. Len(lane[c]) /\ lane'[c][m] = lane[c][m + 1]
      BY <1>4
    <3>2. m + 1 = n + 1
      BY <2>1, <2>2, <3>1
    <3>3. QED
      BY <2>1, <3>2
  <2>5. Unacknowledged(c)' <=> Unacknowledged(c)
    BY DEF Unacknowledged
  <2>6. QED
    BY <2>1, <2>2, <2>3, <2>4, <2>5
<1>7. QED
  BY <1>3, <1>5, <1>6

\* The first job, whose gate is open, moves to its next stage; with its turn
\* the event is counted.
LEMMA LaneStaged ==
  ASSUME NEW c \in Streams, GatewayTypes, LaneSound(c), TurnsSound(c), lane[c] # << >>,
         lane[c][1].gate, lane[c][1].stage # "turn", NEW stage \in { "claim", "turn" }, Gateway!Stage(c, stage),
         seen' = seen, stream' = stream,
         IF stage = "turn" THEN Gateway!Turn(c) ELSE turns' = turns
  PROVE  /\ \A d \in Streams : (LaneSound(d) => LaneSound(d)') /\ (TurnsSound(d) => TurnsSound(d)')
         /\ lane' \in [Streams -> Seq(GatewayJobs)]
         /\ turns' \in [Streams -> [Gateway!EventIds -> Nat]]
<1>1. /\ lane \in [Streams -> Seq(GatewayJobs)] /\ lane[c] \in Seq(GatewayJobs)
      /\ turns \in [Streams -> [Gateway!EventIds -> Nat]] /\ turns[c] \in [Gateway!EventIds -> Nat]
  BY DEF GatewayTypes
<1>2. 1 \in 1 .. Len(lane[c]) /\ Len(lane[c]) \in Nat /\ lane[c][1] \in GatewayJobs
  BY <1>1
<1> DEFINE new == [lane[c][1] EXCEPT !.stage = stage]
           id == lane[c][1].event.id
<1>3. new \in GatewayJobs /\ new.gate = lane[c][1].gate /\ new.event = lane[c][1].event /\ new.stage = stage
  BY <1>2 DEF GatewayJobs
<1>4. lane' = [lane EXCEPT ![c] = [lane[c] EXCEPT ![1] = new]]
  BY <1>1, <1>2 DEF Gateway!Stage
<1>5. id \in Gateway!EventIds
  BY <1>2, EventIdsKnown DEF GatewayJobs
<1>6. turns[c][id] = 0 /\ id \in seen[c]
  BY <1>2 DEF LaneSound
<1> HIDE DEF new
<1>7. [lane[c] EXCEPT ![1] = new] \in Seq(GatewayJobs) /\ Len([lane[c] EXCEPT ![1] = new]) = Len(lane[c])
  BY <1>1, <1>2, <1>3
<1>8. /\ lane' \in [Streams -> Seq(GatewayJobs)] /\ \A d \in Streams \ {c} : lane'[d] = lane[d]
      /\ Len(lane'[c]) = Len(lane[c]) /\ lane'[c][1] = new
      /\ \A n \in 1 .. Len(lane[c]) : n # 1 => lane'[c][n] = lane[c][n]
  BY <1>1, <1>2, <1>4, <1>7
<1>9. /\ turns' \in [Streams -> [Gateway!EventIds -> Nat]] /\ \A d \in Streams \ {c} : turns'[d] = turns[d]
      /\ \A i \in Gateway!EventIds \ { id } : turns'[c][i] = turns[c][i]
      /\ turns'[c][id] = IF stage = "turn" THEN 1 ELSE 0
  <2>1. CASE stage = "turn"
    <3>1. turns' = [turns EXCEPT ![c] = [turns[c] EXCEPT ![id] = turns[c][id] + 1]]
      BY <1>1, <1>5, <2>1 DEF Gateway!Turn, Gateway!Head1
    <3> HIDE DEF id
    <3>2. QED
      BY <1>1, <1>5, <1>6, <2>1, <3>1
  <2>2. CASE stage # "turn"
    BY <1>1, <1>6, <2>2
  <2>3. QED
    BY <2>1, <2>2
<1>10. ASSUME NEW n \in 1 .. Len(lane'[c])
       PROVE  /\ lane'[c][n].event = lane[c][n].event /\ lane'[c][n].gate = lane[c][n].gate
              /\ n # 1 => lane'[c][n].stage = lane[c][n].stage
              /\ n = 1 => lane'[c][n].stage = stage /\ lane'[c][n].gate
              /\ n \in 1 .. Len(lane[c])
  BY <1>3, <1>8
<1>11. TurnsSound(c)'
  <2>1. Gateway!EventIds' = Gateway!EventIds
    BY DEF Gateway!EventIds
  <2> SUFFICES ASSUME NEW i \in Gateway!EventIds
               PROVE  turns'[c][i] \in { 0, 1 } /\ (turns'[c][i] = 1 => i \in seen'[c])
    BY <2>1 DEF TurnsSound
  <2>2. CASE i = id
    BY <1>6, <1>9, <2>2
  <2>3. CASE i # id
    BY <1>9, <2>3 DEF TurnsSound
  <2>4. QED
    BY <2>2, <2>3
<1>12. LaneSound(c)'
  <2> SUFFICES ASSUME NEW n \in 1 .. Len(lane'[c])
               PROVE  /\ lane'[c][n].gate \/ (n = Len(lane'[c]) /\ Unacknowledged(c)' /\ lane'[c][n].stage = "wait")
                      /\ lane'[c][n].gate <=> lane'[c][n].event.id \in seen'[c]
                      /\ lane'[c][n].stage = "wait" \/ n = 1
                      /\ lane'[c][n].stage # "turn" => turns'[c][lane'[c][n].event.id] = 0
                      /\ \A m \in 1 .. Len(lane'[c]) : lane'[c][m].event.id = lane'[c][n].event.id => m = n
    BY DEF LaneSound
  <2>1. /\ lane[c][n].gate \/ (n = Len(lane[c]) /\ Unacknowledged(c) /\ lane[c][n].stage = "wait")
        /\ lane[c][n].gate <=> lane[c][n].event.id \in seen[c]
        /\ lane[c][n].stage = "wait" \/ n = 1
        /\ lane[c][n].stage # "turn" => turns[c][lane[c][n].event.id] = 0
        /\ \A m \in 1 .. Len(lane[c]) : lane[c][m].event.id = lane[c][n].event.id => m = n
    BY <1>10 DEF LaneSound
  <2>2. Unacknowledged(c)' <=> Unacknowledged(c)
    BY DEF Unacknowledged
  <2>3. /\ lane'[c][n].gate \/ (n = Len(lane'[c]) /\ Unacknowledged(c)' /\ lane'[c][n].stage = "wait")
        /\ lane'[c][n].gate <=> lane'[c][n].event.id \in seen'[c]
        /\ lane'[c][n].stage = "wait" \/ n = 1
    BY <1>8, <1>10, <2>1, <2>2
  <2>4. \A m \in 1 .. Len(lane'[c]) : lane'[c][m].event.id = lane'[c][n].event.id => m = n
    BY <1>8, <1>10, <2>1
  <2>5. lane'[c][n].stage # "turn" => turns'[c][lane'[c][n].event.id] = 0
    <3>1. CASE n = 1
      BY <1>9, <1>10, <3>1
    <3>2. CASE n # 1
      <4>1. lane[c][n].event.id # id
        BY <1>2, <2>1, <3>2
      <4>2. lane[c][n] \in GatewayJobs
        BY <1>1, <1>10
      <4>3. lane[c][n].event.id \in Gateway!EventIds
        BY <4>2, EventIdsKnown DEF GatewayJobs
      <4>4. QED
        BY <1>9, <1>10, <2>1, <3>2, <4>1, <4>3
    <3>3. QED
      BY <3>1, <3>2
  <2>6. QED
    BY <2>3, <2>4, <2>5
<1>13. \A d \in Streams \ {c} : (LaneSound(d) => LaneSound(d)') /\ (TurnsSound(d) => TurnsSound(d)')
  BY <1>8, <1>9 DEF LaneSound, TurnsSound, Unacknowledged, Gateway!EventIds
<1>14. QED
  BY <1>8, <1>9, <1>11, <1>12, <1>13

LEMMA GatewayStateKept ==
  ASSUME stream' \in [Streams -> GatewayConns], world' \in GatewayWorlds, lane' \in [Streams -> Seq(GatewayJobs)],
         turns' \in [Streams -> [Gateway!EventIds -> Nat]], seen' \in [Streams -> SUBSET Gateway!EventIds],
         answered' \in [Gateway!AllKeys -> Nat]
  PROVE  /\ GatewayTypes'
         /\ ClaimsSound /\ answered' = answered /\ interactions' = interactions => ClaimsSound'
<1>1. Gateway!AllKeys' = Gateway!AllKeys
  BY DEF Gateway!AllKeys, Gateway!KeysOf
<1>2. Gateway!EventIds' = Gateway!EventIds
  BY DEF Gateway!EventIds
<1>3. QED
  BY <1>1, <1>2 DEF GatewayTypes, ClaimsSound

\* A step of the receive loops and of the world that leaves the lanes alone.
LEMMA LoopStep ==
  ASSUME GatewayInv, stream' \in [Streams -> GatewayConns], world' \in GatewayWorlds,
         lane' = lane, seen' = seen, turns' = turns, answered' = answered, interactions' = interactions,
         \A d \in Streams : Unacknowledged(d) => Unacknowledged(d)'
  PROVE  GatewayInv'
<1>0. GatewayTypes
  BY DEF GatewayInv
<1>1. GatewayTypes' /\ ClaimsSound'
  BY <1>0, GatewayStateKept DEF GatewayInv, GatewayTypes
<1>3. \A d \in Streams : LaneSound(d)' /\ TurnsSound(d)'
  BY LaneUntouched DEF GatewayInv
<1>4. QED
  BY <1>1, <1>3 DEF GatewayInv

LEMMA LoopMoves ==
  ASSUME GatewayTypes, NEW c \in Streams, NEW pc \in GatewayPcs, Gateway!To(c, pc)
  PROVE  /\ stream' \in [Streams -> GatewayConns] /\ stream'[c].pc = pc
         /\ \A d \in Streams \ {c} : stream'[d] = stream[d]
         /\ \A d \in Streams \ {c} : Unacknowledged(d)' <=> Unacknowledged(d)
<1>1. stream \in [Streams -> GatewayConns] /\ stream[c] \in GatewayConns
  BY DEF GatewayTypes
<1> DEFINE new == [stream[c] EXCEPT !.pc = pc]
<1>2. new \in GatewayConns /\ new.pc = pc
  BY <1>1 DEF GatewayConns
<1>3. stream' = [stream EXCEPT ![c] = new]
  BY <1>1 DEF Gateway!To
<1> HIDE DEF new
<1>4. /\ stream' \in [Streams -> GatewayConns] /\ stream'[c].pc = pc
      /\ \A d \in Streams \ {c} : stream'[d] = stream[d]
  BY <1>1, <1>2, <1>3
<1>5. QED
  BY <1>4 DEF Unacknowledged

\* The steps of one receive loop that only move it.
LEMMA ReceiveKeeps ==
  ASSUME GatewayInv, NEW c \in Streams,
         \/ Gateway!Bootstrap(c) \/ Gateway!Register(c) \/ Gateway!AcknowledgeDropped(c) \/ Gateway!Leave(c)
         \/ \E e \in Events : Gateway!Refuse(c, e)
         \/ \E e \in Events : Gateway!Acknowledge(c, e) /\ Gateway!To(c, "leave") /\ seen' = seen /\ lane' = lane
  PROVE  GatewayInv'
<1>1. /\ seen' = seen /\ turns' = turns /\ lane' = lane /\ answered' = answered /\ interactions' = interactions
      /\ world' = world
  BY DEF Gateway!Bootstrap, Gateway!Register, Gateway!AcknowledgeDropped, Gateway!Leave, Gateway!Refuse,
     Gateway!Acknowledge, Gateway!slotVars, Gateway!claims
<1>2. GatewayTypes /\ world' \in GatewayWorlds
  BY <1>1 DEF GatewayInv, GatewayTypes
<1>3. CASE Gateway!Bootstrap(c)
  <2>1. PICK tasks \in BOOLEAN : stream' = [stream EXCEPT ![c].pc = "register", ![c].tasks = tasks]
    BY <1>3 DEF Gateway!Bootstrap
  <2>2. stream \in [Streams -> GatewayConns] /\ stream[c] \in GatewayConns /\ stream[c].pc = "new"
    BY <1>2, <1>3 DEF GatewayTypes, Gateway!Bootstrap
  <2> DEFINE new == [stream[c] EXCEPT !.pc = "register", !.tasks = tasks]
  <2>3. new \in GatewayConns
    BY <2>1, <2>2 DEF GatewayConns, GatewayPcs
  <2>6. stream' = [stream EXCEPT ![c] = new]
    BY <2>1, <2>2
  <2> HIDE DEF new
  <2>4. stream' \in [Streams -> GatewayConns] /\ \A d \in Streams : Unacknowledged(d) => Unacknowledged(d)'
    BY <2>2, <2>3, <2>6 DEF Unacknowledged
  <2>5. QED
    BY <1>1, <1>2, <2>4, LoopStep
<1>4. ASSUME NEW pc \in GatewayPcs, Gateway!To(c, pc), ~Unacknowledged(c) \/ pc \in { "ack", "leave", "drain" }
      PROVE  GatewayInv'
  <2>2. /\ stream' \in [Streams -> GatewayConns] /\ stream'[c].pc = pc
        /\ \A d \in Streams \ {c} : Unacknowledged(d)' <=> Unacknowledged(d)
    BY <1>2, <1>4, LoopMoves
  <2>3. Unacknowledged(c) => Unacknowledged(c)'
    BY <1>4, <2>2 DEF Unacknowledged
  <2>4. QED
    BY <1>1, <1>2, <2>2, <2>3, LoopStep
<1>5. CASE Gateway!Register(c) \/ Gateway!AcknowledgeDropped(c) \/ Gateway!Leave(c)
  BY <1>4, <1>5 DEF GatewayPcs, Gateway!Register, Gateway!AcknowledgeDropped, Gateway!Leave, Unacknowledged
<1>6. CASE \E e \in Events : Gateway!Refuse(c, e)
  BY <1>4, <1>6 DEF GatewayPcs, Gateway!Refuse, Unacknowledged
<1>7. CASE \E e \in Events : Gateway!Acknowledge(c, e) /\ Gateway!To(c, "leave") /\ seen' = seen /\ lane' = lane
  BY <1>4, <1>7 DEF GatewayPcs
<1>8. QED
  BY <1>3, <1>5, <1>6, <1>7

\* The world as bind, pause, save, disconnect and stop leave it.
LEMMA WorldTypes ==
  ASSUME world \in GatewayWorlds
  PROVE  /\ [world EXCEPT !.ready = FALSE] \in GatewayWorlds
         /\ [world EXCEPT !.ready = TRUE] \in GatewayWorlds
         /\ [world EXCEPT !.saving = TRUE] \in GatewayWorlds
         /\ [world EXCEPT !.ready = FALSE, !.saving = FALSE] \in GatewayWorlds
         /\ [world EXCEPT !.owner = None, !.saving = FALSE] \in GatewayWorlds
         /\ \A e \in Events : [world EXCEPT !.identity = e.target] \in GatewayWorlds
         /\ \A c \in Streams, b \in GatewayScopes :
              [world EXCEPT !.owner = c, !.identity = None, !.binding = b] \in GatewayWorlds
         /\ \A b \in GatewayScopes : [world EXCEPT !.saving = FALSE, !.binding = b] \in GatewayWorlds
         /\ world.binding \in GatewayScopes /\ world.owner \in Streams \cup { None }
BY DEF GatewayWorlds

\* An event refused for a full queue leaves its target registered.
LEMMA RefuseFullKeeps ==
  ASSUME GatewayInv, NEW c \in Streams, NEW e \in Events, Gateway!RefuseFull(c, e)
  PROVE  GatewayInv'
<1>1. /\ seen' = seen /\ turns' = turns /\ lane' = lane /\ answered' = answered /\ interactions' = interactions
      /\ stream[c].pc = "open" /\ (Gateway!To(c, "open") \/ Gateway!To(c, "leave"))
      /\ world' = Gateway!Registered(c, e)
  BY DEF Gateway!RefuseFull, Gateway!claims
<1>2. GatewayTypes /\ world \in GatewayWorlds
  BY DEF GatewayInv, GatewayTypes
<1>3. world' \in GatewayWorlds
  BY <1>1, <1>2, WorldTypes DEF Gateway!Registered
<1>4. stream' \in [Streams -> GatewayConns] /\ \A d \in Streams \ {c} : stream'[d] = stream[d]
  BY <1>1, <1>2, LoopMoves DEF GatewayPcs
<1>5. \A d \in Streams : Unacknowledged(d) => Unacknowledged(d)'
  BY <1>1, <1>4 DEF Unacknowledged
<1>6. QED
  BY <1>1, <1>3, <1>4, <1>5, LoopStep

LEMMA WorldStepsKeep ==
  ASSUME GatewayInv, Gateway!PauseWorld \/ Gateway!Save \/ Gateway!Stop
  PROVE  GatewayInv'
<1>1. /\ seen' = seen /\ turns' = turns /\ lane' = lane /\ answered' = answered /\ interactions' = interactions
      /\ stream' = stream
  BY DEF Gateway!PauseWorld, Gateway!Save, Gateway!Stop, Gateway!claims
<1>2. world \in GatewayWorlds /\ stream \in [Streams -> GatewayConns]
  BY DEF GatewayInv, GatewayTypes
<1>3. world' \in GatewayWorlds
  <2>1. CASE world' = [world EXCEPT !.saving = FALSE, !.binding.gen = world.binding.gen + 1]
    <3> DEFINE b == [world.binding EXCEPT !.gen = world.binding.gen + 1]
    <3>1. world.binding \in GatewayScopes
      BY <1>2, WorldTypes
    <3>2. b \in GatewayScopes
      BY <3>1 DEF GatewayScopes
    <3>3. world' = [world EXCEPT !.saving = FALSE, !.binding = b]
      BY <1>2, <2>1 DEF GatewayWorlds
    <3> HIDE DEF b
    <3>4. QED
      BY <1>2, <3>2, <3>3, WorldTypes
  <2>2. QED
    BY <1>2, <2>1, WorldTypes DEF Gateway!PauseWorld, Gateway!Save, Gateway!Stop
<1>4. \A d \in Streams : Unacknowledged(d) => Unacknowledged(d)'
  BY <1>1 DEF Unacknowledged
<1>5. QED
  BY <1>1, <1>2, <1>3, <1>4, LoopStep

\* bind, its failure, the ready mark and the disconnect move one receive loop
\* and close at most another.
LEMMA BindBeginKeeps ==
  ASSUME GatewayInv, NEW c \in Streams, Gateway!BindBegin(c) \/ Gateway!MarkReady(c) \/ Gateway!Disconnect(c)
  PROVE  GatewayInv'
<1>1. /\ seen' = seen /\ turns' = turns /\ lane' = lane /\ answered' = answered /\ interactions' = interactions
  BY DEF Gateway!BindBegin, Gateway!MarkReady, Gateway!Disconnect, Gateway!claims
<1>2. GatewayTypes /\ world \in GatewayWorlds /\ stream \in [Streams -> GatewayConns] /\ stream[c] \in GatewayConns
  BY DEF GatewayInv, GatewayTypes
<1>3. world' \in GatewayWorlds
  BY <1>2, WorldTypes DEF Gateway!BindBegin, Gateway!MarkReady, Gateway!Disconnect, Gateway!slotVars
<1>4. CASE Gateway!MarkReady(c)
  <2>1. stream[c].pc = "bound" /\ (Gateway!To(c, "open") \/ Gateway!To(c, "leave"))
    BY <1>4 DEF Gateway!MarkReady
  <2>2. stream' \in [Streams -> GatewayConns] /\ \A d \in Streams \ {c} : stream'[d] = stream[d]
    BY <1>2, <2>1, LoopMoves DEF GatewayPcs
  <2>3. \A d \in Streams : Unacknowledged(d) => Unacknowledged(d)'
    BY <2>1, <2>2 DEF Unacknowledged
  <2>4. QED
    BY <1>1, <1>3, <2>2, <2>3, LoopStep
<1>5. CASE Gateway!Disconnect(c)
  <2> DEFINE new == [stream[c] EXCEPT !.pc = "drain", !.closed = TRUE]
  <2>1. new \in GatewayConns /\ new.pc = "drain"
    BY <1>2 DEF GatewayConns, GatewayPcs
  <2>2. stream' = [stream EXCEPT ![c] = new]
    BY <1>2, <1>5 DEF Gateway!Disconnect
  <2> HIDE DEF new
  <2>3. stream' \in [Streams -> GatewayConns] /\ \A d \in Streams : Unacknowledged(d) => Unacknowledged(d)'
    BY <1>2, <2>1, <2>2 DEF Unacknowledged
  <2>4. QED
    BY <1>1, <1>3, <2>3, LoopStep
<1>6. CASE Gateway!BindBegin(c)
  <2> DEFINE shut == Gateway!Close(world.owner)
  <2>1. /\ shut \in [Streams -> GatewayConns]
        /\ \A d \in Streams : shut[d].pc = stream[d].pc
    <3>1. CASE world.owner = None
      BY <1>2, <3>1 DEF Gateway!Close
    <3>2. CASE world.owner # None
      <4>1. world.owner \in Streams
        BY <1>2, <3>2, WorldTypes
      <4> SUFFICES ASSUME NEW o \in Streams, o = world.owner, o # None
                   PROVE  /\ Gateway!Close(o) \in [Streams -> GatewayConns]
                          /\ \A d \in Streams : Gateway!Close(o)[d].pc = stream[d].pc
        BY <3>2, <4>1
      <4> DEFINE new == [stream[o] EXCEPT !.closed = TRUE]
      <4>2. stream[o] \in GatewayConns
        BY <1>2
      <4>3. new \in GatewayConns /\ new.pc = stream[o].pc
        BY <4>2 DEF GatewayConns
      <4>4. Gateway!Close(o) = [stream EXCEPT ![o] = new]
        BY <1>2 DEF Gateway!Close
      <4> HIDE DEF new
      <4>5. QED
        BY <1>2, <4>3, <4>4
    <3>3. QED
      BY <3>1, <3>2
  <2>2. stream[c].pc = "open" /\ stream' = [shut EXCEPT ![c].pc = "bind"]
    BY <1>6 DEF Gateway!BindBegin
  <2> HIDE DEF shut
  <2> DEFINE bound == [shut[c] EXCEPT !.pc = "bind"]
  <2>3. shut[c] \in GatewayConns
    BY <2>1
  <2>4. bound \in GatewayConns
    BY <2>3 DEF GatewayConns, GatewayPcs
  <2>5. stream' = [shut EXCEPT ![c] = bound]
    BY <2>1, <2>2
  <2> HIDE DEF bound
  <2>6. stream' \in [Streams -> GatewayConns] /\ \A d \in Streams \ {c} : stream'[d].pc = stream[d].pc
    BY <2>1, <2>4, <2>5
  <2>7. \A d \in Streams : Unacknowledged(d) => Unacknowledged(d)'
    BY <2>2, <2>6 DEF Unacknowledged
  <2>8. QED
    BY <1>1, <1>3, <2>6, <2>7, LoopStep
<1>7. QED
  BY <1>4, <1>5, <1>6

LEMMA BindEndKeeps ==
  ASSUME GatewayInv, NEW c \in Streams, NEW run \in Runs, Gateway!BindEnd(c, run)
  PROVE  GatewayInv'
<1>1. /\ seen' = seen /\ turns' = turns /\ lane' = lane /\ answered' = answered /\ interactions' = interactions
      /\ stream[c].pc = "bind"
  BY DEF Gateway!BindEnd, Gateway!claims
<1>2. GatewayTypes /\ world \in GatewayWorlds /\ stream \in [Streams -> GatewayConns] /\ stream[c] \in GatewayConns
  BY DEF GatewayInv, GatewayTypes
<1> DEFINE was == world.owner # c
           fresh == [stream[c] EXCEPT !.pc = "open", !.closed = stream[c].closed /\ was,
                                      !.bound = stream[c].bound /\ was]
           bound == [fresh EXCEPT !.pc = "bound", !.bound = TRUE]
           back == [stream[c] EXCEPT !.pc = "open"]
           b == [ run |-> run, gen |-> world.binding.gen + 1 ]
<1>3. was \in BOOLEAN
  OBVIOUS
<1> HIDE DEF was
<1>4. fresh \in GatewayConns /\ back \in GatewayConns
  <2> DEFINE k == stream[c].closed /\ was
             m == stream[c].bound /\ was
  <2>1. k \in BOOLEAN /\ m \in BOOLEAN
    OBVIOUS
  <2> HIDE DEF k, m
  <2>2. [stream[c] EXCEPT !.pc = "open", !.closed = k, !.bound = m] \in GatewayConns /\ back \in GatewayConns
    BY <1>2, <2>1 DEF GatewayConns, GatewayPcs
  <2>3. QED
    BY <2>2 DEF k, m
<1>5. bound \in GatewayConns
  <2> HIDE DEF fresh
  <2>1. QED
    BY <1>4 DEF GatewayConns, GatewayPcs
<1>6. b \in GatewayScopes
  <2>1. world.binding \in GatewayScopes
    BY <1>2, WorldTypes
  <2>2. world.binding.gen + 1 \in Nat
    BY <2>1 DEF GatewayScopes
  <2>3. QED
    BY <2>2 DEF GatewayScopes
<1>7. \/ stream' = [stream EXCEPT ![c] = bound] \/ stream' = [stream EXCEPT ![c] = fresh]
      \/ stream' = [stream EXCEPT ![c] = back]
  <2>1. [stream EXCEPT ![c].pc = "open"] = [stream EXCEPT ![c] = back]
    BY <1>2
  <2> DEFINE f == [stream EXCEPT ![c].pc = "open", ![c].closed = stream[c].closed /\ world.owner # c,
                                 ![c].bound = stream[c].bound /\ world.owner # c]
  <2>2. f = [stream EXCEPT ![c] = fresh]
    BY <1>2 DEF was
  <2>3. f \in [Streams -> GatewayConns] /\ f[c] = fresh
    <3> HIDE DEF f, fresh
    <3>1. QED
      BY <1>2, <1>4, <2>2
  <2>4. [f EXCEPT ![c].pc = "bound", ![c].bound = TRUE] = [stream EXCEPT ![c] = bound]
    <3> HIDE DEF f, fresh
    <3>1. [f EXCEPT ![c].pc = "bound", ![c].bound = TRUE] = [f EXCEPT ![c] = bound]
      BY <2>3
    <3> HIDE DEF bound
    <3>2. [f EXCEPT ![c] = bound] = [stream EXCEPT ![c] = bound]
      BY <1>2, <1>4, <2>2
    <3>3. QED
      BY <3>1, <3>2
  <2>5. \/ stream' = [f EXCEPT ![c].pc = "bound", ![c].bound = TRUE]
        \/ stream' = f \/ stream' = [stream EXCEPT ![c].pc = "open"]
    BY DEF Gateway!BindEnd
  <2> HIDE DEF f, fresh, bound, back
  <2>6. QED
    BY <2>1, <2>2, <2>4, <2>5
<1>8. world' = world \/ world' = [world EXCEPT !.owner = c, !.identity = None, !.binding = b]
  BY DEF Gateway!BindEnd
<1> HIDE DEF fresh, bound, back, b
<1>9. world' \in GatewayWorlds
  BY <1>2, <1>6, <1>8, WorldTypes
<1>10. stream' \in [Streams -> GatewayConns] /\ \A d \in Streams \ {c} : stream'[d] = stream[d]
  BY <1>2, <1>4, <1>5, <1>7
<1>11. \A d \in Streams : Unacknowledged(d) => Unacknowledged(d)'
  BY <1>1, <1>10 DEF Unacknowledged
<1>12. QED
  BY <1>1, <1>9, <1>10, <1>11, LoopStep

\* An event that was not seen joins a lane whose jobs were all acknowledged.
LEMMA EnqueueKeeps ==
  ASSUME GatewayInv, NEW c \in Streams, NEW e \in Events, Gateway!Enqueue(c, e)
  PROVE  GatewayInv'
<1>1. /\ GatewayTypes /\ ClaimsSound /\ LaneSound(c) /\ TurnsSound(c)
      /\ \A d \in Streams : LaneSound(d) /\ TurnsSound(d)
  BY DEF GatewayInv
<1>2. /\ lane \in [Streams -> Seq(GatewayJobs)] /\ lane[c] \in Seq(GatewayJobs) /\ world \in GatewayWorlds
      /\ turns \in [Streams -> [Gateway!EventIds -> Nat]] /\ seen \in [Streams -> SUBSET Gateway!EventIds]
      /\ answered \in [Gateway!AllKeys -> Nat]
  BY <1>1 DEF GatewayTypes
<1>3. /\ seen' = seen /\ turns' = turns /\ answered' = answered /\ interactions' = interactions
      /\ stream[c].pc = "open" /\ e.id \notin seen[c] /\ Gateway!To(c, "ack")
  BY DEF Gateway!Enqueue, Gateway!Admissible, Gateway!claims
<1>4. world' \in GatewayWorlds
  BY <1>2, WorldTypes DEF Gateway!Enqueue, Gateway!Registered
<1> DEFINE new == Gateway!Job(e)
<1>5. new \in GatewayJobs /\ new.event = e /\ new.gate = FALSE /\ new.stage = "wait"
  <2>1. world.binding \in GatewayScopes
    BY <1>2, WorldTypes
  <2>2. QED
    BY <2>1 DEF GatewayJobs, Gateway!Job
<1>6. lane' = [lane EXCEPT ![c] = Append(lane[c], new)]
  BY DEF Gateway!Enqueue
<1> HIDE DEF new
<1>7. /\ lane' \in [Streams -> Seq(GatewayJobs)] /\ \A d \in Streams \ {c} : lane'[d] = lane[d]
      /\ lane'[c] = Append(lane[c], new)
  BY <1>2, <1>5, <1>6
<1>8. /\ Len(lane'[c]) = Len(lane[c]) + 1 /\ Len(lane[c]) \in Nat
      /\ lane'[c][Len(lane[c]) + 1] = new
      /\ \A n \in 1 .. Len(lane[c]) : lane'[c][n] = lane[c][n]
  BY <1>2, <1>5, <1>7
<1>9. /\ stream' \in [Streams -> GatewayConns] /\ stream'[c].pc = "ack"
      /\ \A d \in Streams \ {c} : stream'[d] = stream[d]
  BY <1>1, <1>3, LoopMoves DEF GatewayPcs
<1>10. e.id \in Gateway!EventIds /\ turns[c][e.id] = 0
  BY <1>1, <1>3, EventIdsKnown DEF TurnsSound
<1>11. \A n \in 1 .. Len(lane[c]) : lane[c][n].gate /\ lane[c][n].event.id # e.id
  BY <1>1, <1>3 DEF LaneSound, Unacknowledged
<1>12. LaneSound(c)'
  <2> SUFFICES ASSUME NEW n \in 1 .. Len(lane'[c])
               PROVE  /\ lane'[c][n].gate \/ (n = Len(lane'[c]) /\ Unacknowledged(c)' /\ lane'[c][n].stage = "wait")
                      /\ lane'[c][n].gate <=> lane'[c][n].event.id \in seen'[c]
                      /\ lane'[c][n].stage = "wait" \/ n = 1
                      /\ lane'[c][n].stage # "turn" => turns'[c][lane'[c][n].event.id] = 0
                      /\ \A m \in 1 .. Len(lane'[c]) : lane'[c][m].event.id = lane'[c][n].event.id => m = n
    BY DEF LaneSound
  <2>1. Unacknowledged(c)'
    BY <1>9 DEF Unacknowledged
  <2>2. \A m \in 1 .. Len(lane'[c]) : m \in 1 .. Len(lane[c]) \/ m = Len(lane[c]) + 1
    BY <1>8
  <2>3. CASE n = Len(lane[c]) + 1
    BY <1>3, <1>5, <1>8, <1>10, <1>11, <2>1, <2>2, <2>3
  <2>4. CASE n \in 1 .. Len(lane[c])
    <3>1. /\ lane[c][n].gate <=> lane[c][n].event.id \in seen[c]
          /\ lane[c][n].stage = "wait" \/ n = 1
          /\ lane[c][n].stage # "turn" => turns[c][lane[c][n].event.id] = 0
          /\ \A m \in 1 .. Len(lane[c]) : lane[c][m].event.id = lane[c][n].event.id => m = n
      BY <1>1, <2>4 DEF LaneSound
    <3>2. \A m \in 1 .. Len(lane'[c]) : lane'[c][m].event.id = lane'[c][n].event.id => m = n
      BY <1>5, <1>8, <1>11, <2>2, <2>4, <3>1
    <3>3. QED
      BY <1>3, <1>8, <1>11, <2>4, <3>1, <3>2
  <2>5. QED
    BY <2>2, <2>3, <2>4
<1>13. TurnsSound(c)'
  BY <1>1, <1>3 DEF TurnsSound, Gateway!EventIds
<1>14. \A d \in Streams \ {c} : LaneSound(d)' /\ TurnsSound(d)'
  BY <1>1, <1>3, <1>7, <1>9, LaneUntouched DEF Unacknowledged
<1>15. GatewayTypes' /\ ClaimsSound'
  BY <1>1, <1>2, <1>3, <1>4, <1>7, <1>9, GatewayStateKept
<1>16. QED
  BY <1>12, <1>13, <1>14, <1>15 DEF GatewayInv

\* ACCEPTED: the last job's event is seen, and its gate opens.
LEMMA AcknowledgedKeeps ==
  ASSUME GatewayInv, NEW c \in Streams, NEW e \in Events, lane[c] # << >>, e = lane[c][Len(lane[c])].event,
         seen' = [seen EXCEPT ![c] = seen[c] \cup { e.id }],
         lane' = [lane EXCEPT ![c][Len(lane[c])].gate = TRUE],
         Gateway!To(c, "open"), turns' = turns, answered' = answered, interactions' = interactions, world' = world
  PROVE  GatewayInv'
<1>1. /\ GatewayTypes /\ ClaimsSound /\ LaneSound(c) /\ TurnsSound(c)
      /\ \A d \in Streams : LaneSound(d) /\ TurnsSound(d)
  BY DEF GatewayInv
<1>2. /\ lane \in [Streams -> Seq(GatewayJobs)] /\ lane[c] \in Seq(GatewayJobs) /\ world' \in GatewayWorlds
      /\ turns' \in [Streams -> [Gateway!EventIds -> Nat]] /\ seen \in [Streams -> SUBSET Gateway!EventIds]
      /\ answered' \in [Gateway!AllKeys -> Nat]
  BY <1>1 DEF GatewayTypes
<1>3. Len(lane[c]) \in Nat /\ Len(lane[c]) \in 1 .. Len(lane[c])
  BY <1>2
<1> SUFFICES ASSUME NEW last \in 1 .. Len(lane[c]), last = Len(lane[c]) PROVE GatewayInv'
  BY <1>3
<1> DEFINE new == [lane[c][last] EXCEPT !.gate = TRUE]
<1>4. lane[c][last] \in GatewayJobs
  BY <1>2
<1>5. new \in GatewayJobs /\ new.event = e /\ new.gate /\ new.stage = lane[c][last].stage
  BY <1>4 DEF GatewayJobs
<1>6. lane' = [lane EXCEPT ![c] = [lane[c] EXCEPT ![last] = new]]
  BY <1>2, <1>3
<1> HIDE DEF new
<1> DEFINE q == [lane[c] EXCEPT ![last] = new]
<1>7. /\ q \in Seq(GatewayJobs) /\ Len(q) = Len(lane[c]) /\ q[last] = new
      /\ \A n \in 1 .. Len(lane[c]) : n # last => q[n] = lane[c][n]
  BY <1>2, <1>5
<1>17. lane' = [lane EXCEPT ![c] = q]
  BY <1>6
<1> HIDE DEF q
<1>18. lane' \in [Streams -> Seq(GatewayJobs)] /\ lane'[c] = q /\ \A d \in Streams \ {c} : lane'[d] = lane[d]
  BY <1>2, <1>7, <1>17
<1>8. /\ lane' \in [Streams -> Seq(GatewayJobs)] /\ \A d \in Streams \ {c} : lane'[d] = lane[d]
      /\ Len(lane'[c]) = Len(lane[c]) /\ lane'[c][last] = new
      /\ \A n \in 1 .. Len(lane[c]) : n # last => lane'[c][n] = lane[c][n]
  BY <1>7, <1>18
<1>9. e.id \in Gateway!EventIds
  BY EventIdsKnown
<1>10. /\ seen' \in [Streams -> SUBSET Gateway!EventIds] /\ \A d \in Streams \ {c} : seen'[d] = seen[d]
       /\ seen'[c] = seen[c] \cup { e.id }
  BY <1>2, <1>9
<1>11. /\ stream' \in [Streams -> GatewayConns] /\ \A d \in Streams \ {c} : stream'[d] = stream[d]
  BY <1>1, LoopMoves DEF GatewayPcs
<1>12. TurnsSound(c)'
  BY <1>1, <1>10 DEF TurnsSound, Gateway!EventIds
<1>13. LaneSound(c)'
  <2> SUFFICES ASSUME NEW n \in 1 .. Len(lane'[c])
               PROVE  /\ lane'[c][n].gate \/ (n = Len(lane'[c]) /\ Unacknowledged(c)' /\ lane'[c][n].stage = "wait")
                      /\ lane'[c][n].gate <=> lane'[c][n].event.id \in seen'[c]
                      /\ lane'[c][n].stage = "wait" \/ n = 1
                      /\ lane'[c][n].stage # "turn" => turns'[c][lane'[c][n].event.id] = 0
                      /\ \A m \in 1 .. Len(lane'[c]) : lane'[c][m].event.id = lane'[c][n].event.id => m = n
    BY DEF LaneSound
  <2>1. n \in 1 .. Len(lane[c]) /\ \A m \in 1 .. Len(lane'[c]) : m \in 1 .. Len(lane[c])
    BY <1>8
  <2>2. \A m \in 1 .. Len(lane[c]) : lane'[c][m].event = lane[c][m].event /\ lane'[c][m].stage = lane[c][m].stage
    BY <1>5, <1>8
  <2>3. /\ lane[c][n].gate \/ n = last
        /\ lane[c][n].gate <=> lane[c][n].event.id \in seen[c]
        /\ lane[c][n].stage = "wait" \/ n = 1
        /\ lane[c][n].stage # "turn" => turns[c][lane[c][n].event.id] = 0
        /\ \A m \in 1 .. Len(lane[c]) : lane[c][m].event.id = lane[c][n].event.id => m = n
    BY <1>1, <2>1 DEF LaneSound
  <2>4. lane'[c][n].gate /\ lane'[c][n].event.id \in seen'[c]
    BY <1>5, <1>8, <1>10, <2>1, <2>3
  <2>5. QED
    BY <2>1, <2>2, <2>3, <2>4
<1>14. \A d \in Streams \ {c} : LaneSound(d)' /\ TurnsSound(d)'
  BY <1>1, <1>8, <1>10, <1>11, LaneUntouched DEF Unacknowledged
<1>15. GatewayTypes' /\ ClaimsSound'
  BY <1>1, <1>2, <1>8, <1>10, <1>11, GatewayStateKept
<1>16. QED
  BY <1>12, <1>13, <1>14, <1>15 DEF GatewayInv

\* The lane: a job starts, is claimed, ends or is dropped.
LEMMA LaneKeeps ==
  ASSUME GatewayInv, NEW c \in Streams,
         Gateway!StartJob(c) \/ Gateway!ClaimInteraction(c) \/ Gateway!EndJob(c) \/ Gateway!AbortJob(c)
  PROVE  GatewayInv'
<1>1. /\ GatewayTypes /\ ClaimsSound /\ LaneSound(c) /\ TurnsSound(c)
      /\ \A d \in Streams : LaneSound(d) /\ TurnsSound(d)
  BY DEF GatewayInv
<1>2. /\ stream' = stream /\ seen' = seen /\ world' = world /\ lane[c] # << >>
  BY DEF Gateway!StartJob, Gateway!ClaimInteraction, Gateway!EndJob, Gateway!AbortJob, Gateway!slotVars
<1>3. /\ stream' \in [Streams -> GatewayConns] /\ world' \in GatewayWorlds
      /\ seen' \in [Streams -> SUBSET Gateway!EventIds]
      /\ turns \in [Streams -> [Gateway!EventIds -> Nat]] /\ answered \in [Gateway!AllKeys -> Nat]
      /\ lane[c] \in Seq(GatewayJobs)
  BY <1>1, <1>2 DEF GatewayTypes
<1>4. ASSUME Gateway!Pop(c), turns' = turns, answered' = answered, interactions' = interactions PROVE GatewayInv'
  <2>1. /\ LaneSound(c)' /\ TurnsSound(c)'
        /\ lane' \in [Streams -> Seq(GatewayJobs)] /\ \A d \in Streams \ {c} : lane'[d] = lane[d]
    BY <1>1, <1>2, <1>4, LanePopped
  <2>2. \A d \in Streams \ {c} : LaneSound(d)' /\ TurnsSound(d)'
    BY <1>1, <1>2, <1>4, <2>1, LaneUntouched DEF Unacknowledged
  <2>3. GatewayTypes' /\ ClaimsSound'
    BY <1>1, <1>3, <1>4, <2>1, GatewayStateKept
  <2>4. QED
    BY <2>1, <2>2, <2>3 DEF GatewayInv
<1>5. 1 \in 1 .. Len(lane[c]) /\ lane[c][1] \in GatewayJobs
  BY <1>2, <1>3
<1>6. CASE Gateway!EndJob(c) \/ Gateway!AbortJob(c)
  BY <1>4, <1>6 DEF Gateway!EndJob, Gateway!AbortJob, Gateway!claims
<1>7. CASE Gateway!StartJob(c)
  <2>1. /\ lane[c][1].gate /\ lane[c][1].stage # "turn" /\ answered' = answered /\ interactions' = interactions
        /\ \E stage \in { "claim", "turn" } :
             Gateway!Stage(c, stage) /\ IF stage = "turn" THEN Gateway!Turn(c) ELSE turns' = turns
    BY <1>7 DEF Gateway!StartJob, Gateway!Head1, Gateway!claims
  <2>2. /\ \A d \in Streams : (LaneSound(d) => LaneSound(d)') /\ (TurnsSound(d) => TurnsSound(d)')
        /\ lane' \in [Streams -> Seq(GatewayJobs)]
        /\ turns' \in [Streams -> [Gateway!EventIds -> Nat]]
    BY <1>1, <1>2, <2>1, LaneStaged
  <2>3. GatewayTypes' /\ ClaimsSound'
    BY <1>1, <1>3, <2>1, <2>2, GatewayStateKept
  <2>4. QED
    BY <1>1, <2>2, <2>3 DEF GatewayInv
<1>8. CASE Gateway!ClaimInteraction(c) /\ Gateway!Claimable(c, Gateway!Head1(c))
  <2> DEFINE K == Gateway!KeysOf(world.binding.run, lane[c][1].event)
  <2>1. /\ lane[c][1].stage = "claim" /\ Gateway!Stage(c, "turn") /\ Gateway!Turn(c)
        /\ interactions' = interactions \cup K /\ K \cap interactions = {}
        /\ answered' = [k \in Gateway!AllKeys |-> answered[k] + IF k \in K THEN 1 ELSE 0]
    BY <1>8 DEF Gateway!ClaimInteraction, Gateway!Claimable, Gateway!Head1, Gateway!Remembered
  <2>2. lane[c][1].gate
    BY <1>1, <1>5, <2>1 DEF LaneSound
  <2>3. /\ \A d \in Streams : (LaneSound(d) => LaneSound(d)') /\ (TurnsSound(d) => TurnsSound(d)')
        /\ lane' \in [Streams -> Seq(GatewayJobs)]
        /\ turns' \in [Streams -> [Gateway!EventIds -> Nat]]
    BY <1>1, <1>2, <2>1, <2>2, LaneStaged
  <2> HIDE DEF K
  <2>4. answered' \in [Gateway!AllKeys -> Nat]
    BY <1>3, <2>1
  <2>5. \A k \in Gateway!AllKeys : answered'[k] \in { 0, 1 } /\ (answered'[k] = 1 => k \in interactions')
    BY <1>1, <2>1 DEF ClaimsSound
  <2>6. Gateway!AllKeys' = Gateway!AllKeys
    BY DEF Gateway!AllKeys, Gateway!KeysOf
  <2>7. GatewayTypes' /\ ClaimsSound'
    BY <1>3, <2>3, <2>4, <2>5, <2>6, GatewayStateKept DEF ClaimsSound
  <2>8. QED
    BY <1>1, <2>3, <2>7 DEF GatewayInv
<1>9. CASE Gateway!ClaimInteraction(c) /\ ~Gateway!Claimable(c, Gateway!Head1(c))
  BY <1>4, <1>9 DEF Gateway!ClaimInteraction, Gateway!claims
<1>10. QED
  BY <1>6, <1>7, <1>8, <1>9

\* The stream has drained: it is forgotten with what it has seen.
LEMMA DrainedKeeps ==
  ASSUME GatewayInv, NEW c \in Streams, Gateway!Drained(c)
  PROVE  GatewayInv'
<1>1. /\ GatewayTypes /\ ClaimsSound
      /\ \A d \in Streams : LaneSound(d) /\ TurnsSound(d)
  BY DEF GatewayInv
<1>2. /\ stream \in [Streams -> GatewayConns] /\ world \in GatewayWorlds /\ seen \in [Streams -> SUBSET Gateway!EventIds]
      /\ turns \in [Streams -> [Gateway!EventIds -> Nat]] /\ answered \in [Gateway!AllKeys -> Nat]
      /\ lane \in [Streams -> Seq(GatewayJobs)]
  BY <1>1 DEF GatewayTypes
<1>3. lane' = lane /\ answered' = answered /\ interactions' = interactions /\ lane[c] = << >>
  BY DEF Gateway!Drained, Gateway!claims
<1>4. world' \in GatewayWorlds
  BY <1>2, WorldTypes DEF Gateway!Drained, Gateway!slotVars
<1>5. /\ seen' \in [Streams -> SUBSET Gateway!EventIds] /\ seen'[c] = {}
      /\ \A d \in Streams \ {c} : seen'[d] = seen[d]
  BY <1>2 DEF Gateway!Drained
<1>6. /\ turns' \in [Streams -> [Gateway!EventIds -> Nat]] /\ \A i \in Gateway!EventIds : turns'[c][i] = 0
      /\ \A d \in Streams \ {c} : turns'[d] = turns[d]
  BY <1>2 DEF Gateway!Drained, Gateway!NoTurns
<1>7. stream' \in [Streams -> GatewayConns] /\ \A d \in Streams \ {c} : stream'[d] = stream[d]
  <2> DEFINE new == [Gateway!Unopened EXCEPT !.pc = "gone"]
  <2>1. Gateway!Unopened \in GatewayConns
    BY DEF Gateway!Unopened, GatewayConns, GatewayPcs
  <2>2. new \in GatewayConns
    BY <2>1 DEF GatewayConns, GatewayPcs
  <2>3. stream' = [stream EXCEPT ![c] = new]
    BY DEF Gateway!Drained
  <2> HIDE DEF new
  <2>4. QED
    BY <1>2, <2>2, <2>3
<1>8. LaneSound(c)'
  <2>1. 1 .. Len(lane'[c]) = {}
    BY <1>3
  <2>2. QED
    BY <2>1 DEF LaneSound
<1>9. TurnsSound(c)'
  BY <1>6 DEF TurnsSound, Gateway!EventIds
<1>10. \A d \in Streams \ {c} : LaneSound(d)' /\ TurnsSound(d)'
  BY <1>1, <1>3, <1>5, <1>6, <1>7, LaneUntouched DEF Unacknowledged
<1>11. GatewayTypes' /\ ClaimsSound'
  BY <1>1, <1>2, <1>3, <1>4, <1>5, <1>6, <1>7, GatewayStateKept
<1>12. QED
  BY <1>8, <1>9, <1>10, <1>11 DEF GatewayInv

LEMMA GatewayInit ==
  ASSUME Gateway!Init PROVE GatewayInv
<1>1. Gateway!Unopened \in GatewayConns
  BY DEF Gateway!Unopened, GatewayConns, GatewayPcs
<1>2. /\ stream = [c \in Streams |-> Gateway!Unopened] /\ seen = [c \in Streams |-> {}]
      /\ lane = [c \in Streams |-> << >>] /\ turns = [c \in Streams |-> Gateway!NoTurns]
      /\ answered = [k \in Gateway!AllKeys |-> 0]
      /\ world = [ owner |-> None, ready |-> FALSE, saving |-> FALSE, binding |-> Gateway!Unbound, identity |-> None ]
  BY DEF Gateway!Init
<1>3. world \in GatewayWorlds
  <2>1. Gateway!Unbound \in GatewayScopes
    BY DEF Gateway!Unbound, GatewayScopes
  <2>2. QED
    BY <1>2, <2>1 DEF GatewayWorlds
<1>4. Gateway!NoTurns \in [Gateway!EventIds -> Nat] /\ \A i \in Gateway!EventIds : Gateway!NoTurns[i] = 0
  BY DEF Gateway!NoTurns
<1>5. GatewayTypes
  BY <1>1, <1>2, <1>3, <1>4 DEF GatewayTypes
<1>6. ClaimsSound
  BY <1>2 DEF ClaimsSound
<1>7. ASSUME NEW c \in Streams PROVE LaneSound(c) /\ TurnsSound(c)
  <2>1. 1 .. Len(lane[c]) = {}
    BY <1>2
  <2>2. QED
    BY <1>2, <1>4, <2>1 DEF LaneSound, TurnsSound
<1>8. QED
  BY <1>5, <1>6, <1>7 DEF GatewayInv

LEMMA GatewayInductive ==
  ASSUME GatewayInv, [Gateway!Next]_(Gateway!vars) PROVE GatewayInv'
<1>1. CASE UNCHANGED Gateway!vars
  <2>1. /\ seen' = seen /\ turns' = turns /\ lane' = lane /\ answered' = answered /\ interactions' = interactions
        /\ stream' = stream /\ world' = world
    BY <1>1 DEF Gateway!vars, Gateway!slotVars, Gateway!claims
  <2>2. /\ stream' \in [Streams -> GatewayConns] /\ world' \in GatewayWorlds
        /\ \A d \in Streams : Unacknowledged(d) => Unacknowledged(d)'
    BY <2>1 DEF GatewayInv, GatewayTypes, Unacknowledged
  <2>3. QED
    BY <2>1, <2>2, LoopStep
<1>2. ASSUME NEW c \in Streams, NEW e \in Events, Gateway!Acknowledge(c, e) PROVE GatewayInv'
  <2>1. CASE Gateway!To(c, "leave") /\ seen' = seen /\ lane' = lane
    BY <1>2, <2>1, ReceiveKeeps
  <2>2. CASE /\ seen' = [seen EXCEPT ![c] = seen[c] \cup { e.id }]
             /\ lane' = [lane EXCEPT ![c][Len(lane[c])].gate = TRUE] /\ Gateway!To(c, "open")
    <3>1. /\ turns' = turns /\ answered' = answered /\ interactions' = interactions /\ world' = world
          /\ lane[c] # << >> /\ e = lane[c][Len(lane[c])].event
      BY <1>2 DEF Gateway!Acknowledge, Gateway!slotVars, Gateway!claims
    <3>2. QED
      BY <2>2, <3>1, AcknowledgedKeeps
  <2>3. QED
    BY <1>2, <2>1, <2>2 DEF Gateway!Acknowledge
<1>3. ASSUME NEW c \in Streams,
             \/ Gateway!Bootstrap(c) \/ Gateway!Register(c)
             \/ \E e \in Events : \/ Gateway!Refuse(c, e) \/ Gateway!RefuseFull(c, e)
                                \/ Gateway!Enqueue(c, e) \/ Gateway!Acknowledge(c, e)
             \/ Gateway!AcknowledgeDropped(c)
             \/ Gateway!StartJob(c) \/ Gateway!ClaimInteraction(c) \/ Gateway!EndJob(c) \/ Gateway!AbortJob(c)
             \/ Gateway!BindBegin(c) \/ (\E run \in Runs : Gateway!BindEnd(c, run)) \/ Gateway!MarkReady(c)
             \/ Gateway!Leave(c) \/ Gateway!Disconnect(c) \/ Gateway!Drained(c)
      PROVE  GatewayInv'
  BY <1>2, <1>3, ReceiveKeeps, RefuseFullKeeps, EnqueueKeeps, LaneKeeps, BindBeginKeeps, BindEndKeeps, DrainedKeeps
<1>4. CASE Gateway!PauseWorld \/ Gateway!Save \/ Gateway!Stop
  BY <1>4, WorldStepsKeep
<1>5. QED
  BY <1>1, <1>3, <1>4 DEF Gateway!Next

\* dispatchGameEvent and claimTaskInteraction, for any events, streams and runs:
\* a turn starts after its event was acknowledged, no event runs twice on its
\* stream, and an interaction is answered once, by source and by every fact.
THEOREM GatewayRunsOnce == Gateway!Spec => []Gateway!EventsRunOnce
<1>1. Gateway!Init => GatewayInv
  BY GatewayInit
<1>2. GatewayInv /\ [Gateway!Next]_(Gateway!vars) => GatewayInv'
  BY GatewayInductive
<1>3. GatewayInv => Gateway!EventsRunOnce
  <2> SUFFICES ASSUME GatewayInv PROVE Gateway!EventsRunOnce
    OBVIOUS
  <2>1. \A k \in Gateway!AllKeys : answered[k] <= 1
    BY DEF GatewayInv, ClaimsSound
  <2>2. \A c \in Streams : \A i \in Gateway!EventIds : turns[c][i] <= IF i \in seen[c] THEN 1 ELSE 0
    BY DEF GatewayInv, TurnsSound
  <2>3. QED
    BY <2>1, <2>2 DEF Gateway!EventsRunOnce
<1>4. QED
  BY <1>1, <1>2, <1>3, PTL DEF Gateway!Spec
-----------------------------------------------------------------------------
(* The composition.                                                        *)

\* The parts share no variable: each takes its own steps of the composition.
LEMMA PartsApart ==
  Spec => Gateway!Spec /\ Relay!RelaySpec /\ Workers!Spec /\ Accounts!Spec
<1>1. Init => Gateway!Init /\ Relay!Init /\ Workers!Init /\ Accounts!Init
  BY DEF Init
<1>2. [Next]_serviceVars => [Gateway!Next]_(Gateway!vars)
  BY DEF Next, serviceVars, GatewayMoves, RelayMoves, WorkersMove, AccountsMove, gatewayVars,
         Gateway!vars, Gateway!slotVars, Gateway!claims
<1>3. [Next]_serviceVars => [Relay!RelayNext]_(Relay!vars)
  BY DEF Next, serviceVars, GatewayMoves, RelayMoves, WorkersMove, AccountsMove, relayVars,
         Relay!vars, Relay!store, Relay!memory, Relay!history
<1>4. [Next]_serviceVars => [Workers!Next]_(Workers!vars)
  BY DEF Next, serviceVars, GatewayMoves, RelayMoves, WorkersMove, AccountsMove, workerVars,
         Workers!vars, Workers!store, Workers!docker
<1>5. [Next]_serviceVars => [Accounts!Next]_(Accounts!vars)
  BY DEF Next, serviceVars, GatewayMoves, RelayMoves, WorkersMove, AccountsMove, accountVars, Accounts!vars
<1>6. QED
  BY <1>1, <1>2, <1>3, <1>4, <1>5, PTL DEF Spec, Gateway!Spec, Relay!RelaySpec, Workers!Spec, Accounts!Spec

\* dispatchGameEvent and claimTaskInteraction, among the other services: a turn
\* follows the acknowledgement of its event, and an interaction has one answer.
THEOREM EventsAnsweredOnce == Spec => []EventsRunOnce
BY PartsApart, GatewayRunsOnce, PTL DEF EventsRunOnce

\* serveModel, among the other services: at most one call per identity, billed.
THEOREM CallsBilledOnce == Spec => []SentOnceAndBilled
BY PartsApart, RelayBills, ServicesAssumption, PTL DEF SentOnceAndBilled

\* serveModel and Connect, among the other services: no call goes on without a
\* stream of the game.
THEOREM CallsHaveStreams == Spec => []InFlightHasConnection
BY PartsApart, RelayRequestsHaveStreams, ServicesAssumption, PTL DEF InFlightHasConnection

\* DockerWorkers, among the other services: written data is never replaced, and
\* only a lost volume or a container of another image blocks an account.
THEOREM AccountsStayServed == Spec => []WorkersRecoverable
BY PartsApart, WorkersStayRecoverable, ServicesAssumption, PTL DEF WorkersRecoverable

\* ActivateChallenge, among the other services: only the newest code works.
THEOREM OnlyNewestCode == Spec => []LatestCodeWins
BY PartsApart, NewestCodeWins, ServicesAssumption, PTL DEF LatestCodeWins

\* Register, among the other services: an invitation and a code buy one account.
THEOREM OneAccountPerInvitation == Spec => []InvitationBuysOneAccount
BY PartsApart, InvitationsBuyOnce, ServicesAssumption, PTL DEF InvitationBuysOneAccount
=============================================================================
