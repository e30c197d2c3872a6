----------------------------- MODULE HostedRelay -----------------------------
(* The hosted gateway of one account: device keys, Connect, which forwards   *)
(* one stream of the game to the worker, and serveModel, which reserves      *)
(* quota, calls the model for the worker and settles.  The maps of Server    *)
(* are keyed by account, so that other accounts appear only as a busy slot   *)
(* or a spent global limit.  Rows and keys are durable, the rest is not.     *)
EXTENDS Naturals, FiniteSets

CONSTANTS Conns,      \* streams, each used once
          Devices,
          Keys,
          Calls,      \* handlers of model requests
          Ids,        \* X-WIA-Request-ID
          None,
          Usages,     \* totals the model may report
          KeyLimit    \* active keys of an account, 5 in the code

VARIABLES
    enabled,      \* users.enabled
    keys,         \* device_keys
    rows,         \* model_calls of the day
    conn,         \* the handlers of Connect
    connections,  \* Server.connections of the account
    call,         \* the handlers of serveModel
    modelActive,
    modelCancels,
    web,          \* what a web request still has to disconnect
    sent,         \* history: how often each identity went to the model
    reported      \* history: the usage the model reported for it

store == << enabled, keys, rows >>
memory == << connections, modelActive, modelCancels >>
history == << sent, reported >>
vars == << store, conn, call, memory, web, history >>

NoRow == [ status |-> "none", charged |-> None ]
Fresh == [ pc |-> "new", key |-> None, device |-> None, cancelled |-> FALSE, old |-> None ]
Gone == [Fresh EXCEPT !.pc = "gone"]
Idle == [ pc |-> "idle", id |-> None, conn |-> None, key |-> None, cancelled |-> FALSE, outcome |-> "uncertain", usage |-> None ]
Nothing == [ what |-> "none", key |-> None ]

Init ==
    /\ enabled = TRUE
    /\ keys = [k \in Keys |-> [ state |-> "none", device |-> None ]]
    /\ rows = [i \in Ids |-> NoRow]
    /\ conn = [c \in Conns |-> Fresh] /\ connections = None
    /\ call = [m \in Calls |-> Idle] /\ modelActive = FALSE /\ modelCancels = None
    /\ web = Nothing
    /\ sent = [i \in Ids |-> 0] /\ reported = [i \in Ids |-> None]

-----------------------------------------------------------------------------
(* Device keys and the account.                                              *)

KeyActive(k) == keys[k].state = "active" /\ enabled

\* AuthenticateKey: a key belongs to the first device that used it.
Accepts(k, d) == KeyActive(k) /\ keys[k].device \in { None, d }

CreateKey(k) ==
    /\ enabled /\ keys[k].state = "none"
    /\ Cardinality({ x \in Keys : keys[x].state = "active" }) < KeyLimit
    /\ keys' = [keys EXCEPT ![k].state = "active"]
    /\ UNCHANGED << enabled, rows, conn, call, memory, web, history >>

ExpireKey(k) ==
    /\ keys[k].state = "active"
    /\ keys' = [keys EXCEPT ![k].state = "ended"]
    /\ UNCHANGED << enabled, rows, conn, call, memory, web, history >>

Revoked == [k \in Keys |-> IF keys[k].state = "none" THEN keys[k] ELSE [keys[k] EXCEPT !.state = "ended"]]

\* The player revokes a key; the web request then disconnects its stream.
RevokeKey(k) ==
    /\ web.what = "none" /\ KeyActive(k)
    /\ keys' = [keys EXCEPT ![k].state = "ended"]
    /\ web' = [ what |-> "key", key |-> k ]
    /\ UNCHANGED << enabled, rows, conn, call, memory, history >>

\* setEnabledTx(false) or replacePassword, from the web server ...
DropCredentials(on) ==
    /\ web.what = "none"
    /\ enabled' = on
    /\ keys' = Revoked
    /\ web' = [ what |-> "user", key |-> None ]
    /\ UNCHANGED << rows, conn, call, memory, history >>

\* ... or from an operator's command, which is another process.
OperatorDropsCredentials(on) ==
    /\ enabled' = on
    /\ keys' = Revoked
    /\ UNCHANGED << rows, conn, call, memory, web, history >>

EnableAccount ==
    /\ ~enabled /\ enabled' = TRUE
    /\ UNCHANGED << keys, rows, conn, call, memory, web, history >>

Cancelled(c) == IF c = None THEN conn ELSE [conn EXCEPT ![c].cancelled = TRUE]
ModelCancelled(m) == IF m = None THEN call ELSE [call EXCEPT ![m].cancelled = TRUE]

disconnectKey ==
    LET hit == connections # None /\ conn[connections].key = web.key
    IN  /\ conn' = Cancelled(IF hit THEN connections ELSE None)
        /\ call' = ModelCancelled(IF hit THEN modelCancels ELSE None)

disconnectUser ==
    /\ conn' = Cancelled(connections)
    /\ call' = ModelCancelled(modelCancels)

Disconnect ==
    /\ web.what # "none"
    /\ IF web.what = "key" THEN disconnectKey ELSE disconnectUser
    /\ web' = Nothing
    /\ UNCHANGED << store, memory, history >>

-----------------------------------------------------------------------------
(* Connect.  The game may end its stream at any time, so that every step has *)
(* an end as well.                                                           *)

\* A handler forgets what it does not look at any more.
Move(c, pc) ==
    LET now == conn[c].cancelled /\ pc # "leave"
    IN  conn' = [conn EXCEPT ![c] = IF pc = "gone" THEN Gone
                                    ELSE [@ EXCEPT !.pc = pc, !.old = None, !.cancelled = now]]

\* The first check of the key, which does not bind it to the device.
Open(c, k, d) ==
    /\ conn[c].pc = "new" /\ Accepts(k, d)
    /\ conn' = [conn EXCEPT ![c] = [@ EXCEPT !.pc = "hello", !.key = k, !.device = d]]
    /\ UNCHANGED << store, call, memory, web, history >>

\* The Hello is supported and the key is bound to the device, or the Hello
\* does not come, or the stream ends.
Hello(c) ==
    /\ conn[c].pc = "hello"
    /\ \/ /\ Accepts(conn[c].key, conn[c].device) /\ ~conn[c].cancelled
          /\ keys' = [keys EXCEPT ![conn[c].key].device = conn[c].device]
          /\ Move(c, "enter")
       \/ Move(c, "gone") /\ UNCHANGED keys
    /\ UNCHANGED << enabled, rows, call, memory, web, history >>

\* Another device is refused; the stream of the same device is replaced.
Enter(c) ==
    LET old == connections
    IN  /\ conn[c].pc = "enter"
        /\ IF old # None /\ conn[old].device # conn[c].device
             THEN Move(c, "gone") /\ UNCHANGED connections
             ELSE /\ conn' = [Cancelled(old) EXCEPT ![c].pc = IF old = None THEN "ensure" ELSE "wait",
                                                    ![c].old = old]
                  /\ connections' = c
        /\ UNCHANGED << store, call, modelActive, modelCancels, web, history >>

\* old.done, the end of the own stream, or 5 seconds.
AwaitOld(c) ==
    /\ conn[c].pc = "wait"
    /\ \/ conn[conn[c].old].pc = "gone" /\ Move(c, "ensure")
       \/ Move(c, "leave")
    /\ UNCHANGED << store, call, memory, web, history >>

\* Workers.Ensure and the stream to the worker.
EnsureWorker(c) ==
    /\ conn[c].pc = "ensure"
    /\ \/ ~conn[c].cancelled /\ Move(c, "relay")
       \/ Move(c, "leave")
    /\ UNCHANGED << store, call, memory, web, history >>

\* One of the two forwarding goroutines ends, or the context.
RelayEnds(c) ==
    /\ conn[c].pc = "relay" /\ Move(c, "leave")
    /\ UNCHANGED << store, call, memory, web, history >>

\* Faulty variant: the ticker only looks at the context.
KeyTickBlind(c) ==
    /\ conn[c].pc = "relay" /\ conn[c].cancelled
    /\ Move(c, "leave")
    /\ UNCHANGED << store, call, memory, web, history >>

\* The ticker: a key that is not active any more ends the stream.
KeyTick(c) ==
    /\ conn[c].pc = "relay"
    /\ ~KeyActive(conn[c].key) \/ conn[c].cancelled
    /\ Move(c, "leave")
    /\ UNCHANGED << store, call, memory, web, history >>

\* The deferred end of Connect.
Leave(c) ==
    /\ conn[c].pc = "leave" /\ Move(c, "gone")
    /\ IF connections = c
         THEN connections' = None /\ call' = ModelCancelled(modelCancels)
         ELSE UNCHANGED << connections, call >>
    /\ UNCHANGED << store, modelActive, modelCancels, web, history >>

-----------------------------------------------------------------------------
(* serveModel.                                                               *)

At(m, pc) == call' = [call EXCEPT ![m] = IF pc = "end" THEN [Idle EXCEPT !.pc = pc]
                                         ELSE [@ EXCEPT !.pc = pc]]
PastGuard(m, pc) == call' = [call EXCEPT ![m] = [@ EXCEPT !.pc = pc, !.conn = None, !.key = None]]

\* The worker is authenticated and the connection of its account is read.
Arrive(m, i) ==
    /\ call[m].pc = "idle" /\ enabled /\ connections # None
    /\ call' = [call EXCEPT ![m] = [Idle EXCEPT !.pc = "check", !.id = i, !.conn = connections,
                                                !.key = conn[connections].key]]
    /\ UNCHANGED << store, conn, memory, web, history >>

\* KeyActive, then a free slot, then the one request of the account.
Admit(m) ==
    /\ call[m].pc = "check"
    /\ \/ /\ KeyActive(call[m].key) /\ ~modelActive
          /\ modelActive' = TRUE /\ At(m, "reserve")
       \/ UNCHANGED modelActive /\ call' = [call EXCEPT ![m] = Idle]
    /\ UNCHANGED << store, conn, connections, modelCancels, web, history >>

\* Faulty variant: an identity that was used before is reserved again.
ReservableAgain(i) == enabled

\* The row of an enabled account and a new identity, in one transaction that
\* also checks the daily limits of the account and of the site.
Reservable(i) == enabled /\ rows[i].status = "none"

\* The answer of a commit may be lost; then nobody marks the row.
Reserve(m) ==
    LET i == call[m].id
    IN  /\ call[m].pc = "reserve"
        /\ \/ /\ Reservable(i)
              /\ rows' = [rows EXCEPT ![i] = [ status |-> "pending", charged |-> None ]]
              /\ At(m, "guard") \/ At(m, "end")
           \/ At(m, "end") /\ UNCHANGED rows
        /\ UNCHANGED << enabled, keys, conn, memory, web, history >>

\* Faulty variant: the connection is not looked at again.
GuardOnce(m) ==
    /\ call[m].pc = "guard"
    /\ modelCancels' = m /\ PastGuard(m, "send")
    /\ UNCHANGED << store, conn, connections, modelActive, web, history >>

\* Under the mutex: the same connection, and a cancel it can reach.
Guard(m) ==
    /\ call[m].pc = "guard"
    /\ IF connections = call[m].conn
         THEN modelCancels' = m /\ PastGuard(m, "send")
         ELSE PastGuard(m, "mark") /\ UNCHANGED modelCancels
    /\ UNCHANGED << store, conn, connections, modelActive, web, history >>

Send(m) ==
    /\ call[m].pc = "send"
    /\ IF call[m].cancelled
         THEN At(m, "mark") /\ UNCHANGED sent
         ELSE At(m, "flight") /\ sent' = [sent EXCEPT ![call[m].id] = @ + 1]
    /\ UNCHANGED << store, conn, memory, web, reported >>

\* No answer, a refusal, or an answer with or without usage.
Answer(m) ==
    /\ call[m].pc = "flight"
    /\ \/ At(m, "mark") /\ UNCHANGED reported
       \/ /\ call' = [call EXCEPT ![m].pc = "mark", ![m].outcome = "failed"]
          /\ UNCHANGED reported
       \/ \E u \in Usages :
            /\ call' = [call EXCEPT ![m].pc = "settle", ![m].usage = u]
            /\ reported' = [reported EXCEPT ![call[m].id] = u]
    /\ UNCHANGED << store, conn, memory, web, sent >>

\* Settle applies to a pending row; its answer may be lost, or it may fail.
Settle(m) ==
    LET i == call[m].id
        charge == [rows EXCEPT ![i].status = "settled", ![i].charged = call[m].usage]
    IN  /\ call[m].pc = "settle"
        /\ \/ /\ rows[i].status = "pending" /\ rows' = charge
              /\ At(m, "end") \/ At(m, "mark")
           \/ At(m, "mark") /\ UNCHANGED rows
        /\ UNCHANGED << enabled, keys, conn, memory, web, history >>

MarkCallOutcome(i, status) ==
    IF rows[i].charged = None THEN [rows EXCEPT ![i].status = status] ELSE rows

\* Recording the outcome may fail; the reservation stays.
Mark(m) ==
    /\ call[m].pc = "mark" /\ At(m, "end")
    /\ rows' \in { rows, MarkCallOutcome(call[m].id, call[m].outcome) }
    /\ UNCHANGED << enabled, keys, conn, memory, web, history >>

End(m) ==
    /\ call[m].pc = "end" /\ call' = [call EXCEPT ![m] = Idle]
    /\ modelActive' = FALSE
    /\ modelCancels' = None
    /\ UNCHANGED << store, conn, connections, web, history >>

-----------------------------------------------------------------------------
\* Server.Close: streams and model calls are cancelled, and then end.
Close ==
    /\ conn' = Cancelled(connections)
    /\ call' = ModelCancelled(modelCancels)
    /\ UNCHANGED << store, memory, web, history >>

\* The process ends anywhere; the next one marks what was pending.
RecoverPendingCalls ==
    rows' = [i \in Ids |-> IF rows[i].status = "pending" THEN [rows[i] EXCEPT !.status = "uncertain"] ELSE rows[i]]

Restart ==
    /\ conn' = [c \in Conns |-> IF conn[c].pc = "new" THEN conn[c] ELSE Gone]
    /\ call' = [m \in Calls |-> Idle]
    /\ connections' = None /\ modelActive' = FALSE /\ modelCancels' = None
    /\ web' = Nothing
    /\ RecoverPendingCalls
    /\ UNCHANGED << enabled, keys, history >>

StreamStep(c) == Hello(c) \/ Enter(c) \/ AwaitOld(c) \/ EnsureWorker(c) \/ KeyTick(c) \/ Leave(c)

RelayNext ==
    \/ \E k \in Keys : CreateKey(k) \/ ExpireKey(k) \/ RevokeKey(k)
    \/ \E on \in BOOLEAN : DropCredentials(on) \/ OperatorDropsCredentials(on)
    \/ EnableAccount \/ Disconnect \/ Close \/ Restart
    \/ \E c \in Conns, k \in Keys, d \in Devices : Open(c, k, d)
    \/ \E c \in Conns : StreamStep(c) \/ RelayEnds(c)
    \/ \E m \in Calls, i \in Ids : Arrive(m, i)
    \/ \E m \in Calls :
         Admit(m) \/ Reserve(m) \/ Guard(m) \/ Send(m) \/ Answer(m) \/ Settle(m) \/ Mark(m) \/ End(m)

\* Every wait of Connect ends by a timeout or a tick; nothing else is fair.
RelayFairness == \A c \in Conns : WF_vars(StreamStep(c))

RelaySpec == Init /\ [][RelayNext]_vars /\ RelayFairness

-----------------------------------------------------------------------------
\* A request identity goes to the model at most once, and whatever went is
\* on the account of its day: by the usage the model reported, or in full
\* as long as that is not known.  Restarts, lost answers and late marks
\* included.
SentOnceAndBilled ==
    \A i \in Ids :
      /\ sent[i] <= 1
      /\ sent[i] = 1 => rows[i].status # "none" /\ rows[i].charged \in { None, reported[i] }
      /\ rows[i].status = "settled" <=> rows[i].charged # None

\* A model request that can still go on has a stream of the game: no order
\* of connecting, replacing, revoking and reserving leaves one behind.
InFlightHasConnection ==
    \A m \in Calls : call[m].pc \in { "send", "flight" } /\ ~call[m].cancelled => connections # None

\* A stream whose key was revoked, expired or disabled ends, although the
\* web request that revoked it may have found no stream to disconnect.
RevokedKeyDisconnects ==
    \A c \in Conns :
      conn[c].pc \notin { "new", "gone" } /\ ~KeyActive(conn[c].key) ~> conn[c].pc = "gone"

\* A stream of the account is forwarded only after the one it replaces has
\* ended (docs/phase11/phase11.2-hosted-runtime-and-launch.md).
OneForwarding ==
    Cardinality({ c \in Conns : conn[c].pc \in { "ensure", "relay" } }) <= 1
=============================================================================
