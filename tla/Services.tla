------------------------------ MODULE Services ------------------------------
(* The parts of the service around the task runtime, side by side: the event *)
(* dispatch of the gateway, and the relay, the workers and the accounts of   *)
(* the hosted edition.  They share no state that their properties are about, *)
(* so that every step is a step of one of them; what one does to another (a  *)
(* key revoked with its account, a worker that fails to start) is an action  *)
(* or a choice of the module that suffers it.                                *)
EXTENDS Naturals, Sequences, FiniteSets

CONSTANTS
    None,
    Streams, Events, Runs, QueueSize,
    MaxBindings,                                    \* MaxGen of GatewayDispatch
    Conns, Devices, Keys, Calls, Ids, Usages, KeyLimit,
    Users, MaxWorkers, Images, MaxGen,
    Emails, Invites, Requests, MaxCodes, MaxTries

Codes == 1 .. MaxCodes

\* None is no stream, no handler and no usage; a nil pointer and a NULL column.
RelayConstants == None \notin Conns \cup Calls \cup Ids /\ None \notin Usages

\* The accounts of a deployment, and the limit on its containers.
WorkerConstants == IsFiniteSet(Users) /\ MaxWorkers \in Nat /\ Images # {}

\* A NULL code is no challenge, and no address reads like a state of an
\* invitation, which the code keeps in columns of their own.
AccountConstants ==
    /\ MaxCodes \in Nat /\ None \notin Codes
    /\ Emails \cap { "none", "open", "revoked" } = {}

ASSUME ServicesAssumption == RelayConstants /\ WorkerConstants /\ AccountConstants

VARIABLES
    stopped, stream, seen, lane, world, lifecycle, interactions, turns, answered,
    enabled, keys, rows, conn, connections, call, modelActive, modelCancels, web, sent, reported,
    gen, initialized, box, volume, allocations, closed, image, job, worked,
    users, invites, mail, req, spent

Gateway == INSTANCE GatewayDispatch WITH conn <- stream, MaxGen <- MaxBindings

Relay == INSTANCE HostedRelay

Workers == INSTANCE HostedWorkers

Accounts == INSTANCE AccountStore

gatewayVars == << stopped, stream, seen, lane, world, lifecycle, interactions, turns, answered >>
relayVars ==
    << enabled, keys, rows, conn, connections, call, modelActive, modelCancels, web, sent, reported >>
workerVars == << gen, initialized, box, volume, allocations, closed, image, job, worked >>
accountVars == << users, invites, mail, req, spent >>
serviceVars == << gatewayVars, relayVars, workerVars, accountVars >>

Init == Gateway!Init /\ Relay!Init /\ Workers!Init /\ Accounts!Init

GatewayMoves == Gateway!Next /\ UNCHANGED << relayVars, workerVars, accountVars >>
RelayMoves == Relay!RelayNext /\ UNCHANGED << gatewayVars, workerVars, accountVars >>
WorkersMove == Workers!Next /\ UNCHANGED << gatewayVars, relayVars, accountVars >>
AccountsMove == Accounts!Next /\ UNCHANGED << gatewayVars, relayVars, workerVars >>

Next == GatewayMoves \/ RelayMoves \/ WorkersMove \/ AccountsMove

\* The streams of the relay end by timeouts and ticks; nothing else is fair.
Spec == Init /\ [][Next]_serviceVars /\ Relay!RelayFairness

-----------------------------------------------------------------------------
\* GatewayDispatch: an event runs after its acknowledgement and once, and an
\* interaction is answered by one turn on whatever stream it arrives.
EventsRunOnce == Gateway!EventsRunOnce

\* HostedRelay: a request identity goes to the model at most once, and what
\* went is on the account, over restarts and lost answers.
SentOnceAndBilled == Relay!SentOnceAndBilled

\* HostedRelay: a model request that can still go on has a stream.
InFlightHasConnection == Relay!InFlightHasConnection

\* HostedRelay: a stream whose key was revoked, expired or disabled ends.
RevokedKeyDisconnects == Relay!RevokedKeyDisconnects

\* HostedWorkers: no step the controller dies at replaces written data, or leaves
\* an account that the deployment which made its container can not serve again.
WorkersRecoverable == Workers!WorkersRecoverable

\* AccountStore: of the codes mailed for a purpose only the newest works.
LatestCodeWins == Accounts!LatestCodeWins

\* AccountStore: an invitation and a code buy one account.
InvitationBuysOneAccount == Accounts!InvitationBuysOneAccount
=============================================================================
