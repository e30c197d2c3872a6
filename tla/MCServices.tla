----------------------------- MODULE MCServices -----------------------------
(* Services, and the assembly of a model request (ContextBudget), one part   *)
(* per behaviour.                                                            *)
EXTENDS Services, ContextBudget

VARIABLE subject                                                \* the part that moves

E(i, s, f, t) == [ id |-> i, source |-> s, facts |-> f, target |-> t ]

\* Two interactions that carry the same fact; ordinary events that disagree
\* about their target, and one without a target.
MCEvents ==
    { E(1, "s1", { "f1" }, "t1"), E(2, "s2", { "f1", "f2" }, "t1"),
      E(3, None, {}, "t1"), E(4, None, {}, "t2"), E(5, None, {}, None) }

\* One build of a request.  Stored sources 1 to 4: 3 is another session's, 4
\* of the future; 8 and 9 are experiences.
Source(i) == [ id |-> i, own |-> i # 3, visible |-> i # 4, kind |-> IF i = 8 THEN "experience" ELSE "turn" ]
Match(i, span) == [ id |-> i, own |-> i # 3, visible |-> i # 4, span |-> span ]
Experience(i, focus) == [ id |-> i, own |-> TRUE, visible |-> TRUE, focus |-> focus, size |-> 1 ]

Limits(request, user, history) ==
    [ request |-> request, user |-> user, system |-> 1, history |-> history, summary |-> 1, experiences |-> 2,
      records |-> 2, memory |-> 2, transcript |-> 4, definition |-> 4, task |-> 3, section |-> 3, retrieval |-> 2,
      knowledge |-> 2 ]

Plain ==
    [ wake |-> FALSE, event |-> "own", observation |-> "own", definitions |-> Absent, task |-> Absent, shell |-> 1,
      body |-> 0, system |-> 1, preferences |-> 1, historyOn |-> TRUE, memories |-> 0, summary |-> Absent,
      sources |-> << >>, experiences |-> << >>, groups |-> << >>, agent |-> << 1, 1 >>, game |-> << 1 >>,
      matches |-> << >>, snapshotOwn |-> TRUE, knowledge |-> << >>, knowledgeOwn |-> TRUE,
      budget |-> Limits(20, 20, 6) ]

\* What of the past is shown, under limits from too small to ample.
Recalling ==
    { [ Plain EXCEPT !.summary = s, !.sources = h, !.experiences = e, !.groups = g, !.matches = m,
                     !.knowledge = << 1, 1, 2 >>, !.snapshotOwn = o, !.knowledgeOwn = o,
                     !.budget = Limits(r, u, l) ] :
        s \in { Absent, [ own |-> TRUE, visible |-> TRUE, covers |-> { 1 }, size |-> 2 ] },
        h \in { << Source(1), Source(2) >>, << Source(2), Source(3), Source(4), Source(8) >> },
        e \in { << >>, << Experience(9, TRUE), Experience(9, TRUE), Experience(8, TRUE) >>,
                << Experience(9, FALSE) >> },
        g \in { << 3, 1 >>, << 1, 1, 2 >>, << 5 >> },
        m \in { << Match(2, { 1, 2 }), Match(1, { 2 }) >>,
                << Match(3, { 1 }), Match(4, { 1 }), Match(9, { 1 }), Match(2, { 2 }), Match(2, { 1, 2 }) >> },
        o \in BOOLEAN, r \in { 7, 9, 10, 11, 12, 14 }, u \in { 7, 20 }, l \in { 1, 3, 6 } }

\* The required sections, and the definitions, task and memories.
Cropping ==
    { [ Plain EXCEPT !.wake = w, !.event = IF w THEN Absent ELSE "own", !.definitions = d, !.shell = c, !.body = b,
                     !.historyOn = FALSE, !.memories = 3, !.groups = << 1, 1 >>,
                     !.task = IF w THEN [ own |-> TRUE, progress |-> 1, results |-> n, refs |-> IF n = 0 THEN 0 ELSE 1 ]
                              ELSE Absent,
                     !.budget = [ Limits(r, 20, 6) EXCEPT !.section = x, !.definition = y, !.task = z ] ] :
        w \in BOOLEAN, d \in { Absent, "own" }, c \in 1 .. 2, b \in { 0, 2 }, n \in { 0, 4 },
        r \in { 6, 9, 11, 13, 20 }, x \in 1 .. 3, y \in { 1, 3, 4 }, z \in 1 .. 3 }

\* Inputs that mix sessions.
Mixing ==
    { [ Plain EXCEPT !.event = e, !.observation = o, !.definitions = d, !.wake = w,
                     !.task = IF w THEN [ own |-> t, progress |-> 0, results |-> 0, refs |-> 0 ] ELSE Absent ] :
        e \in { Absent, "own", "other" }, o \in { "own", "other" }, d \in { Absent, "own", "other" },
        w \in BOOLEAN, t \in BOOLEAN }

MCInputs == Recalling \cup Cropping \cup Mixing

vars == << subject, serviceVars, buildVars >>

\* Two streams and the interactions, over a save or a rebind of one run.
Claims ==
    /\ world'.binding.run # "r2" /\ world'.identity = None
    /\ \A c \in Streams : \A n \in DOMAIN lane'[c] : lane'[c][n].event.facts # {}

\* One stream, the ordinary events and an interaction in between.
Arrivals ==
    /\ stream'["b"] = stream["b"]
    /\ \A c \in Streams : \A n \in DOMAIN lane'[c] : lane'[c][n].event.id # 2

\* Model calls of one device that reconnects.
OneDevice ==
    /\ keys'["k2"] = keys["k2"]
    /\ \A c \in Conns : conn'[c].device # "d2"

\* Two devices that take the account from each other, at the limit of keys.
NoCalls == call' = call

MCInit ==
    /\ subject \in { "claims", "arrivals", "calls", "devices", "workers", "accounts", "context" }
    /\ Init
    /\ subject # "workers" => image = "v1"
    /\ subject # "accounts" => \A e \in DOMAIN users : users[e] = Accounts!NoUser
    /\ IF subject = "context" THEN BuildInit
       ELSE stage = "start" /\ input = Plain /\ shown = Nothing /\ cursor = 1

MCNext ==
    \/ subject = "claims" /\ GatewayMoves /\ Claims /\ UNCHANGED << subject, buildVars >>
    \/ subject = "arrivals" /\ GatewayMoves /\ Arrivals /\ UNCHANGED << subject, buildVars >>
    \/ subject = "calls" /\ RelayMoves /\ OneDevice /\ UNCHANGED << subject, buildVars >>
    \/ subject = "devices" /\ RelayMoves /\ NoCalls /\ UNCHANGED << subject, buildVars >>
    \/ subject = "workers" /\ WorkersMove /\ UNCHANGED << subject, buildVars >>
    \/ subject = "accounts" /\ AccountsMove /\ UNCHANGED << subject, buildVars >>
    \/ subject = "context" /\ BuildNext /\ UNCHANGED << subject, serviceVars >>

\* What a behaviour leaves out starts no stream, and takes no step of one.
MCSpec == MCInit /\ [][MCNext]_vars /\ Relay!RelayFairness
=============================================================================
