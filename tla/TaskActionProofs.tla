-------------------------- MODULE TaskActionProofs --------------------------
(* What holds of the action of a task for every bound on the generations of  *)
(* the world and on the failures of an attempt: an operation written off as  *)
(* not sent never reached the transport, and the two goroutines that release *)
(* one operation write the same cleanup.                                     *)
EXTENDS TaskAction, TLAPS

-----------------------------------------------------------------------------
(* The inductive invariant.                                                  *)

\* A goroutine inside sendGuarded, from the wait for the slot to the answer of
\* the transport.
Sending == { "slot", "guard", "sending", "sent", "failed" }

PCs == Frames \cup Sending \cup
       { "idle", "unsent", "starting", "acting", "observing", "admit", "reconcile",
         "release", "join", "answering", "persist" }
Wants == { "action", "observe", "control", "cancel" }
Asked == { "action", "observe", "control" }
Awaits == { "starting", "acting", "finishAction", "observing", "answering" }
Reasons == { "none", "task_terminal", "execution_ended" }
Statuses == { "none", "released", "unconfirmed" }

Outcomes == [ status : Statuses, reason : Reasons, obsolete : BOOLEAN ]
Controls == [ listed : BOOLEAN, done : BOOLEAN, result : Statuses, out : Outcomes ]
Locs == [ pc : PCs, gen : 1..MaxGen, want : Wants \cup { "none" },
          await : Awaits \cup { "none" }, active : BOOLEAN, ret : Frames, fail : Frames,
          reason : Reasons, skip : BOOLEAN, with : Procs \cup { NoProc }, got : Outcomes ]
Recs == [ state : { "running", "waiting", "paused", "settled" },
          op : { "none", "registered", "uncertain", "not_sent" }, opGen : 0..MaxGen,
          moved : BOOLEAN, needs : BOOLEAN, fact : { "none", "pending", "applied" },
          np : 0..(MaxFailures - 1), rc : 0..(MaxFailures - 1),
          cleanup : [ status : Statuses, reason : Reasons ] ]

RecTypes ==
    /\ rec \in Recs
    /\ world \in [ gen : 1..MaxGen, ready : BOOLEAN, open : BOOLEAN, closed : BOOLEAN ]
    /\ handed \in BOOLEAN /\ conflict \in BOOLEAN

PendingTypes ==
    /\ pa \in [ open : BOOLEAN, updated : BOOLEAN, result : { "none", "plain", "fact" } ]
    /\ po \in [ Procs -> { "none", "open", "plain", "fact", "error" } ]
    /\ ctl \in [ Procs -> Controls ]
    /\ releases \in Procs \cup { NoProc }

SlotTypes ==
    /\ slot \in [ at : { "free", "guard", "transport" }, msg : { << >> } \cup (Wants \X Procs) ]
    /\ slot.at # "free" => slot.msg \in Wants \X Procs
    /\ game \subseteq Asked \X Procs

\* What a goroutine sends and what it then waits for belong together.
CallSound(l) ==
    /\ l \in Locs
    /\ l.pc \in Sending => /\ l.want # "none" /\ l.await # "none"
                           /\ l.await = "answering" => l.want = "control"

LocTypes == loc \in [ Procs -> Locs ] /\ \A p \in Procs : CallSound(loc[p])

\* The send slot belongs to the goroutine at the guard.
SlotHeld == \A p \in Procs : loc[p].pc = "guard" => slot.at = "guard" /\ slot.msg[2] = p

Types == RecTypes /\ PendingTypes /\ SlotTypes /\ LocTypes

\* Where the action of the lane has not been handed over.
BeforeHandOver(l) == l.pc = "unsent" \/ (l.pc \in { "slot", "guard" } /\ l.want = "action")

\* A handed over action stays in the books, and nobody stands any more where
\* it could be handed over again or be recorded as not sent.
HandOverSound ==
    /\ handed => rec.op \in { "registered", "uncertain" } /\ ~BeforeHandOver(loc["lane"])
    /\ loc["back"].want # "action"

\* A goroutine that makes a control request.
InControl(l) == (l.pc \in Sending /\ l.want = "control") \/ l.pc = "answering"

\* The entry of taskReleases belongs to the one goroutine that makes the
\* request; those who joined wait for it, and every outcome that is to be
\* written is the outcome of that entry.
Recorded(c, o) == c.status = o.status /\ c.reason = o.reason

ReleaseSound ==
    \A p \in Procs :
      /\ InControl(loc[p]) => releases = p /\ ~ctl[p].done
      /\ loc[p].pc = "join" =>
           releases \in Procs /\ loc[p].with = releases /\ ~ctl[releases].done
      /\ loc[p].pc = "persist" =>
           releases \in Procs /\ ctl[releases].done /\ loc[p].got = ctl[releases].out

CleanupSound ==
    /\ rec.cleanup.status # "none" =>
         /\ releases \in Procs /\ ctl[releases].done
         /\ Recorded(rec.cleanup, ctl[releases].out)
    /\ ~conflict

IInv == Types /\ SlotHeld /\ HandOverSound /\ ReleaseSound /\ CleanupSound

-----------------------------------------------------------------------------
(* Moves of one goroutine.                                                   *)

\* A goroutine moves without entering a control request, a join or the write
\* of an outcome, and without going back to before the hand-over.
Steps(p) ==
    /\ loc' \in [ Procs -> Locs ] /\ CallSound(loc'[p])
    /\ \A q \in Procs : q # p => loc'[q] = loc[q]
    /\ InControl(loc'[p]) => InControl(loc[p])
    /\ loc'[p].pc \notin { "join", "persist" }
    /\ BeforeHandOver(loc'[p]) => BeforeHandOver(loc[p])
    /\ loc'[p].want = "action" => loc[p].want = "action" \/ p = "lane"

Moves(p) == Steps(p) /\ loc'[p].pc # "guard"

ControlsKept ==
    /\ releases' = releases /\ conflict' = conflict /\ handed' = handed
    /\ \A q \in Procs : ctl'[q].done = ctl[q].done /\ ctl'[q].out = ctl[q].out

BooksKept ==
    /\ rec'.cleanup = rec.cleanup
    /\ handed => rec'.op \in { "registered", "uncertain" }
    /\ ControlsKept

LEMMA LanesDistinct == "lane" \in Procs /\ "back" \in Procs /\ "lane" # "back" /\ NoProc \notin Procs
BY DEF Procs, NoProc

\* A move that keeps the books keeps what is said of goroutines, hand-over and
\* releases.
LEMMA StepKeeps ==
    ASSUME IInv, BooksKept, NEW p \in Procs, Steps(p)
    PROVE  LocTypes' /\ HandOverSound' /\ ReleaseSound' /\ CleanupSound'
<1>1. LocTypes'
  <2>1. \A q \in Procs : CallSound(loc'[q])
    BY DEF IInv, Types, LocTypes, Steps
  <2> QED BY <2>1 DEF Steps, LocTypes, CallSound, Locs
<1>2. HandOverSound'
  BY LanesDistinct DEF IInv, HandOverSound, BooksKept, ControlsKept, Steps, BeforeHandOver
<1>3. ReleaseSound'
  <2> SUFFICES ASSUME NEW q \in Procs
               PROVE  /\ InControl(loc'[q]) => releases' = q /\ ~ctl'[q].done
                      /\ loc'[q].pc = "join" =>
                           releases' \in Procs /\ loc'[q].with = releases' /\ ~ctl'[releases'].done
                      /\ loc'[q].pc = "persist" =>
                           releases' \in Procs /\ ctl'[releases'].done /\ loc'[q].got = ctl'[releases'].out
    BY DEF ReleaseSound, InControl
  <2>1. CASE q = p
    BY <2>1 DEF IInv, ReleaseSound, BooksKept, ControlsKept, Steps
  <2>2. CASE q # p
    BY <2>2 DEF IInv, ReleaseSound, BooksKept, ControlsKept, Steps
  <2> QED BY <2>1, <2>2
<1>4. CleanupSound'
  BY DEF IInv, CleanupSound, BooksKept, ControlsKept, Recorded
<1> QED BY <1>1, <1>2, <1>3, <1>4

LEMMA MoveKeeps ==
    ASSUME IInv, BooksKept, NEW p \in Procs, Moves(p)
    PROVE  LocTypes' /\ HandOverSound' /\ ReleaseSound' /\ CleanupSound'
BY StepKeeps DEF Moves

\* So does a step in which no goroutine moves.
LEMMA StillKeeps ==
    ASSUME IInv, BooksKept, loc' = loc
    PROVE  LocTypes' /\ HandOverSound' /\ ReleaseSound' /\ CleanupSound'
<1>1. LocTypes'
  BY DEF IInv, Types, LocTypes, CallSound, Locs
<1>2. HandOverSound'
  BY DEF IInv, HandOverSound, BooksKept, ControlsKept, BeforeHandOver
<1>3. ReleaseSound'
  BY DEF IInv, ReleaseSound, BooksKept, ControlsKept, InControl
<1>4. CleanupSound'
  BY DEF IInv, CleanupSound, BooksKept, ControlsKept, Recorded
<1> QED BY <1>1, <1>2, <1>3, <1>4

LEMMA RestingFacts ==
    \A pc \in Frames : \A g \in 1..MaxGen :
      LET l == Resting(pc, g)
      IN  l \in Locs /\ l.pc = pc /\ l.want = "none" /\ l.gen = g
BY DEF Resting, Locs, PCs, Frames, Procs, Outcomes, Statuses, Reasons, NoOutcome, NoProc

\* Where At puts a goroutine, and what the call keeps.
LEMMA AtFacts ==
    ASSUME loc \in [ Procs -> Locs ], NEW p \in Procs
    PROVE  \A pc \in PCs :
             /\ At(p, pc) \in Locs /\ At(p, pc).pc = pc
             /\ pc \in Frames => At(p, pc).want = "none"
             /\ pc \notin Frames => /\ At(p, pc).want = loc[p].want /\ At(p, pc).await = loc[p].await
                                    /\ At(p, pc).gen = loc[p].gen /\ At(p, pc).got = loc[p].got
                                    /\ At(p, pc).with = loc[p].with
<1> SUFFICES ASSUME NEW pc \in PCs
             PROVE  /\ At(p, pc) \in Locs /\ At(p, pc).pc = pc
                    /\ pc \in Frames => At(p, pc).want = "none"
                    /\ pc \notin Frames => /\ At(p, pc).want = loc[p].want /\ At(p, pc).await = loc[p].await
                                    /\ At(p, pc).gen = loc[p].gen /\ At(p, pc).got = loc[p].got
                                    /\ At(p, pc).with = loc[p].with
  OBVIOUS
<1>1. CASE pc \in Frames
  <2>1. loc[p].gen \in 1..MaxGen BY DEF Locs
  <2>2. At(p, pc) = Resting(pc, loc[p].gen) BY <1>1 DEF At
  <2> QED BY <1>1, <2>1, <2>2, RestingFacts
<1>2. CASE pc \notin Frames
  <2>1. At(p, pc) = [loc[p] EXCEPT !.pc = pc] BY <1>2 DEF At
  <2>2. loc[p] \in Locs OBVIOUS
  <2> QED BY <1>2, <2>1, <2>2 DEF Locs
<1> QED BY <1>1, <1>2

\* The places where a goroutine needs no more than to have come from IInv.
Plain == Frames \cup { "starting", "acting", "observing", "admit", "reconcile", "release" }

LEMMA AtMoves ==
    ASSUME IInv, NEW p \in Procs
    PROVE  \A pc \in Plain : Go(p, At(p, pc)) => Moves(p)
<1> SUFFICES ASSUME NEW pc \in Plain, Go(p, At(p, pc))
             PROVE  Moves(p)
  OBVIOUS
<1>1. loc \in [ Procs -> Locs ] BY DEF IInv, Types, LocTypes
<1>2. pc \in PCs /\ pc \notin Sending
      /\ pc \notin { "join", "persist", "answering", "unsent", "slot", "guard" }
  BY DEF Plain, PCs, Frames, Sending
<1>3. At(p, pc) \in Locs /\ At(p, pc).pc = pc /\ At(p, pc).want \in { loc[p].want, "none" }
  BY <1>1, <1>2, AtFacts
<1>4. loc' = [loc EXCEPT ![p] = At(p, pc)] BY DEF Go
<1>5. loc' \in [ Procs -> Locs ] /\ loc'[p].pc = pc /\ loc'[p] \in Locs
      /\ loc'[p].want \in { loc[p].want, "none" } /\ \A q \in Procs : q # p => loc'[q] = loc[q]
  BY <1>1, <1>3, <1>4
<1> QED BY <1>2, <1>5 DEF Moves, Steps, CallSound, InControl, BeforeHandOver

\* A goroutine that moves to l, with the facts about l given.
LEMMA GoTo ==
    ASSUME loc \in [ Procs -> Locs ], NEW p \in Procs
    PROVE  \A l \in Locs : Go(p, l) => /\ loc' \in [ Procs -> Locs ] /\ loc'[p] = l
                                       /\ \A q \in Procs : q # p => loc'[q] = loc[q]
BY DEF Go

LEMMA SendFacts ==
    ASSUME loc \in [ Procs -> Locs ], NEW p \in Procs, NEW want \in Wants, NEW await \in Awaits
    PROVE  LET l == Send(p, want, await)
           IN  l \in Locs /\ l.pc = "slot" /\ l.want = want /\ l.await = await
<1> DEFINE l == Send(p, want, await)
<1>1. loc[p] \in Locs OBVIOUS
<1>2. l \in Locs /\ l.pc = "slot" /\ l.want = want /\ l.await = await
  BY <1>1 DEF Send, Locs, PCs, Sending
<1> QED BY <1>2

LEMMA ReleaseFacts ==
    ASSUME loc \in [ Procs -> Locs ], NEW p \in Procs, NEW reason \in Reasons, NEW ret \in Frames,
           NEW r, NEW g \in 1..MaxGen
    PROVE  LET l == ReleaseThen(p, reason, ret, r, g)
           IN  l \in Locs /\ l.pc = "release" /\ l.want = loc[p].want
<1> DEFINE skips == r.op \in { "none", "not_sent" } \/ r.cleanup.status # "none"
           l == [loc[p] EXCEPT !.pc = "release", !.reason = reason, !.ret = ret, !.gen = g,
                               !.skip = skips]
<1>1. loc[p] \in Locs OBVIOUS
<1>2. skips \in BOOLEAN OBVIOUS
<1> HIDE DEF skips
<1>3. l \in Locs /\ l.pc = "release" /\ l.want = loc[p].want
  BY <1>1, <1>2 DEF Locs, PCs
<1>4. ReleaseThen(p, reason, ret, r, g) = l BY DEF ReleaseThen, skips
<1> QED BY <1>3, <1>4

\* A goroutine that starts to release an operation moves.
LEMMA ReleaseMoves ==
    ASSUME IInv, NEW p \in Procs
    PROVE  \A reason \in Reasons : \A ret \in Frames : \A g \in 1..MaxGen : \A r :
             Go(p, ReleaseThen(p, reason, ret, r, g)) => Moves(p)
<1> SUFFICES ASSUME NEW reason \in Reasons, NEW ret \in Frames, NEW g \in 1..MaxGen, NEW r,
                    Go(p, ReleaseThen(p, reason, ret, r, g))
             PROVE  Moves(p)
  OBVIOUS
<1> DEFINE l == ReleaseThen(p, reason, ret, r, g)
<1>1. loc \in [ Procs -> Locs ] BY DEF IInv, Types, LocTypes
<1>2. l \in Locs /\ l.pc = "release" /\ l.want = loc[p].want
  BY <1>1, ReleaseFacts
<1> HIDE DEF l
<1>3. loc' \in [ Procs -> Locs ] /\ loc'[p] = l /\ \A q \in Procs : q # p => loc'[q] = loc[q]
  BY <1>1, <1>2, GoTo DEF l
<1> QED BY <1>2, <1>3 DEF Moves, Steps, CallSound, InControl, BeforeHandOver, Sending

\* So does one that starts a query.
LEMMA ObserveMoves ==
    ASSUME IInv, NEW p \in Procs
    PROVE  \A l \in Locs : Observe(p, l) => Moves(p) /\ po' = [po EXCEPT ![p] = "open"]
<1> SUFFICES ASSUME NEW l \in Locs, Observe(p, l)
             PROVE  Moves(p) /\ po' = [po EXCEPT ![p] = "open"]
  OBVIOUS
<1> DEFINE m == [l EXCEPT !.pc = "slot", !.want = "observe", !.await = "observing", !.active = TRUE]
<1>1. loc \in [ Procs -> Locs ] BY DEF IInv, Types, LocTypes
<1>2. m \in Locs /\ m.pc = "slot" /\ m.want = "observe" /\ m.await = "observing"
  BY DEF Locs, PCs, Sending, Wants, Awaits
<1>3. Go(p, m) /\ po' = [po EXCEPT ![p] = "open"] BY DEF Observe
<1> HIDE DEF m
<1>4. loc' \in [ Procs -> Locs ] /\ loc'[p] = m /\ \A q \in Procs : q # p => loc'[q] = loc[q]
  BY <1>1, <1>2, <1>3, GoTo
<1> QED BY <1>2, <1>3, <1>4 DEF Moves, Steps, CallSound, InControl, BeforeHandOver

-----------------------------------------------------------------------------
(* The end of a send and of a control request.                               *)

Leaves(p) == \A q \in Procs : loc'[q].pc = "guard" => q # p /\ loc[q].pc = "guard"

PendingSound(p) ==
    Leaves(p) /\ PendingTypes' /\ LocTypes' /\ HandOverSound' /\ ReleaseSound' /\ CleanupSound'

\* Complete ends the request of its maker and of all who joined it: either
\* they all get one outcome, or the entry goes before there was any.
LEMMA CompleteKeeps ==
    ASSUME IInv, NEW p \in Procs, InControl(loc[p]), NEW status \in Statuses,
           NEW obsolete \in BOOLEAN, Complete(p, status, obsolete),
           UNCHANGED << rec, pa, po, handed, conflict >>
    PROVE  PendingSound(p)
<1> DEFINE out == [ctl[p].out EXCEPT !.status = status, !.obsolete = obsolete]
           given == IF obsolete THEN NoOutcome ELSE out
           target(q) == IF obsolete THEN loc[q].ret ELSE "persist"
           joined(q) == q = p \/ (loc[q].pc = "join" /\ loc[q].with = p)
           new == [ctl[p] EXCEPT !.listed = FALSE, !.done = TRUE, !.out = out]
<1>1. /\ ctl \in [ Procs -> Controls ] /\ loc \in [ Procs -> Locs ]
      /\ \A q \in Procs : CallSound(loc[q])
  BY DEF IInv, Types, PendingTypes, LocTypes
<1>2. releases = p /\ ~ctl[p].done BY DEF IInv, ReleaseSound
<1>3. ctl[p] \in Controls /\ ctl[p].out \in Outcomes BY <1>1 DEF Controls
<1>4. out \in Outcomes BY <1>3 DEF Outcomes
<1>5. given \in Outcomes
  <2>1. NoOutcome \in Outcomes BY DEF NoOutcome, Outcomes, Statuses, Reasons
  <2> QED BY <2>1, <1>4
<1>6. /\ ctl' = [ctl EXCEPT ![p] = new]
      /\ releases' = IF obsolete THEN NoProc ELSE releases
      /\ loc' = [q \in Procs |-> IF joined(q) THEN [At(q, target(q)) EXCEPT !.got = given] ELSE loc[q]]
  BY Zenon DEF Complete
<1> HIDE DEF out, given
<1>7. new \in Controls /\ new.done /\ new.out = out BY <1>3, <1>4 DEF Controls
<1> HIDE DEF new
<1>8. ctl' \in [ Procs -> Controls ] /\ ctl'[p] = new /\ \A q \in Procs : q # p => ctl'[q] = ctl[q]
  BY <1>1, <1>6, <1>7
<1>9. PendingTypes'
  <2>1. releases' \in Procs \cup { NoProc } BY <1>2, <1>6
  <2> QED BY <2>1, <1>8 DEF PendingTypes, IInv, Types
<1>10. ASSUME NEW q \in Procs, joined(q)
       PROVE  LET l == [At(q, target(q)) EXCEPT !.got = given]
              IN  /\ l \in Locs /\ l.pc = target(q) /\ l.got = given
                  /\ l.want \in { loc[q].want, "none" }
  <2>1. target(q) \in PCs BY <1>1 DEF Locs, PCs
  <2>2. At(q, target(q)) \in Locs /\ At(q, target(q)).pc = target(q)
        /\ At(q, target(q)).want \in { loc[q].want, "none" }
    BY <1>1, <2>1, AtFacts
  <2> HIDE DEF target
  <2> QED BY <1>5, <2>2 DEF Locs
<1>11. ASSUME NEW q \in Procs, joined(q)
       PROVE  /\ loc'[q] \in Locs /\ loc'[q].pc = target(q) /\ loc'[q].got = given
              /\ loc'[q].want \in { loc[q].want, "none" }
  BY <1>6, <1>10, <1>11
<1>12. \A q \in Procs : ~joined(q) => loc'[q] = loc[q] BY <1>6
<1>13. loc' \in [ Procs -> Locs ] BY <1>1, <1>6, <1>11, <1>12
<1>14. \A q \in Procs : joined(q) => target(q) \notin Sending \cup { "join", "unsent", "answering" }
  BY <1>1 DEF Locs, Frames, Sending
<1>15. LocTypes'
  BY <1>1, <1>11, <1>12, <1>13, <1>14 DEF LocTypes, CallSound, Locs
<1>16. HandOverSound'
  <2>1. \A q \in Procs : BeforeHandOver(loc'[q]) => BeforeHandOver(loc[q])
    <3> SUFFICES ASSUME NEW q \in Procs, BeforeHandOver(loc'[q]) PROVE BeforeHandOver(loc[q])
      OBVIOUS
    <3>1. CASE joined(q) BY <3>1, <1>11, <1>14 DEF BeforeHandOver, Sending
    <3>2. CASE ~joined(q) BY <3>2, <1>12
    <3> QED BY <3>1, <3>2
  <2>2. loc'["back"].want \in { loc["back"].want, "none" }
    BY <1>11, <1>12, LanesDistinct
  <2> QED BY <2>1, <2>2, LanesDistinct DEF HandOverSound, IInv, BeforeHandOver
<1>17. ReleaseSound'
  <2> SUFFICES ASSUME NEW q \in Procs
               PROVE  /\ InControl(loc'[q]) => releases' = q /\ ~ctl'[q].done
                      /\ loc'[q].pc = "join" =>
                           releases' \in Procs /\ loc'[q].with = releases' /\ ~ctl'[releases'].done
                      /\ loc'[q].pc = "persist" =>
                           releases' \in Procs /\ ctl'[releases'].done /\ loc'[q].got = ctl'[releases'].out
    BY DEF ReleaseSound, InControl
  <2>1. CASE joined(q)
    <3>1. ~InControl(loc'[q]) /\ loc'[q].pc # "join"
      BY <2>1, <1>11, <1>14 DEF InControl
    <3>2. ASSUME loc'[q].pc = "persist"
          PROVE  releases' = p /\ loc'[q].got = out
      <4>1. ~obsolete
        BY <3>2, <2>1, <1>1, <1>11 DEF Locs, Frames
      <4> QED BY <4>1, <2>1, <1>2, <1>6, <1>11 DEF given
    <3> QED BY <3>1, <3>2, <1>7, <1>8
  <2>2. CASE ~joined(q)
    <3>1. ~InControl(loc[q]) /\ loc[q].pc \notin { "join", "persist" }
      BY <2>2, <1>2 DEF IInv, ReleaseSound
    <3> QED BY <3>1, <2>2, <1>12 DEF InControl
  <2> QED BY <2>1, <2>2
<1>18. CleanupSound'
  <2>1. rec.cleanup.status = "none" BY <1>2 DEF IInv, CleanupSound
  <2> QED BY <2>1 DEF IInv, CleanupSound
<1>19. Leaves(p) BY <1>11, <1>12, <1>14 DEF Leaves, Sending
<1> QED BY <1>9, <1>15, <1>16, <1>17, <1>18, <1>19 DEF PendingSound

LEMMA MoveLeaves ==
    ASSUME NEW p \in Procs, Moves(p)
    PROVE  Leaves(p)
BY DEF Moves, Steps, Leaves

\* NotStarted is reached with an action only before its hand-over.
LEMMA NotStartedKeeps ==
    ASSUME IInv, NEW p \in Procs, loc[p].pc \in Sending,
           loc[p].want = "action" => loc[p].pc \in { "slot", "guard" },
           NEW obsolete \in BOOLEAN, NotStarted(p, obsolete),
           UNCHANGED << rec, handed, conflict >>
    PROVE  PendingSound(p)
<1>1. loc \in [ Procs -> Locs ] /\ CallSound(loc[p])
  BY DEF IInv, Types, LocTypes
<1>2. loc[p].want \in Wants BY <1>1 DEF CallSound, Locs
<1>3. PendingTypes BY DEF IInv, Types
<1>4. handed => rec.op \in { "registered", "uncertain" } BY DEF IInv, HandOverSound
<1>5. CASE loc[p].want = "action"
  <2>1. Go(p, At(p, "unsent")) /\ UNCHANGED pending BY <1>5 DEF NotStarted
  <2>2. At(p, "unsent") \in Locs /\ At(p, "unsent").pc = "unsent" /\ At(p, "unsent").want = "action"
    BY <1>1, <1>5, AtFacts DEF PCs, Frames
  <2>3. loc' \in [ Procs -> Locs ] /\ loc'[p] = At(p, "unsent")
        /\ \A q \in Procs : q # p => loc'[q] = loc[q]
    BY <1>1, <2>1, <2>2, GoTo
  <2>4. Moves(p)
    BY <1>5, <2>2, <2>3 DEF Moves, Steps, CallSound, InControl, BeforeHandOver, Sending
  <2>5. BooksKept BY <1>4, <2>1 DEF BooksKept, ControlsKept, pending
  <2> QED BY <1>3, <2>1, <2>4, <2>5, MoveKeeps, MoveLeaves DEF PendingSound, PendingTypes, pending
<1>6. CASE loc[p].want = "observe"
  <2>1. /\ Go(p, At(p, loc[p].fail))
        /\ po' = [po EXCEPT ![p] = "none"]
        /\ UNCHANGED << pa, ctl, releases >>
    BY <1>6 DEF NotStarted
  <2>2. loc[p].fail \in Plain BY <1>1 DEF Locs, Plain
  <2>3. Moves(p) BY <2>1, <2>2, AtMoves
  <2>4. BooksKept BY <1>4, <2>1 DEF BooksKept, ControlsKept
  <2> QED BY <1>3, <2>1, <2>3, <2>4, MoveKeeps, MoveLeaves DEF PendingSound, PendingTypes
<1>7. CASE loc[p].want = "control"
  <2>1. Complete(p, "unconfirmed", obsolete) /\ UNCHANGED << pa, po >>
    BY <1>7 DEF NotStarted
  <2>2. InControl(loc[p]) BY <1>7 DEF InControl
  <2> QED BY <2>1, <2>2, CompleteKeeps DEF Statuses
<1>8. CASE loc[p].want = "cancel"
  <2>1. Go(p, At(p, "finishAction")) /\ UNCHANGED pending BY <1>8 DEF NotStarted
  <2>3. Moves(p) BY <2>1, AtMoves DEF Plain, Frames
  <2>4. BooksKept BY <1>4, <2>1 DEF BooksKept, ControlsKept, pending
  <2> QED BY <1>3, <2>1, <2>3, <2>4, MoveKeeps, MoveLeaves DEF PendingSound, PendingTypes, pending
<1> QED BY <1>2, <1>5, <1>6, <1>7, <1>8 DEF Wants

-----------------------------------------------------------------------------
(* sendGuarded.                                                              *)

LEMMA FromPending ==
    ASSUME IInv, NEW p \in Procs, PendingSound(p), RecTypes', SlotTypes',
           slot' = slot \/ loc[p].pc = "guard"
    PROVE  IInv'
<1>1. SlotHeld'
  BY DEF IInv, SlotHeld, PendingSound, Leaves
<1> QED BY <1>1 DEF IInv, Types, PendingSound

LEMMA FromMove ==
    ASSUME IInv, BooksKept, RecTypes', SlotTypes', slot' = slot, PendingTypes',
           NEW p \in Procs, Moves(p)
    PROVE  IInv'
<1>1. SlotHeld'
  BY MoveLeaves DEF IInv, SlotHeld, Leaves
<1> QED BY <1>1, MoveKeeps DEF IInv, Types

LEMMA FromStill ==
    ASSUME IInv, BooksKept, RecTypes', SlotTypes', slot' = slot, PendingTypes', loc' = loc
    PROVE  IInv'
<1>1. SlotHeld'
  BY DEF IInv, SlotHeld
<1> QED BY <1>1, StillKeeps DEF IInv, Types

LEMMA SameRec ==
    ASSUME IInv, UNCHANGED << rec, world, handed, conflict >>
    PROVE  RecTypes'
BY DEF IInv, Types, RecTypes, Recs

LEMMA SameSlot ==
    ASSUME IInv, UNCHANGED << slot, game >>
    PROVE  SlotTypes'
BY DEF IInv, Types, SlotTypes

LEMMA SamePending ==
    ASSUME IInv, UNCHANGED pending
    PROVE  PendingTypes'
BY DEF IInv, Types, PendingTypes, pending

LEMMA SameBooks ==
    ASSUME IInv, UNCHANGED << rec, ctl, releases, history >>
    PROVE  BooksKept
BY DEF IInv, HandOverSound, BooksKept, ControlsKept, history

LEMMA SlotExpiresKeeps ==
    ASSUME IInv, NEW p \in Procs, SlotExpires(p)
    PROVE  IInv'
<1>1. loc[p].pc = "slot" /\ NotStarted(p, FALSE) /\ UNCHANGED << rec, world, slot, game, history >>
  BY DEF SlotExpires
<1>2. PendingSound(p) BY <1>1, NotStartedKeeps DEF Sending, history
<1>3. RecTypes' /\ SlotTypes' BY <1>1, SameRec, SameSlot DEF history
<1> QED BY <1>1, <1>2, <1>3, FromPending

LEMMA TakeSlotKeeps ==
    ASSUME IInv, NEW p \in Procs, TakeSlot(p)
    PROVE  IInv'
<1>1. /\ loc[p].pc = "slot" /\ slot = Free
      /\ slot' = [at |-> "guard", msg |-> << loc[p].want, p >>]
      /\ Go(p, At(p, "guard"))
      /\ UNCHANGED << rec, world, game, pending, history >>
  BY DEF TakeSlot
<1>2. loc \in [ Procs -> Locs ] /\ CallSound(loc[p]) BY DEF IInv, Types, LocTypes
<1>3. loc[p].want \in Wants /\ loc[p].await # "none" /\ (loc[p].await = "answering" => loc[p].want = "control")
  BY <1>1, <1>2 DEF CallSound, Locs, Sending
<1>4. At(p, "guard") \in Locs /\ At(p, "guard").pc = "guard" /\ At(p, "guard").want = loc[p].want
      /\ At(p, "guard").await = loc[p].await
  BY <1>2, AtFacts DEF PCs, Frames, Sending
<1>5. loc' \in [ Procs -> Locs ] /\ loc'[p] = At(p, "guard") /\ \A q \in Procs : q # p => loc'[q] = loc[q]
  BY <1>1, <1>2, <1>4, GoTo
<1>6. Steps(p)
  BY <1>1, <1>3, <1>4, <1>5 DEF Steps, CallSound, InControl, BeforeHandOver, Sending, Wants
<1>7. SlotTypes'
  <2>1. << loc[p].want, p >> \in Wants \X Procs BY <1>3
  <2> QED BY <1>1, <2>1 DEF IInv, Types, SlotTypes
<1>8. RecTypes' /\ PendingTypes' /\ BooksKept
  BY <1>1, SameRec, SamePending, SameBooks DEF history, pending
<1>9. SlotHeld'
  <2>1. \A q \in Procs : loc[q].pc # "guard" BY <1>1 DEF IInv, SlotHeld, Free
  <2> QED BY <2>1, <1>1, <1>5 DEF SlotHeld
<1> QED BY <1>6, <1>7, <1>8, <1>9, StepKeeps DEF IInv, Types

\* The hand-over: of an action by the lane, which leaves the places before it;
\* of a control request by its maker, which may still change its reason.
LEMMA StartKeeps ==
    ASSUME IInv, NEW p \in Procs, Start(p)
    PROVE  IInv'
<1>1. loc[p].pc = "guard" /\ UNCHANGED << rec, world, game, conflict >> BY DEF Start
<1>2. loc \in [ Procs -> Locs ] /\ CallSound(loc[p]) /\ ctl \in [ Procs -> Controls ]
  BY DEF IInv, Types, LocTypes, PendingTypes
<1>3. loc[p].want \in Wants /\ loc[p].await # "none" /\ (loc[p].await = "answering" => loc[p].want = "control")
  BY <1>1, <1>2 DEF CallSound, Locs, Sending
<1>4. CASE /\ ~world.closed /\ MayGo(p)
           /\ slot' = [slot EXCEPT !.at = "transport"]
           /\ handed' = (handed \/ loc[p].want = "action")
           /\ ctl' = IF loc[p].want = "control" /\ Settled
                       THEN [ctl EXCEPT ![p].out.reason = "task_terminal"] ELSE ctl
           /\ Go(p, At(p, "sending"))
           /\ UNCHANGED << pa, po, releases >>
  <2>1. At(p, "sending") \in Locs /\ At(p, "sending").pc = "sending"
        /\ At(p, "sending").want = loc[p].want /\ At(p, "sending").await = loc[p].await
    BY <1>2, AtFacts DEF PCs, Frames, Sending
  <2>2. loc' \in [ Procs -> Locs ] /\ loc'[p] = At(p, "sending") /\ \A q \in Procs : q # p => loc'[q] = loc[q]
    BY <1>2, <1>4, <2>1, GoTo
  <2>3. LocTypes'
    <3>1. CallSound(loc'[p]) BY <1>3, <2>1, <2>2 DEF CallSound, Wants
    <3> QED BY <2>2, <3>1 DEF IInv, Types, LocTypes, CallSound, Locs
  <2>4. HandOverSound'
    <3>1. p = "lane" \/ p = "back" BY DEF Procs
    <3>2. ~BeforeHandOver(loc'[p]) BY <2>1, <2>2 DEF BeforeHandOver
    <3>3. loc'["back"].want # "action"
      BY <2>1, <2>2, LanesDistinct DEF IInv, HandOverSound
    <3>4. CASE loc[p].want = "action"
      <4>1. p = "lane" BY <3>1, <3>4 DEF IInv, HandOverSound
      <4>2. rec.op = "registered" BY <1>4, <3>4 DEF MayGo, ActionMayGo
      <4> QED BY <4>1, <4>2, <3>2, <3>3, <1>1 DEF HandOverSound, BeforeHandOver
    <3>5. CASE loc[p].want # "action"
      <4>1. handed' = handed BY <1>4, <3>5 DEF IInv, Types, RecTypes
      <4>2. BeforeHandOver(loc'["lane"]) => BeforeHandOver(loc["lane"])
        BY <2>2, <3>2, LanesDistinct
      <4> QED BY <4>1, <4>2, <3>3, <1>1 DEF IInv, HandOverSound, BeforeHandOver
    <3> QED BY <3>4, <3>5
  <2>5. /\ ctl' \in [ Procs -> Controls ] /\ \A q \in Procs : ctl'[q].done = ctl[q].done
        /\ \A q \in Procs : q # p \/ loc[p].want # "control" => ctl'[q] = ctl[q]
    <3>1. CASE loc[p].want = "control" /\ Settled
      <4> DEFINE out == [ctl[p].out EXCEPT !.reason = "task_terminal"]
                 new == [ctl[p] EXCEPT !.out = out]
      <4>1. ctl[p] \in Controls /\ ctl[p].out \in Outcomes BY <1>2 DEF Controls
      <4>2. out \in Outcomes BY <4>1 DEF Outcomes, Reasons
      <4> HIDE DEF out
      <4>3. new \in Controls /\ new.done = ctl[p].done BY <4>1, <4>2 DEF Controls
      <4>4. ctl' = [ctl EXCEPT ![p] = new] BY <1>4, <3>1 DEF new, out
      <4> HIDE DEF new
      <4> QED BY <1>2, <3>1, <4>3, <4>4
    <3>2. CASE ~(loc[p].want = "control" /\ Settled)
      BY <1>2, <1>4, <3>2
    <3> QED BY <3>1, <3>2
  <2>6. /\ InControl(loc'[p]) <=> InControl(loc[p])
        /\ loc'[p].pc \notin { "join", "persist" }
    BY <1>1, <2>1, <2>2 DEF InControl, Sending
  <2>7. loc[p].want = "control" => releases = p /\ ~ctl[p].done
    BY <1>1 DEF IInv, ReleaseSound, InControl, Sending
  <2>8. ReleaseSound'
    <3> SUFFICES ASSUME NEW q \in Procs
                 PROVE  /\ InControl(loc'[q]) => releases' = q /\ ~ctl'[q].done
                        /\ loc'[q].pc = "join" =>
                             releases' \in Procs /\ loc'[q].with = releases' /\ ~ctl'[releases'].done
                        /\ loc'[q].pc = "persist" =>
                             releases' \in Procs /\ ctl'[releases'].done /\ loc'[q].got = ctl'[releases'].out
      BY DEF ReleaseSound, InControl
    <3>1. CASE q = p
      BY <3>1, <1>4, <2>5, <2>6 DEF IInv, ReleaseSound
    <3>2. CASE q # p
      BY <3>2, <1>4, <2>2, <2>5, <2>7 DEF IInv, ReleaseSound
    <3> QED BY <3>1, <3>2
  <2>9. CleanupSound'
    BY <1>1, <1>4, <2>5, <2>7 DEF IInv, CleanupSound, Recorded
  <2>10. SlotTypes' /\ RecTypes' /\ PendingTypes'
    <3>1. SlotTypes'
      <4>1. SlotTypes /\ slot.at = "guard" BY <1>1 DEF IInv, Types, SlotHeld
      <4> QED BY <1>1, <1>4, <4>1 DEF SlotTypes
    <3>2. RecTypes' BY <1>1, <1>4 DEF IInv, Types, RecTypes, Recs
    <3>3. PendingTypes' BY <1>4, <2>5 DEF IInv, Types, PendingTypes
    <3> QED BY <3>1, <3>2, <3>3
  <2>11. SlotHeld'
    BY <1>1, <2>1, <2>2 DEF IInv, SlotHeld
  <2> QED BY <2>3, <2>4, <2>8, <2>9, <2>10, <2>11 DEF IInv, Types
<1>5. CASE /\ slot' = Free
           /\ NotStarted(p, /\ loc[p].want = "control"
                            /\ Current(loc[p].gen) /\ ControlObsolete(p))
           /\ UNCHANGED handed
  <2>1. PICK b \in BOOLEAN : NotStarted(p, b)
    <3>1. (loc[p].want = "control" /\ Current(loc[p].gen) /\ ControlObsolete(p)) \in BOOLEAN
      OBVIOUS
    <3> QED BY <1>5, <3>1, Zenon
  <2>2. PendingSound(p) BY <1>1, <1>5, <2>1, NotStartedKeeps DEF Sending
  <2>3. SlotTypes' BY <1>1, <1>5 DEF IInv, Types, SlotTypes, Free
  <2>4. RecTypes' BY <1>1, <1>5, SameRec
  <2> QED BY <1>1, <2>2, <2>3, <2>4, FromPending
<1> QED BY <1>4, <1>5 DEF Start

\* The transport tells its caller if it still waits, and frees the slot.
LEMMA TransportKeeps ==
    ASSUME IInv, Transport
    PROVE  IInv'
<1> DEFINE p == slot.msg[2]
<1>1. /\ slot.at = "transport" /\ slot' = Free /\ UNCHANGED << rec, world, pending, history >>
      /\ \/ game' = IF slot.msg[1] = "cancel" THEN game ELSE game \cup { slot.msg }
         \/ game' = game
  BY DEF Transport
<1>2. PICK pc \in { "sent", "failed" } :
        loc' = [loc EXCEPT ![p].pc = IF loc[p].pc = "sending" THEN pc ELSE loc[p].pc]
  BY DEF Transport
<1>3. slot.msg \in Wants \X Procs /\ p \in Procs /\ game \subseteq Asked \X Procs
  BY <1>1 DEF IInv, Types, SlotTypes
<1>4. loc \in [ Procs -> Locs ] /\ CallSound(loc[p]) BY <1>3 DEF IInv, Types, LocTypes
<1> DEFINE l == [loc[p] EXCEPT !.pc = IF loc[p].pc = "sending" THEN pc ELSE loc[p].pc]
<1>5. l \in Locs /\ l.pc = (IF loc[p].pc = "sending" THEN pc ELSE loc[p].pc)
      /\ l.want = loc[p].want /\ l.await = loc[p].await /\ l.with = loc[p].with /\ l.got = loc[p].got
  BY <1>4 DEF CallSound, Locs, PCs, Sending
<1>6. loc' = [loc EXCEPT ![p] = l] BY <1>2
<1> HIDE DEF l
<1>7. loc' \in [ Procs -> Locs ] /\ loc'[p] = l /\ \A q \in Procs : q # p => loc'[q] = loc[q]
  BY <1>3, <1>4, <1>5, <1>6
<1>8. SlotTypes'
  <2>1. slot.msg[1] # "cancel" => slot.msg \in Asked \X Procs BY <1>3 DEF Wants, Asked
  <2> QED BY <1>1, <1>3, <2>1 DEF SlotTypes, Free
<1>9. RecTypes' /\ PendingTypes' /\ BooksKept
  BY <1>1, SameRec, SamePending, SameBooks DEF history, pending
<1>10. \A q \in Procs : loc[q].pc # "guard" BY <1>1 DEF IInv, SlotHeld
<1>11. SlotHeld' BY <1>3, <1>5, <1>7, <1>10 DEF SlotHeld
<1>12. CASE loc[p].pc = "sending"
  <2>1. Steps(p)
    BY <1>3, <1>4, <1>5, <1>7, <1>12 DEF Steps, CallSound, InControl, BeforeHandOver, Sending
  <2> QED BY <1>3, <1>8, <1>9, <1>11, <2>1, StepKeeps DEF IInv, Types
<1>13. CASE loc[p].pc # "sending"
  <2>1. loc' = loc
    <3>1. l = loc[p] BY <1>3, <1>4, <1>13 DEF l, Locs
    <3> QED BY <1>3, <1>4, <1>6, <3>1
  <2> QED BY <1>8, <1>9, <1>11, <2>1, StillKeeps DEF IInv, Types
<1> QED BY <1>12, <1>13

LEMMA SendFailedKeeps ==
    ASSUME IInv, NEW p \in Procs, loc[p].pc \in { "sending", "failed" }, SendFailed(p),
           UNCHANGED << rec, handed, conflict >>
    PROVE  PendingSound(p)
<1>1. CASE loc[p].want = "action"
  <2>1. Go(p, At(p, "finishAction")) /\ pa' = NoAction /\ UNCHANGED << po, ctl, releases >>
    BY <1>1 DEF SendFailed
  <2>2. Moves(p) BY <2>1, AtMoves DEF Plain, Frames
  <2>3. BooksKept BY <2>1, SameBooks DEF history
  <2>4. PendingTypes' BY <2>1 DEF IInv, Types, PendingTypes, NoAction
  <2> QED BY <2>2, <2>3, <2>4, MoveKeeps, MoveLeaves DEF PendingSound
<1>2. CASE loc[p].want # "action"
  <2>1. NotStarted(p, FALSE) BY <1>2 DEF SendFailed
  <2> QED BY <1>2, <2>1, NotStartedKeeps DEF Sending
<1> QED BY <1>1, <1>2

LEMMA SendEndsKeeps ==
    ASSUME IInv, NEW p \in Procs, SendEnds(p)
    PROVE  IInv'
<1>1. UNCHANGED << rec, world, slot, game, history >> BY DEF SendEnds
<1>2. RecTypes' /\ SlotTypes' BY <1>1, SameRec, SameSlot DEF history
<1>3. loc \in [ Procs -> Locs ] /\ CallSound(loc[p]) BY DEF IInv, Types, LocTypes
<1>4. CASE loc[p].pc = "sent" /\ Go(p, At(p, loc[p].await)) /\ UNCHANGED pending
  <2>1. loc[p].await \in Awaits /\ (loc[p].await = "answering" => loc[p].want = "control")
    BY <1>3, <1>4 DEF CallSound, Locs, Sending
  <2>2. Moves(p)
    <3>1. CASE loc[p].await # "answering"
      <4>1. loc[p].await \in Plain BY <2>1, <3>1 DEF Awaits, Plain, Frames
      <4> QED BY <1>4, <4>1, AtMoves
    <3>2. CASE loc[p].await = "answering"
      <4>1. At(p, "answering") \in Locs /\ At(p, "answering").pc = "answering"
            /\ At(p, "answering").want = "control"
        BY <1>3, <2>1, <3>2, AtFacts DEF PCs, Frames
      <4>2. loc' \in [ Procs -> Locs ] /\ loc'[p] = At(p, "answering") /\ \A q \in Procs : q # p => loc'[q] = loc[q]
        BY <1>3, <1>4, <3>2, <4>1, GoTo
      <4> QED BY <1>4, <2>1, <3>2, <4>1, <4>2 DEF Moves, Steps, CallSound, InControl, BeforeHandOver, Sending
    <3> QED BY <3>1, <3>2
  <2>3. BooksKept /\ PendingTypes' BY <1>1, <1>4, SameBooks, SamePending DEF pending
  <2> QED BY <1>1, <1>2, <2>2, <2>3, FromMove
<1>5. CASE loc[p].pc \in { "sending", "failed" } /\ SendFailed(p)
  <2>1. PendingSound(p) BY <1>1, <1>5, SendFailedKeeps DEF history
  <2> QED BY <1>1, <1>2, <2>1, FromPending
<1> QED BY <1>4, <1>5 DEF SendEnds

-----------------------------------------------------------------------------
(* The turn, observations and evidence.                                      *)

LEMMA RegisterKeeps ==
    ASSUME IInv, RegisterTaskAction
    PROVE  IInv'
<1>1. /\ loc["lane"].pc = "turn" /\ rec.op = "none"
      /\ UNCHANGED << world, slot, game, po, ctl, releases, history >>
  BY DEF RegisterTaskAction
<1>2. ~handed BY <1>1 DEF IInv, HandOverSound
<1>3. rec \in Recs /\ world.gen \in 1..MaxGen /\ loc \in [ Procs -> Locs ] /\ "lane" \in Procs
  BY LanesDistinct DEF IInv, Types, RecTypes, LocTypes
<1> DEFINE new == [rec EXCEPT !.op = "registered", !.opGen = world.gen, !.moved = FALSE]
<1>4. new \in Recs /\ new.cleanup = rec.cleanup
  <2>1. world.gen \in 0..MaxGen BY <1>3, ActionAssumption
  <2> QED BY <1>3, <2>1 DEF Recs
<1>5. rec' \in { rec, new } BY DEF RegisterTaskAction
<1> HIDE DEF new
<1>6. RecTypes' /\ SlotTypes' /\ BooksKept
  <2>1. RecTypes' BY <1>1, <1>3, <1>4, <1>5 DEF IInv, Types, RecTypes, history
  <2>2. BooksKept BY <1>1, <1>2, <1>4, <1>5 DEF BooksKept, ControlsKept, history
  <2> QED BY <1>1, <2>1, <2>2, SameSlot
<1>7. PendingTypes'
  <2>1. pa' \in { pa, [NoAction EXCEPT !.open = TRUE] } BY DEF RegisterTaskAction
  <2>2. [NoAction EXCEPT !.open = TRUE]
          \in [ open : BOOLEAN, updated : BOOLEAN, result : { "none", "plain", "fact" } ]
    <3>1. NoAction \in [ open : BOOLEAN, updated : BOOLEAN, result : { "none", "plain", "fact" } ]
      BY DEF NoAction
    <3> QED BY <3>1
  <2> QED BY <1>1, <2>1, <2>2 DEF IInv, Types, PendingTypes
<1>8. CASE Go("lane", At("lane", "finishAction"))
  <2>1. Moves("lane") BY <1>3, <1>8, AtMoves DEF Plain, Frames
  <2> QED BY <1>1, <1>3, <1>6, <1>7, <2>1, FromMove
<1>9. ASSUME NEW await \in { "starting", "acting" }, Go("lane", Send("lane", "action", await))
      PROVE  IInv'
  <2> DEFINE l == Send("lane", "action", await)
  <2>1. l \in Locs /\ l.pc = "slot" /\ l.want = "action" /\ l.await = await
    BY <1>3, SendFacts DEF Wants, Awaits
  <2> HIDE DEF l
  <2>2. loc' \in [ Procs -> Locs ] /\ loc'["lane"] = l /\ \A q \in Procs : q # "lane" => loc'[q] = loc[q]
    BY <1>3, <1>9, <2>1, GoTo DEF l
  <2>3. CallSound(loc'["lane"]) /\ ~InControl(loc'["lane"])
    BY <2>1, <2>2 DEF CallSound, InControl
  <2>4. LocTypes' BY <2>2, <2>3 DEF IInv, Types, LocTypes, CallSound, Locs
  <2>5. HandOverSound'
    <3>1. ~handed' BY <1>1, <1>2 DEF history
    <3>2. loc'["back"].want # "action" BY <2>2, LanesDistinct DEF IInv, HandOverSound
    <3> QED BY <3>1, <3>2 DEF HandOverSound
  <2>6. ReleaseSound'
    BY <1>1, <1>3, <2>1, <2>2, <2>3 DEF IInv, ReleaseSound, InControl
  <2>7. CleanupSound' BY <1>6 DEF IInv, CleanupSound, BooksKept, ControlsKept, Recorded
  <2>8. SlotHeld' BY <1>1, <2>1, <2>2 DEF IInv, SlotHeld
  <2> QED BY <1>6, <1>7, <2>4, <2>5, <2>6, <2>7, <2>8 DEF IInv, Types
<1> QED BY <1>8, <1>9 DEF RegisterTaskAction

\* Only an action that never reached the transport is recorded as not sent.
LEMMA RecordUnsentKeeps ==
    ASSUME IInv, RecordUnsent
    PROVE  IInv'
<1>1. /\ loc["lane"].pc = "unsent" /\ pa' = NoAction /\ Go("lane", At("lane", "finishAction"))
      /\ UNCHANGED << world, slot, game, po, ctl, releases, history >>
      /\ rec' \in { rec, [rec EXCEPT !.op = "not_sent"] }
  BY DEF RecordUnsent
<1>2. ~handed BY <1>1 DEF IInv, HandOverSound, BeforeHandOver
<1> DEFINE new == [rec EXCEPT !.op = "not_sent"]
<1>3. rec \in Recs BY DEF IInv, Types, RecTypes
<1>4. new \in Recs /\ new.cleanup = rec.cleanup BY <1>3 DEF Recs
<1> HIDE DEF new
<1>5. rec' \in { rec, new } BY <1>1 DEF new
<1>6. RecTypes' BY <1>1, <1>3, <1>4, <1>5 DEF IInv, Types, RecTypes, history
<1>7. BooksKept BY <1>1, <1>2, <1>4, <1>5 DEF BooksKept, ControlsKept, history
<1>8. PendingTypes' BY <1>1 DEF IInv, Types, PendingTypes, NoAction
<1>9. Moves("lane") BY <1>1, LanesDistinct, AtMoves DEF Plain, Frames
<1> QED BY <1>1, <1>6, <1>7, <1>8, <1>9, SameSlot, FromMove, LanesDistinct

\* Steps that only move the lane, or that also write the task.
LEMMA MoveAlone ==
    ASSUME IInv, NEW p \in Procs, Moves(p), UNCHANGED << rec, world, slot, game, pending, history >>
    PROVE  IInv'
BY SameRec, SameSlot, SamePending, SameBooks, FromMove DEF history, pending

LEMMA MoveAndQuery ==
    ASSUME IInv, NEW p \in Procs, Moves(p), UNCHANGED << world, slot, game, pa, ctl, releases, history >>,
           po' = po \/ po' = [po EXCEPT ![p] = "open"] \/ po' = [po EXCEPT ![p] = "none"],
           rec' \in Recs, rec'.op = rec.op, rec'.cleanup = rec.cleanup
    PROVE  IInv'
<1>1. RecTypes' BY DEF IInv, Types, RecTypes, history
<1>2. BooksKept BY DEF IInv, HandOverSound, BooksKept, ControlsKept, history
<1>3. PendingTypes' BY DEF IInv, Types, PendingTypes
<1> QED BY <1>1, <1>2, <1>3, SameSlot, FromMove

LEMMA RecFacts ==
    ASSUME IInv
    PROVE  rec \in Recs /\ world \in [ gen : 1..MaxGen, ready : BOOLEAN, open : BOOLEAN, closed : BOOLEAN ]
BY DEF IInv, Types, RecTypes

LEMMA LocFacts ==
    ASSUME IInv, NEW p \in Procs
    PROVE  loc \in [ Procs -> Locs ] /\ loc[p] \in Locs /\ CallSound(loc[p])
BY DEF IInv, Types, LocTypes

LEMMA StartedKeeps ==
    ASSUME IInv, Started
    PROVE  IInv'
<1>1. Go("lane", At("lane", "acting")) /\ UNCHANGED << rec, world, slot, game, pending, history >>
  BY DEF Started
<1>2. Moves("lane") BY <1>1, LanesDistinct, AtMoves DEF Plain
<1> QED BY <1>1, <1>2, LanesDistinct, MoveAlone

LEMMA ActionEndsKeeps ==
    ASSUME IInv, ActionEnds
    PROVE  IInv'
<1>1. /\ loc["lane"].pc \in { "starting", "acting" } /\ pa' = NoAction
      /\ UNCHANGED << rec, world, slot, game, po, ctl, releases, history >>
  BY DEF ActionEnds
<1>2. loc \in [ Procs -> Locs ] /\ loc["lane"] \in Locs BY LanesDistinct, LocFacts
<1>3. PendingTypes' BY <1>1 DEF IInv, Types, PendingTypes, NoAction
<1>4. RecTypes' /\ SlotTypes' /\ BooksKept BY <1>1, SameRec, SameSlot, SameBooks DEF history
<1>5. ASSUME Moves("lane") PROVE IInv'
  BY <1>1, <1>3, <1>4, <1>5, LanesDistinct, FromMove
<1>6. CASE Go("lane", At("lane", "turn"))
  BY <1>5, <1>6, LanesDistinct, AtMoves DEF Plain, Frames
<1>7. CASE Go("lane", [loc["lane"] EXCEPT !.pc = "admit", !.active = FALSE,
                                         !.ret = "turn", !.fail = "finishAction"])
  <2> DEFINE l == [loc["lane"] EXCEPT !.pc = "admit", !.active = FALSE,
                                     !.ret = "turn", !.fail = "finishAction"]
  <2>1. l \in Locs /\ l.pc = "admit" /\ l.want = loc["lane"].want BY <1>2 DEF Locs, PCs, Frames
  <2>2. Go("lane", l) BY <1>7
  <2> HIDE DEF l
  <2>3. loc' \in [ Procs -> Locs ] /\ loc'["lane"] = l /\ \A q \in Procs : q # "lane" => loc'[q] = loc[q]
    BY <1>2, <2>1, <2>2, GoTo, LanesDistinct
  <2>4. Moves("lane")
    BY <2>1, <2>3 DEF Moves, Steps, CallSound, InControl, BeforeHandOver, Sending
  <2> QED BY <1>5, <2>4
<1>8. CASE Go("lane", Send("lane", "cancel", "finishAction"))
  <2> DEFINE l == Send("lane", "cancel", "finishAction")
  <2>1. l \in Locs /\ l.pc = "slot" /\ l.want = "cancel" /\ l.await = "finishAction"
    BY <1>2, LanesDistinct, SendFacts DEF Wants, Awaits
  <2> HIDE DEF l
  <2>3. loc' \in [ Procs -> Locs ] /\ loc'["lane"] = l /\ \A q \in Procs : q # "lane" => loc'[q] = loc[q]
    BY <1>2, <1>8, <2>1, GoTo, LanesDistinct DEF l
  <2>4. Moves("lane")
    BY <2>1, <2>3 DEF Moves, Steps, CallSound, InControl, BeforeHandOver, Sending
  <2> QED BY <1>5, <2>4
<1> QED BY <1>6, <1>7, <1>8 DEF ActionEnds

\* The failure counters stay below their limit.
LEMMA Failures ==
    /\ 0 \in 0..(MaxFailures - 1)
    /\ \A n \in 0..(MaxFailures - 1) : (n + 1) % MaxFailures \in 0..(MaxFailures - 1)
<1>1. MaxFailures \in Nat /\ MaxFailures > 0 BY ActionAssumption
<1> QED BY <1>1

LEMMA TurnIntentKeeps ==
    ASSUME IInv, TurnIntent
    PROVE  IInv'
<1>1. PICK st \in { "waiting", "settled" } :
         /\ rec' = [rec EXCEPT !.state = st, !.moved = TRUE, !.np = 0, !.rc = 0]
         /\ Go("lane", IF st = "waiting" THEN At("lane", "finish")
                       ELSE ReleaseThen("lane", "task_terminal", "finish", rec, world.gen))
  BY DEF TurnIntent
<1>2. UNCHANGED << world, slot, game, pending, history >> BY DEF TurnIntent
<1>3. rec' \in Recs /\ rec'.op = rec.op /\ rec'.cleanup = rec.cleanup
  <2>1. rec \in Recs BY RecFacts
  <2> QED BY <1>1, <2>1, Failures DEF Recs
<1>4. Moves("lane")
  <2>1. CASE st = "waiting"
    BY <1>1, <2>1, LanesDistinct, AtMoves DEF Plain, Frames
  <2>2. CASE st = "settled"
    <3>1. world.gen \in 1..MaxGen BY RecFacts
    <3>2. Go("lane", ReleaseThen("lane", "task_terminal", "finish", rec, world.gen)) BY <1>1, <2>2
    <3> QED BY <3>1, <3>2, LanesDistinct, ReleaseMoves DEF Frames, Reasons
  <2> QED BY <2>1, <2>2
<1> QED BY <1>2, <1>3, <1>4, LanesDistinct, MoveAndQuery DEF pending

LEMMA TurnEndsKeeps ==
    ASSUME IInv, TurnEnds
    PROVE  IInv'
<1>1. PICK pc \in { "finish", "finishObserve" } : Go("lane", At("lane", pc)) BY DEF TurnEnds
<1>2. Moves("lane") BY <1>1, LanesDistinct, AtMoves DEF Plain, Frames
<1> QED BY <1>2, LanesDistinct, MoveAlone DEF TurnEnds

LEMMA SweepKeeps ==
    ASSUME IInv, Sweep
    PROVE  IInv'
<1>1. UNCHANGED << rec, world, slot, game, pa, ctl, releases, history >> BY DEF Sweep
<1>2. Moves("back") /\ (po' = po \/ po' = [po EXCEPT !["back"] = "open"])
  <2>1. CASE Observe("back", [loc["back"] EXCEPT !.ret = "done", !.fail = "done"])
    <3>1. [loc["back"] EXCEPT !.ret = "done", !.fail = "done"] \in Locs
      <4>1. loc["back"] \in Locs BY LanesDistinct, LocFacts
      <4> QED BY <4>1 DEF Locs, Frames
    <3> QED BY <2>1, <3>1, LanesDistinct, ObserveMoves
  <2>2. CASE Go("back", At("back", "done")) /\ UNCHANGED po
    BY <2>2, LanesDistinct, AtMoves DEF Plain, Frames
  <2> QED BY <2>1, <2>2 DEF Sweep
<1> QED BY <1>1, <1>2, RecFacts, LanesDistinct, MoveAndQuery

LEMMA ObservedKeeps ==
    ASSUME IInv, NEW p \in Procs, Observed(p)
    PROVE  IInv'
<1> DEFINE pc == CASE po[p] = "plain" -> loc[p].ret
                   [] po[p] = "fact" -> "admit"
                   [] OTHER -> loc[p].fail
<1>1. /\ Go(p, At(p, pc)) /\ po' = [po EXCEPT ![p] = "none"]
      /\ UNCHANGED << rec, world, slot, game, pa, ctl, releases, history >>
  BY DEF Observed
<1>2. pc \in Plain
  <2>1. loc[p].ret \in Plain /\ loc[p].fail \in Plain BY LocFacts DEF Locs, Plain
  <2>2. "admit" \in Plain BY DEF Plain
  <2> QED BY <2>1, <2>2
<1> HIDE DEF pc
<1>3. Moves(p) BY <1>1, <1>2, AtMoves
<1> QED BY <1>1, <1>3, RecFacts, MoveAndQuery

LEMMA AdmittedFacts ==
    ASSUME IInv
    PROVE  AdmittedRec \in Recs /\ AdmittedRec.op = rec.op /\ AdmittedRec.cleanup = rec.cleanup
BY RecFacts DEF AdmittedRec, Recs

LEMMA AdmitKeeps ==
    ASSUME IInv, NEW p \in Procs, AdmitTaskEvidence(p)
    PROVE  IInv'
<1>1. UNCHANGED << world, slot, game, pending, history >> BY DEF AdmitTaskEvidence
<1>2. CASE rec' = AdmittedRec /\ Go(p, At(p, "reconcile"))
  <2>1. Moves(p) BY <1>2, AtMoves DEF Plain
  <2> QED BY <1>1, <1>2, <2>1, AdmittedFacts, MoveAndQuery DEF pending
<1>3. CASE Go(p, At(p, loc[p].fail)) /\ UNCHANGED rec
  <2>1. loc[p].fail \in Plain BY LocFacts DEF Locs, Plain
  <2>2. Moves(p) BY <1>3, <2>1, AtMoves
  <2> QED BY <1>1, <1>3, <2>2, MoveAlone
<1> QED BY <1>2, <1>3 DEF AdmitTaskEvidence

LEMMA EventEvidenceKeeps ==
    ASSUME IInv, EventEvidence
    PROVE  IInv'
<1>1. rec' = AdmittedRec /\ UNCHANGED << world, slot, game, pending, loc, history >>
  BY DEF EventEvidence
<1>2. rec' \in Recs /\ rec'.op = rec.op /\ rec'.cleanup = rec.cleanup BY <1>1, AdmittedFacts
<1>3. RecTypes' BY <1>1, <1>2 DEF IInv, Types, RecTypes, history
<1>4. BooksKept BY <1>1, <1>2 DEF IInv, HandOverSound, BooksKept, ControlsKept, history, pending
<1> QED BY <1>1, <1>3, <1>4, SameSlot, SamePending, FromStill

\* What ReconcileTask reads again after its commit, and the pause of the world.
LEMMA ReconcileKeeps ==
    ASSUME IInv, NEW p \in Procs, ReconcileTask(p)
    PROVE  IInv'
<1>1. UNCHANGED << slot, game, pending, history >> BY DEF ReconcileTask
<1>2. rec \in Recs /\ world \in [ gen : 1..MaxGen, ready : BOOLEAN, open : BOOLEAN, closed : BOOLEAN ]
  BY RecFacts
<1>3. loc[p].ret \in Plain /\ loc[p].ret \in Frames /\ loc[p].fail \in Plain
  BY LocFacts DEF Locs, Plain
<1>4. CASE /\ world' = world
           /\ IF rec.fact = "pending" /\ ~Settled
                THEN \E st \in { "settled", "waiting", "running" } :
                       rec' = [rec EXCEPT !.state = st, !.fact = "applied", !.moved = TRUE,
                                          !.needs = FALSE, !.np = 0, !.rc = 0]
                ELSE UNCHANGED rec
           /\ \/ UNCHANGED loc
              \/ Go(p, IF rec'.state = "settled"
                         THEN ReleaseThen(p, "task_terminal", loc[p].ret, rec', world.gen)
                         ELSE At(p, loc[p].ret))
  <2>1. rec' \in Recs /\ rec'.op = rec.op /\ rec'.cleanup = rec.cleanup
    <3>1. CASE rec' = rec BY <3>1, <1>2
    <3>2. ASSUME NEW st \in { "settled", "waiting", "running" },
                 rec' = [rec EXCEPT !.state = st, !.fact = "applied", !.moved = TRUE,
                                    !.needs = FALSE, !.np = 0, !.rc = 0]
          PROVE  rec' \in Recs /\ rec'.op = rec.op /\ rec'.cleanup = rec.cleanup
      <4> DEFINE new == [rec EXCEPT !.state = st, !.fact = "applied", !.moved = TRUE,
                                    !.needs = FALSE, !.np = 0, !.rc = 0]
      <4>1. new \in Recs /\ new.op = rec.op /\ new.cleanup = rec.cleanup
        BY <1>2, Failures DEF Recs
      <4> QED BY <3>2, <4>1
    <3> QED BY <1>4, <3>1, <3>2
  <2>2. CASE UNCHANGED loc
    <3>1. RecTypes' BY <1>1, <1>4, <2>1 DEF IInv, Types, RecTypes, history
    <3>2. BooksKept BY <1>1, <2>1 DEF IInv, HandOverSound, BooksKept, ControlsKept, history, pending
    <3> QED BY <1>1, <2>2, <3>1, <3>2, SameSlot, SamePending, FromStill
  <2>3. CASE Go(p, IF rec'.state = "settled"
                     THEN ReleaseThen(p, "task_terminal", loc[p].ret, rec', world.gen)
                     ELSE At(p, loc[p].ret))
    <3>1. Moves(p)
      <4>1. CASE rec'.state = "settled"
        <5>1. Go(p, ReleaseThen(p, "task_terminal", loc[p].ret, rec', world.gen)) BY <2>3, <4>1
        <5>2. world.gen \in 1..MaxGen /\ "task_terminal" \in Reasons BY <1>2 DEF Reasons
        <5> QED BY <1>3, <5>1, <5>2, ReleaseMoves
      <4>2. CASE rec'.state # "settled"
        <5>1. Go(p, At(p, loc[p].ret)) BY <2>3, <4>2
        <5> QED BY <1>3, <5>1, AtMoves
      <4> QED BY <4>1, <4>2
    <3> QED BY <1>1, <1>4, <2>1, <3>1, MoveAndQuery DEF pending
  <2> QED BY <1>4, <2>2, <2>3
<1>5. CASE /\ Go(p, At(p, loc[p].fail))
           /\ world' = [world EXCEPT !.ready = FALSE, !.open = world.open /\ ~world.ready]
           /\ UNCHANGED rec
  <2>1. Moves(p) BY <1>3, <1>5, AtMoves
  <2>2. RecTypes'
    <3>1. (world.open /\ ~world.ready) \in BOOLEAN OBVIOUS
    <3>2. world' \in [ gen : 1..MaxGen, ready : BOOLEAN, open : BOOLEAN, closed : BOOLEAN ]
      BY <1>2, <1>5, <3>1
    <3> QED BY <1>1, <1>2, <1>5, <3>2 DEF IInv, Types, RecTypes, history
  <2>3. BooksKept BY <1>1, <1>5, SameBooks DEF pending
  <2> QED BY <1>1, <2>1, <2>2, <2>3, SameSlot, SamePending, FromMove
<1> QED BY <1>4, <1>5 DEF ReconcileTask

-----------------------------------------------------------------------------
(* The end of the execution.                                                 *)

LEMMA QueriedKeeps ==
    ASSUME IInv, Queried
    PROVE  IInv'
<1>1. Moves("lane")
  <2>1. PICK pc \in { "finishObserve", "finish" } : Go("lane", At("lane", pc)) BY DEF Queried
  <2> QED BY <2>1, LanesDistinct, AtMoves DEF Plain, Frames
<1> QED BY <1>1, LanesDistinct, MoveAlone DEF Queried

LEMMA QueryMoves ==
    ASSUME IInv, Query
    PROVE  Moves("lane") /\ po' = [po EXCEPT !["lane"] = "open"]
<1> DEFINE l == [loc["lane"] EXCEPT !.ret = "queried", !.fail = "finishObserve"]
<1>1. loc["lane"] \in Locs BY LanesDistinct, LocFacts
<1>2. l \in Locs BY <1>1 DEF Locs, Frames
<1>3. Observe("lane", l) BY DEF Query
<1> QED BY <1>2, <1>3, LanesDistinct, ObserveMoves

LEMMA FinishReadsKeeps ==
    ASSUME IInv, FinishReads
    PROVE  IInv'
<1> DEFINE l == loc["lane"]
<1>1. UNCHANGED << rec, world, slot, game, pa, ctl, releases, history >> /\ l.pc \in Finishing
  BY DEF FinishReads
<1>2. loc \in [ Procs -> Locs ] /\ l \in Locs BY LanesDistinct, LocFacts
<1>3. CASE Go("lane", At("lane", "end")) /\ UNCHANGED po
  <2>1. Moves("lane") BY <1>3, LanesDistinct, AtMoves DEF Plain, Frames
  <2> QED BY <1>1, <1>3, <2>1, LanesDistinct, RecFacts, MoveAndQuery
<1>4. CASE Go("lane", ReleaseThen("lane", "task_terminal", "end", rec, l.gen)) /\ UNCHANGED po
  <2>1. l.gen \in 1..MaxGen /\ "task_terminal" \in Reasons /\ "end" \in Frames
    BY <1>2 DEF Locs, Reasons, Frames
  <2>2. Moves("lane") BY <1>4, <2>1, LanesDistinct, ReleaseMoves
  <2> QED BY <1>1, <1>4, <2>2, LanesDistinct, RecFacts, MoveAndQuery
<1>5. CASE Go("lane", [l EXCEPT !.pc = "reconcile", !.ret = l.pc, !.fail = "end"]) /\ UNCHANGED po
  <2> DEFINE m == [l EXCEPT !.pc = "reconcile", !.ret = l.pc, !.fail = "end"]
  <2>1. l.pc \in Frames BY <1>1 DEF Finishing, Frames
  <2>2. m \in Locs /\ m.pc = "reconcile" /\ m.want = l.want
    BY <1>2, <2>1 DEF Locs, PCs, Frames
  <2>3. Go("lane", m) BY <1>5
  <2> HIDE DEF m
  <2>4. loc' \in [ Procs -> Locs ] /\ loc'["lane"] = m /\ \A q \in Procs : q # "lane" => loc'[q] = loc[q]
    BY <1>2, <2>2, <2>3, LanesDistinct, GoTo
  <2>5. Moves("lane")
    BY <2>2, <2>4 DEF Moves, Steps, CallSound, InControl, BeforeHandOver, Sending
  <2> QED BY <1>1, <1>5, <2>5, LanesDistinct, RecFacts, MoveAndQuery
<1>6. CASE Query
  BY <1>1, <1>6, QueryMoves, LanesDistinct, RecFacts, MoveAndQuery
<1> QED BY <1>3, <1>4, <1>5, <1>6 DEF FinishReads

LEMMA FinishAttemptKeeps ==
    ASSUME IInv, FinishAttempt
    PROVE  IInv'
<1> DEFINE failed(np, rc, exhausted) ==
             [rec EXCEPT !.np = np, !.rc = rc, !.moved = TRUE, !.needs = ~exhausted,
                         !.state = IF exhausted THEN "paused" ELSE rec.state]
<1>1. UNCHANGED << world, slot, game, pa, ctl, releases, history >> BY DEF FinishAttempt
<1>2. rec \in Recs BY RecFacts
<1>3. ASSUME NEW np \in 0..(MaxFailures - 1), NEW rc \in 0..(MaxFailures - 1), NEW e \in BOOLEAN
      PROVE  failed(np, rc, e) \in Recs /\ failed(np, rc, e).op = rec.op
             /\ failed(np, rc, e).cleanup = rec.cleanup
  BY <1>2, <1>3 DEF Recs
<1>4. /\ rec.np \in 0..(MaxFailures - 1) /\ (rec.np + 1) % MaxFailures \in 0..(MaxFailures - 1)
      /\ rec.rc \in 0..(MaxFailures - 1) /\ (rec.rc + 1) % MaxFailures \in 0..(MaxFailures - 1)
      /\ 0 \in 0..(MaxFailures - 1) /\ Exhausted(rec.np) \in BOOLEAN /\ Exhausted(rec.rc) \in BOOLEAN
  <2>1. rec.np \in 0..(MaxFailures - 1) /\ rec.rc \in 0..(MaxFailures - 1) BY <1>2 DEF Recs
  <2>2. Exhausted(rec.np) \in BOOLEAN /\ Exhausted(rec.rc) \in BOOLEAN BY DEF Exhausted
  <2> QED BY <2>1, <2>2, Failures
<1>5. \/ rec' = rec
      \/ rec' = [rec EXCEPT !.needs = FALSE, !.rc = 0, !.moved = TRUE]
      \/ rec' = failed((rec.np + 1) % MaxFailures, 0, Exhausted(rec.np))
      \/ rec' = failed(rec.np, (rec.rc + 1) % MaxFailures, Exhausted(rec.rc))
  BY Zenon DEF FinishAttempt
<1>6. rec' \in Recs /\ rec'.op = rec.op /\ rec'.cleanup = rec.cleanup
  <2>1. CASE rec' = rec BY <2>1, <1>2
  <2>2. CASE rec' = [rec EXCEPT !.needs = FALSE, !.rc = 0, !.moved = TRUE]
    BY <2>2, <1>2, <1>4 DEF Recs
  <2> HIDE DEF failed
  <2>3. CASE rec' = failed((rec.np + 1) % MaxFailures, 0, Exhausted(rec.np)) BY <2>3, <1>3, <1>4
  <2>4. CASE rec' = failed(rec.np, (rec.rc + 1) % MaxFailures, Exhausted(rec.rc)) BY <2>4, <1>3, <1>4
  <2> QED BY <1>5, <2>1, <2>2, <2>3, <2>4
<1>7. \/ \E pc \in { "turn", "end" } : Go("lane", At("lane", pc)) /\ po' = po
      \/ Query
      \/ loc' = loc /\ po' = po
  BY Zenon DEF FinishAttempt
<1>8. CASE \E pc \in { "turn", "end" } : Go("lane", At("lane", pc)) /\ po' = po
  <2>1. Moves("lane") BY <1>8, LanesDistinct, AtMoves DEF Plain, Frames
  <2> QED BY <1>1, <1>6, <1>8, <2>1, LanesDistinct, MoveAndQuery
<1>9. CASE Query
  BY <1>1, <1>6, <1>9, QueryMoves, LanesDistinct, MoveAndQuery
<1>10. CASE loc' = loc /\ po' = po
  <2>1. RecTypes' BY <1>1, <1>6 DEF IInv, Types, RecTypes, history
  <2>2. BooksKept BY <1>1, <1>6 DEF IInv, HandOverSound, BooksKept, ControlsKept, history
  <2> QED BY <1>1, <1>10, <2>1, <2>2, SameSlot, SamePending, FromStill DEF pending
<1> QED BY <1>7, <1>8, <1>9, <1>10

LEMMA ExecutionEndsKeeps ==
    ASSUME IInv, ExecutionEnds
    PROVE  IInv'
<1> DEFINE l == loc["lane"]
<1>1. UNCHANGED << rec, world, slot, game, pending, history >> BY DEF ExecutionEnds
<1>2. l.gen \in 1..MaxGen BY LanesDistinct, LocFacts DEF Locs
<1>3. \/ Go("lane", At("lane", "done"))
      \/ \E reason \in { "task_terminal", "execution_ended" } :
           Go("lane", ReleaseThen("lane", reason, "done", rec, l.gen))
  BY DEF ExecutionEnds
<1>4. Moves("lane")
  <2>1. CASE Go("lane", At("lane", "done")) BY <2>1, LanesDistinct, AtMoves DEF Plain, Frames
  <2>2. ASSUME NEW reason \in { "task_terminal", "execution_ended" },
               Go("lane", ReleaseThen("lane", reason, "done", rec, l.gen))
        PROVE  Moves("lane")
    BY <1>2, <2>2, LanesDistinct, ReleaseMoves DEF Frames, Reasons
  <2> QED BY <1>3, <2>1, <2>2
<1> QED BY <1>1, <1>4, LanesDistinct, MoveAlone

-----------------------------------------------------------------------------
(* releaseTaskOperations.                                                    *)

\* The first caller makes the request, a later one takes its outcome or joins.
LEMMA ReleaseOperationKeeps ==
    ASSUME IInv, NEW p \in Procs, ReleaseOperation(p)
    PROVE  IInv'
<1>1. loc[p].pc = "release" /\ UNCHANGED << rec, world, slot, game, pa, po, history >>
  BY DEF ReleaseOperation
<1>2. RecTypes' /\ SlotTypes' BY <1>1, SameRec, SameSlot DEF history
<1>3. loc \in [ Procs -> Locs ] /\ loc[p] \in Locs /\ ctl \in [ Procs -> Controls ]
      /\ releases \in Procs \cup { NoProc }
  BY LocFacts DEF IInv, Types, PendingTypes
<1>4. CASE Go(p, At(p, loc[p].ret)) /\ UNCHANGED << ctl, releases >>
  <2>1. loc[p].ret \in Plain BY <1>3 DEF Locs, Plain
  <2>2. Moves(p) BY <1>4, <2>1, AtMoves
  <2> QED BY <1>1, <1>4, <2>2, MoveAlone DEF pending
<1>5. ASSUME NEW l \in Locs, Go(p, l), l.want = loc[p].want, l.pc \in { "persist", "join" },
             releases \in Procs, UNCHANGED << ctl, releases >>,
             l.pc = "persist" => ctl[releases].done /\ l.got = ctl[releases].out,
             l.pc = "join" => ~ctl[releases].done /\ l.with = releases
      PROVE  IInv'
  <2>1. loc' \in [ Procs -> Locs ] /\ loc'[p] = l /\ \A q \in Procs : q # p => loc'[q] = loc[q]
    BY <1>3, <1>5, GoTo
  <2>2. LocTypes'
    <3>1. CallSound(loc'[p]) BY <1>5, <2>1 DEF CallSound, Sending
    <3> QED BY <2>1, <3>1 DEF IInv, Types, LocTypes, CallSound, Locs
  <2>3. HandOverSound'
    <3>1. ~BeforeHandOver(loc'[p]) BY <1>5, <2>1 DEF BeforeHandOver
    <3>2. BeforeHandOver(loc'["lane"]) => BeforeHandOver(loc["lane"]) BY <2>1, <3>1, LanesDistinct
    <3>3. loc'["back"].want # "action" BY <1>5, <2>1, LanesDistinct DEF IInv, HandOverSound
    <3> QED BY <1>1, <3>2, <3>3 DEF IInv, HandOverSound, BeforeHandOver, history
  <2>4. ReleaseSound'
    <3> SUFFICES ASSUME NEW q \in Procs
                 PROVE  /\ InControl(loc'[q]) => releases' = q /\ ~ctl'[q].done
                        /\ loc'[q].pc = "join" =>
                             releases' \in Procs /\ loc'[q].with = releases' /\ ~ctl'[releases'].done
                        /\ loc'[q].pc = "persist" =>
                             releases' \in Procs /\ ctl'[releases'].done /\ loc'[q].got = ctl'[releases'].out
      BY DEF ReleaseSound, InControl
    <3>1. CASE q = p
      <4>1. ~InControl(l) BY <1>5 DEF InControl, Sending
      <4> QED BY <3>1, <4>1, <1>5, <2>1
    <3>2. CASE q # p
      BY <3>2, <1>5, <2>1 DEF IInv, ReleaseSound
    <3> QED BY <3>1, <3>2
  <2>5. CleanupSound' BY <1>1, <1>5 DEF IInv, CleanupSound, Recorded, history
  <2>6. SlotHeld' BY <1>1, <1>5, <2>1 DEF IInv, SlotHeld
  <2>7. PendingTypes' BY <1>1, <1>5, SamePending DEF pending
  <2> QED BY <1>2, <2>2, <2>3, <2>4, <2>5, <2>6, <2>7 DEF IInv, Types
<1>6. CASE /\ releases # NoProc
           /\ Go(p, IF ctl[releases].done
                      THEN [loc[p] EXCEPT !.pc = "persist", !.got = ctl[releases].out]
                      ELSE [loc[p] EXCEPT !.pc = "join", !.with = releases])
           /\ UNCHANGED << ctl, releases >>
  <2>1. releases \in Procs BY <1>3, <1>6
  <2>2. CASE ctl[releases].done
    <3> DEFINE l == [loc[p] EXCEPT !.pc = "persist", !.got = ctl[releases].out]
    <3>1. ctl[releases].out \in Outcomes BY <1>3, <2>1 DEF Controls
    <3>2. l \in Locs /\ l.pc = "persist" /\ l.got = ctl[releases].out /\ l.want = loc[p].want
      BY <1>3, <3>1 DEF Locs, PCs
    <3>3. Go(p, l) BY <1>6, <2>2
    <3> HIDE DEF l
    <3> QED BY <1>5, <1>6, <2>1, <2>2, <3>2, <3>3
  <2>3. CASE ~ctl[releases].done
    <3> DEFINE l == [loc[p] EXCEPT !.pc = "join", !.with = releases]
    <3>2. l \in Locs /\ l.pc = "join" /\ l.with = releases /\ l.want = loc[p].want
      BY <1>3 DEF Locs, PCs
    <3>3. Go(p, l) BY <1>6, <2>3
    <3> HIDE DEF l
    <3> QED BY <1>5, <1>6, <2>1, <2>3, <3>2, <3>3
  <2> QED BY <2>2, <2>3
<1>7. CASE /\ releases = NoProc /\ releases' = p
           /\ ctl' = [ctl EXCEPT ![p] = [NoControl EXCEPT !.listed = TRUE, !.out.reason = loc[p].reason]]
           /\ Go(p, Send(p, "control", "answering"))
  <2> DEFINE l == Send(p, "control", "answering")
             made == [NoControl EXCEPT !.listed = TRUE, !.out.reason = loc[p].reason]
  <2>1. l \in Locs /\ l.pc = "slot" /\ l.want = "control" /\ l.await = "answering"
    BY <1>3, SendFacts DEF Wants, Awaits
  <2>2. NoControl \in Controls /\ ~NoControl.done
    BY DEF NoControl, NoOutcome, Controls, Outcomes, Statuses, Reasons
  <2>3. loc[p].reason \in Reasons BY <1>3 DEF Locs
  <2>4. made \in Controls /\ ~made.done BY <2>2, <2>3 DEF Controls, Outcomes
  <2>5. ctl' = [ctl EXCEPT ![p] = made] BY <1>7
  <2> HIDE DEF l, made
  <2>6. loc' \in [ Procs -> Locs ] /\ loc'[p] = l /\ \A q \in Procs : q # p => loc'[q] = loc[q]
    BY <1>3, <1>7, <2>1, GoTo DEF l
  <2>7. ctl' \in [ Procs -> Controls ] /\ ctl'[p] = made BY <1>3, <2>4, <2>5
  <2>8. LocTypes'
    <3>1. CallSound(loc'[p]) BY <2>1, <2>6 DEF CallSound
    <3> QED BY <2>6, <3>1 DEF IInv, Types, LocTypes, CallSound, Locs
  <2>9. HandOverSound'
    <3>1. ~BeforeHandOver(loc'[p]) BY <2>1, <2>6 DEF BeforeHandOver
    <3>2. BeforeHandOver(loc'["lane"]) => BeforeHandOver(loc["lane"]) BY <2>6, <3>1, LanesDistinct
    <3>3. loc'["back"].want # "action" BY <2>1, <2>6, LanesDistinct DEF IInv, HandOverSound
    <3> QED BY <1>1, <3>2, <3>3 DEF IInv, HandOverSound, BeforeHandOver, history
  <2>10. \A q \in Procs : ~InControl(loc[q]) /\ loc[q].pc \notin { "join", "persist" }
    BY <1>7, LanesDistinct DEF IInv, ReleaseSound
  <2>11. ReleaseSound'
    <3> SUFFICES ASSUME NEW q \in Procs
                 PROVE  /\ InControl(loc'[q]) => releases' = q /\ ~ctl'[q].done
                        /\ loc'[q].pc \notin { "join", "persist" }
      BY DEF ReleaseSound, InControl
    <3>1. CASE q = p BY <3>1, <1>7, <2>1, <2>4, <2>6, <2>7
    <3>2. CASE q # p BY <3>2, <2>6, <2>10
    <3> QED BY <3>1, <3>2
  <2>12. CleanupSound'
    <3>1. rec.cleanup.status = "none" /\ ~conflict BY <1>7, LanesDistinct DEF IInv, CleanupSound
    <3> QED BY <1>1, <3>1 DEF CleanupSound, history
  <2>13. SlotHeld' BY <1>1, <2>1, <2>6 DEF IInv, SlotHeld
  <2>14. PendingTypes' BY <1>1, <1>7, <2>7 DEF IInv, Types, PendingTypes
  <2> QED BY <1>2, <2>8, <2>9, <2>11, <2>12, <2>13, <2>14 DEF IInv, Types
<1> QED BY <1>4, <1>6, <1>7 DEF ReleaseOperation

LEMMA JoinExpiresKeeps ==
    ASSUME IInv, NEW p \in Procs, JoinExpires(p)
    PROVE  IInv'
<1>1. loc[p].ret \in Plain BY LocFacts DEF Locs, Plain
<1>2. Moves(p) BY <1>1, AtMoves DEF JoinExpires
<1> QED BY <1>2, MoveAlone DEF JoinExpires

LEMMA AnsweredKeeps ==
    ASSUME IInv, NEW p \in Procs, Answered(p)
    PROVE  IInv'
<1>1. loc[p].pc = "answering" /\ UNCHANGED << rec, world, slot, game, pa, po, history >>
  BY DEF Answered
<1>2. InControl(loc[p]) BY <1>1 DEF InControl
<1>3. ctl[p].result \in Statuses /\ "unconfirmed" \in Statuses
  BY DEF IInv, Types, PendingTypes, Controls, Statuses
<1>4. PICK status \in Statuses : Complete(p, status, FALSE) BY <1>3 DEF Answered
<1>5. PendingSound(p) BY <1>1, <1>2, <1>4, CompleteKeeps DEF history
<1> QED BY <1>1, <1>5, SameRec, SameSlot, FromPending DEF history

\* Every outcome that is written is that of the one entry.
LEMMA RecordCleanupKeeps ==
    ASSUME IInv, NEW p \in Procs, RecordCleanup(p)
    PROVE  IInv'
<1> DEFINE c == [status |-> loc[p].got.status, reason |-> loc[p].got.reason]
           fits == \/ rec.cleanup.status = "none"
                   \/ rec.cleanup.status = "unconfirmed" /\ c.status = "released"
           new == [rec EXCEPT !.cleanup = c]
<1>1. /\ loc[p].pc = "persist" /\ Go(p, At(p, loc[p].ret))
      /\ UNCHANGED << world, slot, game, pending, handed >>
  BY DEF RecordCleanup
<1>2. \/ rec' = rec /\ conflict' = conflict
      \/ /\ rec' = IF fits THEN new ELSE rec
         /\ conflict' = (conflict \/ ~(fits \/ rec.cleanup = c))
  BY DEF RecordCleanup
<1>3. /\ releases \in Procs /\ ctl[releases].done /\ loc[p].got = ctl[releases].out
  BY <1>1 DEF IInv, ReleaseSound
<1>4. rec \in Recs /\ rec.cleanup \in [ status : Statuses, reason : Reasons ] BY RecFacts DEF Recs
<1>5. c \in [ status : Statuses, reason : Reasons ] /\ Recorded(c, ctl[releases].out)
  <2>1. loc[p].got \in Outcomes BY LocFacts DEF Locs
  <2> QED BY <1>3, <2>1 DEF Outcomes, Recorded
<1>6. fits \/ rec.cleanup = c
  <2>1. CASE rec.cleanup.status = "none" BY <2>1
  <2>2. CASE rec.cleanup.status # "none"
    <3>1. Recorded(rec.cleanup, ctl[releases].out) BY <2>2 DEF IInv, CleanupSound
    <3> QED BY <1>4, <1>5, <3>1 DEF Recorded
  <2> QED BY <2>1, <2>2
<1> HIDE DEF c, fits
<1>7. new \in Recs /\ new.op = rec.op /\ new.cleanup = c BY <1>4, <1>5 DEF Recs
<1> HIDE DEF new
<1>8. rec' \in Recs /\ rec'.op = rec.op /\ (rec'.cleanup = rec.cleanup \/ rec'.cleanup = c)
  BY <1>2, <1>4, <1>7
<1>9. ~conflict' BY <1>2, <1>6 DEF IInv, CleanupSound
<1>10. Moves(p)
  <2>1. loc[p].ret \in Plain BY LocFacts DEF Locs, Plain
  <2> QED BY <1>1, <2>1, AtMoves
<1>11. LocTypes' /\ HandOverSound' /\ ReleaseSound' /\ SlotHeld'
  <2>1. LocTypes'
    <3>1. \A q \in Procs : CallSound(loc'[q]) BY <1>10 DEF IInv, Types, LocTypes, Moves, Steps
    <3> QED BY <1>10, <3>1 DEF Moves, Steps, LocTypes, CallSound, Locs
  <2>2. HandOverSound'
    BY <1>1, <1>8, <1>10, LanesDistinct DEF IInv, HandOverSound, Moves, Steps, BeforeHandOver
  <2>3. ReleaseSound'
    <3> SUFFICES ASSUME NEW q \in Procs
                 PROVE  /\ InControl(loc'[q]) => releases' = q /\ ~ctl'[q].done
                        /\ loc'[q].pc = "join" =>
                             releases' \in Procs /\ loc'[q].with = releases' /\ ~ctl'[releases'].done
                        /\ loc'[q].pc = "persist" =>
                             releases' \in Procs /\ ctl'[releases'].done /\ loc'[q].got = ctl'[releases'].out
      BY DEF ReleaseSound, InControl
    <3>1. releases' = releases /\ ctl' = ctl BY <1>1 DEF pending
    <3>2. CASE q = p BY <3>1, <3>2, <1>10 DEF IInv, ReleaseSound, Moves, Steps
    <3>3. CASE q # p BY <3>1, <3>3, <1>10 DEF IInv, ReleaseSound, Moves, Steps
    <3> QED BY <3>2, <3>3
  <2>4. SlotHeld' BY <1>1, <1>10, MoveLeaves DEF IInv, SlotHeld, Leaves
  <2> QED BY <2>1, <2>2, <2>3, <2>4
<1>12. CleanupSound'
  <2>1. releases' = releases /\ ctl' = ctl BY <1>1 DEF pending
  <2> QED BY <2>1, <1>3, <1>5, <1>8, <1>9 DEF IInv, CleanupSound, Recorded
<1>13. RecTypes'
  <2>1. conflict' \in BOOLEAN BY <1>2 DEF IInv, Types, RecTypes
  <2> QED BY <2>1, <1>1, <1>8 DEF IInv, Types, RecTypes
<1> QED BY <1>1, <1>11, <1>12, <1>13, SameSlot, SamePending DEF IInv, Types

-----------------------------------------------------------------------------
(* The game, the receive loop and the world.                                 *)

\* An answer fills a channel; it never touches what a request has come to.
LEMMA AnswerKeeps ==
    ASSUME IInv, Answer
    PROVE  IInv'
<1>1. PICK m \in game :
        /\ \E v \in { "status", "plain", "fact", "error", "released", "unconfirmed" } :
             /\ m[1] = "action" => v \in { "status", "plain", "fact" }
             /\ m[1] = "observe" => v \in { "plain", "error", "fact" }
             /\ m[1] = "control" => v \in { "released", "unconfirmed" }
             /\ pa' = IF m[1] # "action" \/ ~pa.open THEN pa
                      ELSE IF v = "status" THEN [pa EXCEPT !.updated = TRUE]
                      ELSE IF pa.result # "none" THEN pa ELSE [pa EXCEPT !.result = v]
             /\ po' = IF m[1] = "observe" /\ po[m[2]] = "open" THEN [po EXCEPT ![m[2]] = v] ELSE po
             /\ ctl' = IF m[1] = "control" THEN ResolveTaskControl(m[2], v) ELSE ctl
        /\ game' = IF m[1] = "action" THEN game ELSE game \ { m }
        /\ UNCHANGED << rec, world, slot, releases, loc, history >>
  <2>1. PICK m \in game :
          LET values == CASE m[1] = "action"  -> { "status", "plain", "fact" }
                      [] m[1] = "observe" -> { "plain", "error" }
                                               \cup (IF handed \/ rec.op = "uncertain" THEN { "fact" } ELSE {})
                      [] m[1] = "control" -> { "released", "unconfirmed" }
          IN  /\ \E v \in { x \in values : x = "fact" => world.ready } :
                 /\ pa' = IF m[1] # "action" \/ ~pa.open THEN pa
                          ELSE IF v = "status" THEN [pa EXCEPT !.updated = TRUE]
                          ELSE IF pa.result # "none" THEN pa ELSE [pa EXCEPT !.result = v]
                 /\ po' = IF m[1] = "observe" /\ po[m[2]] = "open" THEN [po EXCEPT ![m[2]] = v] ELSE po
                 /\ ctl' = IF m[1] = "control" THEN ResolveTaskControl(m[2], v) ELSE ctl
              /\ game' = IF m[1] = "action" THEN game ELSE game \ { m }
              /\ UNCHANGED << rec, world, slot, releases, loc, history >>
    BY Zenon DEF Answer
  <2>2. m[1] \in Asked BY DEF IInv, Types, SlotTypes
  <2> QED BY <2>1, <2>2 DEF Asked
<1>2. PICK v \in { "status", "plain", "fact", "error", "released", "unconfirmed" } :
        /\ m[1] = "action" => v \in { "status", "plain", "fact" }
        /\ m[1] = "observe" => v \in { "plain", "error", "fact" }
        /\ m[1] = "control" => v \in { "released", "unconfirmed" }
        /\ pa' = IF m[1] # "action" \/ ~pa.open THEN pa
                 ELSE IF v = "status" THEN [pa EXCEPT !.updated = TRUE]
                 ELSE IF pa.result # "none" THEN pa ELSE [pa EXCEPT !.result = v]
        /\ po' = IF m[1] = "observe" /\ po[m[2]] = "open" THEN [po EXCEPT ![m[2]] = v] ELSE po
        /\ ctl' = IF m[1] = "control" THEN ResolveTaskControl(m[2], v) ELSE ctl
  BY <1>1
<1>3. m[1] \in Asked /\ m[2] \in Procs /\ PendingTypes BY DEF IInv, Types, SlotTypes
<1>4. pa' \in [ open : BOOLEAN, updated : BOOLEAN, result : { "none", "plain", "fact" } ]
  <2>1. CASE m[1] = "action" /\ v = "status" BY <1>2, <1>3, <2>1 DEF PendingTypes
  <2>2. CASE m[1] = "action" /\ v # "status"
    <3>1. v \in { "plain", "fact" } BY <1>2, <2>2
    <3> QED BY <1>2, <1>3, <2>2, <3>1 DEF PendingTypes
  <2>3. CASE m[1] # "action" BY <1>2, <1>3, <2>3 DEF PendingTypes
  <2> QED BY <2>1, <2>2, <2>3
<1>5. po' \in [ Procs -> { "none", "open", "plain", "fact", "error" } ]
  BY <1>2, <1>3 DEF PendingTypes
<1>6. /\ ctl' \in [ Procs -> Controls ]
      /\ \A q \in Procs : ctl'[q].done = ctl[q].done /\ ctl'[q].out = ctl[q].out
  <2>1. ctl \in [ Procs -> Controls ] BY <1>3 DEF PendingTypes
  <2>2. CASE ctl' = ctl BY <2>1, <2>2
  <2>3. CASE m[1] = "control" /\ ctl' = [ctl EXCEPT ![m[2]].listed = FALSE, ![m[2]].result = v]
    <3> DEFINE new == [ctl[m[2]] EXCEPT !.listed = FALSE, !.result = v]
    <3>1. v \in Statuses /\ ctl[m[2]] \in Controls BY <1>2, <1>3, <2>1, <2>3 DEF Statuses
    <3>2. new \in Controls /\ new.done = ctl[m[2]].done /\ new.out = ctl[m[2]].out
      BY <3>1 DEF Controls
    <3>3. ctl' = [ctl EXCEPT ![m[2]] = new] BY <1>3, <2>1, <2>3
    <3> HIDE DEF new
    <3> QED BY <1>3, <2>1, <3>2, <3>3
  <2> QED BY <1>2, <2>2, <2>3 DEF ResolveTaskControl
<1>7. PendingTypes' BY <1>1, <1>3, <1>4, <1>5, <1>6 DEF PendingTypes
<1>8. SlotTypes' BY <1>1 DEF IInv, Types, SlotTypes
<1>9. BooksKept BY <1>1, <1>6 DEF IInv, HandOverSound, BooksKept, ControlsKept, history
<1>10. RecTypes' BY <1>1, SameRec DEF history
<1> QED BY <1>1, <1>7, <1>8, <1>9, <1>10, FromStill

LEMMA SaveKeeps ==
    ASSUME IInv, Save
    PROVE  IInv'
<1> DEFINE op == IF rec.op = "registered" THEN "uncertain" ELSE rec.op
           new == [rec EXCEPT !.state = "waiting", !.needs = TRUE, !.moved = TRUE, !.op = op]
<1>1. /\ world.gen < MaxGen /\ world' = [world EXCEPT !.gen = world.gen + 1, !.ready = FALSE]
      /\ rec' \in { rec, new }
      /\ UNCHANGED << slot, game, pending, loc, history >>
  BY DEF Save
<1>2. rec \in Recs /\ world \in [ gen : 1..MaxGen, ready : BOOLEAN, open : BOOLEAN, closed : BOOLEAN ]
  BY RecFacts
<1>3. op \in { "none", "uncertain", "not_sent" } /\ (rec.op = "registered" => op = "uncertain")
      /\ (rec.op # "registered" => op = rec.op)
  BY <1>2 DEF Recs
<1> HIDE DEF op
<1>4. new \in Recs /\ new.op = op /\ new.cleanup = rec.cleanup BY <1>2, <1>3 DEF Recs
<1> HIDE DEF new
<1>5. world' \in [ gen : 1..MaxGen, ready : BOOLEAN, open : BOOLEAN, closed : BOOLEAN ]
  <2>1. world.gen + 1 \in 1..MaxGen BY <1>1, <1>2, ActionAssumption
  <2> QED BY <1>1, <1>2, <2>1
<1>6. RecTypes' BY <1>1, <1>2, <1>4, <1>5 DEF IInv, Types, RecTypes, history
<1>7. BooksKept
  BY <1>1, <1>3, <1>4 DEF IInv, HandOverSound, BooksKept, ControlsKept, history, pending
<1> QED BY <1>1, <1>6, <1>7, SameSlot, SamePending, FromStill

LEMMA CloseKeeps ==
    ASSUME IInv, Close
    PROVE  IInv'
<1>1. world' = [world EXCEPT !.ready = FALSE, !.closed = TRUE]
      /\ UNCHANGED << rec, slot, game, pending, loc, history >>
  BY DEF Close
<1>2. RecTypes' BY <1>1, RecFacts DEF IInv, Types, RecTypes, history
<1>3. BooksKept BY <1>1, SameBooks DEF pending
<1> QED BY <1>1, <1>2, <1>3, SameSlot, SamePending, FromStill

-----------------------------------------------------------------------------
(* The theorems.                                                             *)

LEMMA InitEstablishes == Init => IInv
<1> SUFFICES ASSUME Init PROVE IInv OBVIOUS
<1>1. 1 \in 1..MaxGen /\ 0 \in 0..MaxGen BY ActionAssumption
<1>2. RecTypes
  <2>1. rec \in Recs
    <3> DEFINE none == [ status |-> "none", reason |-> "none" ]
    <3>1. none \in [ status : Statuses, reason : Reasons ] BY DEF Statuses, Reasons
    <3>2. rec \in [ state : { "running" }, op : { "none", "uncertain" }, opGen : { 0 },
                    moved : { FALSE }, needs : BOOLEAN, fact : { "none" }, np : { 0 }, rc : { 0 },
                    cleanup : { none } ]
      BY DEF Init
    <3> HIDE DEF none
    <3> QED BY <1>1, <3>1, <3>2, Failures DEF Recs
  <2> QED BY <1>1, <2>1 DEF Init, RecTypes
<1>3. PendingTypes
  <2>1. NoControl \in Controls
    BY DEF NoControl, NoOutcome, Controls, Outcomes, Statuses, Reasons
  <2> QED BY <2>1 DEF Init, PendingTypes, NoAction
<1>4. SlotTypes BY DEF Init, SlotTypes, Free
<1>5. \A p \in Procs : \E pc \in { "turn", "idle" } : loc[p] = Resting(pc, 1) BY DEF Init
<1>6. \A pc \in { "turn", "idle" } : /\ Resting(pc, 1) \in Locs /\ Resting(pc, 1).pc = pc
                                     /\ Resting(pc, 1).want = "none"
  BY <1>1 DEF Resting, Locs, PCs, Frames, Procs, Outcomes, Statuses, Reasons, NoOutcome, NoProc
<1>7. \A p \in Procs : loc[p] \in Locs /\ loc[p].pc \in { "turn", "idle" } /\ loc[p].want = "none"
  BY <1>5, <1>6
<1>8. LocTypes
  <2>1. loc \in [ Procs -> Locs ] BY <1>7 DEF Init
  <2> QED BY <1>7, <2>1 DEF LocTypes, CallSound, Sending
<1>9. SlotHeld /\ ReleaseSound BY <1>7 DEF SlotHeld, ReleaseSound, InControl, Sending
<1>10. HandOverSound BY <1>7, LanesDistinct DEF HandOverSound, Init
<1>11. CleanupSound BY DEF CleanupSound, Init
<1> QED BY <1>2, <1>3, <1>4, <1>8, <1>9, <1>10, <1>11 DEF IInv, Types

LEMMA NextKeeps == IInv /\ [Next]_vars => IInv'
<1> SUFFICES ASSUME IInv, [Next]_vars PROVE IInv' OBVIOUS
<1>1. ASSUME NEW p \in Procs, Goroutine(p) PROVE IInv'
  <2>1. CASE \/ SlotExpires(p) \/ TakeSlot(p) \/ Start(p) \/ SendEnds(p)
    BY <2>1, SlotExpiresKeeps, TakeSlotKeeps, StartKeeps, SendEndsKeeps
  <2>2. CASE \/ Observed(p) \/ AdmitTaskEvidence(p) \/ ReconcileTask(p)
    BY <2>2, ObservedKeeps, AdmitKeeps, ReconcileKeeps
  <2>3. CASE \/ ReleaseOperation(p) \/ JoinExpires(p) \/ Answered(p) \/ RecordCleanup(p)
    BY <2>3, ReleaseOperationKeeps, JoinExpiresKeeps, AnsweredKeeps, RecordCleanupKeeps
  <2>4. CASE Lane
    BY <2>4, RegisterKeeps, RecordUnsentKeeps, StartedKeeps, ActionEndsKeeps, TurnIntentKeeps,
       TurnEndsKeeps, QueriedKeeps, FinishReadsKeeps, FinishAttemptKeeps, ExecutionEndsKeeps
       DEF Lane
  <2>5. CASE Sweep BY <2>5, SweepKeeps
  <2> QED BY <1>1, <2>1, <2>2, <2>3, <2>4, <2>5 DEF Goroutine
<1>2. CASE UNCHANGED vars
  <2>1. BooksKept BY <1>2, SameBooks DEF vars, pending
  <2> QED BY <1>2, <2>1, SameRec, SameSlot, SamePending, FromStill DEF vars, history
<1> QED
  BY <1>1, <1>2, TransportKeeps, AnswerKeeps, EventEvidenceKeeps, SaveKeeps, CloseKeeps DEF Next

\* The send slot has one holder, the action one hand-over and the release one
\* outcome: the invariant of streamEnvironment that the theorems below rest on.
THEOREM InvariantCorrect == Spec => []IInv
<1>1. Init => IInv BY InitEstablishes
<1>2. IInv /\ [Next]_vars => IInv' BY NextKeeps
<1> QED BY <1>1, <1>2, PTL DEF Spec

\* recordUnsentTaskAction writes off only what the transport never had,
\* whatever timeouts, closes and late answers of other messages come between.
THEOREM UnsentIsTrue == Spec => []NotSentIsTrue
<1>1. IInv => NotSentIsTrue BY DEF IInv, HandOverSound, NotSentIsTrue
<1> QED BY <1>1, InvariantCorrect, PTL

\* Goroutines that release one operation together never record different
\* cleanups: RecordCleanup meets no conflict.
THEOREM ReleasesAgree == Spec => []CleanupsAgree
<1>1. IInv => CleanupsAgree BY DEF IInv, CleanupSound, CleanupsAgree
<1> QED BY <1>1, InvariantCorrect, PTL
=============================================================================
