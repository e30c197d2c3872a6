--------------------------- MODULE HistoryStoreProofs ---------------------------
(* One owner's memory, for any number of turns, sources, summaries and       *)
(* experiences: leases protect what they have seen, acknowledged experiences *)
(* stay, nothing pruned is forgotten, and a turn is told everything once.    *)
EXTENDS HistoryStore, WellFoundedInduction, TLAPS

-----------------------------------------------------------------------------
(* The inductive invariant.                                                  *)

SourceRows == [ kind : { "legacy", "experience", "terminal" }, key : Nat \cup Facts \cup {None},
                content : Contents \cup {None}, time : Int, available : BOOLEAN ]
Retry == [ cool : Nat, mark : Nat ]
LeaseRows == [ mark : Nat, rev : Nat, held : BOOLEAN ]
TurnPcs == { "idle", "snapshot", "summary", "pages", "compact", "commit", "search", "act" }
TurnRows == [ pc : TurnPcs,
              now : Int, retry : Retry, sum : Nat, sumOk : BOOLEAN, before : Int, full : BOOLEAN,
              sources : SUBSET Nat, chosen : SUBSET Nat, found : SUBSET Nat ]
PassFields == { "pc", "now", "budget", "victims", "next", "rebuildAfter", "pruneAfter" }

TypesOK ==
    /\ schema \in { "empty", "recent", "history", "retrieval", "experience" }
    /\ src \in Seq(SourceRows) /\ sums \in Seq(SUBSET Nat)
    /\ leases \in [Turns -> LeaseRows] /\ turn \in [Turns -> TurnRows] /\ retry \in Retry
    /\ DOMAIN maint = PassFields
    /\ maint.pc \in { "idle", "prune", "select", "commit" } /\ maint.now \in Int
    /\ clock \in Nat /\ acked \in [Facts -> Contents \cup {None}] /\ fork \in BOOLEAN

\* Sources are told, indexed and covered once they are there; experiences are
\* never covered.
Turnable == { i \in 1 .. Len(src) : src[i].kind # "experience" }
StoreSound ==
    /\ schema \in { "empty", "recent" } => src = <<>> /\ recent \in Seq(Int)
    /\ indexed \subseteq 1 .. Len(src)
    /\ \A r \in 1 .. Len(sums) : sums[r] \subseteq Turnable

\* While the pruning transaction runs it has both locks, and its victims are
\* covered sources that no lease has seen.
PassSound ==
    /\ maint.pc # "idle" => Ready /\ maint.now \in Nat
    /\ maint.pc \in { "select", "commit" } => mu = Maintenance /\ writer = Maintenance
    /\ maint.pc = "commit" =>
         /\ maint.victims \subseteq Turnable
         /\ \A i \in maint.victims : ~Protected(i)
         /\ ~fork => maint.victims \subseteq Covered(Len(sums))

\* The chain of summaries: the newest covers all that an older one or a pruned
\* source had, and nothing of the future.
ChainSound ==
    ~fork => /\ \A r \in 1 .. Len(sums) : sums[r] \subseteq sums[Len(sums)]
             /\ \A r \in 1 .. Len(sums) : \A i \in sums[r] : src[i].time <= clock
             /\ \A i \in 1 .. Len(src) : src[i].available \/ i \in Covered(Len(sums))
             /\ maint.pc # "idle" => maint.now <= clock

\* An experience is stored once and stays, and acknowledged only then.
ExperiencesSound ==
    /\ \A i \in 1 .. Len(src) : src[i].kind = "experience" => src[i].available
    /\ \A i, j \in 1 .. Len(src) : /\ src[i].kind = "experience" /\ src[j].kind = "experience"
                                   /\ src[i].key = src[j].key
                                   => i = j
    /\ \A f \in Facts : acked[f] # None =>
         \E i \in 1 .. Len(src) : src[i].kind = "experience" /\ src[i].key = f
                                    /\ src[i].content = acked[f]

\* A lease: what its snapshot has, and what of it was pruned before.
LeaseSound(t) ==
    leases[t].held =>
      /\ leases[t].mark <= Len(src) /\ leases[t].rev <= Len(sums)
      /\ Covered(leases[t].rev) \subseteq 1 .. leases[t].mark
      /\ ~fork => \A i \in 1 .. leases[t].mark : src[i].available \/ i \in Covered(leases[t].rev)

\* What a turn may be told.
Seen(t, i) == src[i].kind # "experience" /\ Visible({src[i].time}, turn[t].now)
Reading == { "summary", "pages", "compact", "commit", "search" }
ReadsSound(t) ==
    /\ turn[t].pc = "idle" => turn[t] = NoTurn
    /\ turn[t].pc # "idle" => turn[t].now \in Nat /\ (~fork => turn[t].now <= clock)
    /\ turn[t].pc \in Reading => leases[t].held
    /\ turn[t].pc \in { "idle", "snapshot" } => ~leases[t].held
    /\ turn[t].pc \in { "summary", "pages" } => turn[t].before <= leases[t].mark + 1
    /\ turn[t].sources \subseteq 1 .. Len(src) /\ turn[t].chosen \subseteq turn[t].sources
    /\ turn[t].found \subseteq 1 .. Len(src) /\ turn[t].sum <= Len(sums)
    /\ \A i \in turn[t].sources : Seen(t, i)
    /\ \A i \in Covered(turn[t].sum) \cup turn[t].found : Visible({src[i].time}, turn[t].now)
    /\ turn[t].pc \notin { "summary", "pages" } =>
         turn[t].sources \cap Covered(turn[t].sum) = {}
    /\ turn[t].pc \in { "snapshot", "summary" } => turn[t].sources = {}
    /\ turn[t].pc = "summary" => turn[t].before = leases[t].mark + 1
    /\ turn[t].pc # "commit" => turn[t].chosen = {}

\* What a turn has been told of its snapshot so far.
Telling == { "pages", "compact", "commit", "search", "act" }
CompleteSound(t) ==
    leases[t].held /\ turn[t].pc \in Telling =>
      /\ turn[t].sumOk /\ ~Overtaken(t) => Covered(leases[t].rev) \subseteq Covered(turn[t].sum)
      /\ turn[t].pc = "pages" =>
           \A i \in 1 .. leases[t].mark :
             i >= turn[t].before /\ src[i].available /\ Seen(t, i) => i \in turn[t].sources
      /\ turn[t].pc # "pages" /\ turn[t].full =>
           \A i \in 1 .. leases[t].mark :
             src[i].available /\ Seen(t, i) => i \in turn[t].sources \cup Covered(turn[t].sum)

TurnSound(t) == LeaseSound(t) /\ ReadsSound(t) /\ CompleteSound(t)

IInv ==
    /\ TypesOK /\ StoreSound /\ PassSound /\ ChainSound /\ ExperiencesSound
    /\ \A t \in Turns : TurnSound(t)

-----------------------------------------------------------------------------
(* Greatest and least numbers.                                               *)

LEMMA LeastNumber ==
    ASSUME NEW T \in SUBSET Nat, T # {}
    PROVE  \E x \in T : \A y \in T : x <= y
<1>1. PICK x \in T : \A y \in T : ~(<<y, x>> \in OpToRel(<, Nat))
  BY NatLessThanWellFounded, WFMin
<1>2. \A y \in T : ~(y < x) BY <1>1 DEF OpToRel
<1> QED BY <1>2

LEMMA GreatestNumber ==
    ASSUME NEW n \in Nat, NEW T \in SUBSET (0 .. n), T # {}
    PROVE  Max(T) \in T /\ \A y \in T : y <= Max(T)
<1> DEFINE U == {n - y : y \in T}
<1>1. \A y \in T : n - y \in Nat OBVIOUS
<1>2. U \in SUBSET Nat /\ U # {} BY <1>1
<1>3. PICK x \in U : \A y \in U : x <= y BY <1>2, LeastNumber
<1>4. PICK m \in T : x = n - m OBVIOUS
<1>5. \A y \in T : m >= y
  <2> SUFFICES ASSUME NEW y \in T PROVE m >= y OBVIOUS
  <2>1. n - y \in U OBVIOUS
  <2> QED BY <1>3, <1>4, <2>1
<1>6. \E z \in T : \A y \in T : z >= y BY <1>5
<1>7. Max(T) \in T /\ \A y \in T : Max(T) >= y BY <1>6 DEF Max
<1> QED BY <1>7

\* A summary is selected among the readable ones, and the newest wins.
LEMMA SelectFacts ==
    ASSUME TypesOK
    PROVE  \A mark, now : \A rev \in Nat :
             LET r == SelectSummary(mark, rev, now)
             IN  /\ r = 0 \/ r \in ReadableSummaries(mark, rev, now)
                 /\ rev \in ReadableSummaries(mark, rev, now) => r = rev
<1> SUFFICES ASSUME NEW mark, NEW now, NEW rev \in Nat
             PROVE  LET r == SelectSummary(mark, rev, now)
                    IN  /\ r = 0 \/ r \in ReadableSummaries(mark, rev, now)
                        /\ rev \in ReadableSummaries(mark, rev, now) => r = rev
  OBVIOUS
<1> DEFINE R == ReadableSummaries(mark, rev, now)
           T == {0} \cup R
<1>1. R \subseteq 1 .. rev BY DEF ReadableSummaries
<1> HIDE DEF R
<1>2. T \in SUBSET (0 .. rev) /\ T # {} BY <1>1
<1>3. SelectSummary(mark, rev, now) = Max(T) BY DEF SelectSummary, R
<1> HIDE DEF T
<1>4. Max(T) \in T /\ \A y \in T : y <= Max(T) BY <1>2, GreatestNumber
<1>5. rev \in R => Max(T) = rev
  <2> SUFFICES ASSUME rev \in R PROVE Max(T) = rev OBVIOUS
  <2>1. rev \in T BY DEF T
  <2>2. rev <= Max(T) /\ Max(T) \in 0 .. rev BY <1>2, <1>4, <2>1
  <2> QED BY <2>2
<1> QED BY <1>3, <1>4, <1>5 DEF T, R

\* Visibility, source by source.
LEMMA VisibleOne ==
    \A x, now : Visible({x}, now) <=> (x = NoTime \/ now = NoTime \/ x <= now)
BY DEF Visible

LEMMA VisibleAll ==
    \A S, now : Visible(TimesOf(S), now) <=> \A i \in S : Visible({src[i].time}, now)
<1> SUFFICES ASSUME NEW S, NEW now
             PROVE  Visible(TimesOf(S), now) <=> \A i \in S : Visible({src[i].time}, now)
  OBVIOUS
<1> QED BY DEF Visible, TimesOf

LEMMA OldestFacts == \A S, n : Oldest(S, n) \subseteq S
BY DEF Oldest

-----------------------------------------------------------------------------
(* What steps leave alone.                                                   *)

\* Rows are added; those that are there keep what they say.
Grows ==
    /\ Len(src) <= Len(src')
    /\ \A i \in 1 .. Len(src) : /\ src'[i].kind = src[i].kind /\ src'[i].key = src[i].key
                                /\ src'[i].content = src[i].content /\ src'[i].time = src[i].time
    /\ Len(sums) <= Len(sums') /\ \A r \in 1 .. Len(sums) : sums'[r] = sums[r]
    /\ ~fork' => ~fork /\ clock <= clock'

Same(t) ==
    /\ turn'[t] = turn[t] /\ leases'[t] = leases[t]
    /\ leases[t].held => \A i \in 1 .. leases[t].mark : src'[i].available = src[i].available

LEMMA Lengths ==
    ASSUME TypesOK
    PROVE  /\ Len(src) \in Nat /\ Len(sums) \in Nat
           /\ \A i \in 1 .. Len(src) : src[i] \in SourceRows
           /\ \A r \in 1 .. Len(sums) : sums[r] \in SUBSET Nat
           /\ \A t \in Turns : leases[t] \in LeaseRows /\ turn[t] \in TurnRows
BY DEF TypesOK

LEMMA TurnKept ==
    ASSUME IInv, TypesOK', Grows, NEW t \in Turns, Same(t)
    PROVE  TurnSound(t)'
<1>1. TypesOK /\ StoreSound /\ LeaseSound(t) /\ ReadsSound(t) /\ CompleteSound(t)
  BY DEF IInv, TurnSound
<1>2. /\ Len(src) \in Nat /\ Len(sums) \in Nat /\ Len(src') \in Nat /\ Len(sums') \in Nat
      /\ leases[t] \in LeaseRows /\ turn[t] \in TurnRows
  BY <1>1, Lengths DEF TypesOK
<1>3. /\ leases[t].mark \in Nat /\ leases[t].rev \in Nat /\ turn[t].sum \in Nat
      /\ turn[t].before \in Int /\ turn[t].now \in Int
  BY <1>2 DEF LeaseRows, TurnRows
<1>4. \A r \in 0 .. Len(sums) : Covered(r)' = Covered(r) /\ Covered(r) \subseteq 1 .. Len(src)
  BY <1>1, <1>2 DEF Grows, Covered, StoreSound, Turnable
<1>5. Covered(turn[t].sum)' = Covered(turn[t].sum) /\ Covered(turn[t].sum) \subseteq 1 .. Len(src)
  BY <1>1, <1>2, <1>3, <1>4 DEF ReadsSound, Covered, Same
<1>6. leases[t].held => Covered(leases[t].rev)' = Covered(leases[t].rev)
  BY <1>1, <1>2, <1>3, <1>4 DEF LeaseSound, Covered, Same
<1>7. \A i \in 1 .. Len(src) : /\ src'[i].time = src[i].time /\ src'[i].kind = src[i].kind
                               /\ Seen(t, i)' <=> Seen(t, i)
  BY DEF Grows, Seen, Same
<1>8. LeaseSound(t)'
  BY <1>1, <1>2, <1>3, <1>6 DEF LeaseSound, Same, Grows
<1>9. ReadsSound(t)'
  <2>1. turn'[t] = turn[t] /\ leases'[t] = leases[t] BY DEF Same
  <2>2. \A i \in turn[t].sources : Seen(t, i)' BY <1>1, <1>7 DEF ReadsSound
  <2>3. \A i \in Covered(turn[t].sum) \cup turn[t].found : Visible({src'[i].time}, turn[t].now)
    BY <1>1, <1>5, <1>7 DEF ReadsSound
  <2>4. /\ turn[t].sources \subseteq 1 .. Len(src') /\ turn[t].found \subseteq 1 .. Len(src')
        /\ turn[t].sum <= Len(sums')
    BY <1>1, <1>2, <1>3 DEF ReadsSound, Grows
  <2>5. ~fork' /\ turn[t].pc # "idle" => turn[t].now <= clock'
    BY <1>1, <1>3 DEF ReadsSound, Grows, TypesOK
  <2> QED BY <1>1, <1>5, <2>1, <2>2, <2>3, <2>4, <2>5 DEF ReadsSound, Visible
<1>10. leases[t].held => (Overtaken(t)' <=> Overtaken(t))
  <2> SUFFICES ASSUME leases[t].held PROVE Overtaken(t)' <=> Overtaken(t) OBVIOUS
  <2>1. Covered(leases[t].rev) \subseteq 1 .. Len(src)
    BY <1>1, <1>2, <1>3, <1>4 DEF LeaseSound
  <2>2. TimesOf(Covered(leases[t].rev))' = TimesOf(Covered(leases[t].rev))
    BY <1>6, <1>7, <2>1 DEF TimesOf, Same
  <2> QED BY <2>2 DEF Overtaken, Same, Visible
<1>11. CompleteSound(t)'
  <2> SUFFICES ASSUME leases[t].held, turn[t].pc \in Telling PROVE CompleteSound(t)'
    BY DEF CompleteSound, Same
  <2>1. \A i \in 1 .. leases[t].mark : i \in 1 .. Len(src) BY <1>1, <1>2, <1>3 DEF LeaseSound
  <2> QED BY <1>1, <1>5, <1>6, <1>7, <1>10, <2>1 DEF CompleteSound, Same
<1> QED BY <1>8, <1>9, <1>11 DEF TurnSound

\* A step of one turn that leaves the store alone; leases change only while
\* nobody holds their mutex.
LEMMA LocalKeeps ==
    ASSUME IInv, TypesOK', NEW t \in Turns, UNCHANGED << store, writer, mu, maint, outside, fork >>,
           leases' = leases \/ mu = None,
           \A q \in Turns : q # t => turn'[q] = turn[q] /\ leases'[q] = leases[q],
           TurnSound(t)'
    PROVE  IInv'
<1>1. UNCHANGED << schema, recent, src, sums, indexed, writer, mu, maint, clock, acked, fork >>
  BY DEF store, outside
<1>2. TypesOK /\ StoreSound /\ PassSound /\ ChainSound /\ ExperiencesSound BY DEF IInv
<1>3. StoreSound' /\ ChainSound' /\ ExperiencesSound'
  BY <1>1, <1>2 DEF StoreSound, ChainSound, ExperiencesSound, Turnable, Covered
<1>4. PassSound'
  <2>1. leases' = leases \/ maint.pc # "commit" BY <1>2 DEF PassSound, None, Maintenance
  <2> QED BY <1>1, <1>2, <2>1 DEF PassSound, Turnable, Covered, Protected, Ready
<1>5. Grows
  BY <1>1, <1>2, Lengths DEF Grows, TypesOK
<1>6. ASSUME NEW q \in Turns, q # t PROVE TurnSound(q)'
  <2>1. Same(q) BY <1>1, <1>6 DEF Same
  <2> QED BY <1>5, <2>1, TurnKept
<1> QED BY <1>3, <1>4, <1>6 DEF IInv

\* Types of such a step.
LEMMA LocalTypes ==
    ASSUME IInv, NEW t \in Turns, NEW new, new \in TurnRows, turn' = [turn EXCEPT ![t] = new],
           leases' \in [Turns -> LeaseRows], retry' \in Retry,
           UNCHANGED << store, maint, outside, fork >>
    PROVE  /\ TypesOK' /\ turn'[t] = new /\ (\A q \in Turns : q # t => turn'[q] = turn[q])
           /\ UNCHANGED << schema, recent, src, sums, indexed, clock, acked, fork >>
BY DEF IInv, TypesOK, store, outside

LEMMA TurnFacts ==
    ASSUME IInv, NEW t \in Turns
    PROVE  /\ turn[t] \in TurnRows /\ leases[t] \in LeaseRows /\ retry \in Retry
           /\ turn \in [Turns -> TurnRows] /\ leases \in [Turns -> LeaseRows]
           /\ clock \in Nat /\ Len(src) \in Nat /\ Len(sums) \in Nat
           /\ leases[t].mark \in Nat /\ leases[t].rev \in Nat /\ turn[t].sum \in Nat
           /\ turn[t].before \in Int /\ turn[t].now \in Int
           /\ LeaseSound(t) /\ ReadsSound(t) /\ CompleteSound(t)
<1>1. TypesOK /\ LeaseSound(t) /\ ReadsSound(t) /\ CompleteSound(t) BY DEF IInv, TurnSound
<1>2. /\ turn[t] \in TurnRows /\ leases[t] \in LeaseRows /\ retry \in Retry /\ clock \in Nat
      /\ turn \in [Turns -> TurnRows] /\ leases \in [Turns -> LeaseRows]
      /\ Len(src) \in Nat /\ Len(sums) \in Nat
  BY <1>1, Lengths DEF TypesOK
<1> QED BY <1>1, <1>2 DEF TurnRows, LeaseRows

LEMMA Pcs ==
    /\ "idle" \in TurnPcs /\ "snapshot" \in TurnPcs /\ "summary" \in TurnPcs /\ "pages" \in TurnPcs
    /\ "compact" \in TurnPcs /\ "commit" \in TurnPcs /\ "search" \in TurnPcs /\ "act" \in TurnPcs
BY DEF TurnPcs

LEMMA NoTurnFacts ==
    /\ NoTurn \in TurnRows /\ NoTurn.pc = "idle" /\ NoTurn.sum = 0 /\ NoTurn.sources = {}
    /\ NoTurn.chosen = {} /\ NoTurn.found = {} /\ NoLease \in LeaseRows /\ NoLease.held = FALSE
    /\ NoRetry \in Retry
<1>1. -1 \in Int /\ 0 \in Nat /\ 0 \in Int OBVIOUS
<1>2. NoRetry \in Retry BY <1>1 DEF NoRetry, Retry
<1>3. NoLease \in LeaseRows /\ NoLease.held = FALSE BY <1>1 DEF NoLease, LeaseRows
<1>4. NoTurn = [ pc |-> "idle", now |-> -1, retry |-> NoRetry, sum |-> 0, sumOk |-> TRUE,
                 before |-> 0, full |-> TRUE, sources |-> {}, chosen |-> {}, found |-> {} ]
  BY DEF NoTurn, NoTime, NoRetry
<1>5. {} \in SUBSET Nat OBVIOUS
<1>6. /\ NoTurn \in TurnRows /\ NoTurn.pc = "idle" /\ NoTurn.sum = 0 /\ NoTurn.sources = {}
      /\ NoTurn.chosen = {} /\ NoTurn.found = {}
  BY <1>1, <1>2, <1>4, <1>5, Pcs DEF TurnRows
<1> QED BY <1>2, <1>3, <1>6

LEMMA BeginTurnKeeps ==
    ASSUME IInv, NEW t \in Turns, BeginTurn(t)
    PROVE  IInv'
<1> DEFINE new == [NoTurn EXCEPT !.pc = "snapshot", !.now = clock, !.retry = retry]
<1>1. /\ turn[t].pc = "idle" /\ turn' = [turn EXCEPT ![t] = new]
      /\ retry' = [retry EXCEPT !.cool = IF retry.cool > 0 THEN retry.cool - 1 ELSE 0]
      /\ UNCHANGED << store, leases, writer, mu, maint, outside, fork >>
  BY DEF BeginTurn, Go
<1>2. new \in TurnRows /\ new.pc = "snapshot" /\ new.now = clock /\ new.sum = 0 /\ new.sources = {}
      /\ new.chosen = {} /\ new.found = {}
  <2>1. NoTurn \in TurnRows /\ retry \in Retry /\ clock \in Int BY NoTurnFacts, TurnFacts
  <2>2. NoTurn.sum = 0 /\ NoTurn.sources = {} /\ NoTurn.chosen = {} /\ NoTurn.found = {}
    BY NoTurnFacts
  <2>3. [NoTurn EXCEPT !.pc = "snapshot", !.now = clock] \in TurnRows
    BY <2>1, Pcs DEF TurnRows
  <2>4. new = [[NoTurn EXCEPT !.pc = "snapshot", !.now = clock] EXCEPT !.retry = retry]
    BY <2>1 DEF TurnRows
  <2>5. new \in TurnRows BY <2>1, <2>3, <2>4 DEF TurnRows
  <2> QED BY <2>1, <2>2, <2>5 DEF TurnRows
<1> HIDE DEF new
<1>3. retry' \in Retry
  <2>1. retry \in Retry BY TurnFacts
  <2> QED BY <1>1, <2>1 DEF Retry
<1>4. /\ TypesOK' /\ turn'[t] = new /\ \A q \in Turns : q # t => turn'[q] = turn[q]
      /\ UNCHANGED << schema, recent, src, sums, indexed, clock, acked, fork >>
  BY <1>1, <1>2, <1>3, TurnFacts, LocalTypes
<1>5. ~leases[t].held /\ leases' = leases BY <1>1, TurnFacts DEF ReadsSound
<1>6. TurnSound(t)'
  <2>1. LeaseSound(t)' /\ CompleteSound(t)' BY <1>5 DEF LeaseSound, CompleteSound
  <2>2. ReadsSound(t)'
    <3>1. leases'[t] = leases[t] /\ turn'[t] = new /\ Covered(turn[t].sum)' = {}
      BY <1>2, <1>4, <1>5 DEF Covered
    <3>2. clock \in Nat /\ Len(sums) \in Nat BY TurnFacts
    <3> QED BY <1>2, <1>4, <1>5, <3>1, <3>2 DEF ReadsSound, Reading
  <2> QED BY <2>1, <2>2 DEF TurnSound
<1> QED BY <1>1, <1>4, <1>5, <1>6, LocalKeeps

LEMMA BeginHistorySnapshotKeeps ==
    ASSUME IInv, NEW t \in Turns, BeginHistorySnapshot(t)
    PROVE  IInv'
<1>1. turn[t].pc = "snapshot" /\ UNCHANGED << store, writer, mu, retry, maint, outside, fork >>
  BY DEF BeginHistorySnapshot
<1>2. ~leases[t].held /\ turn[t].now \in Nat /\ (~fork => turn[t].now <= clock)
      /\ turn[t].sources = {}
  BY <1>1, TurnFacts DEF ReadsSound
<1>3. ASSUME mu = None,
             leases' = [leases EXCEPT ![t] = [mark |-> Len(src), rev |-> Len(sums), held |-> TRUE]],
             turn' = [turn EXCEPT ![t] = [turn[t] EXCEPT !.pc = "summary", !.before = Len(src) + 1]]
      PROVE  IInv'
  <2> DEFINE new == [turn[t] EXCEPT !.pc = "summary", !.before = Len(src) + 1]
             lease == [mark |-> Len(src), rev |-> Len(sums), held |-> TRUE]
  <2>1. /\ new \in TurnRows /\ new.pc = "summary" /\ new.before = Len(src) + 1
        /\ new.now = turn[t].now /\ new.sum = turn[t].sum /\ new.sources = turn[t].sources
        /\ new.chosen = turn[t].chosen /\ new.found = turn[t].found
    <3>1. turn[t] \in TurnRows /\ Len(src) + 1 \in Int BY TurnFacts
    <3> QED BY <3>1, Pcs DEF TurnRows
  <2>2. lease \in LeaseRows /\ lease.mark = Len(src) /\ lease.rev = Len(sums) /\ lease.held = TRUE
    <3>1. Len(src) \in Nat /\ Len(sums) \in Nat BY TurnFacts
    <3> QED BY <3>1 DEF LeaseRows
  <2> HIDE DEF new, lease
  <2>3. leases' \in [Turns -> LeaseRows] /\ leases'[t] = lease
        /\ \A q \in Turns : q # t => leases'[q] = leases[q]
    BY <1>3, <2>2, TurnFacts DEF lease
  <2>4. /\ TypesOK' /\ turn'[t] = new /\ \A q \in Turns : q # t => turn'[q] = turn[q]
        /\ UNCHANGED << schema, recent, src, sums, indexed, clock, acked, fork >>
    BY <1>1, <1>3, <2>1, <2>3, TurnFacts, LocalTypes DEF new
  <2>5. Covered(Len(sums)) \subseteq 1 .. Len(src)
    BY TurnFacts DEF IInv, StoreSound, Turnable, Covered
  <2>6. LeaseSound(t)'
    <3>1. ~fork => \A i \in 1 .. Len(src) : src[i].available \/ i \in Covered(Len(sums))
      BY DEF IInv, ChainSound
    <3> QED BY <2>2, <2>3, <2>4, <2>5, <3>1, TurnFacts DEF LeaseSound, Covered
  <2>7. ReadsSound(t)'
    <3>1. ReadsSound(t) /\ leases'[t] = lease BY <2>3, TurnFacts
    <3> QED BY <1>1, <1>2, <2>1, <2>2, <2>4, <3>1, TurnFacts
            DEF ReadsSound, Covered, Reading, Seen, Visible
  <2>8. CompleteSound(t)' BY <2>1, <2>4 DEF CompleteSound, Telling
  <2> QED BY <1>1, <1>3, <2>3, <2>4, <2>6, <2>7, <2>8, LocalKeeps DEF TurnSound
<1>4. ASSUME turn' = [turn EXCEPT ![t] = [turn[t] EXCEPT !.pc = "act", !.full = FALSE, !.sumOk = FALSE]],
             UNCHANGED leases
      PROVE  IInv'
  <2> DEFINE new == [turn[t] EXCEPT !.pc = "act", !.full = FALSE, !.sumOk = FALSE]
  <2>1. /\ new \in TurnRows /\ new.pc = "act"
        /\ new.now = turn[t].now /\ new.sum = turn[t].sum /\ new.sources = turn[t].sources
        /\ new.chosen = turn[t].chosen /\ new.found = turn[t].found
    <3>1. turn[t] \in TurnRows /\ Len(src) + 1 \in Int BY TurnFacts
    <3> QED BY <3>1, Pcs DEF TurnRows
  <2> HIDE DEF new
  <2>2. /\ TypesOK' /\ turn'[t] = new /\ \A q \in Turns : q # t => turn'[q] = turn[q]
        /\ UNCHANGED << schema, recent, src, sums, indexed, clock, acked, fork >>
    BY <1>1, <1>4, <2>1, TurnFacts, LocalTypes DEF new
  <2>3. LeaseSound(t)' /\ CompleteSound(t)' BY <1>2, <1>4 DEF LeaseSound, CompleteSound
  <2>4. ReadsSound(t)'
    <3>1. ReadsSound(t) BY TurnFacts
    <3> QED BY <1>1, <1>2, <1>4, <2>1, <2>2, <3>1, TurnFacts
            DEF ReadsSound, Covered, Reading, Seen, Visible
  <2> QED BY <1>1, <1>4, <2>2, <2>3, <2>4, LocalKeeps DEF TurnSound
<1> QED BY <1>3, <1>4 DEF BeginHistorySnapshot, Go, SnapshotMayBegin

\* The same, once the turn's own parts are shown.
LEMMA LocalStep ==
    ASSUME IInv, NEW t \in Turns, NEW new, new \in TurnRows, turn' = [turn EXCEPT ![t] = new],
           retry' \in Retry, UNCHANGED << store, leases, writer, mu, maint, outside, fork >>,
           ReadsSound(t)', CompleteSound(t)'
    PROVE  IInv'
<1>1. leases' = leases /\ leases' \in [Turns -> LeaseRows] BY TurnFacts
<1>2. /\ TypesOK' /\ turn'[t] = new /\ \A q \in Turns : q # t => turn'[q] = turn[q]
      /\ UNCHANGED << schema, recent, src, sums, indexed, clock, acked, fork >>
  BY <1>1, LocalTypes
<1>3. LeaseSound(t) BY TurnFacts
<1>4. LeaseSound(t)' BY <1>1, <1>2, <1>3 DEF LeaseSound, Covered
<1>5. TurnSound(t)' BY <1>4 DEF TurnSound
<1> QED BY <1>1, <1>2, <1>5, LocalKeeps

LEMMA ReadSummaryKeeps ==
    ASSUME IInv, NEW t \in Turns, ReadSummary(t)
    PROVE  IInv'
<1> DEFINE sel == SelectSummary(leases[t].mark, leases[t].rev, turn[t].now)
<1>1. /\ turn[t].pc = "summary" /\ UNCHANGED << store, leases, writer, mu, retry, maint, outside, fork >>
      /\ UNCHANGED << src, sums, leases, fork, clock >>
  BY DEF ReadSummary, store, outside
<1>2. /\ LeaseSound(t) /\ ReadsSound(t) /\ turn[t] \in TurnRows /\ turn \in [Turns -> TurnRows]
      /\ leases[t].mark \in Nat /\ leases[t].rev \in Nat /\ turn[t].sum \in Nat
      /\ Len(sums) \in Nat /\ turn[t].now \in Int /\ retry \in Retry
  BY TurnFacts
<1>3. leases[t].held /\ turn[t].before = leases[t].mark + 1 /\ turn[t].sources = {}
  BY <1>1, <1>2 DEF ReadsSound, Reading
<1>4. /\ sel = 0 \/ sel \in ReadableSummaries(leases[t].mark, leases[t].rev, turn[t].now)
      /\ leases[t].rev \in ReadableSummaries(leases[t].mark, leases[t].rev, turn[t].now)
           => sel = leases[t].rev
  BY <1>2, SelectFacts DEF IInv
<1> HIDE DEF sel
<1>5. /\ sel \in Nat /\ sel <= Len(sums)
      /\ \A i \in Covered(sel) : Visible({src[i].time}, turn[t].now)
  <2>1. CASE sel = 0 BY <1>2, <2>1 DEF Covered
  <2>2. CASE sel \in ReadableSummaries(leases[t].mark, leases[t].rev, turn[t].now)
    <3>1. /\ sel \in 1 .. leases[t].rev /\ Visible(TimesOf(sums[sel]), turn[t].now)
      BY <2>2 DEF ReadableSummaries
    <3>2. \A i \in sums[sel] : Visible({src[i].time}, turn[t].now) BY <3>1, VisibleAll
    <3>3. leases[t].rev <= Len(sums) BY <1>2, <1>3 DEF LeaseSound
    <3>4. sel \in Nat /\ sel <= Len(sums) /\ sel # 0 BY <1>2, <3>1, <3>3
    <3> QED BY <3>2, <3>4 DEF Covered
  <2> QED BY <1>4, <2>1, <2>2
<1>6. ~Overtaken(t) => Covered(leases[t].rev) \subseteq Covered(sel)
  <2> SUFFICES ASSUME ~Overtaken(t), leases[t].rev # 0 PROVE sel = leases[t].rev
    BY DEF Covered
  <2>1. /\ Visible(TimesOf(sums[leases[t].rev]), turn[t].now) /\ leases[t].rev \in 1 .. leases[t].rev
        /\ sums[leases[t].rev] \subseteq 1 .. leases[t].mark
    BY <1>2, <1>3 DEF Overtaken, Covered, LeaseSound
  <2> QED BY <1>4, <2>1 DEF ReadableSummaries
<1>7. ASSUME turn' = [turn EXCEPT ![t] = [turn[t] EXCEPT !.pc = "pages", !.sum = sel]]
      PROVE  IInv'
  <2> DEFINE new == [turn[t] EXCEPT !.pc = "pages", !.sum = sel]
  <2>1. /\ new \in TurnRows /\ new.pc = "pages" /\ new.sum = sel /\ new.before = turn[t].before
        /\ new.now = turn[t].now /\ new.sources = turn[t].sources
        /\ new.chosen = turn[t].chosen /\ new.found = turn[t].found
    BY <1>2, <1>5, Pcs DEF TurnRows
  <2> HIDE DEF new
  <2>2. turn' = [turn EXCEPT ![t] = new] /\ turn'[t] = new BY <1>2, <1>7 DEF new
  <2>3. /\ Covered(turn[t].sum)' = Covered(sel)
        /\ Covered(leases[t].rev)' = Covered(leases[t].rev)
    BY <1>1, <2>1, <2>2 DEF Covered
  <2>4. ReadsSound(t)'
    <3>1. \A i \in Covered(sel) \cup new.found : Visible({src'[i].time}, new.now)
      BY <1>1, <1>2, <1>5, <2>1 DEF ReadsSound
    <3> QED BY <1>1, <1>2, <1>3, <1>5, <2>1, <2>2, <2>3, <3>1 DEF ReadsSound, Reading, Visible
  <2>5. Overtaken(t)' <=> Overtaken(t)
    BY <1>1, <2>1, <2>2 DEF Overtaken, Visible, TimesOf, Covered
  <2>6. CompleteSound(t)'
    BY <1>1, <1>2, <1>3, <1>6, <2>1, <2>2, <2>3, <2>5 DEF CompleteSound, Telling, Covered
  <2> QED BY <1>1, <1>2, <2>1, <2>2, <2>4, <2>6, LocalStep
<1>8. ASSUME turn' = [turn EXCEPT ![t] = [turn[t] EXCEPT !.pc = "pages", !.sumOk = FALSE]]
      PROVE  IInv'
  <2> DEFINE new == [turn[t] EXCEPT !.pc = "pages", !.sumOk = FALSE]
  <2>1. /\ new \in TurnRows /\ new.pc = "pages" /\ new.sumOk = FALSE /\ new.before = turn[t].before
        /\ new.now = turn[t].now /\ new.sources = turn[t].sources /\ new.sum = turn[t].sum
        /\ new.chosen = turn[t].chosen /\ new.found = turn[t].found
    BY <1>2, Pcs DEF TurnRows
  <2> HIDE DEF new
  <2>2. turn' = [turn EXCEPT ![t] = new] /\ turn'[t] = new BY <1>2, <1>8 DEF new
  <2>4. ReadsSound(t)'
    BY <1>1, <1>2, <1>3, <2>1, <2>2 DEF ReadsSound, Reading, Seen, Visible, Covered
  <2>6. CompleteSound(t)'
    BY <1>1, <1>2, <1>3, <2>1, <2>2 DEF CompleteSound, Telling
  <2> QED BY <1>1, <1>2, <2>1, <2>2, <2>4, <2>6, LocalStep
<1> QED BY <1>7, <1>8 DEF ReadSummary, Go, sel

LEMMA ReadHistorySnapshotKeeps ==
    ASSUME IInv, NEW t \in Turns, ReadHistorySnapshot(t)
    PROVE  IInv'
<1> DEFINE read == turn[t].sources \cup Told(t, PageOf(t))
           low == turn[t].before - PageRecords
           cov == Covered(turn[t].sum)
<1>1. /\ turn[t].pc = "pages" /\ UNCHANGED << store, leases, writer, mu, retry, maint, outside, fork >>
      /\ UNCHANGED << src, sums, leases, fork, clock >>
  BY DEF ReadHistorySnapshot, store, outside
<1>2. /\ LeaseSound(t) /\ ReadsSound(t) /\ CompleteSound(t)
      /\ turn[t] \in TurnRows /\ turn \in [Turns -> TurnRows]
      /\ leases[t].mark \in Nat /\ leases[t].rev \in Nat /\ turn[t].sum \in Nat
      /\ Len(src) \in Nat /\ Len(sums) \in Nat /\ turn[t].now \in Int /\ turn[t].before \in Int
      /\ retry \in Retry
  BY TurnFacts
<1>3. /\ leases[t].held /\ turn[t].before <= leases[t].mark + 1 /\ turn[t].chosen = {}
      /\ leases[t].mark <= Len(src)
  BY <1>1, <1>2 DEF ReadsSound, Reading, LeaseSound
<1>4. low \in Int /\ low < turn[t].before BY <1>2, HistoryAssumption
<1>5. /\ PageOf(t) \subseteq 1 .. Len(src) /\ Told(t, PageOf(t)) \subseteq PageOf(t)
      /\ \A i \in Told(t, PageOf(t)) : Seen(t, i)
      /\ \A i \in 1 .. leases[t].mark :
           i >= low /\ i < turn[t].before /\ src[i].available /\ Seen(t, i) => i \in Told(t, PageOf(t))
  <2>1. PageOf(t) \subseteq 1 .. Len(src) BY <1>2, <1>3 DEF PageOf
  <2>2. Told(t, PageOf(t)) \subseteq PageOf(t) /\ \A i \in Told(t, PageOf(t)) : Seen(t, i)
    BY DEF Told, Seen
  <2>3. ASSUME NEW i \in 1 .. leases[t].mark, i >= low, i < turn[t].before, src[i].available, Seen(t, i)
        PROVE  i \in Told(t, PageOf(t))
    <3>1. i \in PageOf(t) BY <1>2, <2>3 DEF PageOf
    <3> QED BY <2>3, <3>1 DEF Told, Seen
  <2> QED BY <2>1, <2>2, <2>3
<1>6. /\ read \in SUBSET Nat /\ read \subseteq 1 .. Len(src) /\ \A i \in read : Seen(t, i)
      /\ \A i \in 1 .. leases[t].mark : i >= low /\ src[i].available /\ Seen(t, i) => i \in read
  <2>1. read \subseteq 1 .. Len(src) /\ \A i \in read : Seen(t, i) BY <1>2, <1>5 DEF ReadsSound
  <2>2. \A i \in 1 .. leases[t].mark :
          i >= turn[t].before /\ src[i].available /\ Seen(t, i) => i \in turn[t].sources
    BY <1>1, <1>2, <1>3 DEF CompleteSound, Telling
  <2>3. \A i \in 1 .. leases[t].mark : i >= turn[t].before \/ i < turn[t].before BY <1>2
  <2> QED BY <1>2, <1>5, <2>1, <2>2, <2>3
<1>7. turn[t].sources \in SUBSET Nat /\ turn[t].sources \subseteq 1 .. Len(src)
      /\ \A i \in turn[t].sources : Seen(t, i)
  BY <1>2 DEF TurnRows, ReadsSound
<1>8. turn[t].sumOk /\ ~Overtaken(t) => Covered(leases[t].rev) \subseteq cov
  BY <1>1, <1>2, <1>3 DEF CompleteSound, Telling
<1> HIDE DEF read, low
<1>9. Covered(leases[t].rev)' = Covered(leases[t].rev) BY <1>1 DEF Covered
<1>10. ASSUME turn' = [turn EXCEPT ![t] = [turn[t] EXCEPT !.sources = read, !.before = low]], low > 1
       PROVE  IInv'
  <2> DEFINE new == [turn[t] EXCEPT !.sources = read, !.before = low]
  <2>1. /\ new \in TurnRows /\ new.pc = "pages" /\ new.sum = turn[t].sum /\ new.before = low
        /\ new.now = turn[t].now /\ new.sources = read /\ new.sumOk = turn[t].sumOk
        /\ new.chosen = turn[t].chosen /\ new.found = turn[t].found
    BY <1>1, <1>2, <1>4, <1>6, Pcs DEF TurnRows
  <2> HIDE DEF new
  <2>2. turn' = [turn EXCEPT ![t] = new] /\ turn'[t] = new BY <1>2, <1>10 DEF new
  <2>3. Covered(turn[t].sum)' = cov /\ (Overtaken(t)' <=> Overtaken(t))
    BY <1>1, <2>1, <2>2 DEF Covered, Overtaken, Visible, TimesOf
  <2>4. \A i \in 1 .. Len(src) : Seen(t, i)' <=> Seen(t, i)
    BY <1>1, <2>1, <2>2 DEF Seen, Visible
  <2>5. ReadsSound(t)'
    <3>1. \A i \in cov \cup new.found : Visible({src'[i].time}, new.now)
      BY <1>1, <1>2, <2>1 DEF ReadsSound
    <3>2. \A i \in read : Seen(t, i)' BY <1>6, <2>4
    <3>3. /\ turn[t].now \in Nat /\ (~fork => turn[t].now <= clock)
          /\ turn[t].found \subseteq 1 .. Len(src) /\ turn[t].sum <= Len(sums)
      BY <1>1, <1>2 DEF ReadsSound
    <3>4. low <= leases[t].mark + 1 BY <1>2, <1>3, <1>4
    <3> HIDE DEF cov
    <3>5. \A i \in (Covered(turn[t].sum) \cup turn[t].found)' : Visible({src[i].time}, turn[t].now)'
      BY <2>1, <2>2, <2>3, <3>1 DEF Visible
    <3>6. turn'[t].chosen = {} /\ turn'[t].pc = "pages" /\ turn'[t].sources = read
          /\ turn'[t].before = low /\ leases'[t] = leases[t]
      BY <1>1, <1>3, <2>1, <2>2
    <3>7. /\ turn'[t].now \in Nat /\ (~fork' => turn'[t].now <= clock')
          /\ turn'[t].found \subseteq 1 .. Len(src') /\ turn'[t].sum <= Len(sums')
          /\ read \subseteq 1 .. Len(src')
      BY <1>1, <1>6, <2>1, <2>2, <3>3
    <3> QED BY <1>3, <3>2, <3>4, <3>5, <3>6, <3>7 DEF ReadsSound, Reading
  <2>6. CompleteSound(t)'
    BY <1>1, <1>2, <1>3, <1>6, <1>8, <1>9, <2>1, <2>2, <2>3, <2>4 DEF CompleteSound
  <2> QED BY <1>1, <1>2, <2>1, <2>2, <2>5, <2>6, LocalStep
<1>11. ASSUME NEW b \in BOOLEAN, NEW S, S \in {read, turn[t].sources}, b => S = read /\ low <= 1,
              b = TRUE \/ b = FALSE,
              turn' = [turn EXCEPT ![t] = [turn[t] EXCEPT !.pc = "compact", !.before = 0,
                                             !.full = b, !.sources = S \ cov]]
       PROVE  IInv'
  <2> DEFINE new == [turn[t] EXCEPT !.pc = "compact", !.before = 0, !.full = b, !.sources = S \ cov]
  <2>1. S \ cov \in SUBSET Nat /\ S \subseteq 1 .. Len(src) /\ \A i \in S : Seen(t, i)
    BY <1>6, <1>7, <1>11
  <2>2. /\ new \in TurnRows /\ new.pc = "compact" /\ new.sum = turn[t].sum
        /\ new.now = turn[t].now /\ new.sources = S \ cov /\ new.sumOk = turn[t].sumOk
        /\ new.chosen = turn[t].chosen /\ new.found = turn[t].found /\ new.full = b
    <3>1. 0 \in Int OBVIOUS
    <3> HIDE DEF cov
    <3> QED BY <1>2, <2>1, <3>1, Pcs DEF TurnRows
  <2> HIDE DEF new
  <2>3. turn' = [turn EXCEPT ![t] = new] /\ turn'[t] = new BY <1>2, <1>11 DEF new
  <2>4. Covered(turn[t].sum)' = cov /\ (Overtaken(t)' <=> Overtaken(t))
    BY <1>1, <2>2, <2>3 DEF Covered, Overtaken, Visible, TimesOf
  <2>5. \A i \in 1 .. Len(src) : Seen(t, i)' <=> Seen(t, i)
    BY <1>1, <2>2, <2>3 DEF Seen, Visible
  <2>6. ReadsSound(t)'
    <3>1. \A i \in cov \cup new.found : Visible({src'[i].time}, new.now)
      BY <1>1, <1>2, <2>2 DEF ReadsSound
    <3>2. \A i \in S \ cov : Seen(t, i)' BY <2>1, <2>5
    <3>3. /\ turn[t].now \in Nat /\ (~fork => turn[t].now <= clock)
          /\ turn[t].found \subseteq 1 .. Len(src) /\ turn[t].sum <= Len(sums)
      BY <1>1, <1>2 DEF ReadsSound
    <3>4. S \ cov \subseteq 1 .. Len(src) /\ (S \ cov) \cap cov = {} BY <2>1
    <3> HIDE DEF cov
    <3> QED BY <1>1, <1>3, <2>2, <2>3, <2>4, <3>1, <3>2, <3>3, <3>4
            DEF ReadsSound, Reading, Visible
  <2>7. CompleteSound(t)'
    <3>1. b => \A i \in 1 .. leases[t].mark : src[i].available /\ Seen(t, i) => i \in S
      BY <1>2, <1>4, <1>6, <1>11
    <3> QED BY <1>1, <1>2, <1>3, <1>8, <1>9, <2>2, <2>3, <2>4, <2>5, <3>1 DEF CompleteSound
  <2> QED BY <1>1, <1>2, <2>2, <2>3, <2>6, <2>7, LocalStep
<1>12. ASSUME turn' = [turn EXCEPT ![t] = [turn[t] EXCEPT !.pc = "compact", !.before = 0,
                                             !.sources = read \ cov]], low <= 1
       PROVE  IInv'
  <2>1. turn[t].full \in BOOLEAN BY <1>2 DEF TurnRows
  <2>2. [turn[t] EXCEPT !.pc = "compact", !.before = 0, !.full = turn[t].full, !.sources = read \ cov]
          = [turn[t] EXCEPT !.pc = "compact", !.before = 0, !.sources = read \ cov]
    BY <1>2 DEF TurnRows
  <2> QED BY <1>11, <1>12, <2>1, <2>2
<1>13. ASSUME turn' = [turn EXCEPT ![t] = [turn[t] EXCEPT !.pc = "compact", !.before = 0, !.full = FALSE,
                                             !.sources = turn[t].sources \ cov]]
       PROVE  IInv'
  BY <1>11, <1>13
<1> QED BY <1>10, <1>12, <1>13 DEF ReadHistorySnapshot, Go, UncoveredHistorySources, read, low

\* A turn that has read its history goes on with what it was told.
LEMMA GoesOn ==
    ASSUME IInv, NEW t \in Turns, NEW new, new \in TurnRows, turn' = [turn EXCEPT ![t] = new],
           turn[t].pc \in { "compact", "commit", "search" }, new.pc \in { "commit", "search", "act" },
           new.now = turn[t].now, new.sum = turn[t].sum, new.sources = turn[t].sources,
           new.sumOk = turn[t].sumOk, new.full = turn[t].full,
           new.chosen \subseteq turn[t].sources, new.pc # "commit" => new.chosen = {},
           new.found \subseteq 1 .. Len(src),
           \A i \in new.found : Visible({src[i].time}, turn[t].now),
           retry' \in Retry, UNCHANGED << store, leases, writer, mu, maint, outside, fork >>
    PROVE  IInv'
<1>1. UNCHANGED << src, sums, leases, fork, clock >> BY DEF store, outside
<1>2. /\ LeaseSound(t) /\ ReadsSound(t) /\ CompleteSound(t)
      /\ turn[t] \in TurnRows /\ turn \in [Turns -> TurnRows]
      /\ leases[t].mark \in Nat /\ Len(src) \in Nat
  BY TurnFacts
<1>3. leases[t].held BY <1>2 DEF ReadsSound, Reading
<1>4. turn'[t] = new /\ leases'[t] = leases[t] BY <1>1, <1>2
<1>5. /\ Covered(turn[t].sum)' = Covered(turn[t].sum)
      /\ Covered(leases[t].rev)' = Covered(leases[t].rev)
      /\ Overtaken(t)' <=> Overtaken(t)
  BY <1>1, <1>4 DEF Covered, Overtaken, Visible, TimesOf
<1>6. \A i \in 1 .. Len(src) : Seen(t, i)' <=> Seen(t, i) BY <1>1, <1>4 DEF Seen, Visible
<1>7. ReadsSound(t)'
  <2>1. /\ turn[t].now \in Nat /\ (~fork => turn[t].now <= clock)
        /\ turn[t].sources \subseteq 1 .. Len(src) /\ turn[t].sum <= Len(sums)
        /\ \A i \in turn[t].sources : Seen(t, i)
        /\ \A i \in Covered(turn[t].sum) : Visible({src[i].time}, turn[t].now)
        /\ turn[t].sources \cap Covered(turn[t].sum) = {}
    BY <1>2 DEF ReadsSound
  <2>2. \A i \in turn'[t].sources : Seen(t, i)' BY <1>4, <1>6, <2>1
  <2>3. \A i \in (Covered(turn[t].sum) \cup turn[t].found)' : Visible({src[i].time}, turn[t].now)'
    BY <1>1, <1>4, <1>5, <2>1 DEF Visible
  <2>4. /\ turn'[t].now \in Nat /\ (~fork' => turn'[t].now <= clock')
        /\ turn'[t].sources \subseteq 1 .. Len(src') /\ turn'[t].sum <= Len(sums')
        /\ turn'[t].found \subseteq 1 .. Len(src')
        /\ turn'[t].sources \cap Covered(turn[t].sum)' = {}
    BY <1>1, <1>4, <1>5, <2>1
  <2> QED BY <1>3, <1>4, <2>2, <2>3, <2>4 DEF ReadsSound, Reading
<1>8. CompleteSound(t)'
  <2>1. /\ turn[t].sumOk /\ ~Overtaken(t) => Covered(leases[t].rev) \subseteq Covered(turn[t].sum)
        /\ turn[t].full =>
             \A i \in 1 .. leases[t].mark :
               src[i].available /\ Seen(t, i) => i \in turn[t].sources \cup Covered(turn[t].sum)
    BY <1>2, <1>3 DEF CompleteSound, Telling
  <2>2. leases[t].mark <= Len(src) BY <1>2, <1>3 DEF LeaseSound
  <2> QED BY <1>1, <1>2, <1>4, <1>5, <1>6, <2>1, <2>2 DEF CompleteSound
<1> QED BY <1>7, <1>8, LocalStep

LEMMA FailureFacts ==
    ASSUME IInv, NEW t \in Turns, CompactionFailed(t)
    PROVE  \E new \in TurnRows :
             /\ turn' = [turn EXCEPT ![t] = new] /\ turn'[t] = new /\ retry' \in Retry
             /\ new.pc = "search" /\ new.sum = turn[t].sum /\ new.now = turn[t].now
             /\ new.sources = turn[t].sources /\ new.sumOk = turn[t].sumOk /\ new.chosen = {}
             /\ new.found = turn[t].found /\ new.full = turn[t].full
<1> DEFINE new == [turn[t] EXCEPT !.pc = "search", !.chosen = {}]
<1>1. turn[t] \in TurnRows /\ turn \in [Turns -> TurnRows] /\ leases[t].mark \in Nat
  BY TurnFacts
<1>2. retry' = [cool |-> Cooldown, mark |-> leases[t].mark] /\ Cooldown \in Nat
  BY HistoryAssumption DEF CompactionFailed
<1>3. retry' \in Retry BY <1>1, <1>2 DEF Retry
<1>4. {} \in SUBSET Nat OBVIOUS
<1>5. /\ new \in TurnRows /\ new.pc = "search" /\ new.sum = turn[t].sum
      /\ new.now = turn[t].now /\ new.sources = turn[t].sources /\ new.sumOk = turn[t].sumOk
      /\ new.chosen = {} /\ new.found = turn[t].found /\ new.full = turn[t].full
  BY <1>1, <1>4, Pcs DEF TurnRows
<1> HIDE DEF new
<1>6. turn' = [turn EXCEPT ![t] = new] /\ turn'[t] = new BY <1>1 DEF CompactionFailed, Go, new
<1> QED BY <1>3, <1>5, <1>6

LEMMA FailureKeeps ==
    ASSUME IInv, NEW t \in Turns, turn[t].pc \in { "compact", "commit" }, CompactionFailed(t),
           UNCHANGED << store, leases, writer, mu, maint, outside, fork >>
    PROVE  IInv'
<1>1. ReadsSound(t) BY TurnFacts
<1>2. /\ turn[t].found \subseteq 1 .. Len(src)
      /\ \A i \in turn[t].found : Visible({src[i].time}, turn[t].now)
  BY <1>1 DEF ReadsSound
<1>3. PICK new \in TurnRows :
        /\ turn' = [turn EXCEPT ![t] = new] /\ turn'[t] = new /\ retry' \in Retry
        /\ new.pc = "search" /\ new.sum = turn[t].sum /\ new.now = turn[t].now
        /\ new.sources = turn[t].sources /\ new.sumOk = turn[t].sumOk /\ new.chosen = {}
        /\ new.found = turn[t].found /\ new.full = turn[t].full
  BY FailureFacts
<1>4. new.chosen \subseteq turn[t].sources BY <1>3
<1> QED BY <1>2, <1>3, <1>4, GoesOn

LEMMA CompactPreparedHistoryKeeps ==
    ASSUME IInv, NEW t \in Turns, CompactPreparedHistory(t)
    PROVE  IInv'
<1>1. turn[t].pc = "compact" /\ UNCHANGED << store, leases, writer, mu, maint, outside, fork >>
  BY DEF CompactPreparedHistory
<1>2. /\ turn[t] \in TurnRows /\ turn \in [Turns -> TurnRows] /\ leases[t].mark \in Nat
      /\ retry \in Retry /\ ReadsSound(t)
  BY TurnFacts
<1>3. /\ turn[t].sources \in SUBSET Nat /\ turn[t].chosen = {} /\ turn[t].found \subseteq 1 .. Len(src)
      /\ \A i \in turn[t].found : Visible({src[i].time}, turn[t].now)
  BY <1>1, <1>2 DEF ReadsSound, TurnRows
<1>4. ASSUME NEW p \in { "commit", "search" }, NEW S \in SUBSET turn[t].sources, p # "commit" => S = {},
             retry' \in Retry,
             turn' = [turn EXCEPT ![t] = [turn[t] EXCEPT !.pc = p, !.chosen = S]]
      PROVE  IInv'
  <2> DEFINE new == [turn[t] EXCEPT !.pc = p, !.chosen = S]
  <2>1. p \in TurnPcs /\ S \in SUBSET Nat BY <1>3, <1>4 DEF TurnPcs
  <2>2. /\ new \in TurnRows /\ new.pc = p /\ new.sum = turn[t].sum
        /\ new.now = turn[t].now /\ new.sources = turn[t].sources /\ new.sumOk = turn[t].sumOk
        /\ new.chosen = S /\ new.found = turn[t].found /\ new.full = turn[t].full
    BY <1>2, <2>1 DEF TurnRows
  <2> HIDE DEF new
  <2>3. turn' = [turn EXCEPT ![t] = new] BY <1>4 DEF new
  <2> QED BY <1>1, <1>3, <1>4, <2>2, <2>3, GoesOn
<1>5. ASSUME NEW n \in 1 .. TailStart(turn[t].sources), UNCHANGED retry,
             Go(t, [turn[t] EXCEPT !.pc = "commit", !.chosen = Oldest(turn[t].sources, n)])
      PROVE  IInv'
  <2>1. Oldest(turn[t].sources, n) \in SUBSET turn[t].sources BY OldestFacts
  <2> QED BY <1>2, <1>4, <1>5, <2>1 DEF Go
<1>6. ASSUME CompactionFailed(t) PROVE IInv' BY <1>1, <1>6, FailureKeeps
<1>7. ASSUME Go(t, [turn[t] EXCEPT !.pc = "search"]), UNCHANGED retry PROVE IInv'
  <2>1. [turn[t] EXCEPT !.pc = "search"] = [turn[t] EXCEPT !.pc = "search", !.chosen = {}]
    BY <1>2, <1>3 DEF TurnRows
  <2>2. {} \in SUBSET turn[t].sources OBVIOUS
  <2> QED BY <1>2, <1>4, <1>7, <2>1, <2>2 DEF Go
<1> QED BY <1>5, <1>6, <1>7 DEF CompactPreparedHistory

LEMMA SearchHistoryKeeps ==
    ASSUME IInv, NEW t \in Turns, SearchHistory(t)
    PROVE  IInv'
<1>1. turn[t].pc = "search" /\ UNCHANGED << store, leases, writer, mu, retry, maint, outside, fork >>
  BY DEF SearchHistory
<1>2. turn[t] \in TurnRows /\ turn \in [Turns -> TurnRows] /\ retry \in Retry /\ ReadsSound(t)
      /\ Len(src) \in Nat
  BY TurnFacts
<1>3. PICK found \in {{}, Searchable(t)} :
        turn' = [turn EXCEPT ![t] = [turn[t] EXCEPT !.pc = "act", !.found = found]]
  BY DEF SearchHistory, Go
<1>4. /\ found \subseteq 1 .. Len(src) /\ \A i \in found : Visible({src[i].time}, turn[t].now)
  <2>1. indexed \subseteq 1 .. Len(src) BY DEF IInv, StoreSound
  <2> QED BY <2>1 DEF Searchable
<1> DEFINE new == [turn[t] EXCEPT !.pc = "act", !.found = found]
<1>5. /\ new \in TurnRows /\ new.pc = "act" /\ new.sum = turn[t].sum
      /\ new.now = turn[t].now /\ new.sources = turn[t].sources /\ new.sumOk = turn[t].sumOk
      /\ new.chosen = turn[t].chosen /\ new.found = found /\ new.full = turn[t].full
  <2>1. found \in SUBSET Nat BY <1>2, <1>4
  <2> QED BY <1>2, <2>1, Pcs DEF TurnRows
<1> HIDE DEF new
<1>6. turn' = [turn EXCEPT ![t] = new] BY <1>3 DEF new
<1>7. turn[t].chosen = {} /\ retry' \in Retry BY <1>1, <1>2 DEF ReadsSound
<1> QED BY <1>1, <1>4, <1>5, <1>6, <1>7, GoesOn

-----------------------------------------------------------------------------
(* Steps that change the store.                                              *)

LEMMA Nobody ==
    ASSUME IInv, mu = None \/ writer = None
    PROVE  maint.pc \notin { "select", "commit" }
BY DEF IInv, PassSound, None, Maintenance

LEMMA CoveredKept ==
    ASSUME IInv, Grows
    PROVE  \A r \in 0 .. Len(sums) : Covered(r)' = Covered(r) /\ Covered(r) \subseteq Turnable
                                      /\ Covered(r) \subseteq 1 .. Len(src)
<1>1. Len(sums) \in Nat /\ StoreSound BY Lengths DEF IInv
<1> QED BY <1>1 DEF Grows, Covered, StoreSound, Turnable

LEMMA LeaseKept ==
    ASSUME IInv, TypesOK', Grows, NEW t \in Turns, leases'[t] = leases[t],
           leases[t].held => \A i \in 1 .. leases[t].mark : src'[i].available = src[i].available
    PROVE  LeaseSound(t)'
<1>1. LeaseSound(t) /\ leases[t].mark \in Nat /\ leases[t].rev \in Nat /\ Len(src) \in Nat
      /\ Len(sums) \in Nat
  BY TurnFacts
<1>2. leases[t].held => Covered(leases[t].rev)' = Covered(leases[t].rev)
  BY <1>1, CoveredKept DEF LeaseSound, Covered
<1>3. Len(src') \in Nat /\ Len(sums') \in Nat BY DEF TypesOK
<1> QED BY <1>1, <1>2, <1>3 DEF LeaseSound, Grows

\* Publishing a summary: the turn's sources become covered, or it never learns.
LEMMA CommitSummaryKeeps ==
    ASSUME IInv, NEW t \in Turns, CommitSummary(t)
    PROVE  IInv'
<1> DEFINE cov == Covered(turn[t].sum)
           text == cov \cup turn[t].chosen
<1>1. /\ turn[t].pc = "commit" /\ writer = None /\ mu = None
      /\ UNCHANGED << schema, recent, src, indexed, leases, writer, mu, maint, clock, acked >>
  BY DEF CommitSummary, CanWrite, outside
<1>2. /\ LeaseSound(t) /\ ReadsSound(t) /\ CompleteSound(t) /\ turn[t] \in TurnRows
      /\ turn \in [Turns -> TurnRows] /\ leases \in [Turns -> LeaseRows]
      /\ leases[t].mark \in Nat /\ leases[t].rev \in Nat /\ turn[t].sum \in Nat
      /\ Len(src) \in Nat /\ Len(sums) \in Nat /\ turn[t].now \in Int /\ clock \in Nat
  BY TurnFacts
<1>3. TypesOK /\ StoreSound /\ PassSound /\ ChainSound /\ ExperiencesSound BY DEF IInv
<1>4. /\ leases[t].held /\ turn[t].now \in Nat /\ (~fork => turn[t].now <= clock)
      /\ turn[t].sources \subseteq 1 .. Len(src) /\ turn[t].chosen \subseteq turn[t].sources
      /\ turn[t].sum <= Len(sums) /\ turn[t].found \subseteq 1 .. Len(src)
      /\ \A i \in turn[t].sources : Seen(t, i)
      /\ \A i \in cov : Visible({src[i].time}, turn[t].now)
      /\ \A i \in turn[t].found : Visible({src[i].time}, turn[t].now)
      /\ turn[t].sources \cap cov = {}
  BY <1>1, <1>2 DEF ReadsSound, Reading
<1>5. maint.pc \notin { "select", "commit" } BY <1>1, Nobody
<1>6. cov \subseteq Turnable /\ cov \subseteq 1 .. Len(src)
  BY <1>2, <1>3, <1>4 DEF StoreSound, Covered, Turnable
<1>7. text \subseteq Turnable /\ text \in SUBSET Nat
      /\ \A i \in text : Visible({src[i].time}, turn[t].now)
  <2>1. \A i \in turn[t].chosen : i \in 1 .. Len(src) /\ Seen(t, i) BY <1>4
  <2>2. turn[t].chosen \subseteq Turnable BY <2>1 DEF Turnable, Seen
  <2>3. \A i \in turn[t].chosen : Visible({src[i].time}, turn[t].now) BY <2>1 DEF Seen
  <2>4. Turnable \subseteq Nat BY <1>2 DEF Turnable
  <2> HIDE DEF cov
  <2> QED BY <1>4, <1>6, <2>2, <2>3, <2>4
<1> HIDE DEF text
<1>8. ASSUME sums' = Append(sums, text), fork' = IF turn[t].sum = leases[t].rev THEN fork ELSE TRUE,
             Len(sums) = leases[t].rev, retry' \in Retry,
             NEW new, new \in TurnRows, turn' = [turn EXCEPT ![t] = new],
             new.pc = "search", new.chosen = {}, new.now = turn[t].now, new.found = turn[t].found,
             new.sumOk = turn[t].sumOk, new.full = turn[t].full,
             \/ new.sum = turn[t].sum /\ new.sources = turn[t].sources
             \/ new.sum = Len(sums) + 1 /\ new.sources = turn[t].sources \ turn[t].chosen
      PROVE  IInv'
  <2>1. /\ sums' \in Seq(SUBSET Nat) /\ Len(sums') = Len(sums) + 1 /\ sums'[Len(sums) + 1] = text
        /\ \A r \in 1 .. Len(sums) : sums'[r] = sums[r]
    <3>1. sums \in Seq(SUBSET Nat) BY <1>3 DEF TypesOK
    <3> QED BY <1>7, <1>8, <3>1
  <2>2. turn'[t] = new /\ leases'[t] = leases[t] /\ turn' \in [Turns -> TurnRows]
        /\ \A q \in Turns : q # t => turn'[q] = turn[q]
    BY <1>1, <1>2, <1>8
  <2>3. (~fork' => ~fork /\ turn[t].sum = Len(sums)) /\ fork' \in BOOLEAN
    BY <1>3, <1>8 DEF TypesOK
  <2>4. TypesOK' BY <1>1, <1>3, <1>8, <2>1, <2>2, <2>3 DEF TypesOK
  <2>5. Grows BY <1>1, <1>2, <2>1, <2>3 DEF Grows
  <2>6. StoreSound'
    <3>1. Turnable' = Turnable BY <1>1 DEF Turnable
    <3>2. \A r \in 1 .. Len(sums') : sums'[r] \subseteq Turnable
      BY <1>2, <1>3, <1>7, <2>1 DEF StoreSound
    <3> QED BY <1>1, <1>3, <3>1, <3>2 DEF StoreSound
  <2>7. PassSound' BY <1>1, <1>3, <1>5 DEF PassSound, Ready
  <2>8. ChainSound'
    <3> SUFFICES ASSUME ~fork' PROVE ChainSound' BY DEF ChainSound
    <3>1. /\ \A r \in 1 .. Len(sums) : sums[r] \subseteq sums[Len(sums)]
          /\ \A r \in 1 .. Len(sums) : \A i \in sums[r] : src[i].time <= clock
          /\ \A i \in 1 .. Len(src) : src[i].available \/ i \in Covered(Len(sums))
          /\ maint.pc # "idle" => maint.now <= clock
      BY <1>3, <2>3 DEF ChainSound
    <3>2. Covered(Len(sums)) \subseteq text BY <2>3 DEF text
    <3>3. Covered(Len(sums))' = text BY <1>2, <2>1 DEF Covered
    <3>4. \A r \in 1 .. Len(sums') : sums'[r] \subseteq sums'[Len(sums')]
      BY <1>2, <2>1, <3>1, <3>2 DEF Covered
    <3>5. \A i \in text : src[i].time <= clock
      <4> SUFFICES ASSUME NEW i \in text PROVE src[i].time <= clock OBVIOUS
      <4>1. Visible({src[i].time}, turn[t].now) /\ i \in 1 .. Len(src) BY <1>7 DEF Turnable
      <4>2. src[i].time \in Int
        <5>1. src[i] \in SourceRows BY <1>3, <4>1, Lengths
        <5> QED BY <5>1 DEF SourceRows
      <4>3. src[i].time = -1 \/ src[i].time <= turn[t].now BY <1>4, <4>1, VisibleOne DEF NoTime
      <4> QED BY <1>2, <1>4, <2>3, <4>2, <4>3
    <3>6. \A r \in 1 .. Len(sums') : \A i \in sums'[r] : src[i].time <= clock
      BY <1>2, <2>1, <3>1, <3>5
    <3> QED BY <1>1, <3>1, <3>2, <3>3, <3>4, <3>6 DEF ChainSound
  <2>9. ExperiencesSound' BY <1>1, <1>3 DEF ExperiencesSound
  <2>10. ASSUME NEW q \in Turns, q # t PROVE TurnSound(q)'
    <3>1. Same(q) BY <1>1, <2>2, <2>10 DEF Same
    <3> QED BY <2>4, <2>5, <3>1, TurnKept
  <2>11. LeaseSound(t)' BY <1>1, <2>2, <2>4, <2>5, LeaseKept
  <2> DEFINE now == Covered(turn[t].sum)'
  <2>12. \/ now = cov /\ new.sources = turn[t].sources
         \/ now = text /\ new.sources = turn[t].sources \ turn[t].chosen
    <3>1. turn[t].sum \in 0 .. Len(sums) BY <1>2, <1>4
    <3>2. new.sum = turn[t].sum => now = cov BY <2>2, <2>5, <3>1, CoveredKept DEF Covered
    <3>3. new.sum = Len(sums) + 1 => now = text BY <1>2, <2>1, <2>2 DEF Covered
    <3> QED BY <1>8, <3>2, <3>3
  <2> HIDE DEF now
  <2> HIDE DEF cov
  <2>13. /\ new.sources \cap now = {} /\ new.sources \subseteq turn[t].sources
         /\ cov \subseteq now /\ turn[t].sources \cup cov \subseteq new.sources \cup now
         /\ \A i \in now : Visible({src[i].time}, turn[t].now)
    BY <1>4, <1>7, <2>12 DEF text
  <2>14. \A i \in 1 .. Len(src) : Seen(t, i)' <=> Seen(t, i)
    BY <1>1, <1>8, <2>2 DEF Seen, Visible
  <2>15. ReadsSound(t)'
    <3>1. \A i \in turn'[t].sources : Seen(t, i)' BY <1>4, <2>2, <2>13, <2>14
    <3>2. \A i \in now \cup turn'[t].found : Visible({src[i].time}, turn[t].now)'
      BY <1>1, <1>4, <1>8, <2>2, <2>13 DEF Visible
    <3>3. /\ turn'[t].now \in Nat /\ (~fork' => turn'[t].now <= clock')
          /\ turn'[t].sources \subseteq 1 .. Len(src') /\ turn'[t].sum <= Len(sums')
          /\ turn'[t].found \subseteq 1 .. Len(src') /\ turn'[t].chosen = {}
          /\ turn'[t].pc = "search" /\ leases'[t].held
      BY <1>1, <1>2, <1>4, <1>8, <2>1, <2>2, <2>3, <2>13
    <3>4. turn'[t].sources \cap now = {} BY <2>2, <2>13
    <3> QED BY <3>1, <3>2, <3>3, <3>4 DEF ReadsSound, Reading, now
  <2>16. CompleteSound(t)'
    <3>1. /\ turn[t].sumOk /\ ~Overtaken(t) => Covered(leases[t].rev) \subseteq cov
          /\ turn[t].full =>
             \A i \in 1 .. leases[t].mark : src[i].available /\ Seen(t, i) => i \in turn[t].sources \cup cov
      BY <1>1, <1>2, <1>4 DEF CompleteSound, Telling, cov
    <3>2. leases[t].mark <= Len(src) BY <1>2, <1>4 DEF LeaseSound
    <3>3. Covered(leases[t].rev)' = Covered(leases[t].rev)
      BY <1>1, <1>2, <1>8, <2>5, CoveredKept DEF Covered
    <3>4. Overtaken(t)' <=> Overtaken(t)
      BY <1>1, <1>8, <2>2, <3>3 DEF Overtaken, Visible, TimesOf
    <3>5. turn'[t].sumOk /\ ~Overtaken(t)' => Covered(leases[t].rev)' \subseteq now
      BY <1>8, <2>2, <2>13, <3>1, <3>3, <3>4
    <3>6. turn'[t].full =>
            \A i \in 1 .. leases'[t].mark : src'[i].available /\ Seen(t, i)' => i \in turn'[t].sources \cup now
      BY <1>1, <1>2, <1>8, <2>2, <2>13, <2>14, <3>1, <3>2
    <3> QED BY <1>8, <2>2, <3>5, <3>6 DEF CompleteSound, now
  <2> QED BY <2>4, <2>6, <2>7, <2>8, <2>9, <2>10, <2>11, <2>15, <2>16 DEF IInv, TurnSound
<1>9. ASSUME RevisionStands(t), sums' = Append(sums, PrepareSummaryCheckpoint(t)),
             fork' = IF turn[t].sum = leases[t].rev THEN fork ELSE TRUE,
             retry' = NoRetry,
             Go(t, [turn[t] EXCEPT !.pc = "search", !.chosen = {}, !.sum = Len(sums) + 1,
                            !.sources = @ \ turn[t].chosen])
      PROVE  IInv'
  <2> DEFINE rest == turn[t].sources \ turn[t].chosen
             num == Len(sums) + 1
             new == [turn[t] EXCEPT !.pc = "search", !.chosen = {}, !.sum = num, !.sources = rest]
  <2>1. rest \in SUBSET Nat /\ num \in Nat /\ {} \in SUBSET Nat BY <1>2, <1>4
  <2>2. turn' = [turn EXCEPT ![t] = new] BY <1>9 DEF Go
  <2> HIDE DEF rest, num
  <2>3. new \in TurnRows BY <1>2, <2>1, Pcs DEF TurnRows
  <2>4. /\ new.pc = "search" /\ new.chosen = {} /\ new.now = turn[t].now /\ new.found = turn[t].found
        /\ new.sumOk = turn[t].sumOk /\ new.full = turn[t].full /\ new.sum = num /\ new.sources = rest
    BY <1>2 DEF TurnRows
  <2> HIDE DEF new
  <2>5. sums' = Append(sums, text) /\ Len(sums) = leases[t].rev /\ retry' \in Retry
    BY <1>9, NoTurnFacts DEF PrepareSummaryCheckpoint, CanonicalSummarySources, RevisionStands, text
  <2> QED BY <1>8, <1>9, <2>2, <2>3, <2>4, <2>5 DEF rest, num
<1>10. ASSUME RevisionStands(t), sums' = Append(sums, PrepareSummaryCheckpoint(t)),
             fork' = IF turn[t].sum = leases[t].rev THEN fork ELSE TRUE,
             CompactionFailed(t)
      PROVE  IInv'
  <2>1. sums' = Append(sums, text) /\ Len(sums) = leases[t].rev
    BY <1>10 DEF PrepareSummaryCheckpoint, CanonicalSummarySources, RevisionStands, text
  <2>2. PICK new \in TurnRows :
        /\ turn' = [turn EXCEPT ![t] = new] /\ turn'[t] = new /\ retry' \in Retry
        /\ new.pc = "search" /\ new.sum = turn[t].sum /\ new.now = turn[t].now
        /\ new.sources = turn[t].sources /\ new.sumOk = turn[t].sumOk /\ new.chosen = {}
        /\ new.found = turn[t].found /\ new.full = turn[t].full
    BY <1>10, FailureFacts
  <2> QED BY <1>8, <1>10, <2>1, <2>2
<1>11. ASSUME CompactionFailed(t), UNCHANGED << sums, fork >> PROVE IInv'
  BY <1>1, <1>11, FailureKeeps DEF store, outside
<1> QED BY <1>9, <1>10, <1>11 DEF CommitSummary

\* A row is appended to session_history and indexed, in one transaction.
LEMMA RowAdded ==
    ASSUME IInv, Ready, writer = None, NEW row, row \in SourceRows, row.available = TRUE,
           src' = Append(src, row), indexed' = indexed \cup {Len(src) + 1},
           UNCHANGED << schema, recent, sums, writer, mu, maint, clock, fork >>
    PROVE  /\ src' \in Seq(SourceRows) /\ Len(src') = Len(src) + 1 /\ src'[Len(src) + 1] = row
           /\ \A i \in 1 .. Len(src) : src'[i] = src[i]
           /\ Grows /\ StoreSound' /\ PassSound' /\ ChainSound'
<1>1. TypesOK /\ StoreSound /\ PassSound /\ ChainSound BY DEF IInv
<1>2. Len(src) \in Nat /\ Len(sums) \in Nat /\ src \in Seq(SourceRows) /\ clock \in Nat
  BY <1>1 DEF TypesOK
<1>3. /\ src' \in Seq(SourceRows) /\ Len(src') = Len(src) + 1 /\ src'[Len(src) + 1] = row
      /\ \A i \in 1 .. Len(src) : src'[i] = src[i]
  BY <1>2
<1>4. Grows BY <1>2, <1>3 DEF Grows
<1>5. Turnable \subseteq Turnable' BY <1>2, <1>3 DEF Turnable
<1>6. StoreSound'
  <2>1. schema \notin { "empty", "recent" } BY DEF Ready
  <2>2. indexed' \subseteq 1 .. Len(src')
    <3>1. indexed \subseteq 1 .. Len(src) BY <1>1 DEF StoreSound
    <3>2. (\A i \in 1 .. Len(src) : i \in 1 .. Len(src')) /\ Len(src) + 1 \in 1 .. Len(src')
      BY <1>2, <1>3
    <3> QED BY <3>1, <3>2
  <2>3. \A r \in 1 .. Len(sums) : sums[r] \subseteq Turnable' BY <1>1, <1>5 DEF StoreSound
  <2> QED BY <2>1, <2>2, <2>3 DEF StoreSound
<1>7. PassSound' BY <1>1, Nobody DEF PassSound, Ready
<1>8. ChainSound'
  <2> SUFFICES ASSUME ~fork PROVE ChainSound' BY DEF ChainSound
  <2>1. Covered(Len(sums))' = Covered(Len(sums)) BY DEF Covered
  <2>2. \A i \in 1 .. Len(src') : src'[i].available \/ i \in Covered(Len(sums))
    BY <1>1, <1>2, <1>3 DEF ChainSound
  <2>3. \A r \in 1 .. Len(sums) : \A i \in sums[r] : src'[i].time <= clock
    BY <1>1, <1>2, <1>3 DEF ChainSound, StoreSound, Turnable
  <2> QED BY <1>1, <2>1, <2>2, <2>3 DEF ChainSound
<1> QED BY <1>3, <1>4, <1>6, <1>7, <1>8

LEMMA RecordExperienceKeeps ==
    ASSUME IInv, NEW f \in Facts, NEW c \in Contents, RecordExperience(f, c)
    PROVE  IInv'
<1>1. /\ Ready /\ writer = None
      /\ UNCHANGED << schema, recent, sums, leases, writer, mu, turn, retry, maint, clock, fork >>
  BY DEF RecordExperience, CanWrite, memory
<1>2. TypesOK /\ StoreSound /\ PassSound /\ ChainSound /\ ExperiencesSound BY DEF IInv
<1>3. /\ Len(src) \in Nat /\ Len(sums) \in Nat /\ clock \in Nat /\ acked \in [Facts -> Contents \cup {None}]
      /\ src \in Seq(SourceRows) /\ leases \in [Turns -> LeaseRows]
  BY <1>2 DEF TypesOK
<1>4. ASSUME Stored(f) = {}, Inserted("experience", f, c, clock),
             acked' \in {acked, [acked EXCEPT ![f] = c]}
      PROVE  IInv'
  <2> DEFINE row == Source("experience", f, c, clock)
  <2>1. /\ row \in SourceRows /\ row.available = TRUE /\ row.kind = "experience" /\ row.key = f
        /\ row.content = c
    BY <1>3 DEF Source, SourceRows
  <2> HIDE DEF row
  <2>2. src' = Append(src, row) /\ indexed' = indexed \cup {Len(src) + 1}
    BY <1>4 DEF Inserted, IndexHistorySource, row
  <2>3. /\ src' \in Seq(SourceRows) /\ Len(src') = Len(src) + 1 /\ src'[Len(src) + 1] = row
        /\ \A i \in 1 .. Len(src) : src'[i] = src[i]
        /\ Grows /\ StoreSound' /\ PassSound' /\ ChainSound'
    BY <1>1, <2>1, <2>2, RowAdded
  <2>4. acked' \in [Facts -> Contents \cup {None}] /\ (\A g \in Facts : g # f => acked'[g] = acked[g])
        /\ acked'[f] \in { acked[f], c }
    BY <1>3, <1>4
  <2>5. TypesOK' BY <1>1, <1>2, <2>3, <2>4 DEF TypesOK
  <2>6. \A i \in 1 .. Len(src) : ~(src[i].kind = "experience" /\ src[i].key = f)
    BY <1>3, <1>4 DEF Stored, Held, Sequences
  <2>7. ExperiencesSound'
    <3>1. \A i \in 1 .. Len(src') : i \in 1 .. Len(src) \/ i = Len(src) + 1 BY <1>3, <2>3
    <3>2. \A i \in 1 .. Len(src') : src'[i].kind = "experience" => src'[i].available
      BY <1>2, <2>1, <2>3, <3>1 DEF ExperiencesSound
    <3>3. \A i, j \in 1 .. Len(src') : /\ src'[i].kind = "experience" /\ src'[j].kind = "experience"
                                       /\ src'[i].key = src'[j].key
                                       => i = j
      BY <1>2, <2>1, <2>3, <2>6, <3>1 DEF ExperiencesSound
    <3>4. ASSUME NEW g \in Facts, acked'[g] # None
          PROVE  \E i \in 1 .. Len(src') : src'[i].kind = "experience" /\ src'[i].key = g
                                            /\ src'[i].content = acked'[g]
      <4>1. CASE acked'[g] = acked[g]
        <5>1. PICK i \in 1 .. Len(src) : src[i].kind = "experience" /\ src[i].key = g
                                          /\ src[i].content = acked[g]
          BY <1>2, <3>4, <4>1 DEF ExperiencesSound
        <5>2. i \in 1 .. Len(src') BY <1>3, <2>3
        <5> QED BY <2>3, <4>1, <5>1, <5>2
      <4>2. CASE g = f /\ acked'[g] = c
        <5>1. Len(src) + 1 \in 1 .. Len(src') BY <1>3, <2>3
        <5> QED BY <2>1, <2>3, <4>2, <5>1
      <4> QED BY <2>4, <4>1, <4>2
    <3> QED BY <3>2, <3>3, <3>4 DEF ExperiencesSound
  <2>8. ASSUME NEW q \in Turns PROVE TurnSound(q)'
    <3>1. leases[q].held => leases[q].mark \in Nat /\ leases[q].mark <= Len(src)
      BY TurnFacts DEF LeaseSound
    <3>2. Same(q) BY <1>1, <1>3, <2>3, <3>1 DEF Same
    <3> QED BY <2>3, <2>5, <3>2, TurnKept
  <2> QED BY <2>3, <2>5, <2>7, <2>8 DEF IInv
<1>5. ASSUME NEW i \in Stored(f), src[i].content = c, acked' = [acked EXCEPT ![f] = c],
             UNCHANGED << src, indexed >>
      PROVE  IInv'
  <2>1. i \in 1 .. Len(src) /\ src[i].kind = "experience" /\ src[i].key = f
    BY <1>3, <1>5 DEF Stored, Held, Sequences
  <2>2. TypesOK' BY <1>1, <1>2, <1>3, <1>5 DEF TypesOK
  <2>3. Grows BY <1>1, <1>3, <1>5 DEF Grows
  <2>4. StoreSound' /\ ChainSound' /\ PassSound'
    <3>1. StoreSound' /\ ChainSound'
      BY <1>1, <1>2, <1>5 DEF StoreSound, ChainSound, Turnable, Covered
    <3> QED BY <1>1, <1>2, <1>5, <3>1, Nobody DEF PassSound, Ready
  <2>5. ExperiencesSound'
    <3>1. \A g \in Facts : acked'[g] = IF g = f THEN c ELSE acked[g] BY <1>3, <1>5
    <3> QED BY <1>2, <1>5, <2>1, <3>1 DEF ExperiencesSound
  <2>6. ASSUME NEW q \in Turns PROVE TurnSound(q)'
    <3>1. Same(q) BY <1>1, <1>5 DEF Same
    <3> QED BY <2>2, <2>3, <3>1, TurnKept
  <2> QED BY <2>2, <2>4, <2>5, <2>6 DEF IInv
<1> QED BY <1>4, <1>5 DEF RecordExperience

\* A turn without a lease and without anything read.
LEMMA IdleSound ==
    ASSUME TypesOK', NEW t \in Turns, turn'[t] = NoTurn, leases'[t] = NoLease
    PROVE  TurnSound(t)'
<1>1. turn'[t].pc = "idle" /\ turn'[t].sum = 0 /\ turn'[t].sources = {} /\ turn'[t].chosen = {}
      /\ turn'[t].found = {} /\ leases'[t].held = FALSE
  BY NoTurnFacts
<1>2. LeaseSound(t)' /\ CompleteSound(t)' BY <1>1 DEF LeaseSound, CompleteSound
<1>3. Covered(turn[t].sum)' = {} BY <1>1 DEF Covered
<1>4. Len(sums') \in Nat BY DEF TypesOK
<1>5. ReadsSound(t)' BY <1>1, <1>3, <1>4 DEF ReadsSound, Reading
<1> QED BY <1>2, <1>5 DEF TurnSound

LEMMA TurnEndsKeeps ==
    ASSUME IInv, NEW t \in Turns, TurnEnds(t)
    PROVE  IInv'
<1>1. /\ turn[t].pc = "act" /\ mu = None
      /\ UNCHANGED << schema, recent, sums, writer, mu, retry, maint, clock, acked, fork >>
      /\ leases' = [leases EXCEPT ![t] = NoLease] /\ turn' = [turn EXCEPT ![t] = NoTurn]
  BY DEF TurnEnds, outside, Go, ReleaseHistorySnapshot
<1>2. TypesOK /\ StoreSound /\ PassSound /\ ChainSound /\ ExperiencesSound BY DEF IInv
<1>3. /\ Len(src) \in Nat /\ Len(sums) \in Nat /\ src \in Seq(SourceRows)
      /\ leases \in [Turns -> LeaseRows] /\ turn \in [Turns -> TurnRows]
      /\ turn[t].now \in Int /\ clock \in Nat
  BY <1>2, TurnFacts DEF TypesOK
<1>4. /\ leases' \in [Turns -> LeaseRows] /\ turn' \in [Turns -> TurnRows]
      /\ turn'[t] = NoTurn /\ leases'[t] = NoLease
      /\ \A q \in Turns : q # t => turn'[q] = turn[q] /\ leases'[q] = leases[q]
  BY <1>1, <1>3, NoTurnFacts
<1>5. ASSUME TypesOK', Grows, StoreSound', PassSound', ChainSound', ExperiencesSound',
             \A i \in 1 .. Len(src) : src'[i] = src[i]
      PROVE  IInv'
  <2>1. ASSUME NEW q \in Turns, q # t PROVE TurnSound(q)'
    <3>1. leases[q].held => leases[q].mark \in Nat /\ leases[q].mark <= Len(src)
      BY TurnFacts DEF LeaseSound
    <3>2. Same(q) BY <1>3, <1>4, <1>5, <2>1, <3>1 DEF Same
    <3> QED BY <1>5, <3>2, TurnKept
  <2>2. TurnSound(t)' BY <1>4, <1>5, IdleSound
  <2> QED BY <1>5, <2>1, <2>2 DEF IInv
<1>6. ASSUME CanWrite, Inserted("terminal", None, None, turn[t].now)
      PROVE  IInv'
  <2> DEFINE row == Source("terminal", None, None, turn[t].now)
  <2>1. row \in SourceRows /\ row.available = TRUE /\ row.kind = "terminal"
    BY <1>3 DEF Source, SourceRows
  <2> HIDE DEF row
  <2>2. src' = Append(src, row) /\ indexed' = indexed \cup {Len(src) + 1}
    BY <1>6 DEF Inserted, IndexHistorySource, row
  <2>3. /\ src' \in Seq(SourceRows) /\ Len(src') = Len(src) + 1 /\ src'[Len(src) + 1] = row
        /\ \A i \in 1 .. Len(src) : src'[i] = src[i]
        /\ Grows /\ StoreSound' /\ PassSound' /\ ChainSound'
    BY <1>1, <1>6, <2>1, <2>2, RowAdded DEF CanWrite
  <2>4. TypesOK' BY <1>1, <1>2, <1>4, <2>3 DEF TypesOK
  <2>5. ExperiencesSound'
    <3>1. \A i \in 1 .. Len(src') : i \in 1 .. Len(src) \/ i = Len(src) + 1 BY <1>3, <2>3
    <3>2. \A i \in 1 .. Len(src) : i \in 1 .. Len(src') BY <1>3, <2>3
    <3>3. "terminal" # "experience" OBVIOUS
    <3>4. \A i \in 1 .. Len(src') : src'[i].kind = "experience" => i \in 1 .. Len(src) /\ src'[i] = src[i]
      BY <2>1, <2>3, <3>1, <3>3
    <3> QED BY <1>1, <1>2, <2>3, <3>2, <3>4 DEF ExperiencesSound
  <2> QED BY <1>5, <2>3, <2>4, <2>5
<1>7. ASSUME UNCHANGED << src, indexed >> PROVE IInv'
  <2>1. TypesOK' BY <1>1, <1>2, <1>4, <1>7 DEF TypesOK
  <2>2. Grows BY <1>1, <1>3, <1>7 DEF Grows
  <2>3. StoreSound' /\ ChainSound' /\ ExperiencesSound'
    BY <1>1, <1>2, <1>7 DEF StoreSound, ChainSound, Turnable, Covered, ExperiencesSound
  <2>4. PassSound' BY <1>1, <1>2, Nobody DEF PassSound, Ready
  <2> QED BY <1>5, <1>7, <2>1, <2>2, <2>3, <2>4
<1> QED BY <1>6, <1>7 DEF TurnEnds

-----------------------------------------------------------------------------
(* Migration, maintenance and the world around.                              *)

\* A step that leaves every turn and every row a lease has seen alone.
LEMMA GlobalKeeps ==
    ASSUME IInv, TypesOK', Grows, StoreSound', PassSound', ChainSound', ExperiencesSound',
           UNCHANGED << turn, leases >>,
           \A q \in Turns : leases[q].held =>
             \A i \in 1 .. leases[q].mark : src'[i].available = src[i].available
    PROVE  IInv'
<1>1. ASSUME NEW q \in Turns PROVE TurnSound(q)'
  <2>1. Same(q) BY DEF Same
  <2> QED BY <2>1, TurnKept
<1> QED BY <1>1 DEF IInv

LEMMA PrepareHistoryFoundationKeeps ==
    ASSUME IInv, PrepareHistoryFoundation
    PROVE  IInv'
<1>1. /\ schema \in { "empty", "recent" } /\ schema' = "history"
      /\ src' = [i \in DOMAIN recent |-> Source("legacy", i, None, recent[i])]
      /\ UNCHANGED << recent, sums, indexed, leases, writer, mu, turn, retry, maint, clock, acked, fork >>
  BY DEF PrepareHistoryFoundation, memory, outside
<1>2. TypesOK /\ StoreSound /\ PassSound /\ ChainSound /\ ExperiencesSound BY DEF IInv
<1>3. src = <<>> /\ recent \in Seq(Int) /\ Len(src) = 0 /\ maint.pc = "idle"
  BY <1>1, <1>2 DEF StoreSound, PassSound, Ready
<1>4. /\ Len(recent) \in Nat /\ DOMAIN recent = 1 .. Len(recent)
      /\ \A i \in 1 .. Len(recent) : recent[i] \in Int
  BY <1>3
<1>5. \A i \in 1 .. Len(recent) :
        /\ src'[i] \in SourceRows /\ src'[i].kind = "legacy" /\ src'[i].available = TRUE
  <2> SUFFICES ASSUME NEW i \in 1 .. Len(recent)
               PROVE  src'[i] \in SourceRows /\ src'[i].kind = "legacy" /\ src'[i].available = TRUE
    OBVIOUS
  <2>1. src'[i] = Source("legacy", i, None, recent[i]) BY <1>1, <1>4
  <2>2. i \in Nat /\ recent[i] \in Int BY <1>4
  <2> QED BY <2>1, <2>2 DEF Source, SourceRows
<1>6. src' \in Seq(SourceRows) /\ Len(src') = Len(recent)
  <2>1. src' = [i \in 1 .. Len(recent) |-> src'[i]] BY <1>1, <1>4
  <2> QED BY <1>4, <1>5, <2>1
<1>7. TypesOK' BY <1>1, <1>2, <1>6 DEF TypesOK
<1>8. Grows
  <2>1. Len(sums) \in Nat /\ clock \in Nat BY <1>2 DEF TypesOK
  <2> QED BY <1>1, <1>3, <1>4, <1>6, <2>1 DEF Grows
<1>9. \A r \in 1 .. Len(sums) : sums[r] = {} BY <1>2, <1>3 DEF StoreSound, Turnable
<1>10. StoreSound'
  <2>1. indexed = {} BY <1>2, <1>3 DEF StoreSound
  <2> QED BY <1>1, <1>9, <2>1 DEF StoreSound
<1>11. PassSound' BY <1>1, <1>3 DEF PassSound
<1>12. ChainSound' BY <1>1, <1>3, <1>5, <1>6, <1>9 DEF ChainSound
<1>13. ExperiencesSound'
  <2>1. \A f \in Facts : acked[f] = None BY <1>2, <1>3 DEF ExperiencesSound
  <2> QED BY <1>1, <1>5, <1>6, <2>1 DEF ExperiencesSound
<1>14. ASSUME NEW q \in Turns, leases[q].held, NEW i \in 1 .. leases[q].mark
       PROVE  src'[i].available = src[i].available
  <2>1. leases[q].mark <= Len(src) /\ leases[q].mark \in Nat BY <1>14, TurnFacts DEF LeaseSound
  <2> QED BY <1>3, <2>1
<1> QED BY <1>1, <1>7, <1>8, <1>10, <1>11, <1>12, <1>13, <1>14, GlobalKeeps

LEMMA SchemaKeeps ==
    ASSUME IInv, PrepareRetrievalDatabase \/ PrepareExperienceDatabase
    PROVE  IInv'
<1>1. /\ schema \in { "history", "retrieval" } /\ schema' \in { "retrieval", "experience" }
      /\ UNCHANGED << recent, src, sums, indexed, leases, writer, mu, turn, retry, maint, clock, acked, fork >>
  BY DEF PrepareRetrievalDatabase, PrepareExperienceDatabase, memory, outside
<1>2. TypesOK /\ StoreSound /\ PassSound /\ ChainSound /\ ExperiencesSound BY DEF IInv
<1>3. maint.pc = "idle" BY <1>1, <1>2 DEF PassSound, Ready
<1>4. TypesOK' BY <1>1, <1>2 DEF TypesOK
<1>5. Grows BY <1>1, <1>2, Lengths DEF Grows, TypesOK
<1>6. StoreSound' /\ ChainSound' /\ ExperiencesSound' /\ PassSound'
  BY <1>1, <1>2, <1>3 DEF StoreSound, ChainSound, ExperiencesSound, Turnable, Covered, PassSound
<1> QED BY <1>1, <1>4, <1>5, <1>6, GlobalKeeps

LEMMA EndPassFacts ==
    ASSUME NEW p, DOMAIN p = PassFields
    PROVE  DOMAIN EndPass(p) = PassFields /\ EndPass(p).pc = "idle" /\ EndPass(p).now = -1
BY DEF EndPass, PassFields, NoTime

\* A step of the maintenance pass that touches no row.
LEMMA PassKeeps ==
    ASSUME IInv, UNCHANGED << schema, recent, src, sums, leases, turn, retry, clock, acked, fork >>,
           indexed' \subseteq 1 .. Len(src),
           DOMAIN maint' = PassFields, maint'.pc \in { "idle", "prune", "select", "commit" },
           maint'.now \in Int, ~fork => (maint'.pc # "idle" => maint'.now <= clock), PassSound'
    PROVE  IInv'
<1>1. TypesOK /\ StoreSound /\ PassSound /\ ChainSound /\ ExperiencesSound BY DEF IInv
<1>2. TypesOK' BY <1>1 DEF TypesOK
<1>3. Grows BY <1>1, Lengths DEF Grows, TypesOK
<1>4. StoreSound' /\ ChainSound' /\ ExperiencesSound'
  BY <1>1 DEF StoreSound, ChainSound, ExperiencesSound, Turnable, Covered
<1> QED BY <1>2, <1>3, <1>4, GlobalKeeps

LEMMA RebuildHistoryIndexKeeps ==
    ASSUME IInv, RebuildHistoryIndex
    PROVE  IInv'
<1> DEFINE todo == Available \ indexed
           done == Batch(todo, maint.rebuildAfter, BatchSources)
           left == BatchSources - Cardinality(done)
           cursor == Cursor(todo, maint.rebuildAfter, BatchSources)
           next == [maint EXCEPT !.rebuildAfter = cursor]
<1>1. /\ maint.pc = "idle" /\ Ready
      /\ indexed' = indexed \cup done
      /\ maint' = IF left = 0 THEN next ELSE [next EXCEPT !.pc = "prune", !.now = clock, !.budget = left]
      /\ UNCHANGED << schema, recent, src, sums, leases, writer, mu, turn, retry, clock, acked, fork >>
  BY DEF RebuildHistoryIndex, MayMaintain, IndexHistorySource, outside
<1>2. TypesOK /\ StoreSound BY DEF IInv
<1>3. DOMAIN maint = PassFields /\ maint.now \in Int /\ clock \in Nat /\ src \in Seq(SourceRows)
  BY <1>2 DEF TypesOK
<1>4. done \subseteq 1 .. Len(src)
  <2>1. done \subseteq todo BY OldestFacts DEF Batch
  <2>2. Available \subseteq 1 .. Len(src) BY <1>3 DEF Available, Sequences
  <2> QED BY <2>1, <2>2
<1> HIDE DEF done, cursor
<1>5. DOMAIN next = PassFields /\ next.pc = "idle" /\ next.now = maint.now
  BY <1>1, <1>3 DEF PassFields
<1> HIDE DEF next, left
<1>6. /\ DOMAIN maint' = PassFields
      /\ \/ maint'.pc = "idle" /\ maint'.now = maint.now
         \/ maint'.pc = "prune" /\ maint'.now = clock
  BY <1>1, <1>5 DEF PassFields
<1>7. indexed' \subseteq 1 .. Len(src) BY <1>1, <1>2, <1>4 DEF StoreSound
<1>8. PassSound' BY <1>1, <1>3, <1>6 DEF PassSound, Ready
<1> QED BY <1>1, <1>3, <1>6, <1>7, <1>8, PassKeeps

LEMMA PruneBeginKeeps ==
    ASSUME IInv, PruneBegin
    PROVE  IInv'
<1>1. /\ maint.pc = "prune"
      /\ UNCHANGED << schema, recent, src, sums, indexed, leases, turn, retry, clock, acked, fork >>
  BY DEF PruneBegin, store, outside
<1>2. TypesOK /\ StoreSound /\ PassSound /\ ChainSound BY DEF IInv
<1>3. DOMAIN maint = PassFields /\ maint.now \in Int /\ indexed \subseteq 1 .. Len(src)
      /\ Ready /\ maint.now \in Nat /\ (~fork => maint.now <= clock)
  BY <1>1, <1>2 DEF TypesOK, StoreSound, PassSound, ChainSound
<1>4. ASSUME writer' = Maintenance, mu' = Maintenance, maint' = [maint EXCEPT !.pc = "select"]
      PROVE  IInv'
  <2>1. DOMAIN maint' = PassFields /\ maint'.pc = "select" /\ maint'.now = maint.now
    BY <1>3, <1>4 DEF PassFields
  <2>2. PassSound' BY <1>1, <1>3, <1>4, <2>1 DEF PassSound, Ready
  <2> QED BY <1>1, <1>3, <2>1, <2>2, PassKeeps
<1>5. ASSUME maint' = EndPass(maint) PROVE IInv'
  <2>1. DOMAIN maint' = PassFields /\ maint'.pc = "idle" /\ maint'.now = -1
    BY <1>3, <1>5, EndPassFacts
  <2>2. PassSound' BY <2>1 DEF PassSound
  <2>3. -1 \in Int OBVIOUS
  <2> QED BY <1>1, <1>3, <2>1, <2>2, <2>3, PassKeeps
<1> QED BY <1>4, <1>5 DEF PruneBegin

\* Victims are chosen under both locks from what the selected summary covers.
LEMMA PruneSelectKeeps ==
    ASSUME IInv, PruneSelect
    PROVE  IInv'
<1> DEFINE r == SelectSummary(Len(src), Len(sums), maint.now)
<1>1. /\ maint.pc = "select"
      /\ UNCHANGED << schema, recent, src, sums, indexed, leases, turn, retry, clock, acked, fork >>
  BY DEF PruneSelect, store, outside
<1>2. TypesOK /\ StoreSound /\ PassSound /\ ChainSound BY DEF IInv
<1>3. /\ DOMAIN maint = PassFields /\ maint.now \in Int /\ indexed \subseteq 1 .. Len(src)
      /\ Ready /\ maint.now \in Nat /\ (~fork => maint.now <= clock)
      /\ mu = Maintenance /\ writer = Maintenance /\ Len(sums) \in Nat /\ Len(src) \in Nat
  BY <1>1, <1>2 DEF TypesOK, StoreSound, PassSound, ChainSound
<1>4. r = 0 \/ r \in ReadableSummaries(Len(src), Len(sums), maint.now)
  BY <1>2, <1>3, SelectFacts
<1> HIDE DEF r
<1>5. ASSUME r # 0, UNCHANGED << writer, mu >>, NEW V, NEW n,
             \A i \in V : Prunable(i, r, maint.now),
             maint' = [maint EXCEPT !.pc = "commit", !.victims = V, !.next = n]
      PROVE  IInv'
  <2>1. r \in 1 .. Len(sums) BY <1>4, <1>5 DEF ReadableSummaries
  <2>2. /\ DOMAIN maint' = PassFields /\ maint'.pc = "commit" /\ maint'.now = maint.now
        /\ maint'.victims = V
    BY <1>3, <1>5 DEF PassFields
  <2>3. V \subseteq sums[r] /\ \A i \in V : ~Protected(i)
    BY <1>3, <1>5, <2>1 DEF Prunable, Covered
  <2>4. V \subseteq Turnable BY <1>2, <2>1, <2>3 DEF StoreSound
  <2>5. ~fork => V \subseteq Covered(Len(sums))
    BY <1>2, <1>3, <2>1, <2>3 DEF ChainSound, Covered
  <2>6. PassSound'
    <3>1. /\ Turnable' = Turnable /\ Covered(Len(sums))' = Covered(Len(sums))
          /\ \A i \in V : ~Protected(i)'
      BY <1>1, <2>3 DEF Turnable, Covered, Protected
    <3> QED BY <1>1, <1>3, <1>5, <2>2, <2>4, <2>5, <3>1 DEF PassSound, Ready
  <2> QED BY <1>1, <1>3, <2>2, <2>6, PassKeeps
<1>6. ASSUME maint' = EndPass([maint EXCEPT !.pruneAfter = 0]) PROVE IInv'
  <2>1. DOMAIN [maint EXCEPT !.pruneAfter = 0] = PassFields BY <1>3
  <2>2. DOMAIN maint' = PassFields /\ maint'.pc = "idle" /\ maint'.now = -1
    BY <1>6, <2>1, EndPassFacts
  <2>3. PassSound' BY <2>2 DEF PassSound
  <2>4. -1 \in Int OBVIOUS
  <2> QED BY <1>1, <1>3, <2>2, <2>3, <2>4, PassKeeps
<1>7. ASSUME r # 0, UNCHANGED << writer, mu >>, NEW cutoff \in Sequences,
             maint' = [maint EXCEPT !.pc = "commit",
                         !.victims = {i \in Batch(Aged(cutoff), maint.pruneAfter, maint.budget) :
                                        Prunable(i, r, maint.now)},
                         !.next = Cursor(Aged(cutoff), maint.pruneAfter, maint.budget)]
      PROVE  IInv'
  <2> DEFINE V == {i \in Batch(Aged(cutoff), maint.pruneAfter, maint.budget) : Prunable(i, r, maint.now)}
             n == Cursor(Aged(cutoff), maint.pruneAfter, maint.budget)
  <2>1. \A i \in V : Prunable(i, r, maint.now) OBVIOUS
  <2>2. maint' = [maint EXCEPT !.pc = "commit", !.victims = V, !.next = n] BY <1>7
  <2> HIDE DEF V, n
  <2> QED BY <1>5, <1>7, <2>1, <2>2
<1> QED BY <1>6, <1>7 DEF PruneSelect, r

LEMMA PruneCommitKeeps ==
    ASSUME IInv, PruneCommit
    PROVE  IInv'
<1>1. /\ maint.pc = "commit"
      /\ UNCHANGED << schema, sums, leases, turn, retry, clock, acked, fork >>
  BY DEF PruneCommit, outside
<1>2. TypesOK /\ StoreSound /\ PassSound /\ ChainSound /\ ExperiencesSound BY DEF IInv
<1>3. /\ DOMAIN maint = PassFields /\ maint.now \in Int /\ indexed \subseteq 1 .. Len(src)
      /\ Ready /\ maint.victims \subseteq Turnable /\ (\A i \in maint.victims : ~Protected(i))
      /\ (~fork => maint.victims \subseteq Covered(Len(sums)))
      /\ Len(sums) \in Nat /\ Len(src) \in Nat /\ src \in Seq(SourceRows) /\ clock \in Nat
      /\ \A i \in 1 .. Len(src) : src[i] \in SourceRows
  BY <1>1, <1>2, Lengths DEF TypesOK, StoreSound, PassSound
<1>4. -1 \in Int OBVIOUS
<1>5. ASSUME src' = [i \in Sequences |-> [src[i] EXCEPT !.available = @ /\ i \notin maint.victims]],
             indexed' = indexed \ maint.victims,
             maint' = EndPass([maint EXCEPT !.pruneAfter = maint.next])
      PROVE  IInv'
  <2>1. DOMAIN [maint EXCEPT !.pruneAfter = maint.next] = PassFields BY <1>3
  <2>2. DOMAIN maint' = PassFields /\ maint'.pc = "idle" /\ maint'.now = -1
    BY <1>5, <2>1, EndPassFacts
  <2>3. Sequences = 1 .. Len(src) BY <1>3 DEF Sequences
  <2>4. \A i \in 1 .. Len(src) :
          /\ src'[i] \in SourceRows /\ src'[i].kind = src[i].kind /\ src'[i].key = src[i].key
          /\ src'[i].content = src[i].content /\ src'[i].time = src[i].time
          /\ src'[i].available = (src[i].available /\ i \notin maint.victims)
    <3> SUFFICES ASSUME NEW i \in 1 .. Len(src)
                 PROVE  /\ src'[i] \in SourceRows /\ src'[i].kind = src[i].kind
                        /\ src'[i].key = src[i].key
                        /\ src'[i].content = src[i].content /\ src'[i].time = src[i].time
                        /\ src'[i].available = (src[i].available /\ i \notin maint.victims)
      OBVIOUS
    <3> DEFINE b == src[i].available /\ i \notin maint.victims
    <3>1. src'[i] = [src[i] EXCEPT !.available = b] BY <1>5, <2>3
    <3>2. src[i] \in SourceRows /\ b \in BOOLEAN BY <1>3
    <3> HIDE DEF b
    <3>3. /\ src'[i] \in SourceRows /\ src'[i].kind = src[i].kind
          /\ src'[i].key = src[i].key /\ src'[i].available = b
          /\ src'[i].content = src[i].content /\ src'[i].time = src[i].time
      BY <3>1, <3>2 DEF SourceRows
    <3> QED BY <3>3 DEF b
  <2>5. src' \in Seq(SourceRows) /\ Len(src') = Len(src)
    <3>1. src' = [i \in 1 .. Len(src) |-> src'[i]] BY <1>5, <2>3
    <3> QED BY <1>3, <2>4, <3>1
  <2>6. TypesOK' BY <1>1, <1>2, <1>4, <2>2, <2>5 DEF TypesOK
  <2>7. Grows BY <1>1, <1>3, <2>4, <2>5 DEF Grows
  <2>8. Turnable' = Turnable BY <2>4, <2>5 DEF Turnable
  <2>9. StoreSound' BY <1>1, <1>2, <1>3, <1>5, <2>5, <2>8 DEF StoreSound, Ready
  <2>10. PassSound' BY <2>2 DEF PassSound
  <2>11. ChainSound'
    <3> SUFFICES ASSUME ~fork PROVE ChainSound' BY <1>1 DEF ChainSound
    <3>1. Covered(Len(sums))' = Covered(Len(sums)) BY <1>1 DEF Covered
    <3>2. \A i \in 1 .. Len(src') : src'[i].available \/ i \in Covered(Len(sums))
      <4> SUFFICES ASSUME NEW i \in 1 .. Len(src)
                   PROVE  src'[i].available \/ i \in Covered(Len(sums))
        BY <2>5
      <4>1. src[i].available \/ i \in Covered(Len(sums)) BY <1>2 DEF ChainSound
      <4>2. i \in maint.victims => i \in Covered(Len(sums)) BY <1>3
      <4> QED BY <2>4, <4>1, <4>2
    <3>3. \A q \in 1 .. Len(sums) : \A i \in sums[q] : src'[i].time <= clock
      BY <1>2, <2>4 DEF ChainSound, StoreSound, Turnable
    <3> QED BY <1>1, <1>2, <2>2, <3>1, <3>2, <3>3 DEF ChainSound
  <2>12. ExperiencesSound'
    <3>1. \A i \in maint.victims : src[i].kind # "experience" BY <1>3 DEF Turnable
    <3>2. \A i \in 1 .. Len(src') : src'[i].kind = "experience" => src'[i].available
      <4> SUFFICES ASSUME NEW i \in 1 .. Len(src), src'[i].kind = "experience" PROVE src'[i].available
        BY <2>5
      <4>1. src[i].kind = "experience" BY <2>4
      <4>2. src[i].available /\ i \notin maint.victims BY <1>2, <3>1, <4>1 DEF ExperiencesSound
      <4> QED BY <2>4, <4>2
    <3> QED BY <1>1, <1>2, <2>4, <2>5, <3>2 DEF ExperiencesSound
  <2>13. ASSUME NEW q \in Turns, leases[q].held, NEW i \in 1 .. leases[q].mark
         PROVE  src'[i].available = src[i].available
    <3>1. leases[q].mark <= Len(src) /\ leases[q].mark \in Nat BY <2>13, TurnFacts DEF LeaseSound
    <3>2. i \in 1 .. Len(src) /\ i <= leases[q].mark BY <1>3, <2>13, <3>1
    <3>3. i \notin maint.victims BY <1>3, <2>13, <3>2 DEF Protected
    <3>4. src[i] \in SourceRows /\ src'[i] \in SourceRows BY <1>3, <2>4, <3>2
    <3>5. src[i].available \in BOOLEAN /\ src'[i].available \in BOOLEAN BY <3>4 DEF SourceRows
    <3> QED BY <2>4, <3>2, <3>3, <3>5
  <2> QED BY <1>1, <2>6, <2>7, <2>9, <2>10, <2>11, <2>12, <2>13, GlobalKeeps
<1>6. ASSUME UNCHANGED << src, indexed, recent >>, maint' = EndPass(maint) PROVE IInv'
  <2>1. DOMAIN maint' = PassFields /\ maint'.pc = "idle" /\ maint'.now = -1
    BY <1>3, <1>6, EndPassFacts
  <2>2. PassSound' BY <2>1 DEF PassSound
  <2> QED BY <1>1, <1>3, <1>4, <1>6, <2>1, <2>2, PassKeeps
<1> QED BY <1>5, <1>6 DEF PruneCommit

LEMMA ClockKeeps ==
    ASSUME IInv, Advance \/ LoadSave
    PROVE  IInv'
<1>1. UNCHANGED << schema, recent, src, sums, indexed, leases, writer, mu, turn, retry, maint, acked >>
  BY DEF Advance, LoadSave, store, memory
<1>2. TypesOK /\ StoreSound /\ PassSound /\ ChainSound /\ ExperiencesSound BY DEF IInv
<1>3. clock \in Nat /\ fork \in BOOLEAN /\ Len(src) \in Nat /\ Len(sums) \in Nat
      /\ maint.now \in Int /\ \A i \in 1 .. Len(src) : src[i] \in SourceRows
  BY <1>2, Lengths DEF TypesOK
<1>4. clock' \in Nat /\ fork' \in BOOLEAN /\ (~fork' => ~fork /\ clock < clock')
  <2>1. CASE Advance
    <3>1. clock' = clock + 1 /\ fork' = fork BY <2>1 DEF Advance
    <3> QED BY <1>3, <3>1
  <2>2. CASE LoadSave
    <3>1. clock > 0 /\ clock' = clock - 1 /\ fork' = TRUE BY <2>2 DEF LoadSave
    <3> QED BY <1>3, <3>1
  <2> QED BY <2>1, <2>2
<1>5. TypesOK' BY <1>1, <1>2, <1>4 DEF TypesOK
<1>6. Grows BY <1>1, <1>3, <1>4 DEF Grows
<1>7. StoreSound' /\ ExperiencesSound'
  BY <1>1, <1>2 DEF StoreSound, ExperiencesSound, Turnable
<1>8. PassSound'
  <2>1. /\ Turnable' = Turnable /\ Covered(Len(sums))' = Covered(Len(sums))
        /\ \A i : Protected(i)' <=> Protected(i)
    BY <1>1 DEF Turnable, Covered, Protected
  <2> QED BY <1>1, <1>2, <1>4, <2>1 DEF PassSound, Ready
<1>9. ChainSound'
  <2> SUFFICES ASSUME ~fork' PROVE ChainSound' BY DEF ChainSound
  <2>1. \A r \in 1 .. Len(sums) : \A i \in sums[r] : src[i].time <= clock'
    <3> SUFFICES ASSUME NEW r \in 1 .. Len(sums), NEW i \in sums[r] PROVE src[i].time <= clock'
      OBVIOUS
    <3>1. i \in 1 .. Len(src) /\ src[i].time <= clock
      BY <1>2, <1>4 DEF ChainSound, StoreSound, Turnable
    <3>2. src[i] \in SourceRows BY <1>3, <3>1
    <3>3. src[i].time \in Int BY <3>2 DEF SourceRows
    <3> QED BY <1>3, <1>4, <3>1, <3>3
  <2>2. maint.pc # "idle" => maint.now <= clock' BY <1>2, <1>3, <1>4 DEF ChainSound
  <2> QED BY <1>1, <1>2, <1>4, <2>1, <2>2 DEF ChainSound, Covered
<1> QED BY <1>1, <1>5, <1>6, <1>7, <1>8, <1>9, GlobalKeeps

LEMMA NoPassFacts == DOMAIN NoPass = PassFields /\ NoPass.pc = "idle" /\ NoPass.now = -1 /\ -1 \in Int
BY DEF NoPass, PassFields, NoTime

LEMMA CrashKeeps ==
    ASSUME IInv, Crash
    PROVE  IInv'
<1>1. /\ leases' = [t \in Turns |-> NoLease] /\ turn' = [t \in Turns |-> NoTurn]
      /\ retry' = NoRetry /\ maint' = NoPass
      /\ UNCHANGED << schema, recent, src, sums, indexed, clock, acked, fork >>
  BY DEF Crash, store, outside
<1>2. TypesOK /\ StoreSound /\ ChainSound /\ ExperiencesSound BY DEF IInv
<1>3. leases' \in [Turns -> LeaseRows] /\ turn' \in [Turns -> TurnRows] /\ retry' \in Retry
  BY <1>1, NoTurnFacts
<1>4. TypesOK' BY <1>1, <1>2, <1>3, NoPassFacts DEF TypesOK
<1>5. StoreSound' /\ ChainSound' /\ ExperiencesSound' /\ PassSound'
  BY <1>1, <1>2, NoPassFacts DEF StoreSound, ChainSound, ExperiencesSound, PassSound, Turnable, Covered
<1>6. \A t \in Turns : TurnSound(t)' BY <1>1, <1>4, IdleSound
<1> QED BY <1>4, <1>5, <1>6 DEF IInv

LEMMA InitHolds == Init => IInv
<1> SUFFICES ASSUME Init PROVE IInv OBVIOUS
<1>1. /\ leases = [t \in Turns |-> NoLease] /\ turn = [t \in Turns |-> NoTurn]
      /\ retry = NoRetry /\ maint = NoPass /\ src = <<>> /\ sums = <<>> /\ indexed = {}
      /\ clock = 0 /\ acked = [f \in Facts |-> None] /\ fork = FALSE
      /\ schema \in { "empty", "recent" } /\ recent \in OldRecords
  BY DEF Init
<1>2. leases \in [Turns -> LeaseRows] /\ turn \in [Turns -> TurnRows] /\ retry \in Retry
      /\ acked \in [Facts -> Contents \cup {None}]
  BY <1>1, NoTurnFacts
<1>3. recent \in Seq(Int) BY <1>1, HistoryAssumption
<1>4. src \in Seq(SourceRows) /\ sums \in Seq(SUBSET Nat) /\ Len(src) = 0 /\ Len(sums) = 0
  BY <1>1
<1>5. TypesOK BY <1>1, <1>2, <1>4, NoPassFacts DEF TypesOK
<1>6. StoreSound /\ PassSound /\ ChainSound /\ ExperiencesSound
  BY <1>1, <1>3, <1>4, NoPassFacts DEF StoreSound, PassSound, ChainSound, ExperiencesSound
<1>7. ASSUME NEW t \in Turns PROVE TurnSound(t)
  <2>1. turn[t] = NoTurn /\ leases[t] = NoLease BY <1>1
  <2>2. turn[t].pc = "idle" /\ turn[t].sum = 0 /\ turn[t].sources = {} /\ turn[t].chosen = {}
        /\ turn[t].found = {} /\ leases[t].held = FALSE
    BY <2>1, NoTurnFacts
  <2>3. LeaseSound(t) /\ CompleteSound(t) BY <2>2 DEF LeaseSound, CompleteSound
  <2>4. Covered(turn[t].sum) = {} BY <2>2 DEF Covered
  <2>5. ReadsSound(t) BY <1>4, <2>1, <2>2, <2>4 DEF ReadsSound, Reading
  <2> QED BY <2>3, <2>5 DEF TurnSound
<1> QED BY <1>5, <1>6, <1>7 DEF IInv

LEMMA NextKeeps == IInv /\ [Next]_vars => IInv'
<1> SUFFICES ASSUME IInv, [Next]_vars PROVE IInv' OBVIOUS
<1>1. CASE UNCHANGED vars
  <2>1. UNCHANGED << schema, recent, src, sums, indexed, leases, writer, mu, turn, retry, maint,
                     clock, acked, fork >>
    BY <1>1 DEF vars, store, memory, outside
  <2>2. TypesOK /\ StoreSound /\ PassSound /\ ChainSound /\ ExperiencesSound BY DEF IInv
  <2>3. TypesOK' BY <2>1, <2>2 DEF TypesOK
  <2>4. Grows BY <2>1, <2>2, Lengths DEF Grows, TypesOK
  <2>5. StoreSound' /\ ChainSound' /\ ExperiencesSound' /\ PassSound'
    BY <2>1, <2>2 DEF StoreSound, ChainSound, ExperiencesSound, PassSound, Turnable, Covered,
                      Protected, Ready
  <2> QED BY <2>1, <2>3, <2>4, <2>5, GlobalKeeps
<1>2. ASSUME NEW t \in Turns, TurnStep(t) PROVE IInv'
  BY <1>2, BeginTurnKeeps, BeginHistorySnapshotKeeps, ReadSummaryKeeps, ReadHistorySnapshotKeeps,
     CompactPreparedHistoryKeeps, CommitSummaryKeeps, SearchHistoryKeeps, TurnEndsKeeps DEF TurnStep
<1>3. CASE MaintenanceStep
  BY <1>3, RebuildHistoryIndexKeeps, PruneBeginKeeps, PruneSelectKeeps, PruneCommitKeeps
     DEF MaintenanceStep
<1>4. ASSUME NEW f \in Facts, NEW c \in Contents, RecordExperience(f, c) PROVE IInv'
  BY <1>4, RecordExperienceKeeps
<1>5. CASE Next
  BY <1>2, <1>3, <1>4, <1>5, PrepareHistoryFoundationKeeps, SchemaKeeps, ClockKeeps, CrashKeeps DEF Next
<1> QED BY <1>1, <1>5

-----------------------------------------------------------------------------
(* What follows.                                                             *)

(* The inductive invariant holds in every reachable state of one owner's     *)
(* world database and of the store instances, turns and maintenance passes   *)
(* around it.                                                                *)
THEOREM InvariantCorrect == Spec => []IInv
<1>1. Init => IInv BY InitHolds
<1>2. IInv /\ [Next]_vars => IInv' BY NextKeeps
<1> QED BY <1>1, <1>2, PTL DEF Spec

(* sqlite_prune.go and CommitSummary: a pruned original is covered by the    *)
(* summary that a reader of today's head selects, as long as every summary   *)
(* was published upon the newest one and no save was loaded.                 *)
THEOREM PrunedStaysCovered == Spec => []NothingForgotten
<1>1. ASSUME IInv PROVE NothingForgotten
  <2> SUFFICES ASSUME ~fork, NEW i \in Sequences \ Available
               PROVE  i \in Covered(SelectSummary(Len(src), Len(sums), clock))
    BY DEF NothingForgotten
  <2>1. TypesOK /\ StoreSound /\ ChainSound BY <1>1 DEF IInv
  <2>2. Len(src) \in Nat /\ Len(sums) \in Nat /\ src \in Seq(SourceRows) /\ clock \in Nat
    BY <2>1 DEF TypesOK
  <2>3. i \in Covered(Len(sums)) BY <2>1, <2>2 DEF ChainSound, Sequences, Available
  <2>4. Len(sums) \in 1 .. Len(sums) /\ i \in sums[Len(sums)] BY <2>2, <2>3 DEF Covered
  <2>5. sums[Len(sums)] \subseteq 1 .. Len(src) BY <2>1, <2>4 DEF StoreSound, Turnable
  <2>6. Visible(TimesOf(sums[Len(sums)]), clock)
    <3>1. \A j \in sums[Len(sums)] : src[j].time <= clock BY <2>1, <2>4 DEF ChainSound
    <3>2. \A j \in sums[Len(sums)] : Visible({src[j].time}, clock) BY <3>1, VisibleOne
    <3> QED BY <3>2, VisibleAll
  <2>7. Len(sums) \in ReadableSummaries(Len(src), Len(sums), clock)
    BY <2>4, <2>5, <2>6 DEF ReadableSummaries
  <2>8. SelectSummary(Len(src), Len(sums), clock) = Len(sums) BY <2>1, <2>2, <2>7, SelectFacts
  <2> QED BY <2>3, <2>8
<1> QED BY <1>1, InvariantCorrect, PTL

(* readPreparedHistory and compactPreparedHistory: a turn is told each       *)
(* source of its snapshot once, as an original or through the summary.       *)
THEOREM TurnsToldOnce == Spec => []ToldOnce
<1>1. ASSUME IInv PROVE ToldOnce
  <2> SUFFICES ASSUME NEW t \in Turns, Prepared(t)
               PROVE  /\ turn[t].sources \cap Covered(turn[t].sum) = {}
                      /\ Visible(TimesOf(turn[t].sources \cup Covered(turn[t].sum) \cup turn[t].found),
                                 turn[t].now)
                      /\ turn[t].full /\ turn[t].sumOk /\ ~Overtaken(t) /\ ~fork =>
                           {i \in 1 .. leases[t].mark : /\ src[i].kind # "experience"
                                                        /\ Visible({src[i].time}, turn[t].now)}
                             \subseteq turn[t].sources \cup Covered(turn[t].sum)
    BY DEF ToldOnce
  <2>1. /\ turn[t].pc \in { "compact", "commit", "search", "act" } /\ leases[t].held
        /\ LeaseSound(t) /\ ReadsSound(t) /\ CompleteSound(t)
    BY <1>1, TurnFacts DEF Prepared
  <2>2. turn[t].sources \cap Covered(turn[t].sum) = {} BY <2>1 DEF ReadsSound
  <2>3. \A i \in turn[t].sources \cup Covered(turn[t].sum) \cup turn[t].found :
          Visible({src[i].time}, turn[t].now)
    BY <2>1 DEF ReadsSound, Seen
  <2>4. Visible(TimesOf(turn[t].sources \cup Covered(turn[t].sum) \cup turn[t].found), turn[t].now)
    BY <2>3, VisibleAll
  <2>5. ASSUME turn[t].full, turn[t].sumOk, ~Overtaken(t), ~fork,
               NEW i \in 1 .. leases[t].mark, src[i].kind # "experience",
               Visible({src[i].time}, turn[t].now)
        PROVE  i \in turn[t].sources \cup Covered(turn[t].sum)
    <3>1. src[i].available => i \in turn[t].sources \cup Covered(turn[t].sum)
      BY <2>1, <2>5 DEF CompleteSound, Telling, Seen
    <3>2. ~src[i].available => i \in Covered(leases[t].rev) BY <2>1, <2>5 DEF LeaseSound
    <3>3. Covered(leases[t].rev) \subseteq Covered(turn[t].sum)
      BY <2>1, <2>5 DEF CompleteSound, Telling
    <3> QED BY <3>1, <3>2, <3>3
  <2> QED BY <2>2, <2>4, <2>5
<1> QED BY <1>1, InvariantCorrect, PTL

(* recordExperience: what the game was told is stored is there once, with    *)
(* that content, whatever crashes, repeats and pruning passes came since.    *)
THEOREM AcknowledgedStays == Spec => []AckedExperiencesKept
<1>1. ASSUME IInv PROVE AckedExperiencesKept
  <2> SUFFICES ASSUME NEW f \in Facts, acked[f] # None
               PROVE  \E i \in Sequences : /\ Held(f) = {i} /\ src[i].available
                                           /\ src[i].content = acked[f]
    BY DEF AckedExperiencesKept
  <2>1. TypesOK /\ ExperiencesSound BY <1>1 DEF IInv
  <2>2. Sequences = 1 .. Len(src) BY <2>1 DEF TypesOK, Sequences
  <2>3. PICK i \in 1 .. Len(src) : src[i].kind = "experience" /\ src[i].key = f
                                    /\ src[i].content = acked[f]
    BY <2>1 DEF ExperiencesSound
  <2>4. \A j \in 1 .. Len(src) : src[j].kind = "experience" /\ src[j].key = f => j = i
    BY <2>1, <2>3 DEF ExperiencesSound
  <2>5. Held(f) = {i} BY <2>2, <2>3, <2>4 DEF Held
  <2>6. src[i].available BY <2>1, <2>3 DEF ExperiencesSound
  <2> QED BY <2>2, <2>3, <2>5, <2>6
<1> QED BY <1>1, InvariantCorrect, PTL

\* Only the pruning transaction takes originals away.
LEMMA OnlyPruningRemoves ==
    ASSUME IInv, [Next]_vars
    PROVE  PruneCommit \/ \A i \in 1 .. Len(src) : src'[i] = src[i]
<1>1. src \in Seq(SourceRows) /\ Len(src) \in Nat BY DEF IInv, TypesOK
<1>2. ASSUME NEW kind, NEW key, NEW content, NEW time, src' = Append(src, Source(kind, key, content, time))
      PROVE  \A i \in 1 .. Len(src) : src'[i] = src[i]
  BY <1>1, <1>2
<1>3. CASE PrepareHistoryFoundation
  <2>1. src = <<>> BY <1>3 DEF IInv, StoreSound, PrepareHistoryFoundation
  <2> QED BY <2>1
<1>4. CASE src' = src BY <1>4
<1>5. ASSUME NEW f \in Facts, NEW c \in Contents, RecordExperience(f, c)
      PROVE  \A i \in 1 .. Len(src) : src'[i] = src[i]
  <2>1. src' = src \/ src' = Append(src, Source("experience", f, c, clock))
    BY <1>5 DEF RecordExperience, Inserted
  <2> QED BY <1>2, <2>1
<1>6. ASSUME NEW t \in Turns, TurnEnds(t)
      PROVE  \A i \in 1 .. Len(src) : src'[i] = src[i]
  <2>1. src' = src \/ src' = Append(src, Source("terminal", None, None, turn[t].now))
    BY <1>6 DEF TurnEnds, Inserted
  <2> QED BY <1>2, <2>1
<1>7. ASSUME NEW t \in Turns, TurnStep(t), ~TurnEnds(t) PROVE src' = src
  BY <1>7 DEF TurnStep, BeginTurn, BeginHistorySnapshot, ReadSummary, ReadHistorySnapshot,
              CompactPreparedHistory, CommitSummary, SearchHistory, store
<1>8. ASSUME RebuildHistoryIndex \/ PruneBegin \/ PruneSelect PROVE src' = src
  BY <1>8 DEF RebuildHistoryIndex, PruneBegin, PruneSelect, store
<1>9. ASSUME \/ PrepareRetrievalDatabase \/ PrepareExperienceDatabase
             \/ Advance \/ LoadSave \/ Crash \/ UNCHANGED vars
      PROVE  src' = src
  BY <1>9 DEF PrepareRetrievalDatabase, PrepareExperienceDatabase, Advance, LoadSave, Crash, vars, store
<1> QED BY <1>3, <1>4, <1>5, <1>6, <1>7, <1>8, <1>9 DEF Next, MaintenanceStep

(* sqlite_prune.go: "New snapshots cannot acquire a watermark between        *)
(* eligibility checks and the commit": no original a held lease has seen is  *)
(* pruned.                                                                   *)
THEOREM PruningSparesLeases == Spec => LeaseProtects
<1>1. ASSUME IInv, [Next]_vars
      PROVE  [\A t \in Turns : leases[t].held /\ leases'[t].held =>
                 \A i \in 1 .. leases[t].mark : src[i].available => src'[i].available]_vars
  <2> SUFFICES ASSUME NEW t \in Turns, leases[t].held, NEW i \in 1 .. leases[t].mark, src[i].available
               PROVE  src'[i].available
    OBVIOUS
  <2>1. Len(src) \in Nat /\ leases[t].mark \in Nat /\ leases[t].mark <= Len(src)
    BY <1>1, TurnFacts DEF LeaseSound
  <2>2. i \in 1 .. Len(src) BY <2>1
  <2>3. CASE \A j \in 1 .. Len(src) : src'[j] = src[j] BY <2>2, <2>3
  <2>4. CASE PruneCommit
    <3>1. /\ i \in Sequences /\ i \notin maint.victims
      BY <1>1, <2>1, <2>2, <2>4 DEF IInv, TypesOK, PassSound, Protected, PruneCommit, Sequences
    <3>2. \/ src' = src
          \/ src' = [j \in Sequences |-> [src[j] EXCEPT !.available = @ /\ j \notin maint.victims]]
      BY <2>4 DEF PruneCommit
    <3>3. src[i] \in SourceRows BY <1>1, <2>2, Lengths DEF IInv
    <3>4. src' # src => src'[i] = [src[i] EXCEPT !.available = TRUE] BY <3>1, <3>2
    <3>5. [src[i] EXCEPT !.available = TRUE].available = TRUE BY <3>3 DEF SourceRows
    <3> QED BY <3>4, <3>5
  <2> QED BY <1>1, <2>3, <2>4, OnlyPruningRemoves
<1> QED BY <1>1, InvariantCorrect, PTL DEF Spec, LeaseProtects
=============================================================================
