---------------------------- MODULE HistoryStore ----------------------------
(***************************************************************************)
(* One owner's long-term memory: the world database of                     *)
(* runtime/internal/memory (session_history, context_summaries, the search *)
(* index), the leases a store instance keeps in memory, and the parts of   *)
(* runtime/internal/agent that read, compact and maintain it.              *)
(*                                                                         *)
(* Turns of different lanes (an old stream's last turn beside the first    *)
(* one of its successor), the receive loop's experience writes and the     *)
(* maintenance task meet at three places: the SQLite writer lock, held     *)
(* from BEGIN IMMEDIATE to COMMIT, the lease mutex, and WAL reads, which   *)
(* see the committed rows and wait for nobody.                             *)
(*                                                                         *)
(* A source is its sequence number; text, fingerprints and token estimates *)
(* are abstracted to counts of sources.                                    *)
(***************************************************************************)
EXTENDS Integers, Sequences, FiniteSets, FiniteSetsExt

CONSTANTS Turns,          \* turns of this owner that may be in flight together
          Facts,          \* identities of experience events
          Contents,       \* what an experience event may carry
          OldRecords,     \* what an older version's recent_records may hold
          MaxSources,     \* bound: rows of session_history
          MaxSummaries,   \* bound: rows of context_summaries
          MaxTime,        \* bound: last game time
          PageRecords,    \* sources one page of a snapshot read scans
          Pressure,       \* sources at which the history budget is 90% full
          KeepRecent,     \* sources compaction and pruning keep as the tail
          Cooldown,       \* turns without compaction after a failed one
          BatchSources    \* sources one maintenance pass may touch

ASSUME HistoryAssumption ==
    /\ OldRecords \subseteq Seq(Int)
    /\ MaxSources \in Nat /\ MaxSummaries \in Nat /\ MaxTime \in Nat
    /\ PageRecords \in Nat \ {0} /\ Pressure \in Nat \ {0}
    /\ KeepRecent \in Nat \ {0} /\ Cooldown \in Nat /\ BatchSources \in Nat \ {0}

VARIABLES schema,     \* memory_schema_metadata.schema_version
          recent,     \* game times of the records an older version left behind
          src,        \* session_history by sequence
          sums,       \* context_summaries by revision: covered sources
          indexed,    \* sources with a row in history_index_sources
          leases,     \* leases held, by turn
          writer,     \* who holds the write transaction
          mu,         \* who holds the lease mutex beyond one step
          turn,       \* the turns in flight
          retry,      \* historyRuntimeState of the owner
          maint,      \* the maintenance pass and its cursors
          clock,      \* the game time
          acked,      \* experiences the game was told are stored
          fork        \* history: what took the chain of summaries apart

store == <<schema, recent, src, sums, indexed>>
memory == <<leases, writer, mu, turn, retry, maint>>
outside == <<clock, acked>>
vars == <<store, memory, outside, fork>>

None == "none"
Maintenance == "maintenance"
NoTime == -1
NoLease == [mark |-> 0, rev |-> 0, held |-> FALSE]
NoTurn == [pc |-> "idle", now |-> NoTime, retry |-> [cool |-> 0, mark |-> 0],
           sum |-> 0, sumOk |-> TRUE, before |-> 0, full |-> TRUE,
           sources |-> {}, chosen |-> {}, found |-> {}]
NoRetry == [cool |-> 0, mark |-> 0]
NoPass == [pc |-> "idle", now |-> NoTime, budget |-> 0, victims |-> {}, next |-> 0,
           rebuildAfter |-> 0, pruneAfter |-> 0]

Sequences == DOMAIN src
Available == {i \in Sequences : src[i].available}

(***************************************************************************)
(* HistoryVisibility: a time that cannot be compared hides nothing.        *)
(***************************************************************************)
Visible(times, now) == \A t \in times : t = NoTime \/ now = NoTime \/ t <= now
Unknown(times, now) == now = NoTime \/ NoTime \in times
TimesOf(S) == {src[i].time : i \in S}

(***************************************************************************)
(* readSummaryWithAccess: the newest revision of the snapshot whose whole  *)
(* coverage lies below the watermark and is visible now; 0 if there is     *)
(* none.  Pruned sources keep their head row, so they stay covered.        *)
(***************************************************************************)
ReadableSummaries(mark, rev, now) ==
    {r \in 1 .. rev : sums[r] \subseteq 1 .. mark /\ Visible(TimesOf(sums[r]), now)}
SelectSummary(mark, rev, now) == Max({0} \cup ReadableSummaries(mark, rev, now))
Covered(r) == IF r = 0 THEN {} ELSE sums[r]

Source(kind, key, content, time) ==
    [kind |-> kind, key |-> key, content |-> content, time |-> time, available |-> TRUE]

(***************************************************************************)
(* Opening the database migrates it, one write transaction per version:    *)
(* prepareHistoryFoundation imports every record of the older version as a *)
(* legacy source and publishes the version in the same transaction, so a   *)
(* second opener finds the version and imports nothing.                    *)
(***************************************************************************)
PrepareHistoryFoundation ==
    /\ schema \in {"empty", "recent"} /\ writer = None
    /\ src' = [i \in DOMAIN recent |-> Source("legacy", i, None, recent[i])]
    /\ schema' = "history"
    /\ UNCHANGED <<recent, sums, indexed, memory, outside, fork>>

PrepareRetrievalDatabase ==
    /\ schema = "history" /\ writer = None
    /\ schema' = "retrieval"
    /\ UNCHANGED <<recent, src, sums, indexed, memory, outside, fork>>

\* The experience index is a table of its own, made when it is missing.
PrepareExperienceDatabase ==
    /\ schema = "retrieval" /\ writer = None
    /\ schema' = "experience"
    /\ UNCHANGED <<recent, src, sums, indexed, memory, outside, fork>>

Ready == schema = "experience"

(***************************************************************************)
(* AppendHistory: look up the batch key, insert the source and its index   *)
(* rows, all in one write transaction.  The commit's answer may be lost.   *)
(***************************************************************************)
IndexHistorySource(S) == indexed' = indexed \cup S
Inserted(kind, key, content, time) ==
    /\ src' = Append(src, Source(kind, key, content, time))
    /\ IndexHistorySource({Len(src) + 1})
CanWrite == Ready /\ writer = None
Room == Len(src) < MaxSources

\* recordExperience: the acknowledgment follows the durable row; the game sends the
\* same receipt again when it was rejected or heard nothing.
Held(f) == {i \in Sequences : src[i].kind = "experience" /\ src[i].key = f}
Unseen(f) == {}
Stored(f) == Held(f)
RecordExperience(f, c) ==
    /\ CanWrite /\ UNCHANGED <<schema, recent, sums, memory, clock, fork>>
    /\ \/ /\ Stored(f) = {} /\ Room
          /\ Inserted("experience", f, c, clock)
          /\ acked' \in {acked, [acked EXCEPT ![f] = c]}
       \/ /\ \E i \in Stored(f) : src[i].content = c
          /\ acked' = [acked EXCEPT ![f] = c]
          /\ UNCHANGED <<src, indexed>>

(***************************************************************************)
(* A turn.  beginTurn reads and counts down the owner's cooldown.          *)
(***************************************************************************)
Go(t, change) == turn' = [turn EXCEPT ![t] = change]

BeginTurn(t) ==
    /\ turn[t].pc = "idle" /\ Room
    /\ Go(t, [NoTurn EXCEPT !.pc = "snapshot", !.now = clock, !.retry = retry])
    /\ retry' = [retry EXCEPT !.cool = IF @ > 0 THEN @ - 1 ELSE 0]
    /\ UNCHANGED <<store, leases, writer, mu, maint, outside, fork>>

\* BeginHistorySnapshot reads watermark and revision under the lease mutex.
SnapshotAnytime == TRUE
SnapshotMayBegin == mu = None
BeginHistorySnapshot(t) ==
    /\ turn[t].pc = "snapshot" /\ UNCHANGED <<store, writer, mu, retry, maint, outside, fork>>
    /\ \/ /\ Ready /\ SnapshotMayBegin
          /\ leases' = [leases EXCEPT ![t] =
                          [mark |-> Len(src), rev |-> Len(sums), held |-> TRUE]]
          /\ Go(t, [turn[t] EXCEPT !.pc = "summary", !.before = Len(src) + 1])
       \/ /\ Go(t, [turn[t] EXCEPT !.pc = "act", !.full = FALSE, !.sumOk = FALSE])
          /\ UNCHANGED leases

\* A failed read leaves the turn without a summary and goes on (fail-open).
ReadSummary(t) ==
    /\ turn[t].pc = "summary" /\ mu = None
    /\ \/ Go(t, [turn[t] EXCEPT !.pc = "pages",
                   !.sum = SelectSummary(leases[t].mark, leases[t].rev, turn[t].now)])
       \/ Go(t, [turn[t] EXCEPT !.pc = "pages", !.sumOk = FALSE])
    /\ UNCHANGED <<store, leases, writer, mu, retry, maint, outside, fork>>

\* One page of readPreparedHistory: newest first, whatever is still available, is no
\* experience and is visible at the turn's game time.
PageOf(t) == {i \in 1 .. turn[t].before - 1 : i >= turn[t].before - PageRecords}
Told(t, S) == {i \in S : /\ src[i].available /\ src[i].kind # "experience"
                         /\ Visible({src[i].time}, turn[t].now)}
AllHistorySources(S, r) == S
UncoveredHistorySources(S, r) == S \ Covered(r)
ReadHistorySnapshot(t) ==
    /\ turn[t].pc = "pages" /\ mu = None
    /\ LET read == turn[t].sources \cup Told(t, PageOf(t))
           low == turn[t].before - PageRecords
       IN  \/ /\ low > 1
              /\ Go(t, [turn[t] EXCEPT !.sources = read, !.before = low])
           \/ /\ low <= 1
              /\ Go(t, [turn[t] EXCEPT !.pc = "compact", !.before = 0,
                          !.sources = UncoveredHistorySources(read, turn[t].sum)])
           \/ Go(t, [turn[t] EXCEPT !.pc = "compact", !.before = 0, !.full = FALSE,
                       !.sources = UncoveredHistorySources(@, turn[t].sum)])
    /\ UNCHANGED <<store, leases, writer, mu, retry, maint, outside, fork>>

(***************************************************************************)
(* compactPreparedHistory: at most one generation per turn, over the       *)
(* oldest complete sources, never over the recent tail.                    *)
(***************************************************************************)
Oldest(S, n) == {i \in S : Cardinality({j \in S : j < i}) < n}
TailStart(S) == Cardinality(S) - KeepRecent
Compactable(t) ==
    /\ leases[t].held
    /\ Cardinality(turn[t].sources) >= Pressure
    /\ turn[t].retry.cool = 0
    /\ Cardinality(turn[t].sources) >= 2
    /\ Max(turn[t].sources) > turn[t].retry.mark
    /\ TailStart(turn[t].sources) > 0

CompactionFailed(t) ==
    /\ retry' = [cool |-> Cooldown, mark |-> leases[t].mark]
    /\ Go(t, [turn[t] EXCEPT !.pc = "search", !.chosen = {}])

\* GenerateText runs outside every lock and transaction, on what the turn has read.
CompactPreparedHistory(t) ==
    /\ turn[t].pc = "compact"
    /\ \/ /\ Compactable(t) /\ UNCHANGED retry
          /\ \E n \in 1 .. TailStart(turn[t].sources) :
               Go(t, [turn[t] EXCEPT !.pc = "commit", !.chosen = Oldest(turn[t].sources, n)])
       \/ Compactable(t) /\ CompactionFailed(t)
       \/ Go(t, [turn[t] EXCEPT !.pc = "search"]) /\ UNCHANGED retry
    /\ UNCHANGED <<store, leases, writer, mu, maint, outside, fork>>

\* CommitSummary: the owner's newest revision must still be the snapshot's; the new
\* coverage is the parent's and the generated sources.  The parent is the revision the
\* turn read, which need not be the newest: fork records when it is not.
RevisionStands(t) == Len(sums) = leases[t].rev
GeneratedOnly(t) == turn[t].chosen
CanonicalSummarySources(inherited, added) == inherited \cup added
PrepareSummaryCheckpoint(t) == CanonicalSummarySources(Covered(turn[t].sum), turn[t].chosen)
CommitSummary(t) ==
    /\ turn[t].pc = "commit" /\ CanWrite /\ mu = None
    /\ \/ /\ RevisionStands(t) /\ Len(sums) < MaxSummaries
          /\ sums' = Append(sums, PrepareSummaryCheckpoint(t))
          /\ fork' = IF turn[t].sum = leases[t].rev THEN fork ELSE TRUE
          /\ \/ /\ retry' = NoRetry
                /\ Go(t, [turn[t] EXCEPT !.pc = "search", !.chosen = {}, !.sum = Len(sums) + 1,
                            !.sources = @ \ turn[t].chosen])
             \/ CompactionFailed(t)
       \/ CompactionFailed(t) /\ UNCHANGED <<sums, fork>>
    /\ UNCHANGED <<schema, recent, src, indexed, leases, writer, mu, maint, outside>>

\* SearchHistory: one read transaction, the lease checked before and after it.
Searchable(t) == {i \in indexed : /\ i <= leases[t].mark /\ src[i].available
                                 /\ Visible({src[i].time}, turn[t].now)}
SearchHistory(t) ==
    /\ turn[t].pc = "search" /\ mu = None
    /\ \E found \in {{}, Searchable(t)} :
         Go(t, [turn[t] EXCEPT !.pc = "act", !.found = found])
    /\ UNCHANGED <<store, leases, writer, mu, retry, maint, outside, fork>>

\* The turn ends: persistTerminalHistory writes once, whether or not it succeeds, and
\* the deferred Release gives the lease back.
ReleaseHistorySnapshot(t) == leases' = [leases EXCEPT ![t] = NoLease]
TurnEnds(t) ==
    /\ turn[t].pc = "act" /\ mu = None
    /\ \/ /\ CanWrite /\ Room /\ Inserted("terminal", None, None, turn[t].now)
       \/ UNCHANGED <<src, indexed>>
    /\ ReleaseHistorySnapshot(t)
    /\ Go(t, NoTurn)
    /\ UNCHANGED <<schema, recent, sums, writer, mu, retry, maint, outside, fork>>

(***************************************************************************)
(* MaintainHistory: rebuild the index, then prune with what is left of the *)
(* budget.  Cursors live in memory and wrap to the start.                  *)
(***************************************************************************)
EndPass(p) == [p EXCEPT !.pc = "idle", !.now = NoTime, !.budget = 0, !.victims = {}, !.next = 0]

\* The first n of S after a cursor, and where the cursor stands afterwards.
Batch(S, after, n) == Oldest({i \in S : i > after}, n)
Cursor(S, after, n) == IF Cardinality({i \in S : i > after}) > n
                       THEN Max(Batch(S, after, n)) ELSE 0

\* openMaintenanceConn migrates nothing: an older database is left alone.
MayMaintain == Ready /\ CanWrite

RebuildHistoryIndex ==
    /\ maint.pc = "idle" /\ MayMaintain
    /\ LET todo == Available \ indexed
           done == Batch(todo, maint.rebuildAfter, BatchSources)
           left == BatchSources - Cardinality(done)
           next == [maint EXCEPT !.rebuildAfter = Cursor(todo, maint.rebuildAfter, BatchSources)]
       IN  /\ IndexHistorySource(done)
           /\ maint' = IF left = 0 THEN next
                       ELSE [next EXCEPT !.pc = "prune", !.now = clock, !.budget = left]
    /\ UNCHANGED <<schema, recent, src, sums, leases, writer, mu, turn, retry, outside, fork>>

\* PruneHistory takes the writer, then the lease mutex, each within a bounded time, and
\* keeps both until its transaction has ended.
PruneBegin ==
    /\ maint.pc = "prune"
    /\ \/ MayMaintain /\ mu = None /\ writer' = Maintenance /\ mu' = Maintenance
          /\ maint' = [maint EXCEPT !.pc = "select"]
       \/ maint' = EndPass(maint) /\ UNCHANGED <<writer, mu>>
    /\ UNCHANGED <<store, leases, turn, retry, outside, fork>>

\* retentionTail: the newest visible originals; an incomparable time proves nothing.
Newest(S, n) == {i \in S : Cardinality({j \in S : j > i}) < n}
RetentionTail(now) == Newest({i \in Available : Visible({src[i].time}, now)}, KeepRecent)
TailProven(now) == \A i \in Available :
    Unknown({src[i].time}, now) => \A j \in RetentionTail(now) : i < j
Protected(i) == \E t \in Turns : leases[t].held /\ i <= leases[t].mark
Prunable(i, r, now) ==
    /\ i \in Covered(r)
    /\ i \notin RetentionTail(now) /\ i # Len(src)
    /\ ~Protected(i)
    /\ Visible({src[i].time}, now) /\ ~Unknown({src[i].time}, now)
Aged(cutoff) == {i \in Available : i <= cutoff}

PruneSelect ==
    /\ maint.pc = "select"
    /\ LET r == SelectSummary(Len(src), Len(sums), maint.now)
           proven == /\ r # 0 /\ ~Unknown(TimesOf(Covered(r)), maint.now)
                     /\ TailProven(maint.now)
       IN  \/ /\ proven
              /\ \E cutoff \in Sequences :
                   LET batch == Batch(Aged(cutoff), maint.pruneAfter, maint.budget)
                   IN  maint' = [maint EXCEPT !.pc = "commit",
                                   !.victims = {i \in batch : Prunable(i, r, maint.now)},
                                   !.next = Cursor(Aged(cutoff), maint.pruneAfter, maint.budget)]
              /\ UNCHANGED <<writer, mu>>
           \/ /\ ~proven
              /\ maint' = EndPass([maint EXCEPT !.pruneAfter = 0])
              /\ writer' = None /\ mu' = None
    /\ UNCHANGED <<store, leases, turn, retry, outside, fork>>

\* The originals, their legacy copies and their index rows go in one transaction.
PruneCommit ==
    /\ maint.pc = "commit" /\ writer' = None /\ mu' = None
    /\ \/ /\ src' = [i \in Sequences |-> [src[i] EXCEPT !.available = @ /\ i \notin maint.victims]]
          /\ indexed' = indexed \ maint.victims
          /\ recent' = [i \in DOMAIN recent |-> IF i \in maint.victims THEN None ELSE recent[i]]
          /\ maint' = EndPass([maint EXCEPT !.pruneAfter = maint.next])
       \/ UNCHANGED <<src, indexed, recent>> /\ maint' = EndPass(maint)
    /\ UNCHANGED <<schema, sums, leases, turn, retry, outside, fork>>

(***************************************************************************)
(* The world around: game time passes or a save is loaded, real time       *)
(* passes, the process is killed.                                          *)
(***************************************************************************)
Advance ==
    /\ clock < MaxTime /\ clock' = clock + 1
    /\ UNCHANGED <<store, memory, acked, fork>>

LoadSave ==
    /\ clock > 0 /\ clock' = clock - 1 /\ fork' = TRUE
    /\ UNCHANGED <<store, memory, acked>>

Crash ==
    /\ leases' = [t \in Turns |-> NoLease] /\ writer' = None /\ mu' = None
    /\ turn' = [t \in Turns |-> NoTurn] /\ retry' = NoRetry /\ maint' = NoPass
    /\ UNCHANGED <<store, outside, fork>>

Init ==
    /\ recent \in OldRecords
    /\ schema = IF recent = <<>> THEN "empty" ELSE "recent"
    /\ src = <<>> /\ sums = <<>> /\ indexed = {}
    /\ leases = [t \in Turns |-> NoLease] /\ writer = None /\ mu = None
    /\ turn = [t \in Turns |-> NoTurn] /\ retry = NoRetry /\ maint = NoPass
    /\ clock = 0 /\ acked = [f \in Facts |-> None] /\ fork = FALSE

TurnStep(t) ==
    \/ BeginTurn(t) \/ BeginHistorySnapshot(t) \/ ReadSummary(t) \/ ReadHistorySnapshot(t)
    \/ CompactPreparedHistory(t) \/ CommitSummary(t) \/ SearchHistory(t) \/ TurnEnds(t)
MaintenanceStep ==
    RebuildHistoryIndex \/ PruneBegin \/ PruneSelect \/ PruneCommit
Next ==
    \/ PrepareHistoryFoundation \/ PrepareRetrievalDatabase \/ PrepareExperienceDatabase
    \/ \E f \in Facts, c \in Contents : RecordExperience(f, c)
    \/ \E t \in Turns : TurnStep(t)
    \/ MaintenanceStep
    \/ Advance \/ LoadSave \/ Crash

Spec == Init /\ [][Next]_vars

-----------------------------------------------------------------------------
(***************************************************************************)
(* "New snapshots cannot acquire a watermark between eligibility checks    *)
(* and the commit" (sqlite_prune.go): a source at or below the watermark   *)
(* of a lease is never pruned while the lease is held.                     *)
(***************************************************************************)
LeaseProtects ==
    [][\A t \in Turns : leases[t].held /\ leases'[t].held =>
         \A i \in 1 .. leases[t].mark : src[i].available => src'[i].available]_vars

(***************************************************************************)
(* Nothing is forgotten.  As long as no save was loaded and every summary  *)
(* was published upon the newest one (a turn that failed to read it, or    *)
(* began before the game time of what it covers, publishes upon an older   *)
(* one), every original is still there or covered by the summary a reader  *)
(* of today's head selects.                                                *)
(***************************************************************************)
NothingForgotten ==
    ~fork => \A i \in Sequences \ Available :
                i \in Covered(SelectSummary(Len(src), Len(sums), clock))

(***************************************************************************)
(* "A new summary inherits the coverage of the one before it" (the memory  *)
(* design's summary chapter): as long as no save was loaded, a published   *)
(* revision covers all that its predecessor covered.                       *)
(***************************************************************************)
SummariesInherit ==
    [][\A r \in DOMAIN sums :
         /\ r + 1 \in DOMAIN sums' \ DOMAIN sums
         /\ Visible(TimesOf(sums[r]), clock)
         => sums[r] \subseteq sums'[r + 1]]_vars

(***************************************************************************)
(* A turn whose reads were complete is told everything of its snapshot     *)
(* exactly once: as an original or through the summary, never both, never  *)
(* neither, and nothing from the game's future.  A turn that was overtaken *)
(* by the game time of the newest summary cannot read it, and what it      *)
(* covers may be pruned: that turn is not told.                            *)
(***************************************************************************)
Prepared(t) == turn[t].pc \in {"compact", "commit", "search", "act"} /\ leases[t].held
Overtaken(t) == ~Visible(TimesOf(Covered(leases[t].rev)), turn[t].now)
ToldOnce ==
    \A t \in Turns : Prepared(t) =>
        /\ turn[t].sources \cap Covered(turn[t].sum) = {}
        /\ Visible(TimesOf(turn[t].sources \cup Covered(turn[t].sum) \cup turn[t].found), turn[t].now)
        /\ turn[t].full /\ turn[t].sumOk /\ ~Overtaken(t) /\ ~fork =>
             {i \in 1 .. leases[t].mark : /\ src[i].kind # "experience"
                                          /\ Visible({src[i].time}, turn[t].now)}
               \subseteq turn[t].sources \cup Covered(turn[t].sum)

(***************************************************************************)
(* "An experience acknowledgment confirms durable storage"                 *)
(* (experiences.go): what was acknowledged is there, once, with the        *)
(* content that was acknowledged, through crashes, repeats and pruning.    *)
(***************************************************************************)
AckedExperiencesKept ==
    \A f \in Facts : acked[f] # None =>
        \E i \in Sequences : Held(f) = {i} /\ src[i].available /\ src[i].content = acked[f]
=============================================================================
