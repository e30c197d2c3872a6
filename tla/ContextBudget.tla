---------------------------- MODULE ContextBudget ----------------------------
(***************************************************************************)
(* The context engine: Engine.Build turns what a step of a turn knows into *)
(* one model request.  It checks that the input belongs to the session,    *)
(* projects every section under its own limit, crops the required          *)
(* sections, then drops optional content in a fixed order until the        *)
(* request fits, and spends what room is left on retrieved history and     *)
(* knowledge.                                                              *)
(*                                                                         *)
(* A text is as long as its number of tokens.  A stored history source has *)
(* two pieces of text, 1 and 2: a complete unit shows both, a cropped unit *)
(* the first, a retrieved snippet any of them.  The authority lines that   *)
(* the instruction gains with a section count one token with it.  The      *)
(* report (counts, reasons, diagnostics) is left out: nothing reads it     *)
(* back.                                                                   *)
(***************************************************************************)
EXTENDS Integers, FiniteSets, SequencesExt

CONSTANTS Inputs,           \* the build inputs, records with the fields used below
          MaxExperiences,   \* MaxRecentExperiences
          SnippetLimit,     \* RetrievedHistoryInput.Limit
          AutomaticLimit,   \* knowledge.AutomaticLimit
          Absent

Limited == { "request", "user", "system", "history", "summary", "experiences", "records", "memory",
             "transcript", "definition", "task", "section", "retrieval", "knowledge" }

\* What the fields of an input are; Absent is a part that is not there.
InputOK(i) ==
    /\ i.shell \in Nat /\ i.body \in Nat /\ i.system \in Nat
    /\ i.preferences \in Nat /\ i.memories \in Nat
    /\ i.task # Absent =>
         /\ i.task.progress \in Nat /\ i.task.results \in Nat /\ i.task.refs \in Nat
         /\ i.task.results = 0 => i.task.refs = 0       \* of the last result
    /\ i.summary # Absent => i.summary.size \in Nat
    /\ i.sources \in Seq([ id : Nat, own : BOOLEAN, visible : BOOLEAN, kind : STRING ])
    /\ i.experiences \in
         Seq([ id : Nat, own : BOOLEAN, visible : BOOLEAN, focus : BOOLEAN, size : Nat ])
    /\ i.matches \in Seq([ id : Nat, own : BOOLEAN, visible : BOOLEAN, span : SUBSET { 1, 2 } ])
    /\ i.groups \in Seq(Nat) /\ i.agent \in Seq(Nat) /\ i.game \in Seq(Nat)
    /\ i.knowledge \in Seq(Nat)
    /\ i.budget \in [ Limited -> Nat ]

ContextConstants ==
    /\ \A i \in Inputs : InputOK(i)
    /\ SnippetLimit \in Nat

ASSUME ContextAssumption == ContextConstants

VARIABLES stage,            \* where Build is
          input,            \* the BuildInput and the limits
          shown,            \* the ContextProjection
          cursor            \* the next retrieved match or knowledge entry

buildVars == << stage, input, shown, cursor >>

\* The sum of the first n elements, for every n.
Sums(s) == LET sum[n \in 0 .. Len(s)] == IF n = 0 THEN 0 ELSE sum[n - 1] + s[n] IN sum

Total(s) == Sums(s)[Len(s)]

Least(a, b) == IF a < b THEN a ELSE b

\* The elements of s that are taken, one by one, after those taken before.
Picked(s, Takes(_, _)) ==
    LET pick[n \in 0 .. Len(s)] ==
          IF n = 0 THEN << >>
          ELSE IF Takes(pick[n - 1], s[n]) THEN Append(pick[n - 1], s[n]) ELSE pick[n - 1]
    IN  pick[Len(s)]

Newest(s, n) == SubSeq(s, Len(s) - n + 1, Len(s))

\* The newest elements of s as long as their number fits.
NewestWhile(s, fits) == Newest(s, Max({ n \in 0 .. Len(s) : 1 .. n \subseteq fits }))

-----------------------------------------------------------------------------
(* validateEngineInput.                                                      *)

\* The event, the observation and the definitions name this session; only a
\* wake of this session's own task may come without an event.
ValidInput(i) ==
    /\ i.event = Absent => i.wake
    /\ i.event # Absent => i.event = "own"
    /\ i.observation = "own"
    /\ i.definitions \in { Absent, "own" }
    /\ i.task # Absent => i.task.own

-----------------------------------------------------------------------------
(* The sections under their own limits.                                      *)

UnitTokens(u) == IF u.complete THEN 2 ELSE 1

HistoryTokens(h) == h.summary + Total([ n \in DOMAIN h.sources |-> UnitTokens(h.sources[n]) ])

\* The summary whole, cropped to one token, or not at all.
BoundHistorySummary(i) ==
    LET s == i.summary
        room == Least(i.budget.summary, i.budget.history)
    IN  IF s = Absent \/ ~s.own \/ ~s.visible THEN 0
        ELSE IF s.size <= room THEN s.size ELSE Least(room, 1)

\* What may be shown raw: this session's available turns that the current
\* game time allows, unless a shown summary covers them, a cropped one too.
Candidates(i) ==
    LET covered == IF BoundHistorySummary(i) > 0 THEN i.summary.covers ELSE {}
    IN  Picked(i.sources,
               LAMBDA units, s : s.own /\ s.visible /\ s.kind = "turn" /\ s.id \notin covered)

\* The newest candidates whole while they fit, or the newest one cropped.
ProjectHistory(i) ==
    LET candidates == Candidates(i)
        Unit(n, complete) == [ id |-> candidates[n].id, complete |-> complete ]
        whole == [ n \in DOMAIN candidates |-> Unit(n, TRUE) ]
        H(sources) == [ summary |-> BoundHistorySummary(i), sources |-> sources ]
        fits == { n \in 1 .. Len(whole) : HistoryTokens(H(Newest(whole, n))) <= i.budget.history }
        kept == NewestWhile(whole, fits)
        cropped == << Unit(Len(whole), FALSE) >>
    IN  IF i.budget.history = 0 \/ ~i.historyOn THEN [ summary |-> 0, sources |-> << >> ]
        ELSE IF kept = << >> /\ whole # << >> /\ HistoryTokens(H(cropped)) <= i.budget.history THEN H(cropped)
        ELSE H(kept)

\* The most important experiences that still have the focus, in the order
\* they are handed over; one that does not fit does not hide a later one.
ProjectRecentExperiences(i) ==
    Picked(i.experiences,
           LAMBDA units, e :
             /\ e.own /\ e.visible /\ e.focus /\ Len(units) < MaxExperiences
             /\ \A n \in DOMAIN units : units[n].id # e.id
             /\ Total([ n \in DOMAIN units |-> units[n].size ]) + e.size <= i.budget.experiences)

\* Without a history store: the newest records, of those that are not of the
\* future (selectTimelineMemories); i.memories counts what that leaves.
ProjectRecentMemories(i) ==
    IF i.historyOn THEN 0 ELSE Least(Least(i.memories, i.budget.records), i.budget.memory)

\* The newest causal groups; a call and its results stand or fall together.
\* transcriptCausalGroups refuses an unpaired one: a turn makes none
\* (AgentTurn, RequestsPaired).
TrimTranscriptGroups(i) ==
    NewestWhile(i.groups, { n \in 1 .. Len(i.groups) : Total(Newest(i.groups, n)) <= i.budget.transcript })

\* The newest group alone is over the limit: the build fails.
TranscriptFails(i) == i.groups # << >> /\ TrimTranscriptGroups(i) = << >>

\* A prefix of the definition's items.
FillDefinitionWithinBudget(items, room) ==
    Max({ n \in 0 .. Len(items) : Total(SubSeq(items, 1, n)) <= room })

\* Identity of both first, then the agent's items, then the game's.
ApplyDefinitionBudget(i, p) ==
    LET agent == FillDefinitionWithinBudget(i.agent, i.budget.definition - 2)
        rest == i.budget.definition - 2 - Total(SubSeq(i.agent, 1, agent))
    IN  IF i.definitions = Absent THEN p
        ELSE IF i.budget.definition < 2 THEN [ p EXCEPT !.agent = 0, !.game = 0 ]
        ELSE [ p EXCEPT !.agent = agent, !.game = FillDefinitionWithinBudget(i.game, rest) ]

TaskTokens(t) == IF t = Absent THEN 0 ELSE 1 + t.progress + t.results + t.refs

\* The progress note goes, then older results, then the evidence of the last
\* result.
BoundTaskContext(i, t) ==
    LET Bare(n) == [ progress |-> 0, results |-> n, refs |-> t.refs ]
        enough == { n \in Least(t.results, 1) .. t.results : TaskTokens(Bare(n)) <= i.budget.task }
    IN  IF t = Absent \/ TaskTokens(t) <= i.budget.task THEN t
        ELSE IF enough # {} THEN Bare(Max(enough))
        ELSE [ progress |-> 0, results |-> Least(t.results, 1), refs |-> 0 ]

\* Event, facts and observation have a required shell and a body: 2 is the
\* whole, 1 a marker in its place, 0 nothing.  Over the limit the body of
\* the event becomes a marker, even an empty one; then it goes.
CropSection(i, body, marker) ==
    LET marked == IF i.shell + body > i.budget.section THEN marker ELSE body
    IN  IF i.shell + marked > i.budget.section THEN 0 ELSE marked

\* The body of the facts loses its attributes (1), then its text (0).
CropFacts(i, body) ==
    LET bare == IF i.shell + body > i.budget.section THEN Least(body, 1) ELSE body
    IN  IF i.shell + bare > i.budget.section THEN 0 ELSE bare

\* A required section is over its limit with nothing left to crop.
SectionFails(i, p) ==
    \/ i.shell > i.budget.section
    \/ TaskTokens(BoundTaskContext(i, p.task)) > i.budget.task
    \/ i.definitions # Absent /\ i.budget.definition < 2

-----------------------------------------------------------------------------
(* The size of the rendered request.                                         *)

DefinitionTokens(i, p) ==
    IF i.definitions = Absent THEN 0
    ELSE 2 + Total(SubSeq(i.agent, 1, p.agent)) + Total(SubSeq(i.game, 1, p.game))

\* A section with its line of authority.
Introduced(n) == IF n = 0 THEN 0 ELSE n + 1

SnippetTokens(p) == Total([ n \in DOMAIN p.retrieved |-> Cardinality(p.retrieved[n].pieces) ])

UserMessageTokens(i, p) ==
    p.preferences + HistoryTokens(p.history) + p.memories + TaskTokens(p.task) + DefinitionTokens(i, p)
      + 3 * i.shell + p.event + p.facts + p.observation
      + Introduced(Total([ n \in DOMAIN p.experiences |-> p.experiences[n].size ]))
      + Introduced(SnippetTokens(p)) + Introduced(Len(p.knowledge))

\* EstimateRequestTokens: the transcript is in no user message.
TotalTokens(i, p) == i.system + UserMessageTokens(i, p) + Total(p.groups)

FitsRequestBudget(i, p) ==
    /\ i.system <= i.budget.system
    /\ UserMessageTokens(i, p) <= i.budget.user
    /\ TotalTokens(i, p) <= i.budget.request

-----------------------------------------------------------------------------
(* enforceGlobalRequestBudget: what goes, first to last.  Retrieved history  *)
(* comes second in the code and is still empty at this point.                *)

DropPreferences(p) == [ p EXCEPT !.preferences = 0 ]

DropOldestHistoryDisplay(p) ==
    IF p.history.sources # << >> THEN [ p EXCEPT !.history.sources = Tail(@) ]
    ELSE [ p EXCEPT !.history.summary = 0 ]

DropExperience(p) == IF p.experiences = << >> THEN p ELSE [ p EXCEPT !.experiences = Front(@) ]

\* Never the newest group.
DropOldestTranscriptGroup(p) == IF Len(p.groups) <= 1 THEN p ELSE [ p EXCEPT !.groups = Tail(@) ]

DropOldestRecentMemory(p) == IF p.memories = 0 THEN p ELSE [ p EXCEPT !.memories = @ - 1 ]

DropContextFactOptionalFields(p) == IF p.facts = 0 THEN p ELSE [ p EXCEPT !.facts = @ - 1 ]

DropEventPayload(p) == [ p EXCEPT !.event = 0 ]

DropObservationOptionalFields(p) == [ p EXCEPT !.observation = 0 ]

DropGameDefinitionOptionalFields(p) == [ p EXCEPT !.game = 0 ]

DropAgentDefinitionOptionalFields(p) == [ p EXCEPT !.agent = 0 ]

Drops(p) ==
    << DropPreferences(p), DropOldestHistoryDisplay(p), DropExperience(p), DropOldestTranscriptGroup(p),
       DropOldestRecentMemory(p), DropContextFactOptionalFields(p), DropEventPayload(p),
       DropObservationOptionalFields(p), DropGameDefinitionOptionalFields(p),
       DropAgentDefinitionOptionalFields(p) >>

\* The drops that still change something.
Effective(p) == { n \in DOMAIN Drops(p) : Drops(p)[n] # p }

-----------------------------------------------------------------------------
(* projectRetrievedHistory.                                                  *)

\* The pieces of a source that a history projection shows.
VisiblePieces(h, id) ==
    UNION { IF h.sources[n].complete THEN { 1, 2 } ELSE { 1 } :
              n \in { m \in DOMAIN h.sources : h.sources[m].id = id } }

Snippets(p, id) ==
    UNION { p.retrieved[n].pieces : n \in { m \in DOMAIN p.retrieved : p.retrieved[m].id = id } }

\* Mutant: the history as it was before the request's limits cropped it.
SubtractStaleSpans(match, p) ==
    IF \/ ~match.own \/ ~match.visible
       \/ \E n \in DOMAIN p.experiences : p.experiences[n].id = match.id
    THEN {}
    ELSE (match.span \ VisiblePieces(ProjectHistory(input), match.id)) \ Snippets(p, match.id)

\* What a match would add: its span less the text that the final history and
\* the snippets so far show; a shown experience is not repeated.
SubtractRetrievalSpans(match, p) ==
    IF \/ ~match.own \/ ~match.visible
       \/ \E n \in DOMAIN p.experiences : p.experiences[n].id = match.id
    THEN {}
    ELSE (match.span \ VisiblePieces(p.history, match.id)) \ Snippets(p, match.id)

WithSnippet(p, id, pieces) == [ p EXCEPT !.retrieved = Append(@, [ id |-> id, pieces |-> pieces ]) ]

SnippetFits(i, p) == SnippetTokens(p) <= i.budget.retrieval /\ FitsRequestBudget(i, p)

\* The snippet admitted for a match: its whole rest, else a window of it.  The
\* code admits one for every uncovered range; of two pieces there is one.
Admitted(i, match, p) ==
    LET pieces == SubtractRetrievalSpans(match, p)
        parts == { w \in SUBSET pieces : w # {} /\ SnippetFits(i, WithSnippet(p, match.id, w)) }
    IN  IF Len(p.retrieved) >= SnippetLimit \/ parts = {} THEN {}
        ELSE IF pieces \in parts THEN { pieces }
        ELSE parts

-----------------------------------------------------------------------------
Nothing ==
    [ preferences |-> 0, history |-> [ summary |-> 0, sources |-> << >> ], experiences |-> << >>, memories |-> 0,
      groups |-> << >>, agent |-> 0, game |-> 0, task |-> Absent, event |-> 0, facts |-> 0, observation |-> 0,
      retrieved |-> << >>, knowledge |-> << >> ]

\* The projection before any limit of the request: body, task, preferences
\* and definitions as they came.
Projected(i) ==
    [ preferences |-> i.preferences, history |-> ProjectHistory(i), experiences |-> ProjectRecentExperiences(i),
      memories |-> ProjectRecentMemories(i), groups |-> TrimTranscriptGroups(i),
      agent |-> IF i.definitions = Absent THEN 0 ELSE Len(i.agent),
      game |-> IF i.definitions = Absent THEN 0 ELSE Len(i.game),
      task |-> IF i.task = Absent THEN Absent
               ELSE [ progress |-> i.task.progress, results |-> Least(i.task.results, 3),
                      refs |-> i.task.refs ],
      event |-> IF i.event = Absent THEN 0 ELSE i.body,
      facts |-> IF i.event = Absent THEN 0 ELSE i.body,
      observation |-> i.body, retrieved |-> << >>, knowledge |-> << >> ]

Cropped(i, p) ==
    [ ApplyDefinitionBudget(i, p) EXCEPT
        !.event = CropSection(i, @, 1), !.observation = CropSection(i, @, Least(@, 1)), !.facts = CropFacts(i, @),
        !.task = BoundTaskContext(i, @) ]

BuildInit ==
    /\ stage = "start"
    /\ input \in Inputs
    /\ shown = Nothing
    /\ cursor = 1

Validate ==
    /\ stage = "start" /\ ~ValidInput(input)
    /\ stage' = "failed"
    /\ UNCHANGED << input, shown, cursor >>

\* Every section of its own, and the transcript's newest group fits.
Project ==
    /\ stage = "start" /\ ValidInput(input)
    /\ UNCHANGED << input, cursor >>
    /\ IF TranscriptFails(input) THEN stage' = "failed" /\ UNCHANGED shown
       ELSE stage' = "sections" /\ shown' = Projected(input)

\* applyProjectionBudgets up to the request's own limits: a section that can
\* not be cropped enough fails the build once all were tried.
ApplySectionBudgets ==
    /\ stage = "sections"
    /\ shown' = Cropped(input, shown)
    /\ stage' = IF SectionFails(input, shown) THEN "failed" ELSE "trim"
    /\ UNCHANGED << input, cursor >>

\* One turn of the loop of enforceGlobalRequestBudget.
EnforceGlobalRequestBudget ==
    /\ stage = "trim"
    /\ UNCHANGED << input, cursor >>
    /\ IF FitsRequestBudget(input, shown) THEN stage' = "retrieve" /\ UNCHANGED shown
       ELSE IF Effective(shown) = {} THEN stage' = "failed" /\ UNCHANGED shown
       ELSE /\ shown' = Drops(shown)[Min(Effective(shown))]
            /\ UNCHANGED stage

\* One match; none is looked at for a snapshot of another session.
ProjectRetrievedHistory ==
    /\ stage = "retrieve"
    /\ UNCHANGED input
    /\ IF cursor > Len(input.matches) \/ ~input.snapshotOwn
         THEN stage' = "knowledge" /\ cursor' = 1 /\ UNCHANGED shown
         ELSE /\ LET match == input.matches[cursor]
                 IN  IF Admitted(input, match, shown) = {} THEN UNCHANGED shown
                     ELSE \E w \in Admitted(input, match, shown) : shown' = WithSnippet(shown, match.id, w)
              /\ cursor' = cursor + 1
              /\ UNCHANGED stage

\* One entry; none of another scope, none twice, none that does not fit.
ProjectKnowledge ==
    /\ stage = "knowledge"
    /\ UNCHANGED input
    /\ IF cursor > Len(input.knowledge) \/ ~input.knowledgeOwn \/ Len(shown.knowledge) >= AutomaticLimit
         THEN stage' = "built" /\ UNCHANGED << shown, cursor >>
         ELSE /\ LET entry == input.knowledge[cursor]
                     more == [ shown EXCEPT !.knowledge = Append(@, entry) ]
                     repeated == \E n \in 1 .. cursor - 1 : input.knowledge[n] = entry
                     over == Len(more.knowledge) > input.budget.knowledge \/ ~FitsRequestBudget(input, more)
                 IN  shown' = IF repeated \/ over THEN shown ELSE more
              /\ cursor' = cursor + 1
              /\ UNCHANGED stage

BuildNext ==
    \/ Validate \/ Project \/ ApplySectionBudgets \/ EnforceGlobalRequestBudget
    \/ ProjectRetrievedHistory \/ ProjectKnowledge

BuildSpec == BuildInit /\ [][BuildNext]_buildVars

-----------------------------------------------------------------------------
Parts(p) ==
    << p.preferences, p.history, p.experiences, p.groups, p.memories, p.facts, p.event, p.observation,
       p.game, p.agent >>

\* A build that goes on has a request within every limit; one that the
\* request's limits fail has nothing optional left.
FitsOrMinimal ==
    /\ stage \in { "retrieve", "knowledge", "built" } => FitsRequestBudget(input, shown)
    /\ stage = "failed" /\ ValidInput(input) /\ ~TranscriptFails(input) /\ ~SectionFails(input, shown)
         => Effective(shown) = {} /\ ~FitsRequestBudget(input, shown)

\* What is left of the transcript ends with the newest exchange.
NewestGroupKept ==
    stage \notin { "start", "failed" } =>
      /\ shown.groups \in Suffixes(input.groups)
      /\ input.groups # << >> => shown.groups # << >>

\* A part is cropped for the request's sake only when all that goes before it
\* is gone.
DroppedInOrder ==
    stage \in { "trim", "retrieve", "knowledge", "built" } =>
      \A n \in DOMAIN Parts(shown) :
        Parts(shown)[n] # Parts(Cropped(input, Projected(input)))[n] =>
          \A m \in 1 .. n - 1 : m \notin Effective(shown)

\* Text of another session, or of a future the player rewound, is not shown.
OwnPastOnly ==
    LET mine(s) == { s[n].id : n \in { m \in DOMAIN s : s[m].own /\ s[m].visible } }
    IN  /\ \A n \in DOMAIN shown.history.sources : shown.history.sources[n].id \in mine(input.sources)
        /\ \A n \in DOMAIN shown.experiences : shown.experiences[n].id \in mine(input.experiences)
        /\ \A n \in DOMAIN shown.retrieved : shown.retrieved[n].id \in mine(input.matches)

\* No piece of text is in the request twice, whichever section shows it.
ShownOnce ==
    \A n \in DOMAIN shown.retrieved :
      LET s == shown.retrieved[n]
      IN  /\ s.pieces \cap VisiblePieces(shown.history, s.id) = {}
          /\ \A m \in DOMAIN shown.retrieved \ { n } :
               shown.retrieved[m].id = s.id => shown.retrieved[m].pieces \cap s.pieces = {}
          /\ \A m \in DOMAIN shown.experiences : shown.experiences[m].id # s.id

\* Text that the search found is in the request, in one section or another,
\* unless no piece of it has room: what the history gave up to the limits is
\* not taken for shown.
FoundTextShown ==
    stage = "built" /\ input.snapshotOwn =>
      \A n \in DOMAIN input.matches :
        LET match == input.matches[n]
            rest == [ shown EXCEPT !.knowledge = << >> ]
        IN  \/ ~match.own \/ ~match.visible
            \/ \E m \in DOMAIN shown.experiences : shown.experiences[m].id = match.id
            \/ match.span \cap (VisiblePieces(shown.history, match.id) \cup Snippets(shown, match.id)) # {}
            \/ Len(shown.retrieved) = SnippetLimit
            \/ \A w \in match.span : ~SnippetFits(input, WithSnippet(rest, match.id, { w }))

\* The request of a step fits or fails for want of room alone, keeps what
\* matters most, shows this session's past once, and loses found text only to
\* the limits.
RequestSound ==
    /\ FitsOrMinimal
    /\ NewestGroupKept
    /\ DroppedInOrder
    /\ OwnPastOnly
    /\ ShownOnce
    /\ FoundTextShown
=============================================================================
