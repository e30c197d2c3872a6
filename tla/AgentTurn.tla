----------------------------- MODULE AgentTurn -----------------------------
(***************************************************************************)
(* One turn of the agent: Loop.handleTurn and Loop.runBoundedSteps of      *)
(* src/runtime/internal/agent/loop.go, with the history collector          *)
(* (turn_history.go, history_terminal.go) and the task context of a turn   *)
(* (task_context.go, task_wake.go), over the tool batches of ToolBatch.    *)
(*                                                                         *)
(* A turn observes, prepares its context, and then alternates between a    *)
(* model request and a tool batch until the model settles, something       *)
(* fails, or a budget is used up.  Every end persists the terminal history *)
(* and sends one TurnCompletion.  The turn's context may expire (turn      *)
(* timeout, closed lane) and its stream may close between any two steps.   *)
(***************************************************************************)
EXTENDS ToolBatch

CONSTANTS
    Decisions,              \* [control, calls]: what the model may answer
    MaxSteps, MaxToolCallsPerStep, MaxToolCallsPerTurn, MaxAsyncActionsPerTurn

ASSUME TurnAssumption ==
    /\ MaxSteps \in Nat \ {0} /\ MaxToolCallsPerStep \in Nat
    /\ MaxToolCallsPerTurn \in Nat /\ MaxAsyncActionsPerTurn \in Nat
    /\ \A d \in Decisions :
         d.calls \in Seq([id : Nat, tool : STRING, args : {"ok", "bad"}])

VARIABLES
    pc,          \* where the turn is
    background,  \* the turn was started by a task wake, not by an event
    taskTools,   \* of the turn: "none", "open", or "closed" once the binding moved
    expired,     \* the context of the turn is done
    closed,      \* the stream of the turn's environment is closed
    step,        \* stepIndex
    control,     \* control directive of the decision being run
    transcript,  \* messages of the turn: [role, items]
    seen,        \* seenToolCallIDs
    total,       \* totalToolCalls
    asyncs,      \* asyncActionsStarted
    correction,  \* "unused", "pending" or "used": the one argument correction
    history,     \* collector: [calls, execs, sent] of each decided step
    terminal,    \* status handed to persistTerminalHistory, "none" before
    stored,      \* AppendHistory: "none", "stored" or "lost"
    completion   \* TurnCompletion: "none" before, its status, or "lost" when not sent

turnVars == <<pc, background, taskTools, expired, closed, step, control, transcript, seen,
              total, asyncs, correction, history, terminal, stored, completion>>
vars == <<turnVars, batchVars>>

-----------------------------------------------------------------------------
(* The end of a turn: completeTurn and failTurn.                           *)

Ending(status) ==
    /\ pc' = "terminal"
    /\ terminal' = status

CompleteTurn == Ending("completed")

\* "cancelled" is for errors of the turn's own context; another error may
\* still come first after the context is done.
FailTurn == Ending("failed") \/ (expired /\ Ending("cancelled"))
CancelTurn == Ending("cancelled")

\* persistTerminalHistory: a detached context; the write may fail, time out,
\* or meet a batch above max_batch_bytes, and the turn goes on.
PersistTerminalHistory ==
    /\ pc = "terminal"
    /\ stored' \in {"stored", "lost"}
    /\ pc' = "completing"
    /\ UNCHANGED <<background, taskTools, expired, closed, step, control, transcript, seen, total,
                   asyncs, correction, history, terminal, completion, batchVars>>

\* sendTurnCompletion, without the turn's cancellation: it waits for the
\* stream, and a stream that fails or is closed loses it.
SendTurnCompletion ==
    /\ pc = "completing"
    /\ completion' \in {IF terminal = "completed" THEN "completed" ELSE "failed", "lost"}
    /\ pc' = "ended"
    /\ UNCHANGED <<background, taskTools, expired, closed, step, control, transcript, seen, total,
                   asyncs, correction, history, terminal, stored, batchVars>>

-----------------------------------------------------------------------------
(* Before the first step.                                                  *)

\* taskTurnContext.stopped, asked of a background turn only: the task may be
\* over (the turn completes), unreadable (it fails), or still to decide.
StoppedOr(proceed) ==
    \/ background /\ (CompleteTurn \/ FailTurn)
    \/ proceed

\* taskTurnContext.snapshot: when the binding moved, a background turn fails
\* and a player's turn goes on without task tools.
Snapshot ==
    \/ taskTools' = taskTools
    \/ ~background /\ taskTools = "open" /\ taskTools' = "closed"

\* The read tools of a turn with knowledge could not be admitted: handleTurn
\* returns before the turn has a history, and the game is not told.
RefuseTurn ==
    /\ pc = "observe"
    /\ pc' = "ended"
    /\ UNCHANGED <<background, taskTools, expired, closed, step, control, transcript, seen, total,
                   asyncs, correction, history, terminal, stored, completion, batchVars>>

Observe ==
    /\ pc = "observe"
    /\ \/ FailTurn
       \/ StoppedOr(pc' = "prepare" /\ UNCHANGED terminal)
    /\ UNCHANGED <<background, taskTools, expired, closed, step, control, transcript, seen, total,
                   asyncs, correction, history, stored, completion, batchVars>>

\* The snapshot for the history estimate may fail; history and retrieval
\* that cannot be read leave the request without them.
PrepareContext ==
    /\ pc = "prepare"
    /\ \/ FailTurn /\ UNCHANGED taskTools
       \/ Snapshot /\ pc' = "step" /\ UNCHANGED terminal
    /\ UNCHANGED <<background, expired, closed, step, control, transcript, seen, total,
                   asyncs, correction, history, stored, completion, batchVars>>

-----------------------------------------------------------------------------
(* One step of runBoundedSteps.                                            *)

OutOfSteps == step = MaxSteps

\* Up to the model request: budget, context, task state, snapshot, request.
BeginStep ==
    /\ pc = "step"
    /\ IF OutOfSteps THEN Ending("failed") /\ UNCHANGED <<taskTools, step>>
       ELSE IF expired THEN CancelTurn /\ UNCHANGED <<taskTools, step>>
       ELSE \/ FailTurn /\ UNCHANGED <<taskTools, step>>
            \/ StoppedOr(pc' = "model" /\ UNCHANGED terminal) /\ Snapshot /\ step' = step + 1
    /\ UNCHANGED <<background, expired, closed, control, transcript, seen, total,
                   asyncs, correction, history, stored, completion, batchVars>>

Ids(batch) == {batch[i].id : i \in DOMAIN batch}
IdSeq(batch) == [i \in DOMAIN batch |-> batch[i].id]

\* validateToolCallIDsAcrossSteps
ReuseResults(batch) ==
    [i \in DOMAIN batch |-> IF batch[i].id \in seen THEN "invalid" ELSE "skipped"]

NoExecutions == <<>>
NeverRun(res) == [i \in DOMAIN res |-> [started |-> FALSE, outcome |-> res[i]]]

Assistant(batch) == [role |-> "assistant", items |-> IdSeq(batch)]
ToolMessage(res) == [role |-> "tool", items |-> res]

\* The decision is kept for the history whatever becomes of it.
Collected(batch, exs, ran) ==
    Append(history, [calls |-> IdSeq(batch), execs |-> exs, sent |-> ran])

\* validateControlDirective
ControlKnown(d) == d.control \in {"settle", "continue"}

DuplicateWithinStep(d) == \E i \in DOMAIN d.calls : Duplicated(d.calls, i)

\* Decisions the loop refuses before it counts their calls.
Unacceptable(d) ==
    \/ ~ControlKnown(d)
    \/ d.calls = <<>> /\ (correction = "pending" \/ d.control = "continue")
    \/ Len(d.calls) > MaxToolCallsPerStep
    \/ total + Len(d.calls) > MaxToolCallsPerTurn
    \/ DuplicateWithinStep(d)

\* Generate failed: provider error, timeout, quota, unusable answer.
GenerateFails ==
    /\ pc = "model"
    /\ FailTurn
    /\ UNCHANGED <<background, taskTools, expired, closed, step, control, transcript, seen, total,
                   asyncs, correction, history, stored, completion, batchVars>>

RefuseDecision(d) ==
    /\ pc = "model"
    /\ Unacceptable(d)
    /\ FailTurn
    /\ history' = Collected(d.calls, NoExecutions, {})
    /\ UNCHANGED <<background, taskTools, expired, closed, step, control, transcript, seen, total,
                   asyncs, correction, stored, completion, batchVars>>

\* No calls and settle: the turn is over.
Settle(d) ==
    /\ pc = "model"
    /\ ~Unacceptable(d) /\ d.calls = <<>>
    /\ CompleteTurn
    /\ history' = Collected(d.calls, NoExecutions, {})
    /\ UNCHANGED <<background, taskTools, expired, closed, step, control, transcript, seen, total,
                   asyncs, correction, stored, completion, batchVars>>

Counted(d) ==
    /\ pc = "model"
    /\ ~Unacceptable(d) /\ d.calls # <<>>
    /\ total' = total + Len(d.calls)
    /\ seen' = seen \union Ids(d.calls)

\* A call id of an earlier step: nothing runs, every call gets a result.
ReuseCallId(d) ==
    /\ Counted(d)
    /\ Ids(d.calls) \cap seen # {}
    /\ transcript' = transcript \o <<Assistant(d.calls), ToolMessage(ReuseResults(d.calls))>>
    /\ history' = Collected(d.calls, NeverRun(ReuseResults(d.calls)), {})
    /\ IF correction = "pending" THEN FailTurn ELSE pc' = "step" /\ UNCHANGED terminal
    /\ UNCHANGED <<background, taskTools, expired, closed, step, control, asyncs, correction, stored,
                   completion, batchVars>>

\* The argument correction after a batch with these results: one is granted,
\* the batch that should correct must not be invalid again.
NeedsCorrection(res) ==
    ArgumentFailure(res) \/ (correction = "pending" /\ InvalidResult(res))

CorrectionFails(res) == NeedsCorrection(res) /\ correction # "unused"

Corrected(res) ==
    IF NeedsCorrection(res) THEN "pending"
    ELSE IF correction = "pending" THEN "used" ELSE correction

\* The scheduler of a batch sees the tools and the async budget of its step.
Screened(d) == Preflight(d.calls, taskTools = "open", asyncs >= MaxAsyncActionsPerTurn)

\* preflight refused the batch: its results go to the model.
RefuseBatch(d) ==
    LET verdict == Screened(d)
    IN /\ Counted(d)
       /\ Ids(d.calls) \cap seen = {}
       /\ Refused(verdict)
       /\ transcript' = transcript \o <<Assistant(d.calls), ToolMessage(verdict)>>
       /\ history' = Collected(d.calls, NeverRun(verdict), {})
       /\ IF CorrectionFails(verdict)
          THEN FailTurn /\ UNCHANGED correction
          ELSE /\ StoppedOr(pc' = "step" /\ UNCHANGED terminal)
               /\ correction' = Corrected(verdict)
       /\ UNCHANGED <<background, taskTools, expired, closed, step, control, asyncs, stored,
                      completion, batchVars>>

\* It named a task tool, whose task could not be released: the turn fails.
RefusedBatchFails(d) ==
    /\ Counted(d)
    /\ Ids(d.calls) \cap seen = {}
    /\ Refused(Screened(d))
    /\ taskTools = "open" /\ \E i \in DOMAIN d.calls : d.calls[i].tool \in TaskTools
    /\ transcript' = Append(transcript, Assistant(d.calls))
    /\ history' = Collected(d.calls, NeverRun(Screened(d)), {})
    /\ FailTurn
    /\ UNCHANGED <<background, taskTools, expired, closed, step, control, asyncs, correction,
                   stored, completion, batchVars>>

StartBatch(d) ==
    /\ Counted(d)
    /\ Ids(d.calls) \cap seen = {}
    /\ ~Refused(Screened(d))
    /\ transcript' = Append(transcript, Assistant(d.calls))
    /\ control' = d.control
    /\ pc' = "batch"
    /\ BeginBatch(d.calls)
    /\ UNCHANGED <<background, taskTools, expired, closed, step, asyncs, correction, history, terminal,
                   stored, completion>>

Cancelled == expired \/ firstErr # "none"

RunBatch ==
    /\ pc = "batch"
    /\ \/ \E i \in DOMAIN calls :
            \/ background /\ RefuseAction(i)
            \/ Submit(i)
            \/ Accepted(i)
            \/ Answer(i, Cancelled)
            \/ GiveUp(i)
       \/ Receive
       \/ NextGroup
    /\ UNCHANGED turnVars

\* CancelAction came through, or was released by the closed environment.
CancelsSent ==
    /\ pc = "batch"
    /\ \E i \in DOMAIN calls : CancelSent(i, Cancelled)
    /\ UNCHANGED turnVars

AsyncStarted == calls[1].tool \in Async

\* What follows a batch that returned no error.
AfterBatch(res) ==
    IF AsyncStarted THEN pc' = "resume" /\ UNCHANGED terminal
    ELSE IF \E i \in DOMAIN res : res[i] \in Visible THEN pc' = "step" /\ UNCHANGED terminal
    ELSE IF control = "settle" \/ Settles(res) THEN CompleteTurn
    ELSE pc' = "step" /\ UNCHANGED terminal

\* Run returned a technical error, or a proposal of the batch could not be
\* kept, or the task it committed could not be released: the turn fails.
BatchFails ==
    /\ pc = "batch" /\ BatchOver
    /\ firstErr # "none" \/ taskTools # "none"
    /\ IF firstErr = "cancelled" THEN CancelTurn ELSE FailTurn
    /\ history' = Collected(calls, AccountExecutions(execs, FinalResults, firstErr # "none"),
                            sent)
    /\ Idle
    /\ UNCHANGED <<background, taskTools, expired, closed, step, control, transcript, seen, total,
                   asyncs, correction, stored, completion>>

BatchEnds ==
    /\ pc = "batch" /\ BatchOver /\ firstErr = "none"
    /\ history' = Collected(calls, AccountExecutions(execs, FinalResults, FALSE), sent)
    /\ transcript' = Append(transcript, ToolMessage(FinalResults))
    /\ IF CorrectionFails(FinalResults)
       THEN FailTurn /\ UNCHANGED <<correction, asyncs>>
       ELSE /\ StoppedOr(AfterBatch(FinalResults))
            /\ correction' = Corrected(FinalResults)
            /\ asyncs' = asyncs + (IF AsyncStarted THEN 1 ELSE 0)
    /\ Idle
    /\ UNCHANGED <<background, taskTools, expired, closed, step, control, seen, total, stored, completion>>

\* An asynchronous action ended: observe again, then the next step.
Resume ==
    /\ pc = "resume"
    /\ \/ FailTurn
       \/ pc' = "step" /\ UNCHANGED terminal
    /\ UNCHANGED <<background, taskTools, expired, closed, step, control, transcript, seen, total,
                   asyncs, correction, history, stored, completion, batchVars>>

\* The turn timeout, or the lane that runs the turn is closed.
Expire ==
    /\ ~expired /\ pc \notin {"terminal", "completing", "ended"}
    /\ expired' = TRUE
    /\ UNCHANGED <<pc, background, taskTools, closed, step, control, transcript, seen, total, asyncs,
                   correction, history, terminal, stored, completion, batchVars>>

\* The connection ends: streamEnvironment.close.
CloseEnvironment ==
    /\ ~closed /\ pc # "ended"
    /\ closed' = TRUE
    /\ UNCHANGED <<pc, background, taskTools, expired, step, control, transcript, seen, total,
                   asyncs, correction, history, terminal, stored, completion, batchVars>>

-----------------------------------------------------------------------------
\* A background turn starts with the task tools of its wake; a player's turn
\* has them only when its event carries the authority (beginTaskContext).
StartingTools(bg) == IF bg THEN {"open"} ELSE {"none", "open"}

Init ==
    /\ pc = "observe" /\ background \in BOOLEAN /\ taskTools \in StartingTools(background)
    /\ expired = FALSE /\ closed = FALSE /\ step = 0 /\ control = "none" /\ transcript = <<>> /\ seen = {}
    /\ total = 0 /\ asyncs = 0 /\ correction = "unused" /\ history = <<>>
    /\ terminal = "none" /\ stored = "none" /\ completion = "none"
    /\ InitBatch

Respond ==
    \/ GenerateFails
    \/ \E d \in Decisions : RefuseDecision(d) \/ Settle(d) \/ ReuseCallId(d)
                              \/ RefuseBatch(d) \/ RefusedBatchFails(d) \/ StartBatch(d)

Step ==
    \/ RefuseTurn \/ Observe \/ PrepareContext \/ BeginStep \/ Respond \/ RunBatch
    \/ BatchFails \/ BatchEnds \/ Resume \/ PersistTerminalHistory

\* The sends under context.Background: streamEnvironment.send.
Sends == CancelsSent \/ SendTurnCompletion

Next == Step \/ Sends \/ Expire \/ CloseEnvironment

Spec == Init /\ [][Next]_vars

\* Every other wait of a turn has a timeout of its own, so these steps are
\* taken; a send comes back for certain only once the environment is closed.
FairSpec == Spec /\ WF_vars(Step) /\ WF_vars(closed /\ Sends)

-----------------------------------------------------------------------------
(* Properties.                                                             *)

\* A request never shows the model a call without exactly one result: the
\* messages alternate, and every call of an assistant message has a result
\* in the tool message that follows it (providers refuse anything else),
\* whichever calls were skipped, failed or never launched.
RequestsPaired ==
    pc = "model" =>
      /\ Len(transcript) % 2 = 0
      /\ \A k \in 1 .. Len(transcript) \div 2 :
           LET asked == transcript[2 * k - 1]
               told == transcript[2 * k]
           IN /\ asked.role = "assistant" /\ told.role = "tool"
              /\ Len(told.items) = Len(asked.items)
              /\ \A i \in DOMAIN told.items : told.items[i] \in {"succeeded"} \union Visible

\* The stored history does not lie about the world: when the turn is over,
\* every call that reached the environment is recorded as started, every
\* call of a batch that was run has an outcome, and a turn that completed
\* accounts for every call the model made.
HistoryTruthful ==
    pc = "ended" =>
      \A k \in DOMAIN history :
        LET h == history[k]
        IN /\ \A i \in h.sent : i \in DOMAIN h.execs /\ h.execs[i].started
           /\ \A i \in DOMAIN h.execs : h.execs[i].outcome # "none"
           /\ terminal = "completed" => Len(h.execs) = Len(h.calls)

\* A call that is not declared parallel-safe never overlaps another call,
\* and no more than the limit run at once.
SerialRunsAlone ==
    LET running == {i \in DOMAIN routine :
                      routine[i] \in {"launched", "out", "waiting", "cancelling"}}
    IN /\ Cardinality(running) <= MaxParallelToolCalls
       /\ \A i, j \in running : i # j => calls[i].tool \in ParallelSafe

\* The model is asked to correct its arguments at most once in a turn, and
\* never again after the correction was itself invalid.
OneCorrection ==
    pc = "model" =>
      LET told == {k \in DOMAIN transcript : transcript[k].role = "tool"}
      IN \A k \in told : ArgumentFailure(transcript[k].items) =>
           /\ \A n \in told : n > k => ~ArgumentFailure(transcript[n].items)
           /\ k + 2 \in told => ~InvalidResult(transcript[k + 2].items)

\* No call identity reaches the environment twice in a turn, within a batch
\* or across steps, whatever the model repeats.
SentOnce ==
    \A k, l \in DOMAIN history :
      \A i \in history[k].sent, j \in history[l].sent :
        history[k].calls[i] = history[l].calls[j] => k = l /\ i = j

\* What the model is shown and what is run for it, step by step: paired
\* results, one correction, no overlap that a tool does not allow, no call
\* run twice.
StepsSound == RequestsPaired /\ OneCorrection /\ SerialRunsAlone /\ SentOnce

\* A turn that was begun is over when its history was handed to the store
\* and its completion to the stream.
Over == /\ pc = "ended"
        /\ terminal # "none" => stored # "none" /\ completion # "none"
        /\ terminal = "none" => step = 0

\* A goroutine of the turn is in a send that only the stream can end.
InSend == pc = "completing" \/ \E i \in DOMAIN routine : routine[i] = "cancelling"

\* Whatever failed on the way, a turn ends once its environment is closed,
\* and before that nothing can hold it for ever but a game that does not
\* take a message: no error, timeout or cancelled group leaves it waiting
\* for a call nobody runs.
TurnEnds == (closed ~> Over) /\ <>[](Over \/ InSend)
=============================================================================
