----------------------------- MODULE ToolBatch -----------------------------
(***************************************************************************)
(* One batch of tool calls of a model response: toolBatchScheduler of      *)
(* src/runtime/internal/agent/scheduler.go over the admitted tool view of  *)
(* src/runtime/internal/tool.                                              *)
(*                                                                         *)
(* preflight accepts or refuses the batch as a whole.  An accepted batch   *)
(* is run group by group: neighbouring parallel-safe calls form one group, *)
(* every other call is a group of its own (the serial branch of Run is     *)
(* runParallelGroup for one call).  The goroutines of a group report over  *)
(* the buffered channel resultCh; the scheduler receives, launches and     *)
(* gives up between groups.  A call is a record [id, tool, args].          *)
(***************************************************************************)
EXTENDS Naturals, Sequences, FiniteSets

CONSTANTS
    Environment,     \* tools of the adapter
    TaskTools,       \* tools the runtime executes itself, exclusive
    KnowledgeTools,  \* read-only tools of the runtime, open to every turn
    Exclusive,       \* tools of the adapter with the exclusive_per_step policy
    ParallelSafe,    \* tools whose neighbouring calls may overlap
    Async,           \* tools that start now and end later
    Settling,        \* tools with the settle_after_success policy
    MaxParallelToolCalls

ASSUME BatchAssumption ==
    /\ ParallelSafe \subseteq Environment \union KnowledgeTools
    /\ Async \subseteq Environment /\ Exclusive \subseteq Environment
    /\ Settling \subseteq Environment
    /\ TaskTools \cap Environment = {}
    /\ KnowledgeTools \cap (Environment \union TaskTools) = {}
    /\ MaxParallelToolCalls \in Nat \ {0}

VARIABLES
    calls,      \* the calls of the batch
    results,    \* toolBatchOutcome.Results: a status, or "none" where none is set
    execs,      \* toolBatchOutcome.Executions: [started, outcome]
    group,      \* indices of the group being run
    launched,   \* calls of the group handed to a goroutine
    routine,    \* of each call: "none", "launched", "out", "waiting", "cancelling", "done"
    resultCh,   \* results the scheduler has not received: [call, started, outcome]
    firstErr,   \* the error that will end the batch: "none", "cancelled", "error"
    sent        \* calls of the batch handed to the environment or a runtime tool

batchVars == <<calls, results, execs, group, launched, routine, resultCh, firstErr, sent>>

-----------------------------------------------------------------------------
(* What a call may be and how it may end.                                  *)

\* Statuses a model can see that are not success; "badargs" stands for the
\* three codes of hasToolArgumentFailure.
Visible == {"failed", "invalid", "badargs", "skipped"}
Failures == {"cancelled", "error"}
Untouched == [started |-> FALSE, outcome |-> "none"]

Kind(call, open) ==
    IF call.tool \in Environment THEN "environment"
    ELSE IF call.tool \in KnowledgeTools \/ (call.tool \in TaskTools /\ open)
    THEN "runtime" ELSE "unregistered"

\* An exclusive or asynchronous tool admits no second call beside it.
Alone(call) == call.tool \in TaskTools \union Exclusive \union Async

-----------------------------------------------------------------------------
(* preflight: the verdict on every call before anything runs.              *)

Duplicated(batch, i) == \E j \in DOMAIN batch : j # i /\ batch[j].id = batch[i].id

\* The checks in the order of preflight; "none" accepts the call.
Verdict(batch, i, open, asyncFull) ==
    LET call == batch[i]
    IN IF \/ Duplicated(batch, i)
          \/ Kind(call, open) = "unregistered"
          \/ Alone(call) /\ Len(batch) > 1 THEN "invalid"
       ELSE IF call.args = "bad" THEN "badargs"
       ELSE IF call.tool \in Async /\ asyncFull THEN "invalid"
       ELSE "none"

\* One refused call refuses the batch: the others are skipped.
Preflight(batch, open, asyncFull) ==
    LET verdict == [i \in DOMAIN batch |-> Verdict(batch, i, open, asyncFull)]
    IN IF \A i \in DOMAIN batch : verdict[i] = "none"
       THEN verdict
       ELSE [i \in DOMAIN batch |-> IF verdict[i] = "none" THEN "skipped" ELSE verdict[i]]

Refused(verdict) == \E i \in DOMAIN verdict : verdict[i] # "none"

\* hasToolArgumentFailure and hasInvalidToolResult
ArgumentFailure(res) == \E i \in DOMAIN res : res[i] = "badargs"
InvalidResult(res) == \E i \in DOMAIN res : res[i] \in {"badargs", "invalid"}

-----------------------------------------------------------------------------
(* Groups.                                                                 *)

\* The group that starts at i: as many parallel-safe neighbours as there are.
GroupAt(batch, i) ==
    IF batch[i].tool \notin ParallelSafe THEN {i}
    ELSE {j \in i .. Len(batch) : \A k \in i .. j : batch[k].tool \in ParallelSafe}

\* Calls launched and not yet received.
Active == {i \in launched : routine[i] # "none" /\ execs[i] = Untouched}

\* The first n members of g that are not launched, in call order.
NextOf(g, l, n) == {i \in g \ l : Cardinality({j \in g \ l : j < i}) < n}

\* runParallelGroup begins: launch up to the limit.
StartGroup(batch, g) ==
    LET first == NextOf(g, {}, MaxParallelToolCalls)
    IN /\ group' = g
       /\ launched' = first
       /\ routine' = [i \in DOMAIN batch |-> IF i \in first THEN "launched" ELSE "none"]
       /\ resultCh' = <<>>

BeginBatch(batch) ==
    /\ calls' = batch
    /\ results' = [i \in DOMAIN batch |-> "none"]
    /\ execs' = [i \in DOMAIN batch |-> Untouched]
    /\ firstErr' = "none" /\ sent' = {}
    /\ StartGroup(batch, GroupAt(batch, 1))

-----------------------------------------------------------------------------
(* runOne and runAsyncOne, in the goroutine of call i.                     *)

Report(i, started, outcome) ==
    /\ resultCh' = Append(resultCh, [call |-> i, started |-> started, outcome |-> outcome])
    /\ routine' = [routine EXCEPT ![i] = "done"]
    /\ UNCHANGED <<calls, results, execs, group, launched, firstErr>>

\* prepareEnvironmentAction refused: only a task wake registers its actions.
RefuseAction(i) ==
    /\ routine[i] = "launched"
    /\ calls[i].tool \in Environment
    /\ Report(i, FALSE, "error")
    /\ UNCHANGED sent

\* The request is handed over, or the runtime tool is entered.
Submit(i) ==
    /\ routine[i] = "launched"
    /\ routine' = [routine EXCEPT ![i] = "out"]
    /\ sent' = sent \union {i}
    /\ UNCHANGED <<calls, results, execs, group, launched, resultCh, firstErr>>

\* StartAction answers with an update: the result is awaited.
Accepted(i) ==
    /\ routine[i] = "out"
    /\ calls[i].tool \in Async
    /\ routine' = [routine EXCEPT ![i] = "waiting"]
    /\ UNCHANGED <<calls, results, execs, group, launched, resultCh, firstErr, sent>>

\* A task tool may still refuse its arguments (invalidTaskArguments); a
\* cancelled context ends every call; a technical error or a timeout may.
Outcomes(i, cancelled) ==
    {"succeeded", "failed", "error"}
      \union (IF calls[i].tool \in TaskTools THEN {"badargs"} ELSE {})
      \union (IF cancelled THEN {"cancelled"} ELSE {})

Answer(i, cancelled) ==
    /\ routine[i] \in {"out", "waiting"}
    /\ \E outcome \in Outcomes(i, cancelled) : Report(i, TRUE, outcome)
    /\ UNCHANGED sent

\* The context of the call is done while its answer is awaited: SubmitAction,
\* StartAction and WaitActionResult first tell the game (CancelAction), and
\* that send waits for the stream, under no deadline.
GiveUp(i) ==
    /\ routine[i] \in {"out", "waiting"}
    /\ calls[i].tool \in Environment
    /\ routine' = [routine EXCEPT ![i] = "cancelling"]
    /\ UNCHANGED <<calls, results, execs, group, launched, resultCh, firstErr, sent>>

CancelSent(i, cancelled) ==
    /\ routine[i] = "cancelling"
    /\ \/ Report(i, TRUE, "error")
       \/ cancelled /\ Report(i, TRUE, "cancelled")
    /\ UNCHANGED sent

-----------------------------------------------------------------------------
(* The scheduler between the goroutines.                                   *)

\* preferTechnicalError: the cause of a cancellation before its effects.
PreferTechnicalError(current, candidate) ==
    IF current = "none" \/ (current = "cancelled" /\ candidate # "cancelled")
    THEN candidate ELSE current

\* Receive one result, then launch what the limit admits unless an error
\* stopped launching; a failure the model may see does not stop the group.
Receive ==
    /\ resultCh # <<>>
    /\ LET r == Head(resultCh)
           err == IF r.outcome \in Failures
                  THEN PreferTechnicalError(firstErr, r.outcome) ELSE firstErr
           busy == Cardinality(Active) - 1
           more == IF err # "none" THEN {}
                   ELSE NextOf(group, launched, MaxParallelToolCalls - busy)
       IN /\ execs' = [execs EXCEPT ![r.call] = [started |-> r.started, outcome |-> r.outcome]]
          /\ results' = IF r.outcome \in Failures THEN results
                        ELSE [results EXCEPT ![r.call] = r.outcome]
          /\ firstErr' = err
          /\ launched' = launched \union more
          /\ routine' = [i \in DOMAIN routine |->
                           IF i \in more THEN "launched" ELSE routine[i]]
          /\ resultCh' = Tail(resultCh)
    /\ UNCHANGED <<calls, group, sent>>

\* mutant: the group also waits for calls an error kept from being launched
GroupDoneFully == group # {} /\ Active = {} /\ launched = group

GroupDone == group # {} /\ Active = {} /\ (firstErr # "none" \/ launched = group)
GroupFailed == \E i \in group : results[i] \in Visible
LastOf(g) == CHOOSE i \in g : \A j \in g : j <= i

\* A group that succeeded is followed by the next one.
NextGroup ==
    /\ GroupDone /\ firstErr = "none" /\ ~GroupFailed /\ LastOf(group) < Len(calls)
    /\ StartGroup(calls, GroupAt(calls, LastOf(group) + 1))
    /\ UNCHANGED <<calls, results, execs, firstErr, sent>>

BatchOverEarly ==   \* mutant: the first error returns without the calls in flight
    \/ group # {} /\ firstErr # "none"
    \/ GroupDone /\ (GroupFailed \/ LastOf(group) = Len(calls))

BatchOver ==
    GroupDone /\ (firstErr # "none" \/ GroupFailed \/ LastOf(group) = Len(calls))

FillNothing(res) == res   \* mutant: the calls after a failed group get no result

\* fillPriorGroupSkipped: what a failed group keeps from running is skipped.
FillPriorGroupSkipped(res) ==
    [i \in DOMAIN res |-> IF i > LastOf(group) THEN "skipped" ELSE res[i]]

FinalResults ==
    IF firstErr = "none" /\ GroupFailed THEN FillPriorGroupSkipped(results) ELSE results

\* The deferred function of Run: an execution without a result of its own
\* takes the one of the batch, or was aborted before it started.
AccountExecutions(exs, res, err) ==
    [i \in DOMAIN exs |->
       IF exs[i].outcome # "none" THEN exs[i]
       ELSE IF res[i] # "none" THEN [started |-> exs[i].started, outcome |-> res[i]]
       ELSE IF err /\ ~exs[i].started THEN [started |-> FALSE, outcome |-> "skipped"]
       ELSE exs[i]]

Settles(res) == \E i \in DOMAIN res : res[i] = "succeeded" /\ calls[i].tool \in Settling

Idle ==
    /\ calls' = <<>> /\ results' = <<>> /\ execs' = <<>> /\ group' = {}
    /\ launched' = {} /\ routine' = <<>> /\ resultCh' = <<>> /\ firstErr' = "none"
    /\ sent' = {}

InitBatch ==
    /\ calls = <<>> /\ results = <<>> /\ execs = <<>> /\ group = {}
    /\ launched = {} /\ routine = <<>> /\ resultCh = <<>> /\ firstErr = "none"
    /\ sent = {}

=============================================================================
