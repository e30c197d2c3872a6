---------------------------- MODULE MCTaskKernel ----------------------------
(* TaskKernel for TLC.                                                       *)
EXTENDS TaskKernel, TLC

CONSTANTS t1, t2, o1

MCOneTask == {t1}
MCTwoTasks == {t1, t2}
MCDeadline1 == [t \in MCOneTask |-> 2]
MCDeadline2 == [t \in MCTwoTasks |-> 1]
MCKey1 == [t \in MCOneTask |-> "k"]
MCKey2 == [t \in MCTwoTasks |-> "k"]

\* Two equivalent tasks are interchangeable.
MCSymmetry == Permutations(MCTwoTasks)

MCReport(kind, op, at, until) == [kind |-> kind, op |-> op, at |-> at, until |-> until]

\* For two facts of one task: every kind, facts with and without an operation,
\* two dates, a wait that ends at the deadline and one that ends before it.
MCReportsRich ==
    { MCReport("satisfied", o1, 1, NoTick), MCReport("unsatisfied", o1, 0, NoTick),
      MCReport("interrupted", NoOp, 0, NoTick), MCReport("progress", o1, 0, NoTick),
      MCReport("progress", NoOp, 0, 1), MCReport("progress", o1, 0, 2) }

\* Without operations: one verdict, one wait, one plain progress.
MCReportsFew ==
    { MCReport("satisfied", NoOp, 0, NoTick), MCReport("progress", NoOp, 0, NoTick),
      MCReport("progress", NoOp, 0, 1) }

\* One verdict of an operation and one wait, for a task at its size limit.
MCReportsSize == { MCReport("satisfied", o1, 0, NoTick), MCReport("progress", NoOp, 0, 1) }

\* Attempts, intents and crashes in full as long as the task has no operation and
\* no fact and the world no save; with one of them, fewer of each.
MCFocus ==
    \/ /\ \A t \in Tasks : /\ Admitted(rec[t]) = {}
                          /\ \A o \in Ops : rec[t].ops[o].status = "none"
       /\ \A s \in Saves : ~snaps[s].taken
    \/ /\ \A t \in Tasks : rec[t].rev <= 4
       /\ head.gen <= 2 /\ head.tick <= 1 /\ self <= 2 /\ Len(issued) <= 1

\* One progress report of an operation, without a wait.
MCReportsProgress == { MCReport("progress", o1, 0, NoTick) }
=============================================================================
