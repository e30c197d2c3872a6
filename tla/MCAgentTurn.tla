---------------------------- MODULE MCAgentTurn ----------------------------
(* A turn with four tools of the adapter, one task tool and a read tool.     *)
EXTENDS AgentTurn

C(i, t, a) == [id |-> i, tool |-> t, args |-> a]
D(ctl, cs) == [control |-> ctl, calls |-> cs]

\* Every kind of batch: a parallel group before and after a serial call, more
\* parallel calls than the limit, single calls of each kind with good and bad
\* arguments, a reused identity, and responses the loop must refuse.
MCDecisions ==
    {D("settle", <<>>), D("continue", <<>>), D("unknown", <<>>)}
    \union {D("continue", <<C(1, t, a)>>) : t \in {"walk", "task"}, a \in {"ok", "bad"}}
    \union {D("continue", <<C(2, "walk", "ok")>>)}
    \union {D("continue", <<C(2, "say", "ok"), C(3, "say", "ok"), C(4, "move", "ok")>>),
            D("settle", <<C(3, "move", "ok"), C(4, "say", "ok"), C(5, "say", "ok")>>),
            D("settle", <<C(2, "say", "ok"), C(2, "say", "ok")>>),
            D("settle", <<C(1, "bow", "ok"), C(2, "task", "bad")>>),
            D("continue", <<C(2, "say", "bad"), C(6, "say", "ok")>>),
            D("settle", <<C(7, "say", "ok"), C(8, "lore", "ok"), C(9, "say", "ok")>>)}
=============================================================================
