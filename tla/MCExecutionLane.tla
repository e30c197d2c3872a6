-------------------------- MODULE MCExecutionLane --------------------------
(* ExecutionLane for TLC: three players (one more than a lane of size one    *)
(* admits), two maintenance tasks (so that one can replace the other); one   *)
(* player has no admission gate.                                             *)
EXTENDS ExecutionLane

CONSTANTS p1, p2, p3, m1, m2

MCPlayers == {p1, p2, p3}
MCMaint == {m1, m2}
MCGated == {p1, p2}
=============================================================================
