--------------------------- MODULE MCHistoryStore ---------------------------
(* Small instance of HistoryStore. *)
EXTENDS HistoryStore, TLC

MCOldRecords == {<<>>, <<NoTime>>}
Symmetry == Permutations(Turns)

\* Bounds: two turns overlap only where no save was loaded and no experience is stored,
\* and an experience is followed only while no save is loaded.
Experienced == \E i \in DOMAIN src : src[i].kind = "experience"
Focus ==
    /\ (\A t \in Turns : turn[t].pc # "idle") => ~fork /\ ~Experienced
    /\ Experienced => ~fork
=============================================================================
