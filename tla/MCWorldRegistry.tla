--------------------------- MODULE MCWorldRegistry ---------------------------
(* Instances of WorldRegistry for TLC. *)
EXTENDS WorldRegistry, TLC

\* Streams, runs and saves are interchangeable.
Symmetry ==
    Permutations(Conns) \cup Permutations(Runs) \cup Permutations(Saves)
=============================================================================
