--------------------------- MODULE MCCoordinator ---------------------------
(* Coordinator on small sets of workers and databases. *)
EXTENDS Coordinator, TLC

CONSTANTS w1, w2, w3, d1, d2

ThreeWorkers == {w1, w2, w3}
TwoWorkers == {w1, w2}
TwoDatabases == {d1, d2}
OneDatabase == {d1}

\* Workers are interchangeable, and so are databases.
Symmetry == Permutations(Workers) \cup Permutations(Databases)
=============================================================================
