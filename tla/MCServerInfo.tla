--------------------------- MODULE MCServerInfo ---------------------------
(* ServerInfo around the last timeline that fits an int8. *)
EXTENDS ServerInfo, TLC

CONSTANTS c1, c2

TwoCalls == {c1, c2}

Release == [major |-> 15, kind |-> ".", minor |-> 13]
Beta == [major |-> 18, kind |-> "beta", minor |-> 1]
TwoBuilds == {Release, Beta}

\* Calls are interchangeable.
Symmetry == Permutations(Calls)
=============================================================================
