------------------------------ MODULE MCStore ------------------------------
(* Store on small sets of calls and databases. *)
EXTENDS Store, TLC

CONSTANTS c1, c2, d1, d2

OneCall == {c1}
TwoCalls == {c1, c2}
OneDatabase == {d1}
TwoDatabases == {d1, d2}

\* The default database has a row to scan, the other one has none.
FewRows == [d \in Databases |-> IF d = d1 THEN 1 ELSE 0]
TwoRows == [d \in Databases |-> IF d = d1 THEN 1 ELSE 2]

FanOutOnly == {"ListTables"}
FanOutAndInfo == {"ListTables", "GetServerInfo"}

\* Calls are interchangeable.
Symmetry == Permutations(Calls)
=============================================================================
