------------------------------ MODULE MCTables ------------------------------
(* Tables on four small databases. *)
EXTENDS Tables, TLC

public == <<"public">>
pgmonitor == <<"pg", "monitor">>
VisibleSchemas == {public}

col(name) == [name |-> name, dropped |-> FALSE, inhcount |-> 0]
plain == [relkind |-> "r", comment |-> NULL, reltuples |-> -1, toast |-> NULL,
          columns |-> <<>>, indexes |-> {}, constraints |-> {}, parents |-> <<>>]
at(o, n) == [x \in {"oid", "ns"} |-> IF x = "oid" THEN o ELSE n]

\* A parent with a dropped column and an index on an expression and columns in
\* another order than the table's.
parent == at(1, public) @@ [plain EXCEPT
  !.comment = {"the parent"}, !.reltuples = 7, !.toast = {21},
  !.columns = <<col("a"), [col("b") EXCEPT !.dropped = TRUE], col("c")>>,
  !.indexes = {[oid |-> 11, key |-> <<3, 0, 1>>, parent |-> {}],
               [oid |-> 12, key |-> <<0>>, parent |-> {}]},
  !.constraints = {
    [name |-> "pk", type |-> "p", key |-> <<3, 1>>, ftable |-> 0, fkey |-> <<>>],
    [name |-> "nn", type |-> "n", key |-> <<1>>, ftable |-> 0, fkey |-> <<>>]}]

\* Its child, in a schema that begins with pg, with a foreign key to it.
child == at(2, pgmonitor) @@ [plain EXCEPT
  !.columns = <<[col("a") EXCEPT !.inhcount = 1], col("d")>>,
  !.indexes = {[oid |-> 13, key |-> <<2>>, parent |-> {11}]},
  !.constraints = {
    [name |-> "fk", type |-> "f", key |-> <<2, 1>>, ftable |-> 1,
     fkey |-> <<1, 3>>],
    [name |-> "ck", type |-> "c", key |-> <<>>, ftable |-> 0, fkey |-> <<>>]},
  !.parents = <<1>>]

\* A child of two parents in the order opposite to that of their oids.
twoParents == at(3, public) @@ [plain EXCEPT !.parents = <<2, 1>>]

view == at(4, public) @@ [plain EXCEPT !.relkind = "v", !.columns = <<col("a")>>]
partitioned == at(5, public) @@ [plain EXCEPT !.relkind = "p"]
systemTable == at(6, <<"pg", "_", "catalog">>) @@ [plain EXCEPT
  !.indexes = {[oid |-> 14, key |-> <<-1>>, parent |-> {}]}]
tempTable == at(7, <<"pg", "_", "temp", "_", "3">>) @@ plain

\* The parent without what the other design has, and tables with nothing.
slim == [parent EXCEPT !.toast = NULL, !.indexes = {ix \in @ : ix.oid = 11}]
bare(o) == at(o, public) @@ plain

FourDesigns == {{slim, child, systemTable},
                {parent, partitioned},
                {bare(1), bare(2), twoParents},
                {partitioned, view, tempTable, systemTable}}
=============================================================================
