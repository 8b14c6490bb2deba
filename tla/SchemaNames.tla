---------------------------- MODULE SchemaNames ----------------------------
(***************************************************************************)
(* The WHERE clauses that choose schemas, in store.go and in tables.go.  A *)
(* schema name is the sequence of its parts, <<"pg", "_", "toast">>.       *)
(***************************************************************************)
EXTENDS Naturals, Sequences

\* LIKE 'pg_%': the underscore stands for any one character.
LikePg(n) == Len(n) > 1 /\ n[1] = "pg"
\* LIKE 'pg_temp_%' and LIKE 'pg_toast_temp_%'
LikePgTemp(n) == Len(n) > 4 /\ n[1] = "pg" /\ n[3] = "temp"
LikePgToastTemp(n) ==
  Len(n) > 6 /\ n[1] = "pg" /\ n[3] = "toast" /\ n[5] = "temp"

\* Mutation: the second condition is forgotten.
WhereLikeOnly(n) == ~LikePg(n)

\* n.nspname NOT LIKE 'pg_%' AND n.nspname != 'information_schema'
Where(n) == ~LikePg(n) /\ n # <<"information_schema">>

\* The user schemas of the query for tables (tables.go).
WhereTables(n) ==
  /\ n \notin {<<"pg", "_", "catalog">>, <<"information_schema">>,
               <<"pg", "_", "toast">>}
  /\ ~LikePgTemp(n) /\ ~LikePgToastTemp(n)

\* What PostgreSQL itself calls a system schema.
System(n) ==
  n = <<"information_schema">> \/ (Len(n) > 1 /\ n[1] = "pg" /\ n[2] = "_")
=============================================================================
