----------------------------- MODULE MCCatalog -----------------------------
(* Catalog with the kinds of schema names that the queries tell apart. *)
EXTENDS Catalog

public == <<"public">>
pgmonitor == <<"pg", "monitor">>
catalogSchema == <<"pg", "_", "catalog">>
temp == <<"pg", "_", "temp", "_", "3">>
toastTemp == <<"pg", "_", "toast", "_", "temp", "_", "3">>

infoSchema == <<"information_schema">>
app == <<"app">>

pg == <<"pg">>

AllSchemas == {public, app, pg, pgmonitor, catalogSchema, temp, toastTemp,
               infoSchema, <<"pg", "_", "toast">>}

\* What the database always has, the schemas pg and pgmonitor among it.
FixedObjects ==
  {Schema(n) : n \in Namespaces \ {public, app}}
    \cup {[kind |-> "function", ns |-> catalogSchema],
          [kind |-> "installed", ns |-> catalogSchema],
          [kind |-> "sequence", ns |-> infoSchema]}

\* What users create and drop.
UserObjects ==
  {Schema(public), Schema(app)}
    \cup {[kind |-> "function", ns |-> n] : n \in {public, app}}
    \cup {[kind |-> k, ns |-> app] : k \in {"sequence", "installed"}}

plpgsql == [name |-> "plpgsql", default_version |-> "1.0"]
unversioned == [name |-> "custom", default_version |-> NULL]
SomeAvailable == {{plpgsql}, {plpgsql, unversioned}}
=============================================================================
