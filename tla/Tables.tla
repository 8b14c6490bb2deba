------------------------------- MODULE Tables -------------------------------
(***************************************************************************)
(* ListTables on one database: queryTables and the loop over its rows      *)
(* (tables.go, the types of types.go) and tableToProto (server.go).  The   *)
(* design of the database is what its users declared; the relations        *)
(* pg_attribute, pg_index, pg_constraint and pg_inherits are how           *)
(* PostgreSQL stores it, and the query joins and aggregates them.  The     *)
(* catalogs are read with one snapshot, while sizes, definitions and names *)
(* of relations are looked up when their row is made: tables that grow or  *)
(* are dropped meanwhile show.                                             *)
(*                                                                         *)
(* Abstractions: a name is an oid or a string; aggregates without ORDER BY *)
(* are sets; a value that may be NULL is the set of it or the empty set; a *)
(* size is a number of pages; flags that are copied are left out.          *)
(* Permits, connections and failing queries are those of Store.            *)
(***************************************************************************)
EXTENDS SchemaNames, Integers, FiniteSets

CONSTANTS
  Designs,     \* the databases: sets of tables
  SearchPath,  \* schemas whose relations need no qualified name
  MaxGrowth    \* bound: times a heap, a TOAST table or an index grows

\* SQL's NULL, JSON's null and Go's nil
NULL == {}

\* The numbers that keys of a table consist of: its columns', that of a system
\* column, and 0 for an expression.
Numbers(t) == {-1, 0} \cup DOMAIN t.columns

\* The schemas that begin with pg_ are PostgreSQL's: the name is reserved.
Reserved(n) ==
  \/ n \in {<<"information_schema">>, <<"pg", "_", "catalog">>,
            <<"pg", "_", "toast">>}
  \/ Len(n) = 5 /\ n[3] = "temp" /\ n[4] = "_"
  \/ Len(n) = 7 /\ n[3] = "toast" /\ n[5] = "temp" /\ n[6] = "_"

\* What PostgreSQL guarantees of one table: parents and the tables
\* of foreign keys are of the same database.
WellFormedTable(t, d) ==
  /\ t.oid \in Nat /\ t.reltuples \in Int /\ t.ns \in Seq(STRING)
  /\ t.parents \in Seq({u.oid : u \in d})
  /\ t.toast \subseteq Nat /\ \A r, s \in t.toast : r = s
  /\ t.columns \in Seq([name : STRING, dropped : BOOLEAN, inhcount : Nat])
  /\ System(t.ns) => Reserved(t.ns)
  /\ IsFiniteSet(t.indexes)
  /\ \A ix \in t.indexes : ix.oid \in Nat /\ ix.key \in Seq(Numbers(t))
  /\ \A con \in t.constraints :
       /\ con.name \in STRING
       /\ con.type \in {"p", "u", "f", "c", "x", "t", "n"}
       /\ con.key \in Seq(Numbers(t))
       /\ con.type = "f" =>
            \E u \in d : u.oid = con.ftable /\ con.fkey \in Seq(Numbers(u))

\* The relations that a table's rows are stored in: its heap, its TOAST table
\* and its indexes.
Storage(t) == {t.oid} \cup t.toast \cup {ix.oid : ix \in t.indexes}

\* Oids tell relations apart, tables and indexes alike.
DistinctOids(d) ==
  \A t, u \in d :
    /\ t.oid = u.oid => t = u
    /\ t # u => Storage(t) \cap Storage(u) = {}
    /\ t.toast \cap ({t.oid} \cup {ix.oid : ix \in t.indexes}) = {}
    /\ \A ix \in t.indexes :
         ix.oid # u.oid /\ \A iy \in u.indexes : ix.oid = iy.oid => ix = iy

ASSUME TablesAssumption ==
  /\ MaxGrowth \in Nat
  /\ \A d \in Designs : DistinctOids(d) /\ \A t \in d : WellFormedTable(t, d)

\* Words are strings, a fact that provers have no rule for.
ASSUME WordsAssumption ==
  {"ctid", "definition", "primary_key", "unique", "foreign_key", "check",
   "exclusion"} \subseteq STRING

VARIABLES
  design,  \* the snapshot
  alive,   \* relations that have not been dropped
  size,    \* size of each relation
  before,  \* history: the sizes when the query began
  step,    \* what is evaluated next of each row
  row,     \* the rows
  code     \* none, nil or error, once the loop has ended

vars == <<design, alive, size, before, step, row, code>>

Oids == {t.oid : t \in design}
Table(o) == CHOOSE t \in design : t.oid = o
Relations == UNION {Storage(t) : t \in design}

\* Partitioned tables and views have no rows of their own.
Stored == UNION {Storage(t) : t \in {t \in design : t.relkind = "r"}}

-----------------------------------------------------------------------------
(* PostgreSQL's catalogs. *)

\* A system column, and the columns in the order they were declared.
Column(t, k) ==
  IF k = -1 THEN [name |-> "ctid", dropped |-> FALSE, inhcount |-> 0]
  ELSE t.columns[k]

Attribute(t, k) ==
  [attrelid |-> t.oid, attnum |-> k, attname |-> Column(t, k).name,
   attisdropped |-> Column(t, k).dropped, attinhcount |-> Column(t, k).inhcount]

pg_attribute ==
  UNION {{Attribute(t, k) : k \in Numbers(t) \ {0}} : t \in design}

pg_index == UNION {
  {[indexrelid |-> ix.oid, indrelid |-> t.oid, indkey |-> ix.key]
     : ix \in t.indexes} : t \in design}

pg_constraint == UNION {
  {[conname |-> con.name, conrelid |-> t.oid, contype |-> con.type,
    conkey |-> con.key, confrelid |-> con.ftable, confkey |-> con.fkey]
     : con \in t.constraints} : t \in design}

\* Of tables, and of the indexes of partitions.
pg_inherits == UNION {
  {[inhrelid |-> t.oid, inhparent |-> t.parents[i], inhseqno |-> i]
     : i \in DOMAIN t.parents}
  \cup UNION {{[inhrelid |-> ix.oid, inhparent |-> p, inhseqno |-> 1]
                 : p \in ix.parent} : ix \in t.indexes}
  : t \in design}

\* A relation's name, qualified when it has to be; only digits if it is gone.
RegclassText(o) ==
  IF o \notin alive THEN [schema |-> NULL, name |-> NULL]
  ELSE [schema |-> IF Table(o).ns \in SearchPath THEN NULL ELSE {Table(o).ns},
        name |-> {o}]

\* pg_get_indexdef, pg_get_constraintdef: NULL if it is gone with a table.
Definition(oids) == IF oids \subseteq alive THEN {"definition"} ELSE NULL

\* array_agg and jsonb_agg: NULL when there is nothing to aggregate.
Agg(S) == IF S = {} THEN NULL ELSE {S}

\* With ORDER BY n: the i-th row is the one with i numbers up to its own.
Rank(N, n) == Cardinality({m \in N : m \leq n})
Ith(S, i) == CHOOSE x \in S : Rank({y.n : y \in S}, x.n) = i
AggOrdered(S) ==
  IF S = {} THEN NULL
  ELSE {[i \in 1..Cardinality({x.n : x \in S}) |-> Ith(S, i).value]}

\* COALESCE, and what a null leaves in a field of a Go struct.
Zero(value, zero) == IF value = NULL THEN zero ELSE CHOOSE v \in value : TRUE

\* pg_relation_size: NULL if the relation is gone.
SizeOf(r) == IF r \in alive THEN {size[r]} ELSE NULL

\* The pages of some relations, of sizes sz.
Pages(rels, sz) ==
  Cardinality({p \in rels \X (1..(MaxGrowth + 1)) : p[2] \leq sz[p[1]]})

\* pg_total_relation_size: a table with its TOAST table and indexes.
TotalSizeOf(t) ==
  IF t.oid \in alive THEN {Pages(Storage(t) \cap alive, size)} ELSE NULL

-----------------------------------------------------------------------------
(* queryTables. *)

\* unnest(key) WITH ORDINALITY joined with pg_attribute: an expression of an
\* index has the number 0 and no attribute.
ColumnNames(relid, key) ==
  AggOrdered({[n |-> p[1], value |-> p[2].attname] :
    p \in {p \in (DOMAIN key) \X pg_attribute :
             p[2].attrelid = relid /\ p[2].attnum = key[p[1]]}})

IndexJSON(ix) ==
  [name |-> ix.indexrelid,
   columns |-> ColumnNames(ix.indrelid, ix.indkey),
   is_inherited |-> \E inh \in pg_inherits : inh.inhrelid = ix.indexrelid,
   size_bytes |-> SizeOf(ix.indexrelid),
   definition |-> Definition({ix.indexrelid})]

\* Mutation: the filter of the indexes is that of the other queries.
index_aggOtherFilter(o) ==
  Agg({IndexJSON(ix) : ix \in {ix \in pg_index :
         ix.indrelid = o /\ Where(Table(ix.indrelid).ns)}})

index_agg(o) ==
  Agg({IndexJSON(ix) : ix \in {ix \in pg_index :
         ix.indrelid = o /\ WhereTables(Table(ix.indrelid).ns)}})

ConstraintTypes ==
  [p |-> "primary_key", u |-> "unique", f |-> "foreign_key", c |-> "check",
   x |-> "exclusion"]

ConstraintJSON(con) ==
  [name |-> con.conname,
   type |-> ConstraintTypes[con.contype],
   local_columns |-> ColumnNames(con.conrelid, con.conkey),
   foreign_table |-> IF con.contype = "f" THEN {RegclassText(con.confrelid)}
                     ELSE NULL,
   foreign_columns |-> IF con.contype = "f"
                       THEN ColumnNames(con.confrelid, con.confkey) ELSE NULL,
   definition |-> Definition({con.conrelid} \cup
                    IF con.contype = "f" THEN {con.confrelid} ELSE {})]

constraint_data(o) ==
  Agg({ConstraintJSON(con) : con \in {con \in pg_constraint :
         con.conrelid = o /\ con.contype \in DOMAIN ConstraintTypes}})

parent_tables(o) ==
  AggOrdered({[n |-> inh.inhseqno,
               value |-> [oid |-> inh.inhparent,
                          name |-> RegclassText(inh.inhparent)]]
    : inh \in {inh \in pg_inherits : inh.inhrelid = o}})

columns(o) ==
  AggOrdered({[n |-> att.attnum,
               value |-> [name |-> att.attname,
                          is_inherited |-> att.attinhcount > 0]]
    : att \in {att \in pg_attribute : /\ att.attrelid = o /\ att.attnum > 0
                                      /\ ~att.attisdropped}})

\* The WHERE clause of the SELECT.
Selected ==
  {t.oid : t \in {t \in design : t.relkind \in {"r", "p"} /\ WhereTables(t.ns)}}

-----------------------------------------------------------------------------
NoRow == [indexes |-> NULL, constraints |-> NULL, parent_tables |-> NULL,
          total_size_bytes |-> NULL, heap_size_bytes |-> NULL,
          toast_size_bytes |-> 0]

Init ==
  /\ design \in Designs
  /\ alive = Relations
  /\ size = [r \in Relations |-> IF r \in Stored THEN 1 ELSE 0]
  /\ before = size
  /\ step = [o \in Selected |-> "joins"]
  /\ row = [o \in Selected |-> NoRow]
  /\ code = "none"

\* A table gets more rows, for which one of its relations gets a page.
Grow(o, r) ==
  /\ r \in alive /\ Table(o).relkind = "r" /\ code = "none"
  /\ size[r] \leq MaxGrowth
  /\ size' = [size EXCEPT ![r] = @ + 1]
  /\ UNCHANGED <<design, alive, before, step, row, code>>

\* DROP INDEX, or a constraint with its index.
DropIndex(ix) ==
  /\ ix.oid \in alive /\ code = "none"
  /\ alive' = alive \ {ix.oid}
  /\ UNCHANGED <<design, size, before, step, row, code>>

\* DROP TABLE, after what depended on the table was altered; in the snapshot of
\* the query it is still there.
DropTable(o) ==
  /\ o \in alive /\ code = "none"
  /\ alive' = alive \ Storage(Table(o))
  /\ UNCHANGED <<design, size, before, step, row, code>>

\* Sub-selects that are joined are computed before the columns of the row.
EvalJoins(o) ==
  /\ step[o] = "joins"
  /\ step' = [step EXCEPT ![o] = "total"]
  /\ row' = [row EXCEPT ![o].indexes = index_agg(o),
                        ![o].constraints = constraint_data(o),
                        ![o].parent_tables = parent_tables(o)]
  /\ UNCHANGED <<design, alive, size, before, code>>

\* Mutation: the TOAST table is counted twice.
EvalTotalSizeTwice(o) ==
  /\ step[o] = "total"
  /\ step' = [step EXCEPT ![o] = "heap"]
  /\ row' = [row EXCEPT ![o].total_size_bytes =
               {n + Pages(Table(o).toast, size) : n \in TotalSizeOf(Table(o))}]
  /\ UNCHANGED <<design, alive, size, before, code>>

\* pg_total_relation_size(c.oid)
EvalTotalSize(o) ==
  /\ step[o] = "total"
  /\ step' = [step EXCEPT ![o] = "heap"]
  /\ row' = [row EXCEPT ![o].total_size_bytes = TotalSizeOf(Table(o))]
  /\ UNCHANGED <<design, alive, size, before, code>>

\* Mutation: COALESCE(pg_relation_size(c.oid), -1)
EvalHeapSizeMinusOne(o) ==
  /\ step[o] = "heap"
  /\ step' = [step EXCEPT ![o] = "toast"]
  /\ row' = [row EXCEPT ![o].heap_size_bytes = {Zero(SizeOf(o), -1)}]
  /\ UNCHANGED <<design, alive, size, before, code>>

\* pg_relation_size(c.oid)
EvalHeapSize(o) ==
  /\ step[o] = "heap"
  /\ step' = [step EXCEPT ![o] = "toast"]
  /\ row' = [row EXCEPT ![o].heap_size_bytes = SizeOf(o)]
  /\ UNCHANGED <<design, alive, size, before, code>>

\* COALESCE(pg_relation_size(c.reltoastrelid), 0), which has no relation 0, and
\* the columns that come from the snapshot.
EvalToastSize(o) ==
  /\ step[o] = "toast"
  /\ step' = [step EXCEPT ![o] = "row"]
  /\ row' = [row EXCEPT ![o].toast_size_bytes =
               Zero(UNION {SizeOf(r) : r \in Table(o).toast}, 0)]
  /\ UNCHANGED <<design, alive, size, before, code>>

-----------------------------------------------------------------------------
(* The loop over the rows, and tableToProto. *)

(* The JSON documents that the types of types.go take.  Any of their       *)
(* fields takes a null; those that the query may make NULL are sets here.  *)

\* RowEstimate is signed, and takes the -1 of a table that was never analyzed.
TableStats ==
  [row_estimate : Int, total_size_bytes : SUBSET Nat,
   heap_size_bytes : SUBSET Nat, toast_size_bytes : Nat]

TableColumn == [name : STRING, is_inherited : BOOLEAN]

TableIndex ==
  [name : Nat, columns : SUBSET Seq(STRING), is_inherited : BOOLEAN,
   size_bytes : SUBSET Nat, definition : SUBSET STRING]

RelationName == [schema : SUBSET Seq(STRING), name : SUBSET Nat]

TableConstraint ==
  [name : STRING, type : STRING, local_columns : SUBSET Seq(STRING),
   foreign_table : SUBSET RelationName, foreign_columns : SUBSET Seq(STRING),
   definition : SUBSET STRING]

InheritanceRelation == [oid : Nat, name : RelationName]
TableInheritance == [parent_tables : SUBSET Seq(InheritanceRelation)]

statsJSON(o) ==
  {[row_estimate |-> Table(o).reltuples,
    total_size_bytes |-> row[o].total_size_bytes,
    heap_size_bytes |-> row[o].heap_size_bytes,
    toast_size_bytes |-> row[o].toast_size_bytes]}

inheritanceJSON(o) == {[parent_tables |-> row[o].parent_tables]}

\* json.Unmarshal: it refuses a document with a value that does not fit its
\* field, and also nil, to which a NULL is scanned.
Unmarshal(json, Type) == \E doc \in json : doc \in Type

\* Mutation: columns are taken to be always present.
UnmarshalsUnguarded(o) ==
  /\ Unmarshal(statsJSON(o), TableStats)
  /\ Unmarshal(columns(o), Seq(TableColumn))
  /\ row[o].indexes # NULL => Unmarshal(row[o].indexes, SUBSET TableIndex)
  /\ row[o].constraints # NULL =>
       Unmarshal(row[o].constraints, SUBSET TableConstraint)
  /\ Unmarshal(inheritanceJSON(o), TableInheritance)

\* No document of the row ends the loop with an error.
Unmarshals(o) ==
  /\ Unmarshal(statsJSON(o), TableStats)
  /\ columns(o) # NULL => Unmarshal(columns(o), Seq(TableColumn))
  /\ row[o].indexes # NULL => Unmarshal(row[o].indexes, SUBSET TableIndex)
  /\ row[o].constraints # NULL =>
       Unmarshal(row[o].constraints, SUBSET TableConstraint)
  /\ Unmarshal(inheritanceJSON(o), TableInheritance)

\* if con.ForeignTable != "" { pc.ForeignTable = &con.ForeignTable }
ForeignTable(con) == con.foreign_table

ConstraintProto(con) ==
  [name |-> con.name, type |-> con.type,
   local_columns |-> Zero(con.local_columns, <<>>),
   foreign_columns |-> Zero(con.foreign_columns, <<>>),
   foreign_table |-> ForeignTable(con),
   definition |-> Zero(con.definition, "")]

IndexProto(idx) ==
  [name |-> idx.name, columns |-> Zero(idx.columns, <<>>),
   is_inherited |-> idx.is_inherited, size_bytes |-> Zero(idx.size_bytes, 0),
   definition |-> Zero(idx.definition, "")]

tableToProto(o) ==
  [schema |-> Table(o).ns,
   comment |-> Table(o).comment,
   row_estimate |-> Table(o).reltuples,
   total_size_bytes |-> Zero(row[o].total_size_bytes, 0),
   heap_size_bytes |-> Zero(row[o].heap_size_bytes, 0),
   toast_size_bytes |-> row[o].toast_size_bytes,
   columns |-> Zero(columns(o), <<>>),
   indexes |-> {IndexProto(idx) : idx \in Zero(row[o].indexes, {})},
   constraints |-> {ConstraintProto(con) : con \in Zero(row[o].constraints, {})},
   parent_tables |-> Zero(row[o].parent_tables, <<>>)]

Reply == [o \in Selected |-> tableToProto(o)]

\* All rows have been read.
Return ==
  /\ code = "none" /\ \A o \in Selected : step[o] = "row"
  /\ code' = IF \A o \in Selected : Unmarshals(o) THEN "nil" ELSE "error"
  /\ UNCHANGED <<design, alive, size, before, step, row>>

\* The handler has answered.
Answered == code # "none" /\ UNCHANGED vars

Next ==
  \/ \E o \in Selected :
       \/ \E r \in Storage(Table(o)) : Grow(o, r)
       \/ \E ix \in Table(o).indexes : DropIndex(ix)
       \/ DropTable(o)
       \/ EvalJoins(o)
       \/ EvalTotalSize(o) \/ EvalHeapSize(o) \/ EvalToastSize(o)
  \/ Return
  \/ Answered

Spec == Init /\ [][Next]_vars

-----------------------------------------------------------------------------
(* The variables' types. *)
TypeOK ==
  /\ design \in Designs
  /\ alive \subseteq Relations
  /\ size \in [Relations -> 0..(MaxGrowth + 1)] /\ before \in [Relations -> 0..1]
  /\ step \in [Selected -> {"joins", "total", "heap", "toast", "row"}]
  /\ \A o \in Selected :
       /\ row[o].total_size_bytes \subseteq Nat
       /\ row[o].heap_size_bytes \subseteq Nat
       /\ row[o].toast_size_bytes \in Nat
  /\ code \in {"none", "nil", "error"}

\* The numbers of a finite set in ascending order.
InOrder(N) ==
  CHOOSE e \in [1..Cardinality(N) -> N] :
    \A i, j \in 1..Cardinality(N) : i < j => e[i] < e[j]

\* What f gives for them, in that order.
Listed(N, f) == [i \in DOMAIN InOrder(N) |-> f[InOrder(N)[i]]]

\* The names of the columns of a key, in its order and without expressions.
Names(t, key) ==
  LET N == {i \in DOMAIN key : key[i] # 0}
  IN  Listed(N, [i \in N |-> Column(t, key[i]).name])

\* Tables of user schemas, unless the patterns of the query hide the schema,
\* and nothing of a system schema and no other kind of relation.
RelationsFaithful ==
  \A t \in design :
    /\ t.oid \in DOMAIN Reply => t.relkind \in {"r", "p"} /\ ~System(t.ns)
    /\ t.relkind \in {"r", "p"} /\ ~System(t.ns) =>
         t.oid \in DOMAIN Reply \/ LikePgTemp(t.ns) \/ LikePgToastTemp(t.ns)

\* The columns that were not dropped.
ColumnsFaithful(t, cols) ==
  LET kept == {i \in DOMAIN t.columns : ~t.columns[i].dropped}
  IN  cols = Listed(kept, [i \in kept |->
                [name |-> t.columns[i].name,
                 is_inherited |-> t.columns[i].inhcount > 0]])

\* Every index, with its columns, and whether it belongs to one of a parent.
IndexesFaithful(t, indexes) ==
  {<<i.name, i.columns, i.is_inherited>> : i \in indexes} =
    {<<i.oid, Names(t, i.key), i.parent # {}>> : i \in t.indexes}

\* The constraints of five kinds, with their columns, and the foreign table
\* and its columns if and only if it is a foreign key.
ConstraintsFaithful(t, constraints) ==
  /\ {<<c.name, c.type, c.local_columns, c.foreign_columns>> : c \in constraints} =
       {<<c.name, ConstraintTypes[c.type], Names(t, c.key),
          IF c.type = "f" THEN Names(Table(c.ftable), c.fkey) ELSE <<>> >>
          : c \in {c \in t.constraints : c.type \notin {"t", "n"}}}
  /\ \A c \in constraints : c.foreign_table # NULL <=> c.type = "foreign_key"

\* The parents in the order they were declared, by name if they exist.
ParentsFaithful(t, parents) ==
  /\ [i \in DOMAIN parents |-> parents[i].oid] = t.parents
  /\ \A i \in DOMAIN parents :
       parents[i].oid \in alive => parents[i].name.name = {parents[i].oid}

(* The reply describes each table of a user schema as it was declared: its *)
(* columns but the dropped ones, the columns of its indexes in their order *)
(* and without expressions, its constraints of the five kinds, with a      *)
(* foreign table and its columns if and only if it is a foreign key, its   *)
(* parents in their order, by name if they still exist, and its comment.   *)
(* Nothing of a system schema and no other kind of relation is in it.      *)
DesignFaithful ==
  code # "none" =>
    /\ RelationsFaithful
    /\ \A o \in DOMAIN Reply :
         LET t == Table(o)
             doc == Reply[o]
         IN  /\ doc.schema = t.ns /\ doc.comment = t.comment
             /\ ColumnsFaithful(t, doc.columns)
             /\ IndexesFaithful(t, doc.indexes)
             /\ ConstraintsFaithful(t, doc.constraints)
             /\ ParentsFaithful(t, doc.parent_tables)

\* A size of a relation: one it had since the query began, or 0 if it is gone.
SizeFaithful(r, n) == n \in before[r]..size[r] \/ (r \notin alive /\ n = 0)

(* The sizes of a table, of its TOAST table and of its indexes are sizes   *)
(* they had while the query ran, each looked up at a moment of its own, or *)
(* 0 if they were dropped.  The total is of the table with at least the    *)
(* indexes that still exist, or 0, and then nothing of the table was found *)
(* later either.                                                           *)
SizesFaithful ==
  code # "none" =>
    \A o \in DOMAIN Reply :
      LET doc == Reply[o]
          t == Table(o)
          kept == {o} \cup t.toast \cup (Storage(t) \cap alive)
      IN  /\ SizeFaithful(o, doc.heap_size_bytes)
          /\ \A r \in t.toast : SizeFaithful(r, doc.toast_size_bytes)
          /\ t.toast = NULL => doc.toast_size_bytes = 0
          /\ \A i \in doc.indexes : SizeFaithful(i.name, i.size_bytes)
          /\ \/ doc.total_size_bytes \in Pages(kept, before)..Pages(Storage(t), size)
             \/ /\ o \notin alive /\ doc.total_size_bytes = 0
                /\ doc.heap_size_bytes = 0 /\ doc.toast_size_bytes = 0

(* No list fails because of what it finds: tables never analyzed, without  *)
(* columns, indexes or constraints, indexes on expressions only, or tables *)
(* and indexes dropped while the query runs, which have no definition and  *)
(* no size.                                                                *)
NoTableFailsTheList == code # "error"
=============================================================================
