------------------------------ MODULE Catalog ------------------------------
(***************************************************************************)
(* The catalog queries of store.go on one database: schemas, functions,    *)
(* sequences and extensions, each the query and the loop that scans its    *)
(* rows.  DDL goes on meanwhile: a query reads the catalogs with the       *)
(* snapshot it began with, but pg_get_function_identity_arguments looks    *)
(* its function up when the row is made.                                   *)
(*                                                                         *)
(* Permits, connections and failing queries are those of Store.            *)
(***************************************************************************)
EXTENDS SchemaNames

CONSTANTS
  Namespaces,  \* names of schemas the database may have
  Fixed,       \* objects the database always has
  Movable,     \* objects that users create and drop
  Available    \* sets of available extensions: [name, default_version]

Kinds == {"schema", "function", "sequence", "installed", "available"}
Objects == [kind : Kinds \ {"available"}, ns : Namespaces]

NULL == "NULL"

ASSUME CatalogAssumption ==
  /\ Namespaces \subseteq Seq(STRING)
  /\ Fixed \subseteq Objects /\ Movable \subseteq Objects
  /\ \A A \in Available : A \subseteq [name : STRING, default_version : STRING]

VARIABLES
  objects,       \* schemas and the functions, sequences and extensions in them
  available,     \* pg_available_extensions
  pc,            \* the query: idle, rows or returned
  kind,          \* what it lists
  todo,          \* rows of its snapshot not yet returned
  listed,        \* rows scanned
  code,          \* nil or the error
  always,        \* objects that are there since the query began
  ever           \* history: objects there during some of the query

callVars == <<pc, kind, todo, listed, code>>
seen == <<always, ever>>
vars == <<objects, available, callVars, seen>>

Schema(n) == [kind |-> "schema", ns |-> n]

Init ==
  /\ objects = Fixed
  /\ available \in Available
  /\ pc = "idle"
  /\ kind = "none"
  /\ todo = {}
  /\ listed = {}
  /\ code = "none"
  /\ always = {} /\ ever = {}

-----------------------------------------------------------------------------
(* DDL. *)

Create(o) ==
  /\ o \notin objects
  /\ o.kind # "schema" => Schema(o.ns) \in objects
  /\ objects' = objects \cup {o}
  /\ ever' = ever \cup IF pc = "rows" THEN {o} ELSE {}
  /\ UNCHANGED <<available, callVars, always>>

\* DROP ... CASCADE: a schema goes with everything in it.
Drop(o) ==
  /\ o \in objects
  /\ LET gone == {x \in objects : x = o \/ (o.kind = "schema" /\ x.ns = o.ns)}
     IN  /\ objects' = objects \ gone
         /\ always' = IF pc = "rows" THEN always \ gone ELSE always
  /\ UNCHANGED <<available, callVars, ever>>

-----------------------------------------------------------------------------
(* The queries. *)

Snapshot(k) == {o \in objects : o.kind = k}

queryListSchemas == {o \in Snapshot("schema") : Where(o.ns)}
queryFunctions == {o \in Snapshot("function") : Where(o.ns)}
querySequences == {o \in Snapshot("sequence") : Where(o.ns)}
queryListInstalledExtensions == Snapshot("installed")
queryAvailableExtensions == available

-----------------------------------------------------------------------------
(* pool.Query and the loop over its rows. *)

Query(k, rows) ==
  /\ pc = "idle"
  /\ pc' = "rows"
  /\ kind' = k
  /\ todo' = rows
  /\ always' = objects /\ ever' = objects
  /\ UNCHANGED <<objects, available, listed, code>>

listSchemas == Query("schema", queryListSchemas)
listFunctions == Query("function", queryFunctions)
listSequences == Query("sequence", querySequences)
listInstalledExtensions == Query("installed", queryListInstalledExtensions)
listAvailableExtensions == Query("available", queryAvailableExtensions)

\* A column of the row is NULL: the arguments of a function that was dropped
\* (one created again has another oid), or the default version of an extension
\* whose control file names none.
HasNull(o) ==
  \/ kind = "function" /\ o \notin always
  \/ kind = "available" /\ o.default_version = NULL

\* Mutation: the error is kept and the loop goes on.
ScanGoingOn(o) ==
  \/ ~HasNull(o) /\ listed' = listed \cup {o} /\ UNCHANGED <<pc, code>>
  \/ HasNull(o) /\ code' = "error" /\ UNCHANGED <<pc, listed>>

\* Mutation: the rows scanned so far are returned with the error.
ScanKeepingRows(o) ==
  \/ ~HasNull(o) /\ listed' = listed \cup {o} /\ UNCHANGED <<pc, code>>
  \/ HasNull(o) /\ pc' = "returned" /\ code' = "error" /\ UNCHANGED listed

\* rows.Scan refuses to put a NULL into a string.
Scan(o) ==
  \/ ~HasNull(o) /\ listed' = listed \cup {o} /\ UNCHANGED <<pc, code>>
  \/ HasNull(o) /\ pc' = "returned" /\ code' = "error" /\ listed' = {}

NextRow(o) ==
  /\ pc = "rows" /\ o \in todo
  /\ todo' = todo \ {o}
  /\ Scan(o)
  /\ UNCHANGED <<objects, available, kind, seen>>

Return ==
  /\ pc = "rows" /\ todo = {}
  /\ pc' = "returned"
  /\ code' = "nil"
  /\ UNCHANGED <<objects, available, kind, todo, listed, seen>>

Finish ==
  /\ pc = "returned"
  /\ pc' = "idle" /\ kind' = "none"
  /\ todo' = {} /\ listed' = {} /\ code' = "none"
  /\ always' = {} /\ ever' = {}
  /\ UNCHANGED <<objects, available>>

Next ==
  \/ \E o \in Movable : Create(o) \/ Drop(o)
  \/ listSchemas \/ listFunctions \/ listSequences
  \/ listInstalledExtensions \/ listAvailableExtensions
  \/ \E o \in todo : NextRow(o)
  \/ Return \/ Finish

Spec == Init /\ [][Next]_vars

-----------------------------------------------------------------------------
(* The variables' types; a query has a result if and only if it returned.  *)
TypeOK ==
  /\ objects \subseteq Objects /\ available \in Available
  /\ pc \in {"idle", "rows", "returned"}
  /\ kind \in Kinds \cup {"none"}
  /\ code \in {"none", "nil", "error"}
  /\ pc = "returned" <=> code # "none"
  /\ todo \cup listed \subseteq IF kind = "available" THEN available ELSE Objects
  /\ always \subseteq Objects /\ ever \subseteq Objects

(* While schemas come and go with what is in them, a list that is returned *)
(* without an error has every object that was there during all of the      *)
(* query: every installed extension, and of the other kinds every object   *)
(* of a schema whose name does not begin with pg and go on, so that of a   *)
(* user schema pgmonitor it need have nothing.  It has no object that was  *)
(* never there, and, extensions apart, none of a system schema.            *)
ListFaithful ==
  code = "nil" /\ kind # "available" =>
    /\ \A o \in always :
         /\ o.kind = kind
         /\ \/ kind = "installed"
            \/ ~System(o.ns) /\ (o.ns[1] = "pg" => Len(o.ns) = 1)
         => o \in listed
    /\ listed \subseteq ever
    /\ kind # "installed" => \A o \in listed : ~System(o.ns)

(* DDL makes a query fail only by dropping a function it is to list, and   *)
(* an extension only by having no default version; a query that fails has  *)
(* no rows.                                                                *)
FailsForAReason ==
  code = "error" =>
    /\ listed = {}
    /\ \/ kind = "function" /\ \E o \in ever \ always : o.kind = "function"
       \/ kind = "available" /\ \E x \in available : x.default_version = NULL
=============================================================================
