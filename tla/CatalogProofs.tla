--------------------------- MODULE CatalogProofs ---------------------------
(***************************************************************************)
(* Proofs about Catalog, for any schema names, objects and extensions.     *)
(***************************************************************************)
EXTENDS Catalog, TLAPS

-----------------------------------------------------------------------------
(* The inductive invariant. *)

\* The objects that the query for kind k is to list.
Wanted(k, o) == o.kind = k /\ (k = "installed" \/ Where(o.ns))

\* The history follows the catalog while a query reads it.
HistoryInv == pc = "rows" => always \subseteq objects /\ objects \subseteq ever

\* Rows come from the snapshot, and until an error ends the loop a wanted
\* object that was there all the time is scanned or still to come.
RowsInv ==
  /\ pc = "idle" => todo = {} /\ listed = {}
  /\ pc # "idle" <=> kind # "none"
  /\ code = "nil" => todo = {}
  /\ kind # "available" => \A o \in todo \cup listed : Wanted(kind, o) /\ o \in ever
  /\ kind \notin {"available", "none"} /\ code # "error" =>
       \A o \in always : Wanted(kind, o) => o \in todo \cup listed

IndInv ==
  /\ TypeOK
  /\ HistoryInv
  /\ RowsInv
  /\ FailsForAReason

-----------------------------------------------------------------------------
\* The LIKE pattern leaves out every system schema.
LEMMA WhereLeavesOutSystem == ASSUME NEW n, Where(n) PROVE ~System(n)
  BY DEF Where, System, LikePg

\* It leaves out no other schema than those that begin with pg and go on.
LEMMA WhereKeepsOthers ==
  ASSUME NEW n, ~System(n), n[1] = "pg" => Len(n) = 1
  PROVE  Where(n)
<1>1. n # <<"information_schema">>
  BY DEF System
<1>2. ~(1 > 1)
  OBVIOUS
<1>3. ~LikePg(n)
  BY <1>2, Zenon DEF LikePg
<1> QED
  BY <1>1, <1>3 DEF Where

\* No query is under way.
LEMMA InitIndInv == Init => IndInv
  BY CatalogAssumption
  DEF Init, IndInv, TypeOK, HistoryInv, RowsInv, FailsForAReason

\* A new object may be listed or not; it was not there all the time.
LEMMA CreateStep ==
  ASSUME IndInv, NEW o \in Movable, Create(o)
  PROVE  IndInv'
<1> USE CatalogAssumption DEF IndInv, Create, callVars
<1>1. TypeOK'
  BY DEF TypeOK
<1>2. HistoryInv'
  BY DEF HistoryInv
<1>3. RowsInv'
  BY DEF RowsInv, Wanted
<1>4. FailsForAReason'
  BY DEF FailsForAReason
<1> QED
  BY <1>1, <1>2, <1>3, <1>4

\* A dropped object stays in the snapshot, and was not there all the time.
LEMMA DropStep ==
  ASSUME IndInv, NEW o \in Movable, Drop(o)
  PROVE  IndInv'
<1> USE DEF IndInv
<1>0. /\ objects' \subseteq objects /\ always' \subseteq always
      /\ pc = "rows" => always' = always \ (objects \ objects')
      /\ UNCHANGED <<available, pc, kind, todo, listed, code, ever>>
  BY DEF Drop, callVars
<1>1. TypeOK'
  BY <1>0 DEF TypeOK
<1>2. HistoryInv'
  BY <1>0 DEF HistoryInv
<1>3. RowsInv'
  BY <1>0 DEF RowsInv, Wanted
<1>4. FailsForAReason'
  BY <1>0 DEF FailsForAReason
<1> QED
  BY <1>1, <1>2, <1>3, <1>4

\* A query on the objects of one kind takes its snapshot.
LEMMA QueryStep ==
  ASSUME IndInv, NEW k \in {"schema", "function", "sequence", "installed"},
         Query(k, {o \in Snapshot(k) : k = "installed" \/ Where(o.ns)})
  PROVE  IndInv'
<1> USE DEF IndInv, Query
<1>0. \A o \in objects : Wanted(k, o) <=> o \in todo'
  BY DEF Snapshot, Wanted
<1>1. TypeOK'
  BY DEF TypeOK, Kinds, RowsInv, Snapshot
<1>2. HistoryInv'
  BY DEF HistoryInv
<1>3. RowsInv'
  <2>1. todo' \subseteq objects /\ listed' = {} /\ code' = "none"
    BY DEF RowsInv, TypeOK, Snapshot
  <2> QED
    BY <1>0, <2>1 DEF RowsInv
<1>4. FailsForAReason'
  BY DEF FailsForAReason, TypeOK
<1> QED
  BY <1>1, <1>2, <1>3, <1>4

\* The available extensions are those of the server.
LEMMA AvailableStep ==
  ASSUME IndInv, Query("available", available)
  PROVE  IndInv'
<1> USE DEF IndInv, Query
<1>1. TypeOK'
  BY DEF TypeOK, Kinds, RowsInv
<1>2. HistoryInv' /\ FailsForAReason'
  BY DEF HistoryInv, FailsForAReason, TypeOK
<1>3. RowsInv'
  BY DEF RowsInv, TypeOK
<1> QED
  BY <1>1, <1>2, <1>3

\* A row is scanned, or a NULL in it ends the loop.
LEMMA NextRowStep ==
  ASSUME IndInv, NEW o \in todo, NextRow(o)
  PROVE  IndInv'
<1> USE DEF IndInv, NextRow, seen
<1>1. CASE ~HasNull(o) /\ listed' = listed \cup {o} /\ UNCHANGED <<pc, code>>
  <2>1. TypeOK'
    BY <1>1 DEF TypeOK
  <2>2. HistoryInv' /\ FailsForAReason'
    BY <1>1 DEF HistoryInv, FailsForAReason, TypeOK
  <2>3. RowsInv'
    BY <1>1 DEF RowsInv, TypeOK
  <2> QED
    BY <2>1, <2>2, <2>3
<1>2. CASE HasNull(o) /\ pc' = "returned" /\ code' = "error" /\ listed' = {}
  <2>1. TypeOK'
    BY <1>2 DEF TypeOK
  <2>2. HistoryInv' /\ RowsInv'
    BY <1>2 DEF HistoryInv, RowsInv
  <2>3. FailsForAReason'
    BY <1>2 DEF FailsForAReason, HasNull, RowsInv, Wanted, TypeOK
  <2> QED
    BY <2>1, <2>2, <2>3
<1> QED
  BY <1>1, <1>2 DEF Scan

\* The loop has ended, or the handler is done.
LEMMA ReturnFinishStep ==
  ASSUME IndInv, Return \/ Finish
  PROVE  IndInv'
<1> USE DEF IndInv, Return, Finish, seen
<1>1. TypeOK'
  BY DEF TypeOK
<1>2. HistoryInv' /\ FailsForAReason'
  BY DEF HistoryInv, FailsForAReason
<1>3. RowsInv'
  BY DEF RowsInv, TypeOK
<1> QED
  BY <1>1, <1>2, <1>3

\* Every step preserves the inductive invariant.
LEMMA NextIndInv == IndInv /\ [Next]_vars => IndInv'
<1> SUFFICES ASSUME IndInv, [Next]_vars PROVE IndInv'
  OBVIOUS
<1>1. CASE UNCHANGED vars
  BY <1>1 DEF vars, callVars, seen, IndInv, TypeOK, HistoryInv, RowsInv,
     FailsForAReason, Wanted
<1>2. CASE listSchemas \/ listFunctions \/ listSequences \/ listInstalledExtensions
  <2>1. \E k \in {"schema", "function", "sequence", "installed"} :
          Query(k, {o \in Snapshot(k) : k = "installed" \/ Where(o.ns)})
    BY <1>2 DEF listSchemas, listFunctions, listSequences,
       listInstalledExtensions, queryListSchemas, queryFunctions,
       querySequences, queryListInstalledExtensions
  <2> QED
    BY <2>1, QueryStep
<1>3. CASE listAvailableExtensions
  BY <1>3, AvailableStep DEF listAvailableExtensions, queryAvailableExtensions
<1>4. ASSUME NEW o \in Movable, Create(o) \/ Drop(o)
      PROVE  IndInv'
  BY <1>4, CreateStep, DropStep
<1>5. ASSUME NEW o \in todo, NextRow(o)
      PROVE  IndInv'
  BY <1>5, NextRowStep
<1>6. CASE Return \/ Finish
  BY <1>6, ReturnFinishStep
<1> QED
  BY <1>1, <1>2, <1>3, <1>4, <1>5, <1>6 DEF Next

\* The inductive invariant holds in every reachable state.
THEOREM CatalogInv == Spec => []IndInv
  BY InitIndInv, NextIndInv, PTL DEF Spec

\* The types, and a result if and only if the query has returned.
THEOREM CatalogTypeOK == Spec => []TypeOK
<1>1. IndInv => TypeOK
  BY DEF IndInv
<1> QED
  BY <1>1, CatalogInv, PTL

\* Whatever DDL runs beside a query, a list without an error has every object
\* that was there all the time, if it is an installed extension or its schema
\* is a user's and not named pg and more; it has none that was never there and,
\* extensions apart, none of a system schema.
THEOREM CatalogListFaithful == Spec => []ListFaithful
<1>1. IndInv => ListFaithful
  <2> SUFFICES ASSUME IndInv, code = "nil", kind # "available"
               PROVE  /\ \A o \in always :
                           /\ o.kind = kind
                           /\ \/ kind = "installed"
                              \/ /\ ~System(o.ns)
                                 /\ o.ns[1] = "pg" => Len(o.ns) = 1
                           => o \in listed
                      /\ listed \subseteq ever
                      /\ kind # "installed" => \A o \in listed : ~System(o.ns)
    BY DEF ListFaithful
  <2>1. kind # "none" /\ todo = {}
    BY DEF IndInv, TypeOK, RowsInv
  <2>2. ASSUME NEW o \in always, o.kind = kind,
               \/ kind = "installed"
               \/ ~System(o.ns) /\ (o.ns[1] = "pg" => Len(o.ns) = 1)
        PROVE  o \in listed
    <3>1. kind = "installed" \/ Where(o.ns)
      BY <2>2, WhereKeepsOthers
    <3> QED
      BY <2>1, <2>2, <3>1 DEF IndInv, RowsInv, Wanted
  <2>3. listed \subseteq ever
    BY DEF IndInv, RowsInv
  <2>4. ASSUME kind # "installed", NEW o \in listed
        PROVE  ~System(o.ns)
    BY <2>4, WhereLeavesOutSystem DEF IndInv, RowsInv, Wanted
  <2> QED
    BY <2>2, <2>3, <2>4
<1> QED
  BY <1>1, CatalogInv, PTL

\* Only a dropped function, or an extension without a default version, makes a
\* query fail, and then no rows are returned.
THEOREM CatalogFailsForAReason == Spec => []FailsForAReason
<1>1. IndInv => FailsForAReason
  BY DEF IndInv
<1> QED
  BY <1>1, CatalogInv, PTL
=============================================================================
