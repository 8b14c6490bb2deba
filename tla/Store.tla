------------------------------- MODULE Store -------------------------------
(***************************************************************************)
(* The calls the gRPC handlers make on one Store                           *)
(* (internal/extractor/store/store.go, tables.go): queries on the shared   *)
(* pool, and the fan-out that runs one goroutine per database of the       *)
(* server.  Goroutine <<c, d>> works on database d for call c; the         *)
(* connection permits are those of DbPermit, which Coordinator implements. *)
(*                                                                         *)
(* Abstractions: a row is counted and not represented; the order of the    *)
(* rows in a reply is the order in which goroutines finish, which the code *)
(* leaves open, so resultsCh and results are sets of batches.              *)
(***************************************************************************)
EXTENDS Naturals, FiniteSets

CONSTANTS
  Calls,        \* RPCs the server may be serving at a time
  Databases,    \* names of connectable databases the server may have
  DefaultDb,    \* the database of the shared pool
  NoDb,         \* no permit
  RowCount,     \* RowCount[d]: rows the catalog query returns in database d
  MaxConns,     \* size of the shared pool (pgxpool's MaxConns)
  Operations    \* the operations clients call

AllOperations ==
  {"ListDatabases", "GetServerInfo", "ListSchemas", "ListExtensions",
   "ListSequences", "ListFunctions", "ListTables"}

ASSUME StoreAssumption ==
  /\ IsFiniteSet(Databases)
  /\ DefaultDb \in Databases
  /\ NoDb \notin Databases
  /\ RowCount \in [Databases -> Nat]
  /\ MaxConns \in Nat \ {0}
  /\ Operations \subseteq AllOperations

VARIABLES
  cluster,    \* the databases the server has now
  phase,      \* where each call is
  op,         \* the operation of each call
  cancelled,  \* the call's context is done
  poolConns,  \* the calls that use a connection of the shared pool
  dbs,        \* result of ListDatabases in the call
  missed,     \* history: databases the list lacks, and that still exist
  left,       \* iterations left in the fan-in loop
  resultsCh,  \* batches in the call's channel
  results,    \* batches the fan-in has appended
  errs,       \* number of errors the fan-in has appended
  reply,      \* what the call returned
  wpc,        \* where each goroutine is
  rows,       \* rows a goroutine has scanned
  err,        \* a goroutine's function returns an error
  holds,      \* the permits of the coordinator
  conns       \* goroutines with an open connection to their database

Goroutines == Calls \X Databases

callVars == <<phase, op, cancelled, dbs, missed, left, results, errs, reply>>
workVars == <<wpc, rows, err, holds, conns>>
vars == <<cluster, poolConns, resultsCh, callVars, workVars>>

Permits == INSTANCE DbPermit WITH Procs <- Goroutines

Batch(w) == [db |-> w[2], rows |-> rows[w], err |-> err[w]]

-----------------------------------------------------------------------------
(* NewStore, on a server that has some databases. *)
Init ==
  /\ cluster \in {S \in SUBSET Databases : DefaultDb \in S}
  /\ phase = [c \in Calls |-> "idle"]
  /\ op = [c \in Calls |-> "none"]
  /\ cancelled = [c \in Calls |-> FALSE]
  /\ poolConns = {}
  /\ dbs = [c \in Calls |-> {}]
  /\ missed = [c \in Calls |-> {}]
  /\ left = [c \in Calls |-> 0]
  /\ resultsCh = [c \in Calls |-> {}]
  /\ results = [c \in Calls |-> {}]
  /\ errs = [c \in Calls |-> 0]
  /\ reply = [c \in Calls |-> "none"]
  /\ wpc = [w \in Goroutines |-> "none"]
  /\ rows = [w \in Goroutines |-> 0]
  /\ err = [w \in Goroutines |-> FALSE]
  /\ Permits!Init
  /\ conns = {}

-----------------------------------------------------------------------------
(* The monitored server and the clients. *)

CreateDatabase(d) ==
  /\ d \notin cluster
  /\ cluster' = cluster \cup {d}
  /\ UNCHANGED <<poolConns, resultsCh, callVars, workVars>>

\* PostgreSQL refuses to drop a database that has a connection.
DropDatabase(d) ==
  /\ d \in cluster \ {DefaultDb}
  /\ \A w \in conns : w[2] # d
  /\ cluster' = cluster \ {d}
  /\ missed' = [c \in Calls |-> missed[c] \ {d}]
  /\ UNCHANGED <<poolConns, resultsCh, phase, op, cancelled, dbs, left, results,
                 errs, reply, workVars>>

\* A handler calls its operation on the store.
Start(c, o, p) ==
  /\ o \in Operations
  /\ phase[c] = "idle"
  /\ phase' = [phase EXCEPT ![c] = p]
  /\ op' = [op EXCEPT ![c] = o]
  /\ UNCHANGED <<cluster, poolConns, resultsCh, cancelled, dbs, missed, left,
                 results, errs, reply, workVars>>

\* The client goes away or its deadline passes.
Cancel(c) ==
  /\ phase[c] \notin {"idle", "returned"}
  /\ ~cancelled[c]
  /\ cancelled' = [cancelled EXCEPT ![c] = TRUE]
  /\ UNCHANGED <<cluster, poolConns, resultsCh, phase, op, dbs, missed, left,
                 results, errs, reply, workVars>>

\* The handler has returned; the call's variables are gone.
Finish(c) ==
  /\ phase[c] = "returned"
  /\ phase' = [phase EXCEPT ![c] = "idle"]
  /\ op' = [op EXCEPT ![c] = "none"]
  /\ cancelled' = [cancelled EXCEPT ![c] = FALSE]
  /\ dbs' = [dbs EXCEPT ![c] = {}]
  /\ missed' = [missed EXCEPT ![c] = {}]
  /\ results' = [results EXCEPT ![c] = {}]
  /\ errs' = [errs EXCEPT ![c] = 0]
  /\ reply' = [reply EXCEPT ![c] = "none"]
  /\ UNCHANGED <<cluster, poolConns, resultsCh, left, workVars>>

-----------------------------------------------------------------------------
(* Queries on the shared pool. *)

PoolPhases == {"info", "available", "databases"}

Return(c, r) ==
  /\ phase' = [phase EXCEPT ![c] = "returned"]
  /\ reply' = [reply EXCEPT ![c] = r]

\* Mutation: a query dials a connection of its own in place of a pooled one.
PoolQueryUnbounded(c) ==
  /\ phase[c] \in PoolPhases
  /\ c \notin poolConns
  /\ poolConns' = poolConns \cup {c}
  /\ UNCHANGED <<cluster, resultsCh, callVars, workVars>>

\* s.pool.Query or QueryRow gets a connection: it waits while all are in use.
PoolQuery(c) ==
  /\ phase[c] \in PoolPhases
  /\ c \notin poolConns
  /\ Cardinality(poolConns) < MaxConns
  /\ poolConns' = poolConns \cup {c}
  /\ UNCHANGED <<cluster, resultsCh, callVars, workVars>>

\* An error the code sees: no connection, the context done while waiting for
\* one, the query refused, a Scan that fails; for server info and available
\* extensions also a broken connection.  The handler answers codes.Internal.
PoolFails(c) ==
  /\ phase[c] \in PoolPhases
  /\ poolConns' = poolConns \ {c}
  /\ Return(c, "Internal")
  /\ UNCHANGED <<cluster, resultsCh, op, cancelled, dbs, missed, left, results,
                 errs, workVars>>

\* GetServerInfo has scanned its row, which may then not convert to a message.
ServerInfoRead(c) ==
  /\ phase[c] = "info" /\ c \in poolConns
  /\ poolConns' = poolConns \ {c}
  /\ \E r \in {"OK", "Internal"} : Return(c, r)
  /\ UNCHANGED <<cluster, resultsCh, op, cancelled, dbs, missed, left, results,
                 errs, workVars>>

\* listAvailableExtensions has read all rows; ListExtensions goes on.
AvailableRead(c) ==
  /\ phase[c] = "available" /\ c \in poolConns
  /\ poolConns' = poolConns \ {c}
  /\ phase' = [phase EXCEPT ![c] = "databases"]
  /\ UNCHANGED <<cluster, resultsCh, op, cancelled, dbs, missed, left, results,
                 errs, reply, workVars>>

\* forEachDatabase makes the channel and starts one goroutine per database.
SpawnForEach(c, listed) ==
  /\ phase' = [phase EXCEPT ![c] = "fanin"]
  /\ left' = [left EXCEPT ![c] = Cardinality(listed)]
  /\ wpc' = [w \in Goroutines |->
               IF w[1] = c /\ w[2] \in listed THEN "acquire" ELSE wpc[w]]
  /\ UNCHANGED reply

\* ListDatabases returns `listed` to its handler, or to the operation that
\* fans out over it.  Its rows are closed by then.
DatabasesListed(c, listed) ==
  /\ phase[c] = "databases" /\ c \in poolConns
  /\ poolConns' = poolConns \ {c}
  /\ dbs' = [dbs EXCEPT ![c] = listed]
  /\ missed' = [missed EXCEPT ![c] = cluster \ listed]
  /\ \/ op[c] = "ListDatabases" /\ Return(c, "OK") /\ UNCHANGED <<left, wpc>>
     \/ op[c] # "ListDatabases" /\ SpawnForEach(c, listed)
  /\ UNCHANGED <<cluster, resultsCh, op, cancelled, results, errs, rows, err,
                 holds, conns>>

\* Mutation: the list is one that was read earlier.
DatabasesReadEarlier(c) == DatabasesListed(c, Databases)

\* rows.Next has returned every row.
DatabasesRead(c) == DatabasesListed(c, cluster)

\* The connection breaks or the context is done while rows are read:
\* rows.Next returns false and no code asks rows.Err, so the rows read so far
\* are returned as the list.
DatabasesCut(c) ==
  \E listed \in SUBSET cluster \ {cluster} : DatabasesListed(c, listed)

-----------------------------------------------------------------------------
(* forEachDatabase: the fan-in. *)

\* Mutation: the loop stops at the first error.
ReceiveUntilError(c) ==
  /\ phase[c] = "fanin" /\ left[c] > 0
  /\ \E b \in resultsCh[c] :
       /\ resultsCh' = [resultsCh EXCEPT ![c] = @ \ {b}]
       /\ left' = [left EXCEPT ![c] = IF b.err THEN 0 ELSE @ - 1]
       /\ errs' = [errs EXCEPT ![c] = @ + IF b.err THEN 1 ELSE 0]
       /\ results' = [results EXCEPT ![c] = @ \cup IF b.err THEN {} ELSE {b}]
  /\ UNCHANGED <<cluster, poolConns, phase, op, cancelled, dbs, missed, reply,
                 workVars>>

\* res := <-resultsCh, and one of the two appends.
Receive(c) ==
  /\ phase[c] = "fanin" /\ left[c] > 0
  /\ left' = [left EXCEPT ![c] = @ - 1]
  /\ \E b \in resultsCh[c] :
       /\ resultsCh' = [resultsCh EXCEPT ![c] = @ \ {b}]
       /\ errs' = [errs EXCEPT ![c] = @ + IF b.err THEN 1 ELSE 0]
       /\ results' = [results EXCEPT ![c] = @ \cup IF b.err THEN {} ELSE {b}]
  /\ UNCHANGED <<cluster, poolConns, phase, op, cancelled, dbs, missed, reply,
                 workVars>>

\* One error of one database fails the whole call, and drops its rows.
ForEachReturns(c) ==
  /\ phase[c] = "fanin" /\ left[c] = 0
  /\ \/ errs[c] > 0 /\ Return(c, "Internal")
                    /\ results' = [results EXCEPT ![c] = {}]
     \/ errs[c] = 0 /\ Return(c, "OK") /\ UNCHANGED results
  /\ UNCHANGED <<cluster, poolConns, resultsCh, op, cancelled, dbs, missed,
                 left, errs, workVars>>

-----------------------------------------------------------------------------
(* A goroutine of forEachDatabase: the list...ForDatabase functions, which *)
(* differ in their query and in what they do with a row.  The deferred     *)
(* calls run last in, first out: rows.Close and pool.Close, then Release.  *)

Goto(w, from, to) == wpc[w] = from /\ wpc' = [wpc EXCEPT ![w] = to]

\* `return nil, err`: the rows scanned so far are dropped.
ReturnErr(w) ==
  /\ err' = [err EXCEPT ![w] = TRUE]
  /\ rows' = [rows EXCEPT ![w] = 0]

goUnchanged == <<cluster, poolConns, callVars>>

\* s.coordinator.Acquire returns nil.
Acquire(w) ==
  /\ Goto(w, "acquire", "connect")
  /\ Permits!Grant(w, w[2])
  /\ UNCHANGED <<goUnchanged, resultsCh, rows, err, conns>>

\* Mutation: Acquire is called without the call's context.
AcquireIgnoresContext(w) ==
  /\ FALSE
  /\ UNCHANGED vars

\* Acquire returns ctx.Err(): nothing to release.
AcquireCancelled(w) ==
  /\ cancelled[w[1]]
  /\ Goto(w, "acquire", "send")
  /\ ReturnErr(w)
  /\ UNCHANGED <<goUnchanged, resultsCh, holds, conns>>

\* pgxpool.New opens no connection yet.
NewPool(w) ==
  /\ Goto(w, "connect", "query")
  /\ UNCHANGED <<goUnchanged, resultsCh, rows, err, holds, conns>>

\* Mutation: the permit is not given back when pgxpool.New fails.
NewPoolFailsKeepingPermit(w) ==
  /\ Goto(w, "connect", "send")
  /\ ReturnErr(w)
  /\ UNCHANGED <<goUnchanged, resultsCh, holds, conns>>

\* pgxpool.New fails: there is no pool to close.
NewPoolFails(w) ==
  /\ Goto(w, "connect", "release")
  /\ ReturnErr(w)
  /\ UNCHANGED <<goUnchanged, resultsCh, holds, conns>>

\* pool.Query connects and sends the query.
Query(w) ==
  /\ w[2] \in cluster
  /\ Goto(w, "query", "rows")
  /\ conns' = conns \cup {w}
  /\ UNCHANGED <<goUnchanged, resultsCh, rows, err, holds>>

\* The database is gone, refuses the connection or the query, or the context
\* is done.  The connection may be open then, until the pool is closed.
QueryFails(w) ==
  /\ Goto(w, "query", "close")
  /\ ReturnErr(w)
  /\ conns' = conns \/ (w[2] \in cluster /\ conns' = conns \cup {w})
  /\ UNCHANGED <<goUnchanged, resultsCh, holds>>

\* rows.Next and a Scan that succeeds.
NextRow(w) ==
  /\ wpc[w] = "rows"
  /\ rows[w] < RowCount[w[2]]
  /\ rows' = [rows EXCEPT ![w] = @ + 1]
  /\ UNCHANGED <<goUnchanged, resultsCh, wpc, err, holds, conns>>

\* rows.Next returns false and rows.Err is nil.
RowsEnd(w) ==
  /\ rows[w] = RowCount[w[2]]
  /\ Goto(w, "rows", "close")
  /\ UNCHANGED <<goUnchanged, resultsCh, rows, err, holds, conns>>

\* Mutation: rows.Err is not asked after the loop, as in ListDatabases.
RowsFailUnseen(w) ==
  /\ Goto(w, "rows", "close")
  /\ UNCHANGED <<goUnchanged, resultsCh, rows, err, holds, conns>>

\* A Scan fails, a JSON document of a table does not unmarshal, or rows.Err is
\* not nil after the loop.
RowsFail(w) ==
  /\ Goto(w, "rows", "close")
  /\ ReturnErr(w)
  /\ UNCHANGED <<goUnchanged, resultsCh, holds, conns>>

\* Mutation: Release is deferred after pool.Close, so it runs before it.
ClosePoolAfterRelease(w) ==
  /\ \/ /\ Goto(w, "close", "release")
        /\ Permits!Release(w, w[2])
        /\ UNCHANGED conns
     \/ /\ wpc[w] = "release" /\ w \in conns
        /\ conns' = conns \ {w}
        /\ UNCHANGED <<wpc, holds>>
  /\ UNCHANGED <<goUnchanged, resultsCh, rows, err>>

\* rows.Close and pool.Close: the connection, if any, is closed.
ClosePool(w) ==
  /\ Goto(w, "close", "release")
  /\ conns' = conns \ {w}
  /\ UNCHANGED <<goUnchanged, resultsCh, rows, err, holds>>

\* s.coordinator.Release(dbName)
Release(w) ==
  /\ Goto(w, "release", "send")
  /\ Permits!Release(w, w[2])
  /\ UNCHANGED <<goUnchanged, resultsCh, rows, err, conns>>

\* Mutation: a goroutine that fails returns without sending.
SendErrorLost(w) ==
  /\ Cardinality(resultsCh[w[1]]) < Cardinality(dbs[w[1]])
  /\ Goto(w, "send", "none")
  /\ resultsCh' = [resultsCh EXCEPT ![w[1]] = @ \cup {b \in {Batch(w)} : ~b.err}]
  /\ rows' = [rows EXCEPT ![w] = 0]
  /\ err' = [err EXCEPT ![w] = FALSE]
  /\ UNCHANGED <<goUnchanged, holds, conns>>

\* resultsCh <- result: the channel has room for one result per database.
Send(w) ==
  /\ Cardinality(resultsCh[w[1]]) < Cardinality(dbs[w[1]])
  /\ Goto(w, "send", "none")
  /\ resultsCh' = [resultsCh EXCEPT ![w[1]] = @ \cup {Batch(w)}]
  /\ rows' = [rows EXCEPT ![w] = 0]
  /\ err' = [err EXCEPT ![w] = FALSE]
  /\ UNCHANGED <<goUnchanged, holds, conns>>

ForDatabase(w) ==
  \/ Acquire(w) \/ AcquireCancelled(w)
  \/ NewPool(w) \/ NewPoolFails(w)
  \/ Query(w) \/ QueryFails(w)
  \/ NextRow(w) \/ RowsEnd(w) \/ RowsFail(w)
  \/ ClosePool(w) \/ Release(w)

listSchemasForDatabase(w) == op[w[1]] = "ListSchemas" /\ ForDatabase(w)
listInstalledExtensionsForDatabase(w) ==
  op[w[1]] = "ListExtensions" /\ ForDatabase(w)
listSequencesForDatabase(w) == op[w[1]] = "ListSequences" /\ ForDatabase(w)
listFunctionsForDatabase(w) == op[w[1]] = "ListFunctions" /\ ForDatabase(w)
listTablesForDatabase(w) == op[w[1]] = "ListTables" /\ ForDatabase(w)

-----------------------------------------------------------------------------
(* The operations, each up to its first query on the shared pool. *)

ListDatabases(c) == Start(c, "ListDatabases", "databases")
GetServerInfo(c) == Start(c, "GetServerInfo", "info")
ListSchemas(c) == Start(c, "ListSchemas", "databases")
ListExtensions(c) == Start(c, "ListExtensions", "available")
ListSequences(c) == Start(c, "ListSequences", "databases")
ListFunctions(c) == Start(c, "ListFunctions", "databases")
ListTables(c) == Start(c, "ListTables", "databases")

PoolRead(c) ==
  \/ PoolFails(c)
  \/ ServerInfoRead(c)
  \/ AvailableRead(c)
  \/ DatabasesRead(c)
  \/ DatabasesCut(c)

Next ==
  \/ \E d \in Databases : CreateDatabase(d) \/ DropDatabase(d)
  \/ \E c \in Calls :
       \/ ListDatabases(c) \/ GetServerInfo(c) \/ ListSchemas(c)
       \/ ListExtensions(c) \/ ListSequences(c) \/ ListFunctions(c)
       \/ ListTables(c)
       \/ Cancel(c) \/ Finish(c)
       \/ PoolQuery(c) \/ PoolRead(c)
       \/ Receive(c) \/ ForEachReturns(c)
  \/ \E w \in Goroutines :
       \/ listSchemasForDatabase(w) \/ listInstalledExtensionsForDatabase(w)
       \/ listSequencesForDatabase(w) \/ listFunctionsForDatabase(w)
       \/ listTablesForDatabase(w)
       \/ Send(w)

Spec == Init /\ [][Next]_vars

(* What the Go runtime and pgx give without any help from a database:      *)
(* goroutines that can run do run, a select whose context is done returns, *)
(* pgx aborts what it waits for once the context is done, and pool.Close   *)
(* ends.                                                                   *)
CodeFairness ==
  /\ \A c \in Calls :
       /\ WF_vars(Receive(c)) /\ WF_vars(ForEachReturns(c))
       /\ WF_vars(cancelled[c] /\ PoolRead(c))
  /\ \A w \in Goroutines :
       /\ WF_vars(NewPool(w) \/ NewPoolFails(w))
       /\ WF_vars(ClosePool(w)) /\ WF_vars(Release(w)) /\ WF_vars(Send(w))
       /\ WF_vars(AcquireCancelled(w))
       /\ WF_vars(cancelled[w[1]] /\ (QueryFails(w) \/ RowsFail(w)))

(* Databases that answer every query, with rows or with an error.  A       *)
(* channel serves its senders, and the pool its waiters, in FIFO order:    *)
(* strong fairness for the permit and for a pooled connection.             *)
DatabaseFairness ==
  /\ \A c \in Calls :
       SF_vars(PoolQuery(c)) /\ WF_vars(c \in poolConns /\ PoolRead(c))
  /\ \A w \in Goroutines :
       /\ SF_vars(Acquire(w))
       /\ WF_vars(Query(w) \/ QueryFails(w))
       /\ WF_vars(NextRow(w) \/ RowsEnd(w) \/ RowsFail(w))

FairSpec == Spec /\ CodeFairness

-----------------------------------------------------------------------------
WorkPlaces ==
  {"none", "acquire", "connect", "query", "rows", "close", "release", "send"}

Batches == [db : Databases, rows : Nat, err : BOOLEAN]

(* The variables' types; the shared pool is never over its size, and a     *)
(* channel never over its capacity.                                        *)
TypeOK ==
  /\ cluster \subseteq Databases
  /\ phase \in [Calls -> {"idle", "fanin", "returned"} \cup PoolPhases]
  /\ op \in [Calls -> AllOperations \cup {"none"}]
  /\ cancelled \in [Calls -> BOOLEAN]
  /\ poolConns \subseteq Calls /\ Cardinality(poolConns) \leq MaxConns
  /\ dbs \in [Calls -> SUBSET Databases]
  /\ missed \in [Calls -> SUBSET Databases]
  /\ left \in [Calls -> Nat]
  /\ resultsCh \in [Calls -> SUBSET Batches]
  /\ \A c \in Calls : Cardinality(resultsCh[c]) \leq Cardinality(dbs[c])
  /\ results \in [Calls -> SUBSET Batches]
  /\ errs \in [Calls -> Nat]
  /\ reply \in [Calls -> {"none", "OK", "Internal"}]
  /\ wpc \in [Goroutines -> WorkPlaces]
  /\ rows \in [Goroutines -> Nat]
  /\ err \in [Goroutines -> BOOLEAN]
  /\ Permits!PermitTypeOK
  /\ conns \subseteq Goroutines

(* At most one of the per-database pools has a connection to a database at *)
(* a time, whatever mix of calls, errors and cancellations is under way.   *)
(* It needs the permit to outlive the connection on every return path.     *)
OneConnectionPerDatabase ==
  \A v, w \in conns : v # w => v[2] # w[2]

(* A fan-out that returns OK has each listed database exactly once and     *)
(* with all of its rows; one that returns an error has no rows at all.     *)
(* The loop receives once per listed database, so none of the sets of      *)
(* batches can hide that one came twice: another would be missing.         *)
AllOrNothing ==
  \A c \in Calls :
    /\ reply[c] = "OK" /\ op[c] \notin {"ListDatabases", "GetServerInfo"} =>
         results[c] = {[db |-> d, rows |-> RowCount[d], err |-> FALSE]
                         : d \in dbs[c]}
    /\ reply[c] = "Internal" => results[c] = {}

(* A call that has returned has left nothing behind: no goroutine, no      *)
(* permit, no connection of its own and none of the shared pool's, and     *)
(* nobody sends to its channel any more.                                   *)
QuiescentOnReturn ==
  \A c \in Calls :
    phase[c] \in {"idle", "returned"} =>
      /\ c \notin poolConns
      /\ resultsCh[c] = {}
      /\ \A d \in Databases :
           /\ wpc[<<c, d>>] = "none"
           /\ holds[<<c, d>>] = NoDb
           /\ <<c, d>> \notin conns

(* Store implements Listing: to its handler a call is one listing and then *)
(* one complete answer or one error, whatever its goroutines go through.   *)
StatusOf(c) ==
  CASE phase[c] = "idle" -> "idle"
    [] phase[c] \in PoolPhases -> "asked"
    [] phase[c] = "fanin" -> "listed"
    [] phase[c] = "returned" -> "answered"

Listings == INSTANCE Listing WITH
  status <- [c \in Calls |-> StatusOf(c)],
  listed <- dbs,
  answer <- [c \in Calls |->
               [reply |-> reply[c],
                batches |-> IF reply[c] = "none" THEN {} ELSE results[c]]]

(* The answers a handler sees are those of Listing.                        *)
ImplementsListing == Listings!Spec

(* "Returns an aggregated list of sequences from every database"           *)
(* (store.go:151), "Returns a list of all tables from every database"      *)
(* (tables.go:12): a reply that is not an error lacks no database that     *)
(* existed when the list was read and still exists.                        *)
ListsEveryDatabase ==
  \A c \in Calls : reply[c] = "OK" => missed[c] = {}

(* A cancelled call returns even if no database ever answers and whoever   *)
(* holds the permits it waits for never releases them.                     *)
CancelledCallReturns ==
  \A c \in Calls : cancelled[c] ~> phase[c] = "returned"

(* If databases answer, every call returns: no call starves for a permit   *)
(* or for a connection of the shared pool, however many calls run.         *)
CallReturns ==
  DatabaseFairness =>
    \A c \in Calls : phase[c] # "idle" ~> phase[c] = "returned"
=============================================================================
