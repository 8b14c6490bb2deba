----------------------------- MODULE Extractor -----------------------------
(***************************************************************************)
(* The extractor process: main, the gRPC server and signals of Lifecycle   *)
(* together with the calls, goroutines and permits of Store, and with      *)
(* ListBackups, the call that runs pgbackrest in place of a query.  A call *)
(* is under way in Lifecycle's sense exactly while one of the two works on *)
(* it.  Lifecycle assumes that calls return and that the pool can be       *)
(* closed; here both follow from what Store's goroutines and pgbackrest    *)
(* do, or fail to.                                                         *)
(*                                                                         *)
(* Store and main meet at the shared pool: pool.Close gives out no more    *)
(* connections and waits for those in use.                                 *)
(*                                                                         *)
(* Of ListBackups only that it waits is kept; Backups has the process, its *)
(* output and the reply.                                                   *)
(* The server's databases, which come and go in Store, stay the same here. *)
(***************************************************************************)
EXTENDS Naturals, FiniteSets

CONSTANTS
  Calls, Databases, DefaultDb, NoDb, RowCount, MaxConns, Operations, Chosen

VARIABLES
  config, stage, connStr, pool, serveGo, draining, connected, errCh, notified,
  sigCh, cut, exit,
  cluster, phase, op, cancelled, poolConns, dbs, missed, left, resultsCh,
  results, errs, reply, wpc, rows, err, holds, conns,
  backups,  \* the calls of ListBackups, each waiting for its pgbackrest
  gaveUp    \* those of them whose context is done

mainVars == <<config, stage, connStr, pool, serveGo, draining, connected,
              errCh, notified, sigCh, cut, exit>>

storeVars == <<cluster, phase, op, cancelled, poolConns, dbs, missed, left,
               resultsCh, results, errs, reply, wpc, rows, err, holds, conns>>
backupVars == <<backups, gaveUp>>
vars == <<mainVars, storeVars, backupVars>>

S == INSTANCE Store

Running == exit = "running"

\* The calls a handler works on; the end of the process ends them.
Handlers ==
  IF Running THEN backups \cup {c \in Calls : phase[c] \notin {"idle", "returned"}}
             ELSE {}

L == INSTANCE Lifecycle WITH handlers <- Handlers

ASSUME ExtractorAssumption == S!StoreAssumption /\ L!LifecycleAssumption

Init ==
  /\ S!Init
  /\ backups = {} /\ gaveUp = {}
  /\ Running
  /\ L!Init

-----------------------------------------------------------------------------
(* main, the Serve goroutine and signals leave the calls as they are. *)

Ends == {"0", "1", "killed"}

Alone == UNCHANGED <<storeVars, backupVars>> /\ exit' \in {exit} \cup Ends

\* pool.Close returns once every connection of the pool was given back.
ClosePool == poolConns = {} /\ L!ClosePool

Startup == Alone /\ L!Startup
Shutdown ==
  Alone /\ (L!SelectSignal \/ L!SelectServeResult \/ L!GracefulStop
            \/ ClosePool \/ L!Exit)
Serve == Alone /\ L!Serve
ServeEnds == Alone /\ (L!ServeFails \/ L!ServeReturns)
Signal == Alone /\ L!Signal
Ended == ~Running /\ UNCHANGED vars

-----------------------------------------------------------------------------
(* The server calls a handler, and the handler the store. *)

Call(c) ==
  \/ S!ListDatabases(c) \/ S!GetServerInfo(c) \/ S!ListSchemas(c)
  \/ S!ListExtensions(c) \/ S!ListSequences(c) \/ S!ListFunctions(c)
  \/ S!ListTables(c)

\* Mutation: main's server does not know of the call.
BeginCallUnseen(c) ==
  Running /\ UNCHANGED <<mainVars, backupVars>> /\ c \notin backups /\ Call(c)

BeginCall(c) ==
  /\ Call(c)
  /\ UNCHANGED <<exit, backupVars>>
  /\ L!BeginCall(c)

\* main is not yet at pool.Close.
PoolLends == stage \notin {"close", "exit"}

\* A step of a handler, of a goroutine or of the server they ask.
Work == Running /\ UNCHANGED <<mainVars, backupVars>>

PoolQuery(c) == PoolLends /\ S!PoolQuery(c)

CallStep(c) ==
  \/ S!Cancel(c) \/ S!Finish(c) \/ PoolQuery(c) \/ S!PoolRead(c)
  \/ S!Receive(c) \/ S!ForEachReturns(c)

GoStep(w) ==
  \/ S!listSchemasForDatabase(w) \/ S!listInstalledExtensionsForDatabase(w)
  \/ S!listSequencesForDatabase(w) \/ S!listFunctionsForDatabase(w)
  \/ S!listTablesForDatabase(w)
  \/ S!Send(w)

-----------------------------------------------------------------------------
(* Server.ListBackups: the handler that uses neither the pool nor permits. *)

\* The handler starts pgbackrest and waits for its output.
ListBackups(c) ==
  /\ phase[c] = "idle"
  /\ backups' = backups \cup {c}
  /\ UNCHANGED <<gaveUp, storeVars, exit>>
  /\ L!BeginCall(c)

\* The client goes away or its deadline passes.
CancelBackups(c) ==
  /\ Running /\ c \in backups \ gaveUp
  /\ gaveUp' = gaveUp \cup {c}
  /\ UNCHANGED <<mainVars, storeVars, backups>>

\* pgbackrest has ended, or was killed for the context, and its output is
\* closed: the handler answers with what it makes of it, or with an error.
ListBackupsReturns(c) ==
  /\ Running /\ c \in backups
  /\ backups' = backups \ {c}
  /\ gaveUp' = gaveUp \ {c}
  /\ UNCHANGED <<mainVars, storeVars>>

Next ==
  \/ Startup \/ Shutdown \/ Serve \/ ServeEnds \/ Signal
  \/ \E c \in Calls : BeginCall(c) \/ (Work /\ CallStep(c))
  \/ \E c \in Calls : ListBackups(c) \/ CancelBackups(c) \/ ListBackupsReturns(c)
  \/ \E w \in S!Goroutines : Work /\ GoStep(w)
  \/ Ended

Spec == Init /\ [][Next]_vars

(* main and the Serve goroutine run when they can; pgx and the Go runtime  *)
(* do what Store's CodeFairness says, as long as the process lives.  A     *)
(* pgbackrest that is killed dies, and those it has left behind, which     *)
(* Output waits for, end (the fairness of Backups).                        *)
CodeFairness ==
  /\ WF_vars(Startup) /\ WF_vars(Shutdown) /\ WF_vars(Serve)
  /\ \A c \in Calls :
       /\ WF_vars(Work /\ S!Receive(c)) /\ WF_vars(Work /\ S!ForEachReturns(c))
       /\ WF_vars(Work /\ cancelled[c] /\ S!PoolRead(c))
       /\ WF_vars(Work /\ ~PoolLends /\ c \notin poolConns /\ S!PoolFails(c))
       /\ WF_vars(c \in gaveUp /\ ListBackupsReturns(c))
  /\ \A w \in S!Goroutines :
       /\ WF_vars(Work /\ (S!NewPool(w) \/ S!NewPoolFails(w)))
       /\ WF_vars(Work /\ S!ClosePool(w)) /\ WF_vars(Work /\ S!Release(w))
       /\ WF_vars(Work /\ S!Send(w)) /\ WF_vars(Work /\ S!AcquireCancelled(w))
       /\ WF_vars(Work /\ cancelled[w[1]] /\ (S!QueryFails(w) \/ S!RowsFail(w)))

\* Databases answer; channels and the pool serve those who wait in their order.
DatabaseFairness ==
  /\ \A c \in Calls :
       /\ SF_vars(Work /\ PoolQuery(c))
       /\ WF_vars(Work /\ c \in poolConns /\ S!PoolRead(c))
  /\ \A w \in S!Goroutines :
       /\ SF_vars(Work /\ S!Acquire(w))
       /\ WF_vars(Work /\ (S!Query(w) \/ S!QueryFails(w)))
       /\ WF_vars(Work /\ (S!NextRow(w) \/ S!RowsEnd(w) \/ S!RowsFail(w)))

\* pgbackrest does not hang.
BackrestFairness == \A c \in Calls : WF_vars(ListBackupsReturns(c))

\* Clients give up calls that take too long.
ClientFairness ==
  \A c \in Calls : WF_vars(Work /\ S!Cancel(c)) /\ WF_vars(CancelBackups(c))

FairSpec == Spec /\ CodeFairness

-----------------------------------------------------------------------------
(* The extractor implements Lifecycle: seen from main, calls begin and end *)
(* as it assumes, whatever the store does with them.                       *)
ImplementsLifecycle == L!Spec

(* When main returns after a signal, every permit is free, every database  *)
(* connection closed, no goroutine of a call is left, and no pgbackrest    *)
(* that a call waits for.                                                  *)
NothingLeftBehind ==
  exit = "0" /\ draining =>
    /\ poolConns = {} /\ conns = {} /\ backups = {}
    /\ \A w \in S!Goroutines : wpc[w] = "none" /\ holds[w] = NoDb

\* A call under way waits for pgbackrest, is at a query on the shared pool, or
\* has nothing more to receive, or will receive what was sent or is to be sent
\* by a goroutine.
CallGoesSomewhere(c) ==
  \/ c \in backups
  \/ phase[c] \in S!PoolPhases
  \/ /\ phase[c] = "fanin"
     /\ \/ left[c] = 0 \/ resultsCh[c] # {}
        \/ \E d \in Databases : wpc[<<c, d>>] # "none"

\* A call that has a connection of the shared pool waits for no goroutine and
\* no permit.
PoolUserIsAlone(c) ==
  /\ phase[c] \in S!PoolPhases
  /\ \A d \in Databases : wpc[<<c, d>>] = "none" /\ holds[<<c, d>>] = NoDb

(* Shutdown joins no circle of waiting: the calls GracefulStop waits for   *)
(* do not wait for main or for a result that nobody sends, and pool.Close  *)
(* waits for nothing after it, and otherwise for queries under way, never  *)
(* for a call that is waiting for a permit or for its goroutines.          *)
ShutdownWaits ==
  /\ \A c \in Handlers : CallGoesSomewhere(c)
  /\ draining /\ stage = "close" => poolConns = {}
  /\ \A c \in poolConns : PoolUserIsAlone(c)

(* A signal ends the process: if databases answer and pgbackrest does not  *)
(* hang, or else if clients give up, even when both hang.                  *)
SignalStops ==
  (DatabaseFairness /\ BackrestFairness) \/ ClientFairness =>
    (notified /\ sigCh > 0) ~> (exit # "running")

(* When Serve fails the process ends, under the same conditions, although  *)
(* connected clients keep calling and the pool is closed under their calls.*)
ServeFailureStops ==
  (DatabaseFairness /\ BackrestFairness) \/ ClientFairness =>
    (serveGo = "returned" /\ ~draining) ~> (exit # "running")
=============================================================================
