-------------------------- MODULE ExtractorProofs --------------------------
(***************************************************************************)
(* Proofs about Extractor, for any calls, databases and configurations:    *)
(* its store half is a behaviour of Store and its main half, with the      *)
(* calls that the store or ListBackups works on as handlers, one of        *)
(* Lifecycle; from Store's inductive invariant and a few facts about main, *)
(* what main waits for and what the process leaves behind when it ends.    *)
(***************************************************************************)
EXTENDS Extractor, TLAPS

\* Store with its theorems.
SP == INSTANCE StoreProofs

-----------------------------------------------------------------------------
(* The inductive invariant: Store's, that a call of ListBackups is none of *)
(* the store's, and what main has seen to.                                 *)

BackupsInv ==
  /\ backups \subseteq Calls
  /\ \A c \in backups : phase[c] = "idle"

Quiet == backups = {} /\ \A c \in Calls : phase[c] \in {"idle", "returned"}

\* Main drains only after its select, and leaves GracefulStop only when no call
\* is under way; the pool is closed when none of its connections is in use.
MainInv ==
  /\ draining => stage \in {"stopping", "close", "exit"}
  /\ draining /\ stage \in {"close", "exit"} => Quiet
  /\ stage = "exit" => poolConns = {}
  /\ pool = "closed" => stage = "exit"
  /\ exit = "0" => stage = "exit"

IndInv == SP!IndInv /\ BackupsInv /\ MainInv

-----------------------------------------------------------------------------
(* The definitions of S and SP are those of one module; the provers see two *)
(* sets of names and are shown that the actions agree.                      *)

\* What Store assumes of its constants is assumed of the extractor's.
LEMMA StoreConstants == SP!StoreAssumption
  BY ExtractorAssumption
  DEF S!StoreAssumption, SP!StoreAssumption, S!AllOperations, SP!AllOperations,
      S!IsFiniteSet, SP!IsFiniteSet

\* The initial states of the store.
LEMMA SameInit == S!Init => SP!Init
  BY DEF S!Init, SP!Init, S!Permits!Init, SP!Permits!Init, S!Goroutines,
         SP!Goroutines

\* The steps of a goroutine between Acquire and Release.
LEMMA SameForDatabase ==
  ASSUME NEW w, S!ForDatabase(w)
  PROVE  SP!ForDatabase(w)
<1> USE DEF S!Goto, SP!Goto, S!ReturnErr, SP!ReturnErr, S!goUnchanged,
            SP!goUnchanged, S!callVars, SP!callVars, S!Goroutines, SP!Goroutines
<1>1. S!Acquire(w) => SP!Acquire(w)
  BY DEF S!Acquire, SP!Acquire, S!Permits!Grant, SP!Permits!Grant,
         S!Permits!Free, SP!Permits!Free
<1>2. S!AcquireCancelled(w) => SP!AcquireCancelled(w)
  BY DEF S!AcquireCancelled, SP!AcquireCancelled
<1>3. S!NewPool(w) => SP!NewPool(w)
  BY DEF S!NewPool, SP!NewPool
<1>4. S!NewPoolFails(w) => SP!NewPoolFails(w)
  BY DEF S!NewPoolFails, SP!NewPoolFails
<1>5. S!Query(w) => SP!Query(w)
  BY DEF S!Query, SP!Query
<1>6. S!QueryFails(w) => SP!QueryFails(w)
  BY DEF S!QueryFails, SP!QueryFails
<1>7. S!NextRow(w) => SP!NextRow(w)
  BY DEF S!NextRow, SP!NextRow
<1>8. S!RowsEnd(w) => SP!RowsEnd(w)
  BY DEF S!RowsEnd, SP!RowsEnd
<1>9. S!RowsFail(w) => SP!RowsFail(w)
  BY DEF S!RowsFail, SP!RowsFail
<1>10. S!ClosePool(w) => SP!ClosePool(w)
  BY DEF S!ClosePool, SP!ClosePool
<1>11. S!Release(w) => SP!Release(w)
  BY DEF S!Release, SP!Release, S!Permits!Release, SP!Permits!Release
<1> QED
  BY <1>1, <1>2, <1>3, <1>4, <1>5, <1>6, <1>7, <1>8, <1>9, <1>10, <1>11
  DEF S!ForDatabase, SP!ForDatabase

\* The steps of a call.
LEMMA SameCallSteps ==
  ASSUME NEW c \in Calls
  PROVE  /\ \A o, p : S!Start(c, o, p) => SP!Start(c, o, p)
         /\ S!Cancel(c) => SP!Cancel(c)
         /\ S!Finish(c) => SP!Finish(c)
         /\ S!PoolQuery(c) => SP!PoolQuery(c)
         /\ S!PoolRead(c) => SP!PoolRead(c)
         /\ S!Receive(c) => SP!Receive(c)
         /\ S!ForEachReturns(c) => SP!ForEachReturns(c)
<1> USE DEF S!callVars, SP!callVars, S!workVars, SP!workVars, S!Return,
            SP!Return, S!PoolPhases, SP!PoolPhases
<1>1. \A o, p : S!Start(c, o, p) => SP!Start(c, o, p)
  BY DEF S!Start, SP!Start
<1>2. S!Cancel(c) => SP!Cancel(c)
  BY DEF S!Cancel, SP!Cancel
<1>3. S!Finish(c) => SP!Finish(c)
  BY DEF S!Finish, SP!Finish
<1>4. S!PoolQuery(c) => SP!PoolQuery(c)
  BY DEF S!PoolQuery, SP!PoolQuery, S!Cardinality, SP!Cardinality
<1>5. S!PoolRead(c) => SP!PoolRead(c)
  <2>1. S!PoolFails(c) => SP!PoolFails(c)
    BY DEF S!PoolFails, SP!PoolFails
  <2>2. S!ServerInfoRead(c) => SP!ServerInfoRead(c)
    BY DEF S!ServerInfoRead, SP!ServerInfoRead
  <2>3. S!AvailableRead(c) => SP!AvailableRead(c)
    BY DEF S!AvailableRead, SP!AvailableRead
  <2>4. \A listed : S!DatabasesListed(c, listed) => SP!DatabasesListed(c, listed)
    BY DEF S!DatabasesListed, SP!DatabasesListed, S!SpawnForEach,
           SP!SpawnForEach, S!Goroutines, SP!Goroutines, S!Cardinality,
           SP!Cardinality
  <2> QED
    BY <2>1, <2>2, <2>3, <2>4
    DEF S!PoolRead, SP!PoolRead, S!DatabasesRead, SP!DatabasesRead,
        S!DatabasesCut, SP!DatabasesCut
<1>6. S!Receive(c) => SP!Receive(c)
  BY DEF S!Receive, SP!Receive
<1>7. S!ForEachReturns(c) => SP!ForEachReturns(c)
  BY DEF S!ForEachReturns, SP!ForEachReturns
<1> QED
  BY <1>1, <1>2, <1>3, <1>4, <1>5, <1>6, <1>7

\* A goroutine sends its result.
LEMMA SameSend ==
  ASSUME NEW w, S!Send(w)
  PROVE  SP!Send(w)
  BY DEF S!Send, SP!Send, S!Goto, SP!Goto, S!Batch, SP!Batch, S!goUnchanged,
         SP!goUnchanged, S!callVars, SP!callVars, S!Cardinality, SP!Cardinality

-----------------------------------------------------------------------------
(* Extractor implements Store. *)

\* A step of the extractor is, on the store, one of Store's steps or none; the
\* monitored server's own steps do not occur.
LEMMA NextStore ==
  ASSUME [Next]_vars
  PROVE  [S!Next]_(S!vars)
<1> USE DEF S!vars, S!callVars, S!workVars, storeVars
<1>1. CASE Startup \/ Shutdown \/ Serve \/ ServeEnds \/ Signal
  BY <1>1 DEF Startup, Shutdown, Serve, ServeEnds, Signal, Alone
<1>2. ASSUME NEW c \in Calls, BeginCall(c) PROVE S!Next
  BY <1>2 DEF BeginCall, Call, S!Next
<1>3. ASSUME NEW c \in Calls, CallStep(c) PROVE S!Next
  BY <1>3 DEF CallStep, PoolQuery, S!Next
<1>4. ASSUME NEW w \in S!Goroutines, GoStep(w) PROVE S!Next
  BY <1>4 DEF GoStep, S!Next
<1>5. CASE \/ \E c \in Calls : ListBackups(c) \/ CancelBackups(c)
                              \/ ListBackupsReturns(c)
           \/ Ended \/ UNCHANGED vars
  BY <1>5 DEF ListBackups, CancelBackups, ListBackupsReturns, Ended, vars
<1> QED
  BY <1>1, <1>2, <1>3, <1>4, <1>5 DEF Next

(* The store half of the extractor behaves as Store says, whatever main and *)
(* signals do: every theorem about Store holds in the process it runs in.   *)
THEOREM ExtractorImplementsStore == Spec => S!Spec
<1>1. Init => S!Init
  BY DEF Init
<1>2. [Next]_vars => [S!Next]_(S!vars)
  BY NextStore
<1> QED
  BY <1>1, <1>2, PTL DEF Spec, S!Spec

\* Under the names StoreProofs uses.
LEMMA NextSame ==
  ASSUME [Next]_vars
  PROVE  [SP!Next]_(SP!vars)
<1>1. CASE UNCHANGED S!vars
  BY <1>1 DEF S!vars, SP!vars, S!callVars, SP!callVars, S!workVars, SP!workVars
<1>2. ASSUME NEW c \in Calls, Call(c) PROVE SP!Next
  <2>1. \A o, p : S!Start(c, o, p) => SP!Start(c, o, p)
    BY SameCallSteps
  <2> QED
    BY <1>2, <2>1
    DEF Call, SP!Next, S!ListDatabases, SP!ListDatabases, S!GetServerInfo,
        SP!GetServerInfo, S!ListSchemas, SP!ListSchemas, S!ListExtensions,
        SP!ListExtensions, S!ListSequences, SP!ListSequences, S!ListFunctions,
        SP!ListFunctions, S!ListTables, SP!ListTables
<1>3. ASSUME NEW c \in Calls, CallStep(c) PROVE SP!Next
  BY <1>3, SameCallSteps DEF CallStep, PoolQuery, SP!Next
<1>4. ASSUME NEW w \in S!Goroutines, GoStep(w) PROVE SP!Next
  <2>1. w \in SP!Goroutines
    BY DEF S!Goroutines, SP!Goroutines
  <2> QED
    BY <1>4, <2>1, SameForDatabase, SameSend
    DEF GoStep, SP!Next, S!listSchemasForDatabase, SP!listSchemasForDatabase,
        S!listInstalledExtensionsForDatabase,
        SP!listInstalledExtensionsForDatabase, S!listSequencesForDatabase,
        SP!listSequencesForDatabase, S!listFunctionsForDatabase,
        SP!listFunctionsForDatabase, S!listTablesForDatabase,
        SP!listTablesForDatabase
<1>5. CASE \/ Startup \/ Shutdown \/ Serve \/ ServeEnds \/ Signal
           \/ \E c \in Calls : ListBackups(c) \/ CancelBackups(c)
                              \/ ListBackupsReturns(c)
           \/ Ended \/ UNCHANGED vars
  <2>1. UNCHANGED storeVars
    BY <1>5 DEF Startup, Shutdown, Serve, ServeEnds, Signal, Alone, ListBackups,
       CancelBackups, ListBackupsReturns, Ended, vars
  <2> QED
    BY <1>1, <2>1 DEF storeVars, S!vars, S!callVars, S!workVars
<1> QED
  BY <1>2, <1>3, <1>4, <1>5 DEF Next, BeginCall

\* Store's inductive invariant holds in the extractor.
THEOREM ExtractorStoreInv == Spec => []SP!IndInv
<1>1. Init => SP!IndInv
  BY SameInit, SP!InitIndInv, StoreConstants DEF Init
<1>2. SP!IndInv /\ [Next]_vars => SP!IndInv'
  BY NextSame, SP!NextIndInv, StoreConstants
<1> QED
  BY <1>1, <1>2, PTL DEF Spec

-----------------------------------------------------------------------------
(* Extractor implements Lifecycle. *)

\* No handler begins or ends.
LEMMA HandlersKept ==
  ASSUME UNCHANGED <<exit, phase, backups>>
  PROVE  Handlers' = Handlers
  BY DEF Handlers, Running

\* A step of the store that returns a call ends its handler.
LEMMA ReturnEndsCall ==
  ASSUME SP!TypeOK, BackupsInv, NEW c \in Calls, Work,
         phase[c] \notin {"idle", "returned"},
         phase' = [phase EXCEPT ![c] = "returned"]
  PROVE  L!EndCall(c)
<1>1. phase \in [Calls -> {"idle", "fanin", "returned"} \cup SP!PoolPhases]
  BY DEF SP!TypeOK
<1>2. Running /\ exit' = exit /\ backups' = backups /\ c \notin backups
  BY DEF Work, mainVars, backupVars, BackupsInv
<1>3. c \in Handlers /\ Handlers' = Handlers \ {c}
  BY <1>1, <1>2 DEF Handlers, Running
<1> QED
  BY <1>2, <1>3 DEF Running, Work, mainVars, L!EndCall, L!Running, L!mainVars,
     L!endVars

\* A step of the store that moves a call on, or that frees the slot of one that
\* has returned, is none of main's business.
LEMMA CallGoesOn ==
  ASSUME SP!TypeOK, NEW c \in Calls, Work, NEW p,
         phase' = [phase EXCEPT ![c] = p],
         phase[c] \in {"idle", "returned"} <=> p \in {"idle", "returned"}
  PROVE  UNCHANGED L!vars
<1>1. phase \in [Calls -> {"idle", "fanin", "returned"} \cup SP!PoolPhases]
  BY DEF SP!TypeOK
<1>2. Handlers' = Handlers
  BY <1>1 DEF Handlers, Running, Work, mainVars, backupVars
<1> QED
  BY <1>2 DEF Work, mainVars, L!vars, L!mainVars, L!serverVars, L!endVars

\* What a step of a call does to its phase.
LEMMA CallStepPhase ==
  ASSUME NEW c \in Calls, CallStep(c)
  PROVE  \/ phase' = phase
         \/ /\ phase[c] \notin {"idle", "returned"}
            /\ phase' = [phase EXCEPT ![c] = "returned"]
         \/ \E p : /\ phase[c] # "idle"
                   /\ phase' = [phase EXCEPT ![c] = p]
                   /\ phase[c] \in {"idle", "returned"}
                        <=> p \in {"idle", "returned"}
<1> USE DEF S!callVars, S!Return, S!PoolPhases
<1>1. CASE S!Cancel(c) \/ S!PoolQuery(c) \/ S!Receive(c)
  BY <1>1 DEF S!Cancel, S!PoolQuery, S!Receive
<1>2. CASE S!Finish(c)
  BY <1>2 DEF S!Finish
<1>3. CASE S!ForEachReturns(c)
  BY <1>3 DEF S!ForEachReturns
<1>4. CASE S!PoolFails(c) \/ S!ServerInfoRead(c) \/ S!AvailableRead(c)
  BY <1>4 DEF S!PoolFails, S!ServerInfoRead, S!AvailableRead
<1>5. ASSUME NEW listed, S!DatabasesListed(c, listed)
      PROVE  \/ /\ phase[c] \notin {"idle", "returned"}
                /\ phase' = [phase EXCEPT ![c] = "returned"]
             \/ /\ phase' = [phase EXCEPT ![c] = "fanin"]
                /\ phase[c] \notin {"idle", "returned"}
  BY <1>5 DEF S!DatabasesListed, S!SpawnForEach
<1>6. CASE S!DatabasesRead(c) \/ S!DatabasesCut(c)
  BY <1>5, <1>6 DEF S!DatabasesRead, S!DatabasesCut
<1> QED
  BY <1>1, <1>2, <1>3, <1>4, <1>6 DEF CallStep, PoolQuery, S!PoolRead

\* Goroutines do not change the phase of a call.
LEMMA GoStepPhase ==
  ASSUME NEW w, GoStep(w)
  PROVE  UNCHANGED <<phase, poolConns>>
<1>1. S!ForDatabase(w) => UNCHANGED <<phase, poolConns>>
  BY DEF S!ForDatabase, S!Acquire, S!AcquireCancelled, S!NewPool,
     S!NewPoolFails, S!Query, S!QueryFails, S!NextRow, S!RowsEnd, S!RowsFail,
     S!ClosePool, S!Release, S!goUnchanged, S!callVars
<1>2. S!Send(w) => UNCHANGED <<phase, poolConns>>
  BY DEF S!Send, S!goUnchanged, S!callVars
<1> QED
  BY <1>1, <1>2
  DEF GoStep, S!listSchemasForDatabase, S!listInstalledExtensionsForDatabase,
      S!listSequencesForDatabase, S!listFunctionsForDatabase,
      S!listTablesForDatabase

\* Every step is one of Lifecycle's, with the store's calls as its handlers, or
\* changes nothing it speaks of.
LEMMA NextLifecycle ==
  ASSUME SP!TypeOK, BackupsInv, [Next]_vars
  PROVE  [L!Next]_(L!vars)
<1>1. CASE Startup \/ Shutdown \/ Serve \/ ServeEnds \/ Signal
  BY <1>1 DEF Startup, Shutdown, ClosePool, Serve, ServeEnds, Signal, L!Next,
     L!Shutdown
<1>2. ASSUME NEW c \in Calls, BeginCall(c) PROVE L!Next
  BY <1>2 DEF BeginCall, L!Next
<1>3. ASSUME NEW c \in Calls, Work, CallStep(c) PROVE [L!Next]_(L!vars)
  <2>1. CASE phase' = phase
    <3>1. Handlers' = Handlers
      BY <1>3, <2>1, HandlersKept DEF Work, mainVars, backupVars
    <3> QED
      BY <1>3, <3>1
      DEF Work, mainVars, L!vars, L!mainVars, L!serverVars, L!endVars
  <2>2. CASE /\ phase[c] \notin {"idle", "returned"}
             /\ phase' = [phase EXCEPT ![c] = "returned"]
    BY <1>3, <2>2, ReturnEndsCall DEF L!Next
  <2>3. CASE \E p : /\ phase' = [phase EXCEPT ![c] = p]
                    /\ phase[c] \in {"idle", "returned"}
                         <=> p \in {"idle", "returned"}
    BY <1>3, <2>3, CallGoesOn
  <2> QED
    BY <1>3, <2>1, <2>2, <2>3, CallStepPhase
<1>4. ASSUME NEW w \in S!Goroutines, Work, GoStep(w) PROVE UNCHANGED L!vars
  <2>1. Handlers' = Handlers
    BY <1>4, GoStepPhase, HandlersKept DEF Work, mainVars, backupVars
  <2> QED
    BY <1>4, <2>1
    DEF Work, mainVars, L!vars, L!mainVars, L!serverVars, L!endVars
<1>5. CASE Ended \/ UNCHANGED vars
  <2>1. UNCHANGED <<mainVars, storeVars, backupVars>>
    BY <1>5 DEF Ended, vars
  <2>2. Handlers' = Handlers
    BY <2>1, HandlersKept DEF mainVars, storeVars, backupVars
  <2> QED
    BY <2>1, <2>2 DEF mainVars, L!vars, L!mainVars, L!serverVars, L!endVars
<1>6. ASSUME NEW c \in Calls, ListBackups(c) PROVE L!Next
  BY <1>6 DEF ListBackups, L!Next
<1>7. ASSUME NEW c \in Calls, CancelBackups(c) PROVE UNCHANGED L!vars
  <2>1. Handlers' = Handlers
    BY <1>7, HandlersKept DEF CancelBackups, mainVars, storeVars
  <2> QED
    BY <1>7, <2>1
    DEF CancelBackups, mainVars, L!vars, L!mainVars, L!serverVars, L!endVars
<1>8. ASSUME NEW c \in Calls, ListBackupsReturns(c) PROVE L!Next
  <2>1. /\ Running /\ c \in backups /\ backups' = backups \ {c}
        /\ UNCHANGED <<exit, phase>>
    BY <1>8 DEF ListBackupsReturns, mainVars, storeVars
  <2>2. phase[c] = "idle"
    BY <2>1 DEF BackupsInv
  <2>3. c \in Handlers /\ Handlers' = Handlers \ {c}
    BY <2>1, <2>2 DEF Handlers, Running
  <2>4. L!EndCall(c)
    BY <1>8, <2>1, <2>3
    DEF ListBackupsReturns, Running, mainVars, L!EndCall, L!Running, L!mainVars,
        L!endVars
  <2> QED
    BY <2>4 DEF L!Next
<1> QED
  BY <1>1, <1>2, <1>3, <1>4, <1>5, <1>6, <1>7, <1>8 DEF Next

-----------------------------------------------------------------------------
(* The inductive invariant holds, and what is left when the process ends. *)

\* Nothing has begun.
LEMMA InitMainInv == Init => BackupsInv /\ MainInv
  BY DEF Init, Running, L!Init, BackupsInv, MainInv, S!Init

\* Main, the Serve goroutine and signals.
LEMMA AloneMainInv ==
  ASSUME BackupsInv, MainInv,
         Startup \/ Shutdown \/ Serve \/ ServeEnds \/ Signal
  PROVE  BackupsInv' /\ MainInv'
<1> USE DEF MainInv, L!Goto, L!Running, L!End, L!mainVars, L!serverVars,
            L!endVars
<1>0. UNCHANGED <<phase, poolConns>> /\ Quiet' = Quiet /\ BackupsInv'
  BY DEF Startup, Shutdown, Serve, ServeEnds, Signal, Alone, storeVars,
     backupVars, Quiet, BackupsInv
<1>1. CASE L!Startup
  BY <1>0, <1>1
  DEF L!Startup, L!initializeLogger, L!Listen, L!NewCredentials, L!NewPool,
      L!Ping, L!NewStore, L!GoServe, L!Notify, L!Succeed, L!Fail
<1>2. CASE L!SelectSignal \/ L!SelectServeResult
  BY <1>0, <1>2 DEF L!SelectSignal, L!SelectServeResult
<1>3. CASE L!GracefulStop
  <2>1. Quiet
    BY <1>3 DEF L!GracefulStop, Handlers, Running, Quiet
  <2> QED
    BY <1>0, <1>3, <2>1 DEF L!GracefulStop
<1>4. CASE ClosePool
  BY <1>0, <1>4 DEF ClosePool, L!ClosePool
<1>5. CASE L!Exit
  BY <1>0, <1>5 DEF L!Exit
<1>6. CASE L!Serve \/ L!ServeFails \/ L!ServeReturns
  BY <1>0, <1>6 DEF L!Serve, L!ServeFails, L!ServeReturns
<1>7. CASE L!Signal
  BY <1>0, <1>7 DEF L!Signal
<1> QED
  BY <1>0, <1>1, <1>2, <1>3, <1>4, <1>5, <1>6, <1>7
  DEF Startup, Shutdown, Serve, ServeEnds, Signal

\* A call begins only before GracefulStop, has no connection yet, and is not
\* one that ListBackups works on.
LEMMA BeginCallMainInv ==
  ASSUME SP!TypeOK, BackupsInv, MainInv, NEW c \in Calls, BeginCall(c)
  PROVE  BackupsInv' /\ MainInv'
<1>1. UNCHANGED poolConns /\ \E p : phase' = [phase EXCEPT ![c] = p]
  BY DEF BeginCall, Call, S!Start, S!ListDatabases, S!GetServerInfo,
     S!ListSchemas, S!ListExtensions, S!ListSequences, S!ListFunctions,
     S!ListTables
<1>2. UNCHANGED backups /\ c \notin backups
  BY DEF BeginCall, backupVars, L!BeginCall, L!Running, Handlers, Running
<1>3. BackupsInv'
  <2>1. phase \in [Calls -> {"idle", "fanin", "returned"} \cup SP!PoolPhases]
    BY DEF SP!TypeOK
  <2> QED
    BY <1>1, <1>2, <2>1 DEF BackupsInv
<1> QED
  BY <1>1, <1>3 DEF BeginCall, L!BeginCall, L!mainVars, L!endVars, MainInv

\* So does a call of ListBackups; it ends by itself.
LEMMA BackupsMainInv ==
  ASSUME BackupsInv, MainInv, NEW c \in Calls,
         ListBackups(c) \/ CancelBackups(c) \/ ListBackupsReturns(c)
  PROVE  BackupsInv' /\ MainInv'
<1> USE DEF storeVars, BackupsInv, MainInv, Quiet
<1>1. CASE ListBackups(c)
  BY <1>1 DEF ListBackups, L!BeginCall, L!mainVars, L!endVars
<1>2. CASE CancelBackups(c)
  BY <1>2 DEF CancelBackups, mainVars
<1>3. CASE ListBackupsReturns(c)
  BY <1>3 DEF ListBackupsReturns, mainVars
<1> QED
  BY <1>1, <1>2, <1>3

\* A call that is under way may end, and takes no connection of a pool that
\* main closes.
LEMMA CallStepMainInv ==
  ASSUME SP!TypeOK, BackupsInv, MainInv, NEW c \in Calls, Work, CallStep(c)
  PROVE  BackupsInv' /\ MainInv'
<1>1. (Quiet => Quiet') /\ BackupsInv'
  <2>1. phase \in [Calls -> {"idle", "fanin", "returned"} \cup SP!PoolPhases]
    BY DEF SP!TypeOK
  <2>2. UNCHANGED backups
    BY DEF Work, backupVars
  <2>3. Quiet => Quiet'
    BY <2>1, <2>2, CallStepPhase DEF Quiet
  <2>4. \A b \in Calls : phase[b] = "idle" => phase'[b] = "idle"
    BY <2>1, CallStepPhase
  <2> QED
    BY <2>2, <2>3, <2>4 DEF BackupsInv
<1>2. poolConns = {} /\ stage = "exit" => poolConns' = {}
  <2>1. CASE PoolQuery(c)
    BY <2>1 DEF PoolQuery, PoolLends
  <2>2. CASE S!Cancel(c) \/ S!Finish(c) \/ S!Receive(c) \/ S!ForEachReturns(c)
    BY <2>2 DEF S!Cancel, S!Finish, S!Receive, S!ForEachReturns
  <2>3. CASE S!PoolRead(c)
    BY <2>3
    DEF S!PoolRead, S!PoolFails, S!ServerInfoRead, S!AvailableRead,
        S!DatabasesRead, S!DatabasesCut, S!DatabasesListed
  <2> QED
    BY <2>1, <2>2, <2>3 DEF CallStep
<1> QED
  BY <1>1, <1>2 DEF Work, mainVars, MainInv

\* Every step keeps the invariant.
LEMMA NextIndInv == IndInv /\ [Next]_vars => IndInv'
<1> SUFFICES ASSUME IndInv, [Next]_vars PROVE IndInv'
  OBVIOUS
<1>1. SP!IndInv'
  BY NextSame, SP!NextIndInv, StoreConstants DEF IndInv
<1>2. BackupsInv' /\ MainInv'
  <2> USE DEF IndInv, SP!IndInv
  <2>1. CASE Startup \/ Shutdown \/ Serve \/ ServeEnds \/ Signal
    BY <2>1, AloneMainInv
  <2>2. ASSUME NEW c \in Calls, BeginCall(c) \/ (Work /\ CallStep(c))
        PROVE  BackupsInv' /\ MainInv'
    BY <2>2, BeginCallMainInv, CallStepMainInv
  <2>3. ASSUME NEW w \in S!Goroutines, Work, GoStep(w)
        PROVE  BackupsInv' /\ MainInv'
    BY <2>3, GoStepPhase
    DEF Work, mainVars, backupVars, BackupsInv, MainInv, Quiet
  <2>4. CASE Ended \/ UNCHANGED vars
    BY <2>4 DEF Ended, vars, mainVars, storeVars, backupVars, BackupsInv,
       MainInv, Quiet
  <2>5. ASSUME NEW c \in Calls,
               ListBackups(c) \/ CancelBackups(c) \/ ListBackupsReturns(c)
        PROVE  BackupsInv' /\ MainInv'
    BY <2>5, BackupsMainInv
  <2> QED
    BY <2>1, <2>2, <2>3, <2>4, <2>5 DEF Next
<1> QED
  BY <1>1, <1>2 DEF IndInv

\* The inductive invariant.
THEOREM ExtractorInv == Spec => []IndInv
<1>1. Init => IndInv
  BY SameInit, SP!InitIndInv, StoreConstants, InitMainInv DEF Init, IndInv
<1> QED
  BY <1>1, NextIndInv, PTL DEF Spec

(* Main's view of the process: calls begin while it serves and end by       *)
(* themselves, and no step of the store, of its goroutines, of pgbackrest   *)
(* or of a client that gives up looks like anything else to it.             *)
THEOREM ExtractorImplementsLifecycle == Spec => ImplementsLifecycle
<1>1. Init => L!Init
  BY DEF Init
<1>2. IndInv /\ [Next]_vars => [L!Next]_(L!vars)
  BY NextLifecycle DEF IndInv, SP!IndInv
<1> QED
  BY <1>1, <1>2, ExtractorInv, PTL
  DEF Spec, ImplementsLifecycle, L!Spec

(* NothingLeftBehind: when main returns after a signal, the calls have      *)
(* ended, ListBackups included, and with them their goroutines, permits and *)
(* connections.                                                             *)
THEOREM ExtractorNothingLeftBehind == Spec => []NothingLeftBehind
<1>1. IndInv => NothingLeftBehind
  <2> SUFFICES ASSUME IndInv, exit = "0", draining PROVE NothingLeftBehind
    BY DEF NothingLeftBehind
  <2>1. Quiet /\ poolConns = {} /\ backups = {}
    BY DEF IndInv, MainInv, Quiet
  <2>2. \A w \in S!Goroutines : wpc[w] = "none" /\ holds[w] = NoDb
    <3> TAKE w \in S!Goroutines
    <3>1. PICK c \in Calls, d \in Databases : w = <<c, d>>
      BY DEF S!Goroutines
    <3>2. SP!Outstanding(c) = {}
      BY <2>1 DEF IndInv, SP!IndInv, SP!FanInInv, Quiet
    <3>3. wpc[w] = "none"
      BY <3>1, <3>2 DEF SP!Outstanding
    <3>4. w \in SP!Goroutines
      BY DEF S!Goroutines, SP!Goroutines
    <3> QED
      BY <3>3, <3>4 DEF IndInv, SP!IndInv, SP!PermitInv, SP!WithPermit
  <2>3. conns = {}
    <3>1. conns \subseteq S!Goroutines
      BY DEF IndInv, SP!IndInv, SP!TypeOK, S!Goroutines, SP!Goroutines
    <3>2. \A w \in conns : wpc[w] \in {"rows", "close"}
      BY DEF IndInv, SP!IndInv, SP!PermitInv
    <3> QED
      BY <2>2, <3>1, <3>2
  <2> QED
    BY <2>1, <2>2, <2>3 DEF NothingLeftBehind
<1> QED
  BY <1>1, ExtractorInv, PTL

-----------------------------------------------------------------------------
(* What main waits for. *)

(* Shutdown joins no circle of waiting, for any calls and databases: the    *)
(* calls GracefulStop waits for, the ones that wait for pgbackrest apart,   *)
(* do not wait for main or for a result that nobody sends, and pool.Close   *)
(* waits at most for queries under way, never for a call that is waiting    *)
(* for a permit or for its goroutines.                                      *)
THEOREM ExtractorShutdownWaits == Spec => []ShutdownWaits
<1>1. IndInv => ShutdownWaits
  <2> SUFFICES ASSUME IndInv PROVE ShutdownWaits
    OBVIOUS
  <2>0. S!PoolPhases = SP!PoolPhases
    BY DEF S!PoolPhases, SP!PoolPhases
  <2>1. ASSUME NEW c \in Handlers PROVE CallGoesSomewhere(c)
    <3> SUFFICES ASSUME c \notin backups PROVE CallGoesSomewhere(c)
      BY DEF CallGoesSomewhere
    <3>1. c \in Calls /\ phase[c] \notin {"idle", "returned"}
      BY DEF Handlers
    <3>2. phase[c] = "fanin" \/ phase[c] \in SP!PoolPhases
      BY <3>1 DEF IndInv, SP!IndInv, SP!TypeOK
    <3>3. left[c] \in Nat
      BY <3>1 DEF IndInv, SP!IndInv, SP!TypeOK
    <3>4. SP!ReceiveHasSender
      BY SP!SenderRemains, StoreConstants DEF IndInv
    <3>5. phase[c] = "fanin" /\ left[c] > 0 =>
            resultsCh[c] # {} \/ \E d \in Databases : wpc[<<c, d>>] # "none"
      BY <3>1, <3>4 DEF SP!ReceiveHasSender
    <3> QED
      BY <2>0, <3>2, <3>3, <3>5 DEF CallGoesSomewhere
  <2>2. ASSUME NEW c \in poolConns PROVE PoolUserIsAlone(c)
    <3>1. c \in Calls
      BY DEF IndInv, SP!IndInv, SP!TypeOK
    <3>2. phase[c] \in SP!PoolPhases /\ SP!Outstanding(c) = {}
      BY <3>1 DEF IndInv, SP!IndInv, SP!FanInInv, SP!PoolPhases
    <3>3. ASSUME NEW d \in Databases
          PROVE  wpc[<<c, d>>] = "none" /\ holds[<<c, d>>] = NoDb
      <4>1. wpc[<<c, d>>] = "none"
        BY <3>2 DEF SP!Outstanding
      <4>2. <<c, d>> \in SP!Goroutines
        BY <3>1 DEF SP!Goroutines
      <4> QED
        BY <4>1, <4>2 DEF IndInv, SP!IndInv, SP!PermitInv, SP!WithPermit
    <3> QED
      BY <2>0, <3>2, <3>3 DEF PoolUserIsAlone
  <2>3. draining /\ stage = "close" => poolConns = {}
    <3> SUFFICES ASSUME draining, stage = "close", NEW c \in poolConns
                 PROVE  FALSE
      OBVIOUS
    <3>1. c \in Calls
      BY DEF IndInv, SP!IndInv, SP!TypeOK
    <3>2. phase[c] \in {"idle", "returned"}
      BY <3>1 DEF IndInv, MainInv, Quiet
    <3> QED
      BY <2>2, <3>2 DEF PoolUserIsAlone, S!PoolPhases
  <2> QED
    BY <2>1, <2>2, <2>3 DEF ShutdownWaits
<1> QED
  BY <1>1, ExtractorInv, PTL
=============================================================================
