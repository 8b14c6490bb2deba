----------------------------- MODULE Lifecycle -----------------------------
(***************************************************************************)
(* main of cmd/extractor/main.go: the start-up steps, the goroutine that   *)
(* runs grpcServer.Serve, signals, and the two ways to stop.  Of the gRPC  *)
(* server only what main relies on is modelled: while it serves, calls     *)
(* begin; GracefulStop lets none begin and waits for the ones under way;   *)
(* when Serve fails the connected clients are still served.                *)
(***************************************************************************)
EXTENDS Config, Naturals

CONSTANTS
  Calls,    \* RPCs that may be under way
  Chosen    \* the configurations the extractor is started with

ASSUME LifecycleAssumption == Chosen \subseteq Configs

VARIABLES
  config,     \* the flags
  stage,      \* the statement main is at
  connStr,    \* SSL parameters the pool was made with
  pool,       \* the shared pool
  serveGo,    \* the goroutine that runs Serve
  draining,   \* GracefulStop has been called
  connected,  \* some client has a connection to the server
  handlers,   \* calls under way
  errCh,      \* the buffered channel that Serve's result goes to
  notified,   \* signal.Notify has been called
  sigCh,      \* number of signals in the buffered channel
  cut,        \* calls that were under way when the process ended
  exit        \* how the process ended

mainVars == <<stage, connStr, pool>>
serverVars == <<serveGo, draining, connected, handlers, errCh>>
endVars == <<cut, exit>>
vars == <<config, mainVars, serverVars, notified, sigCh, endVars>>

NoConnStr == [sslmode |-> "none", certs |-> FALSE]

Init ==
  /\ config \in Chosen
  /\ stage = "logger"
  /\ connStr = NoConnStr
  /\ pool = "none"
  /\ serveGo = "none"
  /\ draining = FALSE
  /\ connected = FALSE
  /\ handlers = {}
  /\ errCh = {}
  /\ notified = FALSE
  /\ sigCh = 0
  /\ cut = {}
  /\ exit = "running"

Running == exit = "running"

Goto(from, to) == Running /\ stage = from /\ stage' = to

\* The process ends: whatever runs is cut off.
End(how) ==
  /\ exit' = how
  /\ cut' = handlers
  /\ handlers' = {}

-----------------------------------------------------------------------------
(* Start-up.  Each step that fails ends the process with os.Exit(1). *)

Fail(from) ==
  /\ Running /\ stage = from
  /\ End("1")
  /\ UNCHANGED <<config, mainVars, serveGo, draining, connected, errCh,
                 notified, sigCh>>

Succeed(from, to) ==
  /\ Goto(from, to)
  /\ UNCHANGED <<config, connStr, pool, serverVars, notified, sigCh, endVars>>

initializeLogger ==
  \/ LogLevelOK(config) /\ Succeed("logger", "listen")
  \/ ~LogLevelOK(config) /\ Fail("logger")

Listen == Succeed("listen", "credentials") \/ Fail("listen")

NewCredentials ==
  \/ isValidSSLSettings(config) /\ Succeed("credentials", "pool")
  \/ ~isValidSSLSettings(config) /\ Fail("credentials")

\* pgxpool.New parses the connection string and loads the certificates.
NewPool ==
  \/ /\ Goto("pool", "ping")
     /\ connStr' = ConnStrForDb(config)
     /\ pool' = "open"
     /\ UNCHANGED <<config, serverVars, notified, sigCh, endVars>>
  \/ Fail("pool")

Ping == Succeed("ping", "store") \/ Fail("ping")

NewStore == Succeed("store", "serve") \/ Fail("store")

\* NewServer, RegisterExtractorServiceServer, and `go` Serve.
GoServe ==
  /\ Goto("serve", "notify")
  /\ serveGo' = "started"
  /\ UNCHANGED <<config, connStr, pool, draining, connected, handlers, errCh,
                 notified, sigCh, endVars>>

Notify ==
  /\ Goto("notify", "select")
  /\ notified' = TRUE
  /\ UNCHANGED <<config, connStr, pool, serverVars, sigCh, endVars>>

-----------------------------------------------------------------------------
(* The server and its clients. *)

\* Serve starts to accept, or finds that the server was stopped before it ran.
Serve ==
  /\ Running /\ serveGo = "started"
  /\ \/ ~draining /\ serveGo' = "serving" /\ UNCHANGED errCh
     \/ draining /\ serveGo' = "returned" /\ errCh' = errCh \cup {"err"}
  /\ UNCHANGED <<config, mainVars, draining, connected, handlers, notified,
                 sigCh, endVars>>

\* Mutation: Serve is called again, with the same listener, when it fails.
ServeFailsRetried ==
  /\ Running /\ serveGo = "serving" /\ ~draining
  /\ errCh' = errCh \cup {"err"}
  /\ UNCHANGED <<config, mainVars, serveGo, draining, connected, handlers,
                 notified, sigCh, endVars>>

\* Mutation: the error is logged and not sent.
ServeFailsUnreported ==
  /\ Running /\ serveGo = "serving" /\ ~draining
  /\ serveGo' = "returned"
  /\ UNCHANGED <<config, mainVars, draining, connected, handlers, errCh,
                 notified, sigCh, endVars>>

\* The listener breaks: Serve returns its error, and errCh has room for it.
ServeFails ==
  /\ Running /\ serveGo = "serving" /\ ~draining
  /\ serveGo' = "returned"
  /\ errCh' = errCh \cup {"err"}
  /\ UNCHANGED <<config, mainVars, draining, connected, handlers, notified,
                 sigCh, endVars>>

\* After GracefulStop has finished, Serve returns nil.
ServeReturns ==
  /\ Running /\ serveGo = "serving" /\ draining
  /\ stage \in {"close", "exit"}
  /\ serveGo' = "returned"
  /\ errCh' = errCh \cup {"nil"}
  /\ UNCHANGED <<config, mainVars, draining, connected, handlers, notified,
                 sigCh, endVars>>

\* Mutation: calls still begin after GracefulStop was called.
BeginCallWhileDraining(c) ==
  /\ Running /\ c \notin handlers
  /\ serveGo = "serving" \/ connected
  /\ connected' = TRUE
  /\ handlers' = handlers \cup {c}
  /\ UNCHANGED <<config, mainVars, serveGo, draining, errCh, notified, sigCh,
                 endVars>>

\* A client connects while Serve accepts, or uses its connection again.
BeginCall(c) ==
  /\ Running /\ c \notin handlers /\ ~draining
  /\ serveGo = "serving" \/ connected
  /\ connected' = TRUE
  /\ handlers' = handlers \cup {c}
  /\ UNCHANGED <<config, mainVars, serveGo, draining, errCh, notified, sigCh,
                 endVars>>

EndCall(c) ==
  /\ Running /\ c \in handlers
  /\ handlers' = handlers \ {c}
  /\ UNCHANGED <<config, mainVars, serveGo, draining, connected, errCh,
                 notified, sigCh, endVars>>

-----------------------------------------------------------------------------
(* Signals and shutdown. *)

\* SIGTERM or SIGINT.  Before Notify it kills the process; after it, it goes
\* to sigCh, or nowhere if the one place of sigCh is taken.
Signal ==
  /\ Running
  /\ \/ /\ notified
        /\ sigCh' = 1
        /\ UNCHANGED <<handlers, endVars>>
     \/ /\ ~notified
        /\ End("killed")
        /\ UNCHANGED sigCh
  /\ UNCHANGED <<config, mainVars, serveGo, draining, connected, errCh,
                 notified>>

\* Mutation: the pool is closed before the server is stopped.
SelectSignalClosingPool ==
  /\ Goto("select", "stopping")
  /\ sigCh > 0
  /\ sigCh' = sigCh - 1
  /\ draining' = TRUE
  /\ pool' = "closed"
  /\ UNCHANGED <<config, connStr, serveGo, connected, handlers, errCh,
                 notified, endVars>>

\* case <-sigCh: GracefulStop begins.
SelectSignal ==
  /\ Goto("select", "stopping")
  /\ sigCh > 0
  /\ sigCh' = sigCh - 1
  /\ draining' = TRUE
  /\ UNCHANGED <<config, connStr, pool, serveGo, connected, handlers, errCh,
                 notified, endVars>>

\* case err := <-errCh
SelectServeResult ==
  /\ Goto("select", "close")
  /\ \E e \in errCh : errCh' = errCh \ {e}
  /\ UNCHANGED <<config, connStr, pool, serveGo, draining, connected, handlers,
                 notified, sigCh, endVars>>

\* Mutation: Stop in place of GracefulStop does not wait for the calls.
GracefulStopNoWait ==
  /\ Goto("stopping", "close")
  /\ connected' = FALSE
  /\ UNCHANGED <<config, connStr, pool, serveGo, draining, handlers, errCh,
                 notified, sigCh, endVars>>

\* GracefulStop returns: no call is under way and no client connected.
GracefulStop ==
  /\ Goto("stopping", "close")
  /\ handlers = {}
  /\ connected' = FALSE
  /\ UNCHANGED <<config, connStr, pool, serveGo, draining, handlers, errCh,
                 notified, sigCh, endVars>>

\* pool.Close waits for connections in use and not for the calls that use them.
ClosePool ==
  /\ Goto("close", "exit")
  /\ pool' = "closed"
  /\ UNCHANGED <<config, connStr, serverVars, notified, sigCh, endVars>>

\* main returns.
Exit ==
  /\ Running /\ stage = "exit"
  /\ End("0")
  /\ UNCHANGED <<config, mainVars, serveGo, draining, connected, errCh,
                 notified, sigCh>>

-----------------------------------------------------------------------------
Startup ==
  \/ initializeLogger \/ Listen \/ NewCredentials \/ NewPool \/ Ping
  \/ NewStore \/ GoServe \/ Notify

Shutdown ==
  SelectSignal \/ SelectServeResult \/ GracefulStop \/ ClosePool \/ Exit

\* The process has ended.
Ended == ~Running /\ UNCHANGED vars

Next ==
  \/ Startup
  \/ Shutdown
  \/ Serve \/ ServeFails \/ ServeReturns
  \/ \E c \in Calls : BeginCall(c) \/ EndCall(c)
  \/ Signal
  \/ Ended

Spec == Init /\ [][Next]_vars

(* main and the Serve goroutine run when they can, and every call returns, *)
(* which Store shows for cancelled calls and for databases that answer.    *)
Fairness ==
  /\ WF_vars(Startup) /\ WF_vars(Shutdown)
  /\ WF_vars(Serve)
  /\ \A c \in Calls : WF_vars(EndCall(c))

FairSpec == Spec /\ Fairness

-----------------------------------------------------------------------------
Stages ==
  {"logger", "listen", "credentials", "pool", "ping", "store", "serve",
   "notify", "select", "stopping", "close", "exit"}

(* The variables' types; the buffered channels never hold more than one    *)
(* value, so the Serve goroutine never waits to send its result.           *)
TypeOK ==
  /\ config \in Configs
  /\ stage \in Stages
  /\ pool \in {"none", "open", "closed"}
  /\ serveGo \in {"none", "started", "serving", "returned"}
  /\ draining \in BOOLEAN /\ connected \in BOOLEAN /\ notified \in BOOLEAN
  /\ handlers \subseteq Calls /\ cut \subseteq Calls
  /\ errCh \in {{}, {"nil"}, {"err"}}
  /\ sigCh \in 0..1
  /\ exit \in {"running", "0", "1", "killed"}

(* On a shutdown that a signal asked for, no call is under way when the    *)
(* pool is closed, none begins afterwards, and none is cut off by the end  *)
(* of main ("Shutdown signal received, stopping gracefully").  Calls are   *)
(* cut off by nothing but a signal that comes before Notify and a failure  *)
(* of Serve that main sees before any signal.                              *)
GracefulShutdown ==
  /\ draining /\ stage \in {"close", "exit"} => handlers = {} /\ cut = {}
  /\ cut # {} => \/ exit = "killed" /\ ~notified
                 \/ exit = "0" /\ serveGo = "returned" /\ ~draining

(* Calls run only on an extractor that was started with accepted settings  *)
(* and reached its database; unless Serve has failed, the pool they use is *)
(* not closed.                                                             *)
CallsHavePool ==
  handlers # {} =>
    /\ LogLevelOK(config) /\ isValidSSLSettings(config)
    /\ pool = "open" \/ (pool = "closed" /\ serveGo = "returned" /\ ~draining)

(* A verify mode is never weakened on its way to the pool: the connection  *)
(* string names it and the certificates, which were there when checked.    *)
VerifyNotWeakened ==
  pool # "none" /\ config.mode \in VerifyModes =>
    /\ EffectiveMode(connStr) = config.mode
    /\ connStr.certs
    /\ \A f \in CertFlags : config.path[f] = "file"

(* "SSL mode to use (default verify-full)" (config.go:26): the extractor   *)
(* connects in the mode the flag asks for.                                 *)
SSLModeUsed == pool # "none" => EffectiveMode(connStr) = config.mode

(* A signal that was delivered after Notify, even before main waits for    *)
(* it, ends the process, if calls return.                                  *)
SignalStops == (notified /\ sigCh > 0) ~> (exit # "running")
=============================================================================
