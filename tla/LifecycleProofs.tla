-------------------------- MODULE LifecycleProofs --------------------------
(***************************************************************************)
(* Proofs about Lifecycle, for any set of calls and any configurations: a  *)
(* requested shutdown cuts no call off, calls find an open pool, and a     *)
(* verify mode reaches the pool unweakened.                                *)
(***************************************************************************)
EXTENDS Lifecycle, TLAPS

\* The stages after a step of main.
AfterNotify == {"select", "stopping", "close", "exit"}
AfterServe == {"notify"} \cup AfterNotify
AfterPool == {"ping", "store", "serve"} \cup AfterServe
AfterCredentials == {"pool"} \cup AfterPool
AfterLogger == {"listen", "credentials"} \cup AfterCredentials

\* What main has established when it is at a stage.
StageInv ==
  /\ stage \in AfterLogger => LogLevelOK(config)
  /\ stage \in AfterCredentials => isValidSSLSettings(config)
  /\ stage \in AfterPool => connStr = ConnStrForDb(config)
  /\ pool = IF stage = "exit" THEN "closed"
            ELSE IF stage \in AfterPool THEN "open" ELSE "none"
  /\ serveGo # "none" => stage \in AfterServe
  /\ notified <=> stage \in AfterNotify

\* Main leaves its select either draining, and then waits for the calls, or
\* with Serve's result.
ServerInv ==
  /\ handlers # {} => connected
  /\ connected => serveGo \in {"serving", "returned"}
  /\ serveGo # "returned" => errCh = {}
  /\ draining => stage \in {"stopping", "close", "exit"}
  /\ stage = "stopping" => draining
  /\ draining /\ stage \in {"close", "exit"} => handlers = {}
  /\ ~draining /\ stage \in {"close", "exit"} => serveGo = "returned"

\* Calls are cut off only when the process ends, by a signal that finds no
\* Notify or by a main that did not drain.
EndInv ==
  /\ Running => cut = {}
  /\ draining /\ stage \in {"close", "exit"} => cut = {}
  /\ cut # {} => \/ exit = "killed" /\ ~notified
                 \/ exit = "0" /\ serveGo = "returned" /\ ~draining

IndInv == TypeOK /\ StageInv /\ ServerInv /\ EndInv

-----------------------------------------------------------------------------
\* Nothing has happened when main begins.
LEMMA InitIndInv == Init => IndInv
<1> SUFFICES ASSUME Init PROVE IndInv
  OBVIOUS
<1> USE DEF Init
<1>1. TypeOK
  <2>1. config \in Configs
    BY LifecycleAssumption
  <2>2. draining \in BOOLEAN /\ connected \in BOOLEAN /\ notified \in BOOLEAN
    OBVIOUS
  <2> QED
    BY <2>1, <2>2 DEF TypeOK, Stages
<1>2. StageInv
  BY DEF StageInv, AfterLogger, AfterCredentials, AfterPool, AfterServe,
         AfterNotify
<1>3. ServerInv /\ EndInv
  BY DEF ServerInv, EndInv, Running
<1> QED
  BY <1>1, <1>2, <1>3 DEF IndInv

\* A step of the start-up advances one stage or ends the process.
LEMMA StartupStep == ASSUME IndInv, Startup PROVE IndInv'
<1> USE DEF IndInv, TypeOK, Stages, StageInv, ServerInv, EndInv, Running, Goto,
      Fail, Succeed, End, mainVars, serverVars, endVars, AfterLogger,
      AfterCredentials, AfterPool, AfterServe, AfterNotify
<1>1. CASE initializeLogger
  BY <1>1 DEF initializeLogger
<1>2. CASE Listen
  BY <1>2 DEF Listen
<1>3. CASE NewCredentials
  BY <1>3 DEF NewCredentials
<1>4. CASE NewPool
  BY <1>4 DEF NewPool
<1>5. CASE Ping
  BY <1>5 DEF Ping
<1>6. CASE NewStore
  BY <1>6 DEF NewStore
<1>7. CASE GoServe
  BY <1>7 DEF GoServe
<1>8. CASE Notify
  BY <1>8 DEF Notify
<1> QED
  BY <1>1, <1>2, <1>3, <1>4, <1>5, <1>6, <1>7, <1>8 DEF Startup

\* Main stops: it drains the calls first unless Serve has returned.
LEMMA ShutdownStep == ASSUME IndInv, Shutdown PROVE IndInv'
<1> USE DEF IndInv, TypeOK, Stages, StageInv, ServerInv, EndInv, Running, Goto,
      End, mainVars, serverVars, endVars, AfterLogger, AfterCredentials,
      AfterPool, AfterServe, AfterNotify
<1>1. CASE SelectSignal
  BY <1>1 DEF SelectSignal
<1>2. CASE SelectServeResult
  BY <1>2 DEF SelectServeResult
<1>3. CASE GracefulStop
  <2>1. connected' \in BOOLEAN
    BY <1>3 DEF GracefulStop
  <2>2. TypeOK'
    BY <1>3, <2>1 DEF GracefulStop
  <2>3. StageInv'
    BY <1>3 DEF GracefulStop
  <2>4. ServerInv' /\ EndInv'
    BY <1>3 DEF GracefulStop
  <2> QED
    BY <2>2, <2>3, <2>4
<1>4. CASE ClosePool
  BY <1>4 DEF ClosePool
<1>5. CASE Exit
  BY <1>5 DEF Exit
<1> QED
  BY <1>1, <1>2, <1>3, <1>4, <1>5 DEF Shutdown

\* The Serve goroutine sends one result, when it returns.
LEMMA ServeStep ==
  ASSUME IndInv, Serve \/ ServeFails \/ ServeReturns PROVE IndInv'
<1> USE DEF IndInv, TypeOK, StageInv, ServerInv, EndInv, Running, mainVars,
      endVars, AfterServe, AfterNotify
<1>1. CASE Serve
  BY <1>1 DEF Serve
<1>2. CASE ServeFails
  BY <1>2 DEF ServeFails
<1>3. CASE ServeReturns
  BY <1>3 DEF ServeReturns
<1> QED
  BY <1>1, <1>2, <1>3

\* Calls begin on a connected server that is not draining.
LEMMA CallStep ==
  ASSUME IndInv, NEW c \in Calls, BeginCall(c) \/ EndCall(c) PROVE IndInv'
<1> USE DEF IndInv, TypeOK, StageInv, ServerInv, EndInv, Running, mainVars,
      endVars, AfterServe, AfterNotify
<1>1. CASE BeginCall(c)
  BY <1>1 DEF BeginCall
<1>2. CASE EndCall(c)
  BY <1>2 DEF EndCall
<1> QED
  BY <1>1, <1>2

\* A signal fills sigCh, or kills a process that has not called Notify.
LEMMA SignalStep == ASSUME IndInv, Signal PROVE IndInv'
  BY DEF IndInv, TypeOK, StageInv, ServerInv, EndInv, Running, Signal, End,
     mainVars, endVars, AfterNotify

-----------------------------------------------------------------------------
\* Every step, stutters included, preserves the inductive invariant.
LEMMA NextIndInv == IndInv /\ [Next]_vars => IndInv'
<1> SUFFICES ASSUME IndInv, [Next]_vars PROVE IndInv'
  OBVIOUS
<1>1. CASE UNCHANGED vars
  BY <1>1
  DEF vars, mainVars, serverVars, endVars, IndInv, TypeOK, StageInv, ServerInv,
      EndInv, Running
<1>2. CASE Next
  BY <1>1, <1>2, StartupStep, ShutdownStep, ServeStep, CallStep, SignalStep
  DEF Next, Ended
<1> QED
  BY <1>1, <1>2

\* The inductive invariant holds in every reachable state.
THEOREM LifecycleInv == Spec => []IndInv
  BY InitIndInv, NextIndInv, PTL DEF Spec

\* Types, and that errCh and sigCh never hold more than their one place.
THEOREM LifecycleTypeOK == Spec => []TypeOK
<1>1. IndInv => TypeOK
  BY DEF IndInv
<1> QED
  BY <1>1, LifecycleInv, PTL

\* A shutdown asked for by a signal neither closes the pool under a call nor
\* cuts one off; only a signal before Notify and a failed Serve cut calls off.
THEOREM LifecycleGracefulShutdown == Spec => []GracefulShutdown
<1>1. IndInv => GracefulShutdown
  BY DEF IndInv, ServerInv, EndInv, GracefulShutdown
<1> QED
  BY <1>1, LifecycleInv, PTL

\* Calls run on accepted settings and, unless Serve failed, an open pool.
THEOREM LifecycleCallsHavePool == Spec => []CallsHavePool
<1>1. IndInv => CallsHavePool
  BY DEF IndInv, TypeOK, Stages, StageInv, ServerInv, CallsHavePool, AfterLogger,
         AfterCredentials, AfterPool, AfterServe, AfterNotify
<1> QED
  BY <1>1, LifecycleInv, PTL

\* A verify mode reaches the pool with its certificates.
THEOREM LifecycleVerifyNotWeakened == Spec => []VerifyNotWeakened
<1>1. IndInv => VerifyNotWeakened
  <2> SUFFICES ASSUME IndInv, pool # "none", config.mode \in VerifyModes
               PROVE  /\ EffectiveMode(connStr) = config.mode
                      /\ connStr.certs
                      /\ \A f \in CertFlags : config.path[f] = "file"
    BY DEF VerifyNotWeakened
  <2>1. connStr = ConnStrForDb(config) /\ isValidSSLSettings(config)
    BY DEF IndInv, StageInv, AfterCredentials, AfterPool, AfterServe,
           AfterNotify
  <2>2. connStr.sslmode = config.mode /\ connStr.certs
    BY <2>1 DEF ConnStrForDb
  <2>3. EffectiveMode(connStr) = config.mode
    BY <2>2 DEF EffectiveMode, VerifyModes
  <2>4. \A f \in CertFlags : config.path[f] = "file"
    BY <2>1 DEF isValidSSLSettings
  <2> QED
    BY <2>2, <2>3, <2>4
<1> QED
  BY <1>1, LifecycleInv, PTL
=============================================================================
