---------------------------- MODULE Coordinator ----------------------------
(***************************************************************************)
(* ConnectionCoordinator of internal/extractor/store/coordinator.go, at    *)
(* the granularity of its mutex and channel operations.  A worker is one   *)
(* goroutine that calls Acquire(ctx, dbName), uses the database when it    *)
(* got the permit, and calls Release(dbName); it may do so any number of   *)
(* times, for any database, and its context may be cancelled at any time.  *)
(*                                                                         *)
(* A semaphore is a channel of capacity 1 that make allocates: channels    *)
(* are numbered 1, 2, ... in the order they are made and 0 is nil.  A      *)
(* channel's whole state is whether its one-place buffer is full.          *)
(***************************************************************************)
EXTENDS Naturals

CONSTANTS Workers, Databases, NoWorker, NoDb

ASSUME CoordinatorAssumption ==
  /\ NoWorker \notin Workers
  /\ NoDb \notin Databases

VARIABLES
  mu,            \* the worker that has locked c.mu, or NoWorker
  dbSemaphores,  \* the map: database -> channel or nil
  made,          \* how many channels have been made
  full,          \* the channels whose buffer is full
  pc,            \* where each worker is in Acquire or Release
  db,            \* argument dbName of the worker's call
  sem,           \* local variable sem of the worker's call
  done           \* ctx.Done() of the worker's call is closed

vars == <<mu, dbSemaphores, made, full, pc, db, sem, done>>
locals == <<db, sem, done>>

nil == 0

Acquiring == {"lock", "test", "make", "load", "select"}
Releasing == {"relock", "reload", "receive"}
Locations == {"out", "held"} \cup Acquiring \cup Releasing

Goto(w, from, to) == pc[w] = from /\ pc' = [pc EXCEPT ![w] = to]

-----------------------------------------------------------------------------
(* NewConnectionCoordinator: an empty map and an unlocked mutex.           *)
Init ==
  /\ mu = NoWorker
  /\ dbSemaphores = [d \in Databases |-> nil]
  /\ made = 0
  /\ full = {}
  /\ pc = [w \in Workers |-> "out"]
  /\ db = [w \in Workers |-> NoDb]
  /\ sem = [w \in Workers |-> nil]
  /\ done = [w \in Workers |-> FALSE]

(* A ...ForDatabase function calls Acquire. *)
CallAcquire(w, d) ==
  /\ Goto(w, "out", "lock")
  /\ db' = [db EXCEPT ![w] = d]
  /\ done' = [done EXCEPT ![w] = FALSE]
  /\ UNCHANGED <<mu, dbSemaphores, made, full, sem>>

(* The caller's context is cancelled or its deadline passes. *)
Cancel(w) ==
  /\ pc[w] # "out"
  /\ ~done[w]
  /\ done' = [done EXCEPT ![w] = TRUE]
  /\ UNCHANGED <<mu, dbSemaphores, made, full, pc, db, sem>>

-----------------------------------------------------------------------------
(* Acquire *)

\* Mutation: the lock is not taken, so the map is read and written unguarded.
LockMapUnguarded(w) ==
  /\ Goto(w, "lock", "test")
  /\ UNCHANGED <<mu, dbSemaphores, made, full, locals>>

\* c.mu.Lock()
LockMap(w) ==
  /\ Goto(w, "lock", "test")
  /\ mu = NoWorker
  /\ mu' = w
  /\ UNCHANGED <<dbSemaphores, made, full, locals>>

\* Mutation: a semaphore is made on every call, not only on the first.
TestSemaphoreAlwaysMake(w) ==
  /\ Goto(w, "test", "make")
  /\ made < 3
  /\ UNCHANGED <<mu, dbSemaphores, made, full, locals>>

\* Mutation: the first caller of a database does not make its semaphore.
TestSemaphoreNeverMake(w) ==
  /\ Goto(w, "test", "load")
  /\ UNCHANGED <<mu, dbSemaphores, made, full, locals>>

\* if c.dbSemaphores[dbName] == nil
TestSemaphore(w) ==
  /\ Goto(w, "test", IF dbSemaphores[db[w]] = nil THEN "make" ELSE "load")
  /\ UNCHANGED <<mu, dbSemaphores, made, full, locals>>

\* c.dbSemaphores[dbName] = make(chan struct{}, 1)
MakeSemaphore(w) ==
  /\ Goto(w, "make", "load")
  /\ made' = made + 1
  /\ dbSemaphores' = [dbSemaphores EXCEPT ![db[w]] = made + 1]
  /\ UNCHANGED <<mu, full, locals>>

\* Mutation: the mutex stays locked while the worker waits in the select.
LoadSemaphoreKeepLock(w) ==
  /\ Goto(w, "load", "select")
  /\ sem' = [sem EXCEPT ![w] = dbSemaphores[db[w]]]
  /\ UNCHANGED <<mu, dbSemaphores, made, full, db, done>>

\* sem := c.dbSemaphores[dbName]; c.mu.Unlock()
LoadSemaphore(w) ==
  /\ Goto(w, "load", "select")
  /\ sem' = [sem EXCEPT ![w] = dbSemaphores[db[w]]]
  /\ mu' = NoWorker
  /\ UNCHANGED <<dbSemaphores, made, full, db, done>>

\* Mutation: the send does not wait for room in the buffer.
SelectSendUnbounded(w) ==
  /\ Goto(w, "select", "held")
  /\ full' = full \cup {sem[w]}
  /\ sem' = [sem EXCEPT ![w] = nil]
  /\ UNCHANGED <<mu, dbSemaphores, made, db, done>>

\* case sem <- struct{}{}: return nil.  Blocks while the buffer is full (and,
\* as any send, for ever on a nil channel).
SelectSend(w) ==
  /\ Goto(w, "select", "held")
  /\ sem[w] # nil /\ sem[w] \notin full
  /\ full' = full \cup {sem[w]}
  /\ sem' = [sem EXCEPT ![w] = nil]
  /\ UNCHANGED <<mu, dbSemaphores, made, db, done>>

\* Mutation: the select has no case for the context.
SelectDoneMissing(w) ==
  /\ FALSE
  /\ UNCHANGED vars

\* Mutation: the token is already in the channel when the context wins.
SelectDoneLeavesToken(w) ==
  /\ Goto(w, "select", "out")
  /\ done[w]
  /\ full' = full \cup {sem[w]}
  /\ sem' = [sem EXCEPT ![w] = nil]
  /\ db' = [db EXCEPT ![w] = NoDb]
  /\ UNCHANGED <<mu, dbSemaphores, made, done>>

\* case <-ctx.Done(): return ctx.Err().  When both cases are ready, Go's
\* select picks either.
SelectDone(w) ==
  /\ Goto(w, "select", "out")
  /\ done[w]
  /\ sem' = [sem EXCEPT ![w] = nil]
  /\ db' = [db EXCEPT ![w] = NoDb]
  /\ UNCHANGED <<mu, dbSemaphores, made, full, done>>

-----------------------------------------------------------------------------
(* Release *)

\* The deferred call of Release, after the worker is done with the database.
CallRelease(w) ==
  /\ Goto(w, "held", "relock")
  /\ UNCHANGED <<mu, dbSemaphores, made, full, locals>>

\* c.mu.Lock()
RelockMap(w) ==
  /\ Goto(w, "relock", "reload")
  /\ mu = NoWorker
  /\ mu' = w
  /\ UNCHANGED <<dbSemaphores, made, full, locals>>

\* sem := c.dbSemaphores[dbName]; c.mu.Unlock()
ReloadSemaphore(w) ==
  /\ Goto(w, "reload", "receive")
  /\ sem' = [sem EXCEPT ![w] = dbSemaphores[db[w]]]
  /\ mu' = NoWorker
  /\ UNCHANGED <<dbSemaphores, made, full, db, done>>

\* if sem != nil { <-sem }.  Blocks while the buffer is empty.
Receive(w) ==
  /\ Goto(w, "receive", "out")
  /\ sem[w] # nil => sem[w] \in full
  /\ full' = full \ {sem[w]}
  /\ sem' = [sem EXCEPT ![w] = nil]
  /\ db' = [db EXCEPT ![w] = NoDb]
  /\ UNCHANGED <<mu, dbSemaphores, made, done>>

-----------------------------------------------------------------------------
Acquire(w) ==
  \/ LockMap(w) \/ TestSemaphore(w) \/ MakeSemaphore(w) \/ LoadSemaphore(w)
  \/ SelectSend(w) \/ SelectDone(w)

Release(w) == RelockMap(w) \/ ReloadSemaphore(w) \/ Receive(w)

Next ==
  \E w \in Workers :
    \/ \E d \in Databases : CallAcquire(w, d)
    \/ Cancel(w)
    \/ Acquire(w)
    \/ CallRelease(w)
    \/ Release(w)

Spec == Init /\ [][Next]_vars

(* Scheduling.  Every goroutine inside Acquire or Release keeps running.   *)
(* sync.Mutex hands the lock to the longest waiter after 1ms (starvation   *)
(* mode) and a channel serves its blocked senders in FIFO order, so a      *)
(* worker that can lock, or send, again and again eventually does: strong  *)
(* fairness.  Nothing makes a holder call Release: its database may hang.  *)
Fairness ==
  \A w \in Workers :
    /\ WF_vars(Acquire(w)) /\ WF_vars(Release(w))
    /\ SF_vars(LockMap(w)) /\ SF_vars(RelockMap(w)) /\ SF_vars(SelectSend(w))

FairSpec == Spec /\ Fairness

-----------------------------------------------------------------------------
(* The variables' types; a worker inside a call has an argument, and its   *)
(* local sem is a made channel exactly where Acquire or Release uses it.   *)
TypeOK ==
  /\ mu \in Workers \cup {NoWorker}
  /\ made \in Nat
  /\ dbSemaphores \in [Databases -> 0..made]
  /\ full \subseteq 1..made
  /\ pc \in [Workers -> Locations]
  /\ db \in [Workers -> Databases \cup {NoDb}]
  /\ sem \in [Workers -> 0..made]
  /\ done \in [Workers -> BOOLEAN]
  /\ \A w \in Workers : pc[w] # "out" => db[w] \in Databases
  /\ \A w \in Workers : pc[w] \in {"select", "receive"} <=> sem[w] # nil

\* Acquire has returned nil and Release has not yet taken the token back.
Holds(w) == pc[w] \in {"held"} \cup Releasing

(* At most one worker is between a successful Acquire of a database and    *)
(* the end of its Release: "ensures max 1 connection per database at a     *)
(* time" (coordinator.go:8).  It fails if two first callers could each     *)
(* make a semaphore.                                                       *)
MutualExclusion ==
  \A v, w \in Workers : v # w /\ Holds(v) /\ Holds(w) => db[v] # db[w]

(* Release never blocks on `<-sem`, never finds a nil semaphore, and takes *)
(* the token of the channel its own Acquire filled, however calls and      *)
(* cancellations interleave.                                               *)
ReleaseFindsToken ==
  \A w \in Workers : pc[w] = "receive" => sem[w] # nil /\ sem[w] \in full

(* The buffer of a database's semaphore is full exactly while some worker  *)
(* holds its permit: an Acquire that lost the race against its context     *)
(* leaves no token behind, and no permit is ever lost.                     *)
PermitsAccounted ==
  \A d \in Databases :
    dbSemaphores[d] \in full <=> \E w \in Workers : Holds(w) /\ db[w] = d

(* A semaphore once published in the map is never replaced: a holder and   *)
(* every later caller meet on one channel.                                 *)
SemaphoreStable ==
  [][\A d \in Databases :
       dbSemaphores[d] # nil => dbSemaphores'[d] = dbSemaphores[d]]_vars

-----------------------------------------------------------------------------
(* A caller whose context is done leaves Acquire even if the permit's      *)
(* holder never releases it: "Acquire blocks until we can connect to the   *)
(* database" or ctx is done.                                               *)
CancelledAcquireReturns ==
  \A w \in Workers :
    (pc[w] \in Acquiring /\ done[w]) ~> (pc[w] \notin Acquiring)

(* Release always completes: it is not stuck behind callers that wait for  *)
(* a permit.                                                               *)
ReleaseReturns == \A w \in Workers : (pc[w] \in Releasing) ~> (pc[w] = "out")

(* If every holder gives its permit back, no Acquire waits for ever.       *)
AcquireReturns ==
  (\A v \in Workers : []<>(pc[v] # "held")) =>
    \A w \in Workers : (pc[w] \in Acquiring) ~> (pc[w] \notin Acquiring)

-----------------------------------------------------------------------------
(* Refinement: the permit a worker holds in the abstract specification.    *)
permitOf == [w \in Workers |-> IF Holds(w) THEN db[w] ELSE NoDb]

Permit == INSTANCE DbPermit WITH Procs <- Workers, holds <- permitOf

(* Coordinator implements DbPermit: a permit is granted by the send and    *)
(* returned by the receive, and every other step is a stutter.             *)
ImplementsPermit == Permit!Spec
=============================================================================
