------------------------- MODULE CoordinatorProofs -------------------------
(***************************************************************************)
(* Proofs about Coordinator, for any sets of workers and databases: the    *)
(* permit is exclusive, no token is lost or left behind, Release never     *)
(* blocks, and the mutex-and-channel code implements DbPermit.             *)
(***************************************************************************)
EXTENDS Coordinator, TLAPS

\* Between Lock and Unlock of c.mu.
Critical == {"test", "make", "load", "reload"}

\* Only the worker that locked the mutex is in a critical section.
MutexInv == \A w \in Workers : pc[w] \in Critical <=> mu = w

\* From the load on, the worker's database has a semaphore; at the make it
\* has none.
PublishedInv ==
  \A w \in Workers :
    /\ pc[w] = "make" => dbSemaphores[db[w]] = nil
    /\ pc[w] \in {"load", "select", "held"} \cup Releasing
         => dbSemaphores[db[w]] # nil

\* A worker's local sem is the channel that is in the map.
LocalInv ==
  \A w \in Workers :
    pc[w] \in {"select", "receive"} => sem[w] = dbSemaphores[db[w]]

\* No two databases share a semaphore.
DistinctInv ==
  \A d, e \in Databases :
    d # e /\ dbSemaphores[d] # nil => dbSemaphores[d] # dbSemaphores[e]

IndInv ==
  /\ TypeOK
  /\ MutexInv
  /\ PublishedInv
  /\ LocalInv
  /\ DistinctInv
  /\ PermitsAccounted
  /\ MutualExclusion
-----------------------------------------------------------------------------
\* Initially no worker is in a call and the map is empty.
LEMMA InitIndInv == Init => IndInv
<1> SUFFICES ASSUME Init PROVE IndInv
  OBVIOUS
<1>1. TypeOK
  BY CoordinatorAssumption DEF Init, TypeOK, nil, Locations
<1>2. MutexInv /\ PublishedInv /\ LocalInv /\ MutualExclusion
  BY CoordinatorAssumption
  DEF Init, MutexInv, PublishedInv, LocalInv, MutualExclusion, Critical,
      Releasing, Holds
<1>3. DistinctInv /\ PermitsAccounted
  BY DEF Init, DistinctInv, PermitsAccounted, Releasing, Holds
<1> QED
  BY <1>1, <1>2, <1>3 DEF IndInv

\* A call that begins holds nothing yet and is outside the mutex.
LEMMA CallAcquireStep ==
  ASSUME IndInv, NEW w \in Workers, NEW d \in Databases, CallAcquire(w, d)
  PROVE  IndInv'
<1> USE CoordinatorAssumption DEF IndInv, CallAcquire, Goto, locals
<1>1. TypeOK'
  BY DEF TypeOK, nil, Locations, Acquiring, Releasing, PublishedInv
<1>2. MutexInv'
  BY DEF TypeOK, MutexInv, Critical, Locations, Acquiring, Releasing
<1>3. PublishedInv' /\ LocalInv'
  BY DEF TypeOK, PublishedInv, LocalInv, Releasing
<1>4. DistinctInv'
  BY DEF DistinctInv
<1>5. PermitsAccounted'
  BY DEF TypeOK, PermitsAccounted, Holds, Releasing
<1>6. MutualExclusion'
  BY DEF TypeOK, MutualExclusion, Holds, Releasing
<1> QED
  BY <1>1, <1>2, <1>3, <1>4, <1>5, <1>6

\* Closing ctx.Done() changes only done.
LEMMA CancelStep ==
  ASSUME IndInv, NEW w \in Workers, Cancel(w)
  PROVE  IndInv'
<1> USE CoordinatorAssumption DEF IndInv, Cancel, Goto, locals
<1>1. TypeOK'
  BY DEF TypeOK, nil, Locations, Acquiring, Releasing, PublishedInv
<1>2. MutexInv'
  BY DEF TypeOK, MutexInv, Critical, Locations, Acquiring, Releasing
<1>3. PublishedInv' /\ LocalInv'
  BY DEF TypeOK, PublishedInv, LocalInv, Releasing
<1>4. DistinctInv'
  BY DEF DistinctInv
<1>5. PermitsAccounted'
  BY DEF TypeOK, PermitsAccounted, Holds, Releasing
<1>6. MutualExclusion'
  BY DEF TypeOK, MutualExclusion, Holds, Releasing
<1> QED
  BY <1>1, <1>2, <1>3, <1>4, <1>5, <1>6

\* Lock finds the mutex free, so no other worker is in a critical section.
LEMMA LockMapStep ==
  ASSUME IndInv, NEW w \in Workers, LockMap(w)
  PROVE  IndInv'
<1> USE CoordinatorAssumption DEF IndInv, LockMap, Goto, locals
<1>1. TypeOK'
  BY DEF TypeOK, nil, Locations, Acquiring, Releasing, PublishedInv
<1>2. MutexInv'
  BY DEF TypeOK, MutexInv, Critical, Locations, Acquiring, Releasing
<1>3. PublishedInv' /\ LocalInv'
  BY DEF TypeOK, PublishedInv, LocalInv, Releasing
<1>4. DistinctInv'
  BY DEF DistinctInv
<1>5. PermitsAccounted'
  BY DEF TypeOK, PermitsAccounted, Holds, Releasing
<1>6. MutualExclusion'
  BY DEF TypeOK, MutualExclusion, Holds, Releasing
<1> QED
  BY <1>1, <1>2, <1>3, <1>4, <1>5, <1>6

\* The branch on nil establishes PublishedInv for "make" and for "load".
LEMMA TestSemaphoreStep ==
  ASSUME IndInv, NEW w \in Workers, TestSemaphore(w)
  PROVE  IndInv'
<1> USE CoordinatorAssumption DEF IndInv, TestSemaphore, Goto, locals
<1>1. TypeOK'
  BY DEF TypeOK, nil, Locations, Acquiring, Releasing, PublishedInv
<1>2. MutexInv'
  BY DEF TypeOK, MutexInv, Critical, Locations, Acquiring, Releasing
<1>3. PublishedInv' /\ LocalInv'
  BY DEF TypeOK, PublishedInv, LocalInv, Releasing, nil
<1>4. DistinctInv'
  BY DEF DistinctInv
<1>5. PermitsAccounted'
  BY DEF TypeOK, PermitsAccounted, Holds, Releasing
<1>6. MutualExclusion'
  BY DEF TypeOK, MutualExclusion, Holds, Releasing
<1> QED
  BY <1>1, <1>2, <1>3, <1>4, <1>5, <1>6

\* The new channel is no one else's: its number is above every one in use, and
\* the mutex keeps every other worker from testing or making meanwhile.
LEMMA MakeSemaphoreStep ==
  ASSUME IndInv, NEW w \in Workers, MakeSemaphore(w)
  PROVE  IndInv'
<1> USE CoordinatorAssumption DEF IndInv, MakeSemaphore, Goto, locals
<1>1. TypeOK'
  BY DEF TypeOK, nil, Locations, Acquiring, Releasing, PublishedInv
<1>2. MutexInv'
  BY DEF TypeOK, MutexInv, Critical, Locations, Acquiring, Releasing
<1>3. PublishedInv' /\ LocalInv'
  BY DEF TypeOK, PublishedInv, LocalInv, MutexInv, Critical, Releasing,
         nil
<1>4. DistinctInv'
  BY DEF TypeOK, DistinctInv, nil
<1>5. PermitsAccounted'
  BY DEF TypeOK, PermitsAccounted, PublishedInv, Holds, Releasing, nil
<1>6. MutualExclusion'
  BY DEF TypeOK, MutualExclusion, Holds, Releasing
<1> QED
  BY <1>1, <1>2, <1>3, <1>4, <1>5, <1>6

\* The unlocked worker carries the map's channel into the select.
LEMMA LoadSemaphoreStep ==
  ASSUME IndInv, NEW w \in Workers, LoadSemaphore(w)
  PROVE  IndInv'
<1> USE CoordinatorAssumption DEF IndInv, LoadSemaphore, Goto, locals
<1>1. TypeOK'
  BY DEF TypeOK, nil, Locations, Acquiring, Releasing, PublishedInv
<1>2. MutexInv'
  BY DEF TypeOK, MutexInv, Critical, Locations, Acquiring, Releasing
<1>3. PublishedInv' /\ LocalInv'
  BY DEF TypeOK, PublishedInv, LocalInv, Releasing
<1>4. DistinctInv'
  BY DEF DistinctInv
<1>5. PermitsAccounted'
  BY DEF TypeOK, PermitsAccounted, Holds, Releasing
<1>6. MutualExclusion'
  BY DEF TypeOK, MutualExclusion, Holds, Releasing
<1> QED
  BY <1>1, <1>2, <1>3, <1>4, <1>5, <1>6

\* A send that finds room finds no holder of the database (PermitsAccounted).
LEMMA SelectSendStep ==
  ASSUME IndInv, NEW w \in Workers, SelectSend(w)
  PROVE  IndInv'
<1> USE CoordinatorAssumption DEF IndInv, SelectSend, Goto, locals
<1>1. TypeOK'
  <2>1. full' \subseteq 1..made'
    <3>1. sem[w] \in 1..made
      BY DEF TypeOK, nil
    <3> QED
      BY <3>1 DEF TypeOK
  <2>2. sem' \in [Workers -> 0..made'] /\ sem'[w] = nil
    BY DEF TypeOK, nil
  <2> QED
    BY <2>1, <2>2 DEF TypeOK, nil, Locations, Acquiring, Releasing
<1>2. MutexInv'
  BY DEF TypeOK, MutexInv, Critical, Locations, Acquiring, Releasing
<1>3. PublishedInv' /\ LocalInv'
  BY DEF TypeOK, PublishedInv, LocalInv, Releasing
<1>4. DistinctInv'
  BY DEF DistinctInv
<1>5. PermitsAccounted'
  BY DEF TypeOK, PermitsAccounted, MutualExclusion, PublishedInv, LocalInv,
         DistinctInv, Holds, Releasing, nil
<1>6. MutualExclusion'
  BY DEF TypeOK, PermitsAccounted, MutualExclusion, LocalInv, Holds, Releasing
<1> QED
  BY <1>1, <1>2, <1>3, <1>4, <1>5, <1>6

\* Acquire that returns ctx.Err() leaves the buffers alone.
LEMMA SelectDoneStep ==
  ASSUME IndInv, NEW w \in Workers, SelectDone(w)
  PROVE  IndInv'
<1> USE CoordinatorAssumption DEF IndInv, SelectDone, Goto, locals
<1>1. TypeOK'
  BY DEF TypeOK, nil, Locations, Acquiring, Releasing, PublishedInv
<1>2. MutexInv'
  BY DEF TypeOK, MutexInv, Critical, Locations, Acquiring, Releasing
<1>3. PublishedInv' /\ LocalInv'
  BY DEF TypeOK, PublishedInv, LocalInv, Releasing
<1>4. DistinctInv'
  BY DEF DistinctInv
<1>5. PermitsAccounted'
  BY DEF TypeOK, PermitsAccounted, Holds, Releasing
<1>6. MutualExclusion'
  BY DEF TypeOK, MutualExclusion, Holds, Releasing
<1> QED
  BY <1>1, <1>2, <1>3, <1>4, <1>5, <1>6

\* A worker that starts Release still counts as a holder.
LEMMA CallReleaseStep ==
  ASSUME IndInv, NEW w \in Workers, CallRelease(w)
  PROVE  IndInv'
<1> USE CoordinatorAssumption DEF IndInv, CallRelease, Goto, locals
<1>1. TypeOK'
  BY DEF TypeOK, nil, Locations, Acquiring, Releasing, PublishedInv
<1>2. MutexInv'
  BY DEF TypeOK, MutexInv, Critical, Locations, Acquiring, Releasing
<1>3. PublishedInv' /\ LocalInv'
  BY DEF TypeOK, PublishedInv, LocalInv, Releasing
<1>4. DistinctInv'
  BY DEF DistinctInv
<1>5. PermitsAccounted'
  BY DEF TypeOK, PermitsAccounted, Holds, Releasing
<1>6. MutualExclusion'
  BY DEF TypeOK, MutualExclusion, Holds, Releasing
<1> QED
  BY <1>1, <1>2, <1>3, <1>4, <1>5, <1>6

\* Lock in Release, as LockMapStep.
LEMMA RelockMapStep ==
  ASSUME IndInv, NEW w \in Workers, RelockMap(w)
  PROVE  IndInv'
<1> USE CoordinatorAssumption DEF IndInv, RelockMap, Goto, locals
<1>1. TypeOK'
  BY DEF TypeOK, nil, Locations, Acquiring, Releasing, PublishedInv
<1>2. MutexInv'
  BY DEF TypeOK, MutexInv, Critical, Locations, Acquiring, Releasing
<1>3. PublishedInv' /\ LocalInv'
  BY DEF TypeOK, PublishedInv, LocalInv, Releasing
<1>4. DistinctInv'
  BY DEF DistinctInv
<1>5. PermitsAccounted'
  BY DEF TypeOK, PermitsAccounted, Holds, Releasing
<1>6. MutualExclusion'
  BY DEF TypeOK, MutualExclusion, Holds, Releasing
<1> QED
  BY <1>1, <1>2, <1>3, <1>4, <1>5, <1>6

\* Release loads the channel its own Acquire filled: the map still has it.
LEMMA ReloadSemaphoreStep ==
  ASSUME IndInv, NEW w \in Workers, ReloadSemaphore(w)
  PROVE  IndInv'
<1> USE CoordinatorAssumption DEF IndInv, ReloadSemaphore, Goto, locals
<1>1. TypeOK'
  BY DEF TypeOK, nil, Locations, Acquiring, Releasing, PublishedInv
<1>2. MutexInv'
  BY DEF TypeOK, MutexInv, Critical, Locations, Acquiring, Releasing
<1>3. PublishedInv' /\ LocalInv'
  BY DEF TypeOK, PublishedInv, LocalInv, Releasing
<1>4. DistinctInv'
  BY DEF DistinctInv
<1>5. PermitsAccounted'
  BY DEF TypeOK, PermitsAccounted, Holds, Releasing
<1>6. MutualExclusion'
  BY DEF TypeOK, MutualExclusion, Holds, Releasing
<1> QED
  BY <1>1, <1>2, <1>3, <1>4, <1>5, <1>6

\* The receive empties the buffer its only holder had filled.
LEMMA ReceiveStep ==
  ASSUME IndInv, NEW w \in Workers, Receive(w)
  PROVE  IndInv'
<1> USE CoordinatorAssumption DEF IndInv, Receive, Goto, locals
<1>1. TypeOK'
  <2>1. full' \subseteq 1..made'
    BY DEF TypeOK, nil
  <2>2. sem' \in [Workers -> 0..made'] /\ sem'[w] = nil
    BY DEF TypeOK, nil
  <2> QED
    BY <2>1, <2>2 DEF TypeOK, nil, Locations, Acquiring, Releasing
<1>2. MutexInv'
  BY DEF TypeOK, MutexInv, Critical, Locations, Acquiring, Releasing
<1>3. PublishedInv' /\ LocalInv'
  BY DEF TypeOK, PublishedInv, LocalInv, Releasing
<1>4. DistinctInv'
  BY DEF DistinctInv
<1>5. PermitsAccounted'
  BY DEF TypeOK, PermitsAccounted, MutualExclusion, PublishedInv, LocalInv,
         DistinctInv, Holds, Releasing, nil
<1>6. MutualExclusion'
  BY DEF TypeOK, MutualExclusion, Holds, Releasing
<1> QED
  BY <1>1, <1>2, <1>3, <1>4, <1>5, <1>6

-----------------------------------------------------------------------------
\* Every step, stutters included, preserves the inductive invariant.
LEMMA NextIndInv == IndInv /\ [Next]_vars => IndInv'
<1> SUFFICES ASSUME IndInv, [Next]_vars PROVE IndInv'
  OBVIOUS
<1>1. CASE Next
  <2> PICK w \in Workers :
        \/ \E d \in Databases : CallAcquire(w, d)
        \/ Cancel(w) \/ Acquire(w) \/ CallRelease(w) \/ Release(w)
    BY <1>1 DEF Next
  <2>1. CASE \E d \in Databases : CallAcquire(w, d)
    BY <2>1, CallAcquireStep
  <2>2. CASE Cancel(w)
    BY <2>2, CancelStep
  <2>3. CASE Acquire(w)
    BY <2>3, LockMapStep, TestSemaphoreStep, MakeSemaphoreStep,
       LoadSemaphoreStep, SelectSendStep, SelectDoneStep DEF Acquire
  <2>4. CASE CallRelease(w)
    BY <2>4, CallReleaseStep
  <2>5. CASE Release(w)
    BY <2>5, RelockMapStep, ReloadSemaphoreStep, ReceiveStep DEF Release
  <2> QED
    BY <2>1, <2>2, <2>3, <2>4, <2>5
<1>2. CASE UNCHANGED vars
  BY <1>2
  DEF vars, IndInv, TypeOK, MutexInv, PublishedInv, LocalInv, DistinctInv,
      PermitsAccounted, MutualExclusion, Holds
<1> QED
  BY <1>1, <1>2

\* The inductive invariant holds in every reachable state.
THEOREM CoordinatorInv == Spec => []IndInv
  BY InitIndInv, NextIndInv, PTL DEF Spec

\* The types of TypeOK, and that sem is a made channel wherever Acquire and
\* Release use it, in every reachable state.
THEOREM CoordinatorTypeOK == Spec => []TypeOK
<1>1. IndInv => TypeOK
  BY DEF IndInv
<1> QED
  BY <1>1, CoordinatorInv, PTL

\* "max 1 connection per database at a time": for any number of goroutines
\* and databases, two goroutines never hold one database's permit.
THEOREM CoordinatorMutualExclusion == Spec => []MutualExclusion
<1>1. IndInv => MutualExclusion
  BY DEF IndInv
<1> QED
  BY <1>1, CoordinatorInv, PTL

\* No token is lost or left behind by a cancelled Acquire.
THEOREM CoordinatorPermitsAccounted == Spec => []PermitsAccounted
<1>1. IndInv => PermitsAccounted
  BY DEF IndInv
<1> QED
  BY <1>1, CoordinatorInv, PTL

\* The receive of Release never blocks: its token is in the buffer.
THEOREM CoordinatorReleaseFindsToken == Spec => []ReleaseFindsToken
<1>1. IndInv => ReleaseFindsToken
  BY DEF IndInv, TypeOK, LocalInv, PermitsAccounted, ReleaseFindsToken, Holds,
         Releasing
<1> QED
  BY <1>1, CoordinatorInv, PTL

\* A published semaphore is never replaced by another one.
THEOREM CoordinatorSemaphoreStable == Spec => SemaphoreStable
<1> DEFINE Kept == \A d \in Databases :
                     dbSemaphores[d] # nil => dbSemaphores'[d] = dbSemaphores[d]
<1>1. IndInv /\ [Next]_vars => [Kept]_vars
  <2> SUFFICES ASSUME IndInv, Next PROVE Kept
    OBVIOUS
  <2>1. ASSUME NEW w \in Workers, MakeSemaphore(w) PROVE Kept
    BY <2>1 DEF IndInv, TypeOK, PublishedInv, MakeSemaphore, Goto
  <2>2. ASSUME NEW w \in Workers, Release(w) \/ CallRelease(w) \/ Cancel(w)
        PROVE  Kept
    BY <2>2
    DEF Release, CallRelease, Cancel, RelockMap, ReloadSemaphore, Receive
  <2>3. ASSUME NEW w \in Workers,
               (\E d \in Databases : CallAcquire(w, d)) \/ LockMap(w)
                 \/ TestSemaphore(w) \/ LoadSemaphore(w) \/ SelectSend(w)
                 \/ SelectDone(w)
        PROVE  Kept
    BY <2>3
    DEF CallAcquire, LockMap, TestSemaphore, LoadSemaphore, SelectSend,
        SelectDone
  <2> QED
    BY <2>1, <2>2, <2>3 DEF Next, Acquire
<1> QED
  BY <1>1, CoordinatorInv, PTL DEF Spec, SemaphoreStable

-----------------------------------------------------------------------------
(* Who waits for whom. *)

\* A worker that cannot go on: another has the mutex, or the one place of the
\* semaphore's buffer is taken, or empty for a receive.
Blocked(w) ==
  \/ pc[w] \in {"lock", "relock"} /\ mu # NoWorker
  \/ pc[w] = "select" /\ ~done[w] /\ (sem[w] = nil \/ sem[w] \in full)
  \/ pc[w] = "receive" /\ sem[w] # nil /\ sem[w] \notin full

\* Worker v has what w needs.
WaitsFor(w, v) ==
  \/ pc[w] \in {"lock", "relock"} /\ mu = v
  \/ pc[w] = "select" /\ Holds(v) /\ db[v] = db[w]

\* How long a chain of workers that wait for the next one can be from here.
Depth(w) ==
  IF pc[w] = "select" THEN 2 ELSE IF pc[w] \in {"lock", "relock"} THEN 1 ELSE 0

\* A blocked worker waits for another one, which is nearer to the end of every
\* chain: there is no cycle, and at the end is a worker that can go on.
WaitingEnds ==
  \A w \in Workers :
    /\ Blocked(w) => \E v \in Workers : WaitsFor(w, v)
    /\ \A v \in Workers : WaitsFor(w, v) => v # w /\ Depth(v) < Depth(w)

(* Acquire and Release never wait in a circle, for any goroutines and      *)
(* databases: who waits for a permit has unlocked c.mu, who has a permit   *)
(* waits at most for c.mu, and who has locked c.mu does not wait.          *)
THEOREM CoordinatorWaitingEnds == Spec => []WaitingEnds
<1>1. IndInv => WaitingEnds
  <2> SUFFICES ASSUME IndInv, NEW w \in Workers
               PROVE  /\ Blocked(w) => \E v \in Workers : WaitsFor(w, v)
                      /\ \A v \in Workers :
                           WaitsFor(w, v) => v # w /\ Depth(v) < Depth(w)
    BY DEF WaitingEnds
  <2>1. CASE pc[w] \in {"lock", "relock"}
    <3>1. mu # NoWorker => mu \in Workers
      BY DEF IndInv, TypeOK
    <3>2. \A v \in Workers : mu = v => pc[v] \in Critical
      BY DEF IndInv, MutexInv
    <3> QED
      BY <2>1, <3>1, <3>2 DEF Blocked, WaitsFor, Depth, Critical
  <2>2. CASE pc[w] = "select"
    <3>1. sem[w] # nil /\ sem[w] = dbSemaphores[db[w]] /\ db[w] \in Databases
      BY <2>2 DEF IndInv, TypeOK, LocalInv
    <3>2. sem[w] \in full <=> \E v \in Workers : Holds(v) /\ db[v] = db[w]
      BY <3>1 DEF IndInv, PermitsAccounted
    <3>3. \A v \in Workers : Holds(v) => v # w /\ Depth(v) < 2
      BY <2>2 DEF Holds, Releasing, Depth
    <3> QED
      BY <2>2, <3>1, <3>2, <3>3 DEF Blocked, WaitsFor, Depth
  <2>3. CASE pc[w] = "receive"
    <3>1. sem[w] \in full
      BY <2>3 DEF IndInv, TypeOK, LocalInv, PermitsAccounted, Holds, Releasing
    <3> QED
      BY <2>3, <3>1 DEF Blocked, WaitsFor
  <2>4. CASE pc[w] \notin {"lock", "relock", "select", "receive"}
    BY <2>4 DEF Blocked, WaitsFor
  <2> QED
    BY <2>1, <2>2, <2>3, <2>4
<1> QED
  BY <1>1, CoordinatorInv, PTL

-----------------------------------------------------------------------------
(* The channels. *)

\* Every channel ever made is the semaphore of a database, and none is made
\* for a database that has one.
ChannelsInUse == \A c \in 1..made : \E d \in Databases : dbSemaphores[d] = c

(* The coordinator allocates one channel per database name, whatever races *)
(* for the first Acquire: none is lost from the map, with a token in it or *)
(* without, so a full buffer always has a holder.                          *)
THEOREM CoordinatorChannelsInUse ==
  Spec => []( /\ ChannelsInUse
              /\ \A c \in full : \E w \in Workers :
                   Holds(w) /\ dbSemaphores[db[w]] = c )
<1>1. Init => ChannelsInUse
  BY DEF Init, ChannelsInUse
<1>2. IndInv /\ ChannelsInUse /\ [Next]_vars => ChannelsInUse'
  <2> SUFFICES ASSUME IndInv, ChannelsInUse, [Next]_vars PROVE ChannelsInUse'
    OBVIOUS
  <2>1. ASSUME NEW w \in Workers, MakeSemaphore(w) PROVE ChannelsInUse'
    <3>1. db[w] \in Databases /\ dbSemaphores[db[w]] = nil
      BY <2>1 DEF IndInv, TypeOK, PublishedInv, MakeSemaphore, Goto
    <3>2. /\ made \in Nat /\ made' = made + 1
          /\ dbSemaphores' = [dbSemaphores EXCEPT ![db[w]] = made + 1]
          /\ dbSemaphores \in [Databases -> 0..made]
      BY <2>1 DEF IndInv, TypeOK, MakeSemaphore
    <3>3. ASSUME NEW c \in 1..(made + 1)
          PROVE  \E d \in Databases : dbSemaphores'[d] = c
      <4>1. CASE c = made + 1
        BY <3>1, <3>2, <4>1
      <4>2. CASE c \in 1..made
        <5>1. PICK d \in Databases : dbSemaphores[d] = c
          BY <4>2 DEF ChannelsInUse
        <5>2. d # db[w]
          BY <3>1, <3>2, <4>2, <5>1 DEF nil
        <5> QED
          BY <3>2, <5>1, <5>2
      <4> QED
        BY <3>2, <4>1, <4>2
    <3> QED
      BY <3>2, <3>3 DEF ChannelsInUse
  <2>2. CASE UNCHANGED <<made, dbSemaphores>>
    BY <2>2 DEF ChannelsInUse
  <2>3. ASSUME NEW w \in Workers,
               (\E d \in Databases : CallAcquire(w, d)) \/ Cancel(w) \/ LockMap(w)
                 \/ TestSemaphore(w) \/ LoadSemaphore(w) \/ SelectSend(w)
                 \/ SelectDone(w) \/ CallRelease(w) \/ Release(w)
        PROVE  UNCHANGED <<made, dbSemaphores>>
    BY <2>3
    DEF CallAcquire, Cancel, LockMap, TestSemaphore, LoadSemaphore, SelectSend,
        SelectDone, CallRelease, Release, RelockMap, ReloadSemaphore, Receive
  <2> QED
    BY <2>1, <2>2, <2>3 DEF Next, Acquire, vars
<1>3. IndInv /\ ChannelsInUse =>
        \A c \in full : \E w \in Workers : Holds(w) /\ dbSemaphores[db[w]] = c
  <2> SUFFICES ASSUME IndInv, ChannelsInUse, NEW c \in full
               PROVE  \E w \in Workers : Holds(w) /\ dbSemaphores[db[w]] = c
    OBVIOUS
  <2>1. PICK d \in Databases : dbSemaphores[d] = c
    BY DEF IndInv, TypeOK, ChannelsInUse
  <2> QED
    BY <2>1 DEF IndInv, PermitsAccounted
<1> QED
  BY <1>1, <1>2, <1>3, CoordinatorInv, PTL DEF Spec

-----------------------------------------------------------------------------
(* Refinement.  The send grants the permit, the receive returns it, and    *)
(* every other step leaves permitOf alone.                                 *)

\* The send in Acquire is the abstract Grant.
LEMMA SendGrants ==
  ASSUME IndInv, NEW w \in Workers, SelectSend(w)
  PROVE  Permit!Grant(w, db[w])
<1> USE DEF IndInv, TypeOK, SelectSend, Goto, Holds, Releasing
<1>1. permitOf[w] = NoDb
  BY DEF permitOf
<1>2. \A v \in Workers : permitOf[v] # db[w]
  BY CoordinatorAssumption DEF permitOf, PermitsAccounted, LocalInv
<1>3. permitOf' = [permitOf EXCEPT ![w] = db[w]]
  BY DEF permitOf
<1> QED
  BY <1>1, <1>2, <1>3 DEF Permit!Grant, Permit!Free

\* The receive in Release is the abstract Release.
LEMMA ReceiveReturns ==
  ASSUME IndInv, NEW w \in Workers, Receive(w)
  PROVE  Permit!Release(w, db[w])
<1> USE DEF IndInv, TypeOK, Receive, Goto, Holds, Releasing
<1>1. permitOf[w] = db[w]
  BY DEF permitOf
<1>2. permitOf' = [permitOf EXCEPT ![w] = NoDb]
  BY DEF permitOf
<1> QED
  BY <1>1, <1>2 DEF Permit!Release

\* The coordinator's code implements the abstract permit for any sets of
\* workers and databases.
THEOREM CoordinatorImplementsPermit == Spec => ImplementsPermit
<1>1. Init => Permit!Init
  BY DEF Init, Permit!Init, permitOf, Holds, Releasing
<1>2. IndInv /\ [Next]_vars => [Permit!Next]_permitOf
  <2> SUFFICES ASSUME IndInv, [Next]_vars PROVE [Permit!Next]_permitOf
    OBVIOUS
  <2>1. ASSUME NEW w \in Workers, SelectSend(w) \/ Receive(w)
        PROVE  Permit!Next
    <3>1. db[w] \in Databases
      BY <2>1 DEF IndInv, TypeOK, SelectSend, Receive, Goto
    <3>2. Permit!Grant(w, db[w]) \/ Permit!Release(w, db[w])
      BY <2>1, SendGrants, ReceiveReturns
    <3> QED
      BY <3>1, <3>2 DEF Permit!Next
  <2> USE DEF Goto, Holds, Releasing, permitOf
  <2>2. ASSUME NEW w \in Workers, NEW d \in Databases, CallAcquire(w, d)
        PROVE  UNCHANGED permitOf
    BY <2>2 DEF IndInv, TypeOK, CallAcquire
  <2>3. ASSUME NEW w \in Workers,
               Cancel(w) \/ LockMap(w) \/ TestSemaphore(w) \/ MakeSemaphore(w)
                 \/ LoadSemaphore(w) \/ SelectDone(w)
        PROVE  UNCHANGED permitOf
    BY <2>3
    DEF IndInv, TypeOK, Cancel, LockMap, TestSemaphore, MakeSemaphore,
        LoadSemaphore, SelectDone, locals
  <2>4. ASSUME NEW w \in Workers,
               CallRelease(w) \/ RelockMap(w) \/ ReloadSemaphore(w)
        PROVE  UNCHANGED permitOf
    BY <2>4 DEF IndInv, TypeOK, CallRelease, RelockMap, ReloadSemaphore, locals
  <2>5. CASE UNCHANGED vars
    BY <2>5 DEF vars
  <2> QED
    BY <2>1, <2>2, <2>3, <2>4, <2>5 DEF Next, Acquire, Release
<1> QED
  BY <1>1, <1>2, CoordinatorInv, PTL DEF Spec, ImplementsPermit, Permit!Spec
=============================================================================
