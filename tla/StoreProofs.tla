---------------------------- MODULE StoreProofs ----------------------------
(***************************************************************************)
(* Proofs about Store, for any calls, databases, row counts and pool size: *)
(* one coordinated connection per database, all-or-nothing replies, calls  *)
(* that leave nothing behind, and the refinement of Listing.               *)
(***************************************************************************)
EXTENDS Store, FiniteSetTheorems, TLAPS

-----------------------------------------------------------------------------
(* The inductive invariant. *)

\* Places of a goroutine between Acquire's return and the end of Release.
WithPermit == {"connect", "query", "rows", "close", "release"}

\* The databases of call c whose result the fan-in has not received: their
\* goroutine runs, or its result is in the channel.
Outstanding(c) ==
  {d \in Databases : \/ wpc[<<c, d>>] # "none"
                     \/ \E b \in resultsCh[c] : b.db = d}

\* A goroutine has its permit from Acquire to Release and its connection
\* strictly inside that interval.
PermitInv ==
  /\ \A w \in Goroutines :
       holds[w] = IF wpc[w] \in WithPermit THEN w[2] ELSE NoDb
  /\ \A w \in conns : wpc[w] \in {"rows", "close"}
  /\ Permits!Exclusive

\* Goroutines and results exist during the fan-in only, each database has at
\* most one of the two, and the loop counts exactly the ones outstanding.
FanInInv ==
  \A c \in Calls :
    /\ c \in poolConns => phase[c] \in PoolPhases
    /\ phase[c] # "fanin" => Outstanding(c) = {} /\ resultsCh[c] = {}
    /\ phase[c] = "fanin" =>
         Outstanding(c) \subseteq dbs[c] /\ left[c] = Cardinality(Outstanding(c))
    /\ \A b \in resultsCh[c] : wpc[<<c, b.db>>] = "none"
    /\ \A a, b \in resultsCh[c] : a.db = b.db => a = b

\* The phases an operation goes through.
PhaseInv ==
  \A c \in Calls :
    /\ phase[c] = "info" => op[c] = "GetServerInfo"
    /\ phase[c] = "available" => op[c] = "ListExtensions"
    /\ phase[c] = "databases" => op[c] # "GetServerInfo"
    /\ phase[c] = "fanin" => op[c] \notin {"ListDatabases", "GetServerInfo"}

Complete(b) == ~b.err /\ b.rows = RowCount[b.db]

\* A result without an error is complete wherever it is, and while there is
\* no error every listed database is outstanding or among the results.
DataInv ==
  /\ \A w \in Goroutines :
       wpc[w] \in {"close", "release", "send"} /\ ~err[w]
         => rows[w] = RowCount[w[2]]
  /\ \A c \in Calls :
       /\ \A b \in resultsCh[c] : ~b.err => Complete(b)
       /\ \A b \in results[c] : Complete(b) /\ b.db \in dbs[c]
       /\ phase[c] # "returned" => reply[c] = "none"
       /\ phase[c] \in {"idle"} \cup PoolPhases => results[c] = {} /\ errs[c] = 0
       /\ phase[c] = "fanin" /\ errs[c] = 0 =>
            \A d \in dbs[c] \ Outstanding(c) : \E b \in results[c] : b.db = d

\* Sets whose size the code compares are finite.
FiniteInv ==
  /\ IsFiniteSet(poolConns)
  /\ \A c \in Calls : IsFiniteSet(resultsCh[c])

IndInv ==
  /\ TypeOK
  /\ FiniteInv
  /\ PermitInv
  /\ FanInInv
  /\ PhaseInv
  /\ DataInv
  /\ AllOrNothing

-----------------------------------------------------------------------------
\* A server that has just started serves no call.
LEMMA InitIndInv == Init => IndInv
<1> SUFFICES ASSUME Init PROVE IndInv
  OBVIOUS
<1> USE StoreAssumption DEF Init, Permits!Init
<1>1. TypeOK /\ FiniteInv
  <2>1. IsFiniteSet({}) /\ Cardinality({}) = 0
    BY FS_EmptySet
  <2>2. \A c \in Calls : Cardinality(resultsCh[c]) \leq Cardinality(dbs[c])
    BY <2>1
  <2> QED
    BY <2>1, <2>2
    DEF TypeOK, FiniteInv, PoolPhases, WorkPlaces, Permits!PermitTypeOK
<1>2. PermitInv
  BY DEF PermitInv, WithPermit, Permits!Exclusive
<1>3. FanInInv /\ PhaseInv
  <2>1. \A c \in Calls : Outstanding(c) = {}
    BY DEF Outstanding, Goroutines
  <2> QED
    BY <2>1 DEF FanInInv, PhaseInv
<1>4. DataInv /\ AllOrNothing
  BY DEF DataInv, AllOrNothing, PoolPhases
<1> QED
  BY <1>1, <1>2, <1>3, <1>4 DEF IndInv

\* Removing an element does not enlarge a finite set.
LEMMA SmallerSet ==
  ASSUME NEW S, IsFiniteSet(S), NEW x
  PROVE  /\ IsFiniteSet(S \ {x})
         /\ Cardinality(S \ {x}) \in Nat /\ Cardinality(S) \in Nat
         /\ Cardinality(S \ {x}) \leq Cardinality(S)
  BY FS_RemoveElement, FS_CardinalityType

\* Adding an element enlarges a finite set by one at most.
LEMMA LargerSet ==
  ASSUME NEW S, IsFiniteSet(S), NEW x
  PROVE  /\ IsFiniteSet(S \cup {x})
         /\ Cardinality(S \cup {x}) \in Nat /\ Cardinality(S) \in Nat
         /\ Cardinality(S \cup {x}) \leq Cardinality(S) + 1
<1>1. IsFiniteSet(S \cup {x})
  BY FS_AddElement
<1>2. Cardinality(S \cup {x}) \in Nat /\ Cardinality(S) \in Nat
  BY <1>1, FS_CardinalityType
<1>3. \/ Cardinality(S \cup {x}) = Cardinality(S)
      \/ Cardinality(S \cup {x}) = Cardinality(S) + 1
  BY FS_AddElement
<1> QED
  BY <1>1, <1>2, <1>3

\* Giving a connection back keeps the pool within its size.
LEMMA PoolShrinks ==
  ASSUME TypeOK, FiniteInv, NEW c, poolConns' = poolConns \ {c}
  PROVE  IsFiniteSet(poolConns') /\ Cardinality(poolConns') \leq MaxConns
<1>1. /\ IsFiniteSet(poolConns \ {c})
      /\ Cardinality(poolConns \ {c}) \in Nat /\ Cardinality(poolConns) \in Nat
      /\ Cardinality(poolConns \ {c}) \leq Cardinality(poolConns)
  BY SmallerSet DEF FiniteInv
<1> QED
  BY <1>1, StoreAssumption DEF TypeOK

\* Taking one when there is one keeps the pool within its size.
LEMMA PoolGrows ==
  ASSUME TypeOK, FiniteInv, NEW c, poolConns' = poolConns \cup {c},
         Cardinality(poolConns) < MaxConns
  PROVE  IsFiniteSet(poolConns') /\ Cardinality(poolConns') \leq MaxConns
<1>1. /\ IsFiniteSet(poolConns \cup {c})
      /\ Cardinality(poolConns \cup {c}) \in Nat
      /\ Cardinality(poolConns) \in Nat
      /\ Cardinality(poolConns \cup {c}) \leq Cardinality(poolConns) + 1
  BY LargerSet DEF FiniteInv
<1> QED
  BY <1>1, StoreAssumption

\* A step that concerns one call's channel and list leaves those of the others
\* within capacity.
LEMMA CapacityKept ==
  ASSUME TypeOK, NEW c \in Calls,
         \A x \in Calls \ {c} : resultsCh'[x] = resultsCh[x] /\ dbs'[x] = dbs[x],
         Cardinality(resultsCh'[c]) \leq Cardinality(dbs'[c])
  PROVE  \A x \in Calls : Cardinality(resultsCh'[x]) \leq Cardinality(dbs'[x])
<1> TAKE x \in Calls
<1>1. CASE x = c
  BY <1>1
<1>2. CASE x # c
  BY <1>2 DEF TypeOK
<1> QED
  BY <1>1, <1>2

\* Steps that touch neither goroutines nor channels leave the outstanding
\* databases and the permits as they are.
LEMMA QuietStep ==
  ASSUME UNCHANGED <<wpc, resultsCh, holds, conns>>
  PROVE  /\ \A c \in Calls : Outstanding(c)' = Outstanding(c)
         /\ PermitInv => PermitInv'
<1>1. \A c \in Calls : Outstanding(c)' = Outstanding(c)
  BY DEF Outstanding
<1>2. PermitInv => PermitInv'
  BY DEF PermitInv, Permits!Exclusive
<1> QED
  BY <1>1, <1>2

\* A new database concerns no call that has already listed them.
LEMMA CreateDatabaseStep ==
  ASSUME IndInv, NEW d \in Databases, CreateDatabase(d)
  PROVE  IndInv'
<1> USE StoreAssumption DEF IndInv, CreateDatabase, callVars, workVars
<1>0. (\A x \in Calls : Outstanding(x)' = Outstanding(x)) /\ PermitInv'
  BY QuietStep
<1>1. TypeOK'
  BY DEF TypeOK, PoolPhases, AllOperations, Permits!PermitTypeOK
<1>2. FiniteInv'
  BY DEF FiniteInv
<1>3. FanInInv'
  BY <1>0 DEF TypeOK, FanInInv, PoolPhases
<1>4. PhaseInv'
  BY DEF TypeOK, PhaseInv, PoolPhases
<1>5. DataInv'
  BY <1>0 DEF TypeOK, DataInv, FanInInv, PoolPhases
<1>6. AllOrNothing'
  BY DEF TypeOK, AllOrNothing, DataInv, PhaseInv, PoolPhases
<1> QED
  BY <1>0, <1>1, <1>2, <1>3, <1>4, <1>5, <1>6

\* Only the history variable missed changes with the cluster.
LEMMA DropDatabaseStep ==
  ASSUME IndInv, NEW d \in Databases, DropDatabase(d)
  PROVE  IndInv'
<1> USE StoreAssumption DEF IndInv, DropDatabase, callVars, workVars
<1>0. (\A x \in Calls : Outstanding(x)' = Outstanding(x)) /\ PermitInv'
  BY QuietStep
<1>1. TypeOK'
  BY DEF TypeOK, PoolPhases, AllOperations, Permits!PermitTypeOK
<1>2. FiniteInv'
  BY DEF FiniteInv
<1>3. FanInInv'
  BY <1>0 DEF TypeOK, FanInInv, PoolPhases
<1>4. PhaseInv'
  BY DEF TypeOK, PhaseInv, PoolPhases
<1>5. DataInv'
  BY <1>0 DEF TypeOK, DataInv, FanInInv, PoolPhases
<1>6. AllOrNothing'
  BY DEF TypeOK, AllOrNothing, DataInv, PhaseInv, PoolPhases
<1> QED
  BY <1>0, <1>1, <1>2, <1>3, <1>4, <1>5, <1>6

\* The first phase of each operation.
OpeningPhase(o, p) ==
  \/ o = "GetServerInfo" /\ p = "info"
  \/ o = "ListExtensions" /\ p = "available"
  \/ o \in AllOperations \ {"GetServerInfo", "ListExtensions"} /\ p = "databases"

\* An operation starts with nothing but its first phase.
LEMMA StartStep ==
  ASSUME IndInv, NEW c \in Calls,
         NEW o, NEW p, OpeningPhase(o, p), Start(c, o, p)
  PROVE  IndInv'
<1> USE StoreAssumption DEF IndInv, Start, callVars, workVars, OpeningPhase
<1>0. (\A x \in Calls : Outstanding(x)' = Outstanding(x)) /\ PermitInv'
  BY QuietStep
<1>1. TypeOK'
  BY DEF TypeOK, PoolPhases, AllOperations, Permits!PermitTypeOK
<1>2. FiniteInv'
  BY DEF FiniteInv
<1>3. FanInInv'
  BY <1>0 DEF TypeOK, FanInInv, PoolPhases
<1>4. PhaseInv'
  BY DEF TypeOK, PhaseInv, PoolPhases
<1>5. DataInv'
  BY <1>0 DEF TypeOK, DataInv, FanInInv, PoolPhases
<1>6. AllOrNothing'
  BY DEF TypeOK, AllOrNothing, DataInv, PhaseInv, PoolPhases
<1> QED
  BY <1>0, <1>1, <1>2, <1>3, <1>4, <1>5, <1>6

\* A cancellation by itself changes nothing else.
LEMMA CancelStep ==
  ASSUME IndInv, NEW c \in Calls, Cancel(c)
  PROVE  IndInv'
<1> USE StoreAssumption DEF IndInv, Cancel, callVars, workVars
<1>0. (\A x \in Calls : Outstanding(x)' = Outstanding(x)) /\ PermitInv'
  BY QuietStep
<1>1. TypeOK'
  BY DEF TypeOK, PoolPhases, AllOperations, Permits!PermitTypeOK
<1>2. FiniteInv'
  BY DEF FiniteInv
<1>3. FanInInv'
  BY <1>0 DEF TypeOK, FanInInv, PoolPhases
<1>4. PhaseInv'
  BY DEF TypeOK, PhaseInv, PoolPhases
<1>5. DataInv'
  BY <1>0 DEF TypeOK, DataInv, FanInInv, PoolPhases
<1>6. AllOrNothing'
  BY DEF TypeOK, AllOrNothing, DataInv, PhaseInv, PoolPhases
<1> QED
  BY <1>0, <1>1, <1>2, <1>3, <1>4, <1>5, <1>6

\* The slot of a returned call is as good as new.
LEMMA FinishStep ==
  ASSUME IndInv, NEW c \in Calls, Finish(c)
  PROVE  IndInv'
<1> USE StoreAssumption DEF IndInv, Finish, callVars, workVars
<1>0. (\A x \in Calls : Outstanding(x)' = Outstanding(x)) /\ PermitInv'
  BY QuietStep
<1>1. TypeOK'
  <2>1. \A x \in Calls : Cardinality(resultsCh[x])' \leq Cardinality(dbs[x])'
    <3>1. resultsCh'[c] = {} /\ dbs'[c] = {}
      BY DEF TypeOK, FanInInv
    <3>2. \A x \in Calls \ {c} : resultsCh'[x] = resultsCh[x] /\ dbs'[x] = dbs[x]
      BY DEF TypeOK
    <3>3. Cardinality(resultsCh'[c]) = 0 /\ Cardinality(dbs'[c]) = 0
      BY <3>1, FS_EmptySet
    <3> QED
      BY <3>2, <3>3, CapacityKept
  <2> QED
    BY <2>1 DEF TypeOK, Permits!PermitTypeOK
<1>2. FiniteInv'
  BY DEF FiniteInv
<1>3. FanInInv'
  BY <1>0 DEF TypeOK, FanInInv, PoolPhases
<1>4. PhaseInv'
  BY DEF TypeOK, PhaseInv, PoolPhases
<1>5. DataInv'
  BY <1>0 DEF TypeOK, DataInv, FanInInv, PoolPhases
<1>6. AllOrNothing'
  BY DEF TypeOK, AllOrNothing, DataInv, PhaseInv, PoolPhases
<1> QED
  BY <1>0, <1>1, <1>2, <1>3, <1>4, <1>5, <1>6

\* A query takes a connection only if the pool has one to give.
LEMMA PoolQueryStep ==
  ASSUME IndInv, NEW c \in Calls, PoolQuery(c)
  PROVE  IndInv'
<1> USE StoreAssumption DEF IndInv, PoolQuery, callVars, workVars
<1>0. (\A x \in Calls : Outstanding(x)' = Outstanding(x)) /\ PermitInv'
  BY QuietStep
<1>1. TypeOK' /\ FiniteInv'
  <2>1. IsFiniteSet(poolConns') /\ Cardinality(poolConns') \leq MaxConns
    BY PoolGrows
  <2> QED
    BY <2>1 DEF TypeOK, FiniteInv, Permits!PermitTypeOK
<1>3. FanInInv'
  BY <1>0 DEF TypeOK, FanInInv, PoolPhases
<1>4. PhaseInv'
  BY DEF TypeOK, PhaseInv, PoolPhases
<1>5. DataInv'
  BY <1>0 DEF TypeOK, DataInv, FanInInv, PoolPhases
<1>6. AllOrNothing'
  BY DEF TypeOK, AllOrNothing, DataInv, PhaseInv, PoolPhases
<1> QED
  BY <1>0, <1>1, <1>3, <1>4, <1>5, <1>6

\* A failing query of the shared pool returns an error and no rows.
LEMMA PoolFailsStep ==
  ASSUME IndInv, NEW c \in Calls, PoolFails(c)
  PROVE  IndInv'
<1> USE StoreAssumption DEF IndInv, PoolFails, callVars, workVars, Return
<1>0. (\A x \in Calls : Outstanding(x)' = Outstanding(x)) /\ PermitInv'
  BY QuietStep
<1>1. TypeOK' /\ FiniteInv'
  <2>1. IsFiniteSet(poolConns') /\ Cardinality(poolConns') \leq MaxConns
    BY PoolShrinks
  <2> QED
    BY <2>1 DEF TypeOK, FiniteInv, PoolPhases, Permits!PermitTypeOK
<1>3. FanInInv'
  BY <1>0 DEF TypeOK, FanInInv, PoolPhases
<1>4. PhaseInv'
  BY DEF TypeOK, PhaseInv, PoolPhases
<1>5. DataInv'
  BY <1>0 DEF TypeOK, DataInv, FanInInv, PoolPhases
<1>6. AllOrNothing'
  BY DEF TypeOK, AllOrNothing, DataInv, PhaseInv, PoolPhases
<1> QED
  BY <1>0, <1>1, <1>3, <1>4, <1>5, <1>6

\* Only GetServerInfo returns from this phase.
LEMMA ServerInfoReadStep ==
  ASSUME IndInv, NEW c \in Calls, ServerInfoRead(c)
  PROVE  IndInv'
<1> USE StoreAssumption DEF IndInv, ServerInfoRead, callVars, workVars, Return
<1>0. (\A x \in Calls : Outstanding(x)' = Outstanding(x)) /\ PermitInv'
  BY QuietStep
<1>1. TypeOK' /\ FiniteInv'
  <2>1. IsFiniteSet(poolConns') /\ Cardinality(poolConns') \leq MaxConns
    BY PoolShrinks
  <2> QED
    BY <2>1 DEF TypeOK, FiniteInv, PoolPhases, Permits!PermitTypeOK
<1>3. FanInInv'
  BY <1>0 DEF TypeOK, FanInInv, PoolPhases
<1>4. PhaseInv'
  BY DEF TypeOK, PhaseInv, PoolPhases
<1>5. DataInv'
  BY <1>0 DEF TypeOK, DataInv, FanInInv, PoolPhases
<1>6. AllOrNothing'
  BY DEF TypeOK, AllOrNothing, DataInv, PhaseInv, PoolPhases
<1> QED
  BY <1>0, <1>1, <1>3, <1>4, <1>5, <1>6

\* ListExtensions goes on to list the databases.
LEMMA AvailableReadStep ==
  ASSUME IndInv, NEW c \in Calls, AvailableRead(c)
  PROVE  IndInv'
<1> USE StoreAssumption DEF IndInv, AvailableRead, callVars, workVars
<1>0. (\A x \in Calls : Outstanding(x)' = Outstanding(x)) /\ PermitInv'
  BY QuietStep
<1>1. TypeOK' /\ FiniteInv'
  <2>1. IsFiniteSet(poolConns') /\ Cardinality(poolConns') \leq MaxConns
    BY PoolShrinks
  <2> QED
    BY <2>1 DEF TypeOK, FiniteInv, PoolPhases, Permits!PermitTypeOK
<1>3. FanInInv'
  BY <1>0 DEF TypeOK, FanInInv, PoolPhases
<1>4. PhaseInv'
  BY DEF TypeOK, PhaseInv, PoolPhases
<1>5. DataInv'
  BY <1>0 DEF TypeOK, DataInv, FanInInv, PoolPhases
<1>6. AllOrNothing'
  BY DEF TypeOK, AllOrNothing, DataInv, PhaseInv, PoolPhases
<1> QED
  BY <1>0, <1>1, <1>3, <1>4, <1>5, <1>6

\* The loop has ended: nothing is outstanding, so the results are complete.
LEMMA ForEachReturnsStep ==
  ASSUME IndInv, NEW c \in Calls, ForEachReturns(c)
  PROVE  IndInv'
<1> USE StoreAssumption DEF IndInv, ForEachReturns, callVars, workVars, Return
<1>0. (\A x \in Calls : Outstanding(x)' = Outstanding(x)) /\ PermitInv'
  BY QuietStep
<1>1. TypeOK'
  BY DEF TypeOK, PoolPhases, AllOperations, Permits!PermitTypeOK
<1>2. FiniteInv'
  BY DEF FiniteInv
<1>3. FanInInv'
  <2>1. Outstanding(c) = {}
    BY FS_Subset, FS_EmptySet DEF FanInInv, Outstanding
  <2>2. resultsCh[c] = {}
    <3>1. \A b \in resultsCh[c] : b.db \in Databases
      BY DEF TypeOK, Batches
    <3> QED
      BY <2>1, <3>1 DEF Outstanding
  <2> QED
    BY <1>0, <2>1, <2>2 DEF TypeOK, FanInInv, PoolPhases
<1>4. PhaseInv'
  BY DEF TypeOK, PhaseInv, PoolPhases
<1>5. DataInv'
  BY <1>0 DEF TypeOK, DataInv, FanInInv, PoolPhases
<1>6. AllOrNothing'
  <2>1. CASE errs[c] > 0
    BY <2>1 DEF TypeOK, AllOrNothing
  <2>2. CASE errs[c] = 0
    <3> DEFINE Whole == {[db |-> d, rows |-> RowCount[d], err |-> FALSE]
                           : d \in dbs[c]}
    <3>1. \A d \in dbs[c] : \E b \in results[c] : b.db = d
      BY <1>0, <1>3, <2>2 DEF TypeOK, FanInInv, DataInv
    <3>2. \A b \in results[c] :
            /\ b = [db |-> b.db, rows |-> RowCount[b.db], err |-> FALSE]
            /\ b.db \in dbs[c]
      BY DEF TypeOK, Batches, DataInv, Complete
    <3>3. results[c] = Whole
      <4>1. \A b \in results[c] : b \in Whole
        BY <3>2
      <4>2. ASSUME NEW d \in dbs[c]
            PROVE  [db |-> d, rows |-> RowCount[d], err |-> FALSE] \in results[c]
        BY <3>1, <3>2
      <4> QED
        BY <4>1, <4>2
    <3> HIDE DEF Whole
    <3>4. results'[c] = Whole /\ dbs' = dbs /\ op' = op /\ reply'[c] = "OK"
      BY <2>2, <3>3 DEF TypeOK
    <3> QED
      BY <2>2, <3>4 DEF TypeOK, AllOrNothing, Whole
  <2> QED
    BY <2>1, <2>2
<1> QED
  BY <1>0, <1>1, <1>2, <1>3, <1>4, <1>5, <1>6

\* The list of databases either is the reply or starts one goroutine for each
\* of its members, which are then what the fan-in waits for.
LEMMA DatabasesListedStep ==
  ASSUME IndInv, NEW c \in Calls, NEW listed \in SUBSET cluster,
         DatabasesListed(c, listed)
  PROVE  IndInv'
<1> USE StoreAssumption DEF IndInv, DatabasesListed
<1>a. /\ listed \subseteq Databases /\ IsFiniteSet(listed)
      /\ Cardinality(listed) \in Nat
  BY FS_Subset, FS_CardinalityType DEF TypeOK
<1>b. Outstanding(c) = {} /\ resultsCh[c] = {} /\ results[c] = {} /\ errs[c] = 0
  BY DEF FanInInv, DataInv, PoolPhases
<1>c. \A d \in Databases : wpc[<<c, d>>] = "none"
  BY <1>b DEF Outstanding
<1>1. TypeOK' /\ FiniteInv'
  <2>1. IsFiniteSet(poolConns') /\ Cardinality(poolConns') \leq MaxConns
    BY PoolShrinks
  <2>2. \A x \in Calls : Cardinality(resultsCh'[x]) \leq Cardinality(dbs'[x])
    <3>1. \A x \in Calls \ {c} : resultsCh'[x] = resultsCh[x] /\ dbs'[x] = dbs[x]
      BY DEF TypeOK
    <3>2. Cardinality(resultsCh'[c]) = 0 /\ dbs'[c] = listed
      BY <1>b, FS_EmptySet DEF TypeOK
    <3> QED
      BY <1>a, <3>1, <3>2, CapacityKept
  <2>3. /\ left' \in [Calls -> Nat] /\ wpc' \in [Goroutines -> WorkPlaces]
        /\ phase' \in [Calls -> {"idle", "fanin", "returned"} \cup PoolPhases]
        /\ reply' \in [Calls -> {"none", "OK", "Internal"}]
    BY <1>a DEF TypeOK, SpawnForEach, Return, WorkPlaces
  <2> QED
    BY <1>a, <2>1, <2>2, <2>3 DEF TypeOK, FiniteInv, Permits!PermitTypeOK
<1>2. PhaseInv'
  BY DEF TypeOK, PhaseInv, SpawnForEach, Return, PoolPhases
<1>3. CASE op[c] = "ListDatabases"
  <2>0. (\A x \in Calls : Outstanding(x)' = Outstanding(x)) /\ PermitInv'
    BY <1>3, QuietStep
  <2>1. FanInInv'
    BY <1>3, <1>b, <2>0 DEF TypeOK, FanInInv, Return
  <2>2. DataInv'
    BY <1>3, <1>b, <2>0 DEF TypeOK, DataInv, Return, PoolPhases
  <2>3. AllOrNothing'
    BY <1>3, <1>b DEF TypeOK, AllOrNothing, Return
  <2> QED
    BY <1>1, <1>2, <2>0, <2>1, <2>2, <2>3
<1>4. CASE op[c] # "ListDatabases"
  <2> USE DEF SpawnForEach
  <2>0. Outstanding(c)' = listed
    BY <1>4, <1>a, <1>b, <1>c DEF TypeOK, Outstanding, Goroutines
  <2>1. \A x \in Calls \ {c} : Outstanding(x)' = Outstanding(x)
    BY <1>4 DEF TypeOK, Outstanding, Goroutines
  <2>2. \A w \in Goroutines :
          wpc'[w] = wpc[w] \/ (wpc[w] = "none" /\ wpc'[w] = "acquire")
    BY <1>4, <1>a, <1>c DEF TypeOK, Goroutines
  <2>3. PermitInv'
    BY <2>2 DEF TypeOK, PermitInv, WithPermit, Permits!Exclusive
  <2>4. FanInInv'
    BY <1>4, <1>a, <1>b, <2>0, <2>1, <2>2 DEF TypeOK, FanInInv, PoolPhases,
       Batches, Goroutines
  <2>5. DataInv'
    BY <1>4, <1>b, <2>0, <2>1, <2>2 DEF TypeOK, DataInv, PoolPhases
  <2>6. AllOrNothing'
    BY <1>4, <1>b DEF TypeOK, AllOrNothing, DataInv, PoolPhases
  <2> QED
    BY <1>1, <1>2, <2>3, <2>4, <2>5, <2>6
<1> QED
  BY <1>3, <1>4

\* One receive takes one database off the outstanding ones, as it takes one
\* iteration off the loop.
LEMMA ReceiveStep ==
  ASSUME IndInv, NEW c \in Calls, Receive(c)
  PROVE  IndInv'
<1> USE StoreAssumption DEF IndInv, Receive
<1> PICK b \in resultsCh[c] :
      /\ resultsCh' = [resultsCh EXCEPT ![c] = @ \ {b}]
      /\ errs' = [errs EXCEPT ![c] = @ + IF b.err THEN 1 ELSE 0]
      /\ results' = [results EXCEPT ![c] = @ \cup IF b.err THEN {} ELSE {b}]
  OBVIOUS
<1>a. b \in Batches /\ b.db \in Databases /\ b.err \in BOOLEAN
  BY DEF TypeOK, Batches
<1>b. b.db \in Outstanding(c)
  BY <1>a DEF Outstanding
<1>c. Outstanding(c)' = Outstanding(c) \ {b.db}
  <2>1. resultsCh'[c] = resultsCh[c] \ {b} /\ wpc' = wpc
    BY DEF TypeOK, workVars
  <2>2. wpc[<<c, b.db>>] = "none"
    BY DEF FanInInv
  <2>3. \A d \in Databases :
          (\E a \in resultsCh'[c] : a.db = d)
            <=> d # b.db /\ (\E a \in resultsCh[c] : a.db = d)
    BY <2>1 DEF FanInInv
  <2> QED
    BY <1>a, <2>1, <2>2, <2>3 DEF Outstanding
<1>d. \A x \in Calls \ {c} : Outstanding(x)' = Outstanding(x)
  BY DEF TypeOK, Outstanding, workVars
<1>e. /\ IsFiniteSet(Outstanding(c))
      /\ Cardinality(Outstanding(c) \ {b.db}) = Cardinality(Outstanding(c)) - 1
  <2>1. IsFiniteSet(Outstanding(c))
    BY FS_Subset DEF Outstanding
  <2> QED
    BY <1>b, <2>1, FS_RemoveElement
<1>1. TypeOK' /\ FiniteInv'
  <2>1. /\ IsFiniteSet(resultsCh[c] \ {b})
        /\ Cardinality(resultsCh[c] \ {b}) \in Nat
        /\ Cardinality(resultsCh[c]) \in Nat
        /\ Cardinality(resultsCh[c] \ {b}) \leq Cardinality(resultsCh[c])
    BY SmallerSet DEF FiniteInv
  <2>2. Cardinality(dbs[c]) \in Nat
    BY FS_Subset, FS_CardinalityType DEF TypeOK
  <2>3. \A x \in Calls : Cardinality(resultsCh'[x]) \leq Cardinality(dbs'[x])
    <3>1. \A x \in Calls \ {c} : resultsCh'[x] = resultsCh[x] /\ dbs'[x] = dbs[x]
      BY DEF TypeOK
    <3>2. resultsCh'[c] = resultsCh[c] \ {b} /\ dbs'[c] = dbs[c]
      BY DEF TypeOK
    <3>3. Cardinality(resultsCh[c]) \leq Cardinality(dbs[c])
      BY DEF TypeOK
    <3>4. Cardinality(resultsCh[c] \ {b}) \leq Cardinality(dbs[c])
      BY <2>1, <2>2, <3>3
    <3>5. Cardinality(resultsCh'[c]) \leq Cardinality(dbs'[c])
      BY <3>2, <3>4, Zenon
    <3> QED
      BY <3>1, <3>5, CapacityKept
  <2>4. /\ errs' \in [Calls -> Nat] /\ left' \in [Calls -> Nat]
        /\ results' \in [Calls -> SUBSET Batches]
        /\ resultsCh' \in [Calls -> SUBSET Batches]
    BY <1>a DEF TypeOK
  <2> QED
    BY <2>1, <2>3, <2>4 DEF TypeOK, FiniteInv, workVars, Permits!PermitTypeOK
<1>2. PermitInv'
  BY DEF PermitInv, workVars, Permits!Exclusive
<1>3. FanInInv'
  <2>1. ASSUME NEW x \in Calls, x # c
        PROVE  resultsCh'[x] = resultsCh[x] /\ left'[x] = left[x]
    BY <2>1 DEF TypeOK
  <2>2. resultsCh'[c] = resultsCh[c] \ {b} /\ left'[c] = left[c] - 1
    BY DEF TypeOK
  <2>3. left[c] = Cardinality(Outstanding(c)) /\ Outstanding(c) \subseteq dbs[c]
    BY DEF FanInInv
  <2>4. left'[c] = Cardinality(Outstanding(c)')
    BY <1>c, <1>e, <2>2, <2>3
  <2>5. /\ phase'[c] = "fanin" /\ c \notin poolConns'
        /\ Outstanding(c)' \subseteq dbs'[c]
        /\ \A a \in resultsCh'[c] : wpc'[<<c, a.db>>] = "none"
        /\ \A a, e \in resultsCh'[c] : a.db = e.db => a = e
    BY <1>c, <2>2, <2>3 DEF FanInInv, workVars, PoolPhases
  <2>6. ASSUME NEW x \in Calls, x # c
        PROVE  /\ x \in poolConns' => phase'[x] \in PoolPhases
               /\ phase'[x] # "fanin" => Outstanding(x)' = {} /\ resultsCh'[x] = {}
               /\ phase'[x] = "fanin" =>
                    /\ Outstanding(x)' \subseteq dbs'[x]
                    /\ left'[x] = Cardinality(Outstanding(x)')
               /\ \A a \in resultsCh'[x] : wpc'[<<x, a.db>>] = "none"
               /\ \A a, e \in resultsCh'[x] : a.db = e.db => a = e
    BY <1>d, <2>1, <2>6 DEF FanInInv, workVars
  <2> QED
    BY <2>4, <2>5, <2>6 DEF FanInInv
<1>4. PhaseInv'
  BY DEF PhaseInv
<1>5. DataInv'
  <2>1. ~b.err => Complete(b) /\ b.db \in dbs[c]
    BY <1>b DEF DataInv, FanInInv
  <2>2. \A x \in Calls : \A a \in resultsCh'[x] : ~a.err => Complete(a)
    BY DEF TypeOK, DataInv
  <2>3. \A x \in Calls : \A a \in results'[x] : Complete(a) /\ a.db \in dbs'[x]
    BY <2>1, <1>a DEF TypeOK, DataInv
  <2>4. ASSUME NEW x \in Calls, phase'[x] = "fanin", errs'[x] = 0,
               NEW d \in dbs'[x] \ Outstanding(x)'
        PROVE  \E a \in results'[x] : a.db = d
    <3>1. CASE x # c
      BY <2>4, <3>1, <1>d DEF TypeOK, DataInv
    <3>2. CASE x = c
      BY <2>4, <3>2, <1>a, <1>c DEF TypeOK, DataInv
    <3> QED
      BY <3>1, <3>2
  <2>5. \A w \in Goroutines :
          wpc'[w] \in {"close", "release", "send"} /\ ~err'[w]
            => rows'[w] = RowCount[w[2]]
    BY DEF DataInv, workVars
  <2>6. \A x \in Calls :
          /\ phase'[x] # "returned" => reply'[x] = "none"
          /\ phase'[x] \in {"idle"} \cup PoolPhases
               => results'[x] = {} /\ errs'[x] = 0
    BY DEF TypeOK, DataInv, PoolPhases
  <2> QED
    BY <2>2, <2>3, <2>4, <2>5, <2>6 DEF DataInv
<1>6. AllOrNothing'
  BY DEF TypeOK, AllOrNothing, DataInv
<1> QED
  BY <1>1, <1>2, <1>3, <1>4, <1>5, <1>6

\* What the steps of a list...ForDatabase function have in common: the call,
\* the channel and the pool are left alone, and the goroutine stays alive.
LEMMA ForDatabaseShape ==
  ASSUME IndInv, NEW w \in Goroutines, ForDatabase(w)
  PROVE  /\ UNCHANGED <<cluster, poolConns, resultsCh, callVars>>
         /\ wpc[w] # "none"
         /\ \E to \in WorkPlaces \ {"none"} : wpc' = [wpc EXCEPT ![w] = to]
<1> USE DEF IndInv, TypeOK, Goto, goUnchanged, WorkPlaces
<1>1. CASE NextRow(w)
  <2>1. wpc' = [wpc EXCEPT ![w] = "rows"]
    BY <1>1 DEF NextRow
  <2> QED
    BY <1>1, <2>1 DEF NextRow
<1>2. CASE Acquire(w) \/ AcquireCancelled(w) \/ NewPool(w) \/ NewPoolFails(w)
  BY <1>2 DEF Acquire, AcquireCancelled, NewPool, NewPoolFails
<1>3. CASE Query(w) \/ QueryFails(w) \/ RowsEnd(w) \/ RowsFail(w)
  BY <1>3 DEF Query, QueryFails, RowsEnd, RowsFail
<1>4. CASE ClosePool(w) \/ Release(w)
  BY <1>4 DEF ClosePool, Release
<1> QED
  BY <1>1, <1>2, <1>3, <1>4 DEF ForDatabase

\* The goroutine's own state keeps its types.
LEMMA ForDatabaseTypes ==
  ASSUME IndInv, NEW w \in Goroutines, ForDatabase(w)
  PROVE  /\ rows' \in [Goroutines -> Nat]
         /\ err' \in [Goroutines -> BOOLEAN]
         /\ holds' \in [Goroutines -> Databases \cup {NoDb}]
         /\ conns' \subseteq Goroutines
<1> USE DEF IndInv, TypeOK, Permits!PermitTypeOK
<1>a. ReturnErr(w) => /\ rows' \in [Goroutines -> Nat]
                      /\ err' \in [Goroutines -> BOOLEAN]
  <2> SUFFICES ASSUME ReturnErr(w)
               PROVE  rows' \in [Goroutines -> Nat] /\ err' \in [Goroutines -> BOOLEAN]
    OBVIOUS
  <2>1. rows' \in [Goroutines -> Nat]
    BY DEF ReturnErr
  <2>2. err' \in [Goroutines -> BOOLEAN]
    BY Zenon DEF ReturnErr
  <2> QED
    BY <2>1, <2>2
<1>1. CASE NextRow(w) \/ RowsEnd(w)
  BY <1>1 DEF NextRow, RowsEnd
<1>2. CASE RowsFail(w) \/ QueryFails(w)
  BY <1>2, <1>a DEF RowsFail, QueryFails
<1>3. CASE Acquire(w) \/ Release(w)
  BY <1>3 DEF Acquire, Release, Permits!Grant, Permits!Release, Goroutines
<1>4. CASE AcquireCancelled(w) \/ NewPool(w) \/ NewPoolFails(w)
  BY <1>4, <1>a DEF AcquireCancelled, NewPool, NewPoolFails
<1>5. CASE Query(w) \/ ClosePool(w)
  BY <1>5 DEF Query, ClosePool
<1> QED
  BY <1>1, <1>2, <1>3, <1>4, <1>5 DEF ForDatabase

\* The permit is granted to one goroutine only and kept around the connection.
LEMMA ForDatabasePermit ==
  ASSUME IndInv, NEW w \in Goroutines, ForDatabase(w)
  PROVE  PermitInv'
<1> USE StoreAssumption DEF IndInv, TypeOK, PermitInv, WithPermit, Goto,
      Permits!Exclusive, Permits!PermitTypeOK
<1>1. CASE Acquire(w)
  BY <1>1 DEF Acquire, Permits!Grant, Permits!Free, Goroutines
<1>2. CASE Release(w)
  BY <1>2 DEF Release, Permits!Release, Goroutines
<1>3. CASE AcquireCancelled(w) \/ NewPool(w) \/ NewPoolFails(w)
  BY <1>3 DEF AcquireCancelled, NewPool, NewPoolFails
<1>4. CASE Query(w) \/ QueryFails(w) \/ ClosePool(w)
  BY <1>4 DEF Query, QueryFails, ClosePool
<1>5. CASE NextRow(w) \/ RowsEnd(w) \/ RowsFail(w)
  BY <1>5 DEF NextRow, RowsEnd, RowsFail
<1> QED
  BY <1>1, <1>2, <1>3, <1>4, <1>5 DEF ForDatabase

\* A goroutine that will send rows without an error has all of them.
LEMMA ForDatabaseRows ==
  ASSUME IndInv, NEW w \in Goroutines, ForDatabase(w)
  PROVE  \A v \in Goroutines :
           wpc'[v] \in {"close", "release", "send"} /\ ~err'[v]
             => rows'[v] = RowCount[v[2]]
<1> USE DEF IndInv, TypeOK, DataInv, Goto
<1>1. CASE NextRow(w) \/ RowsEnd(w)
  BY <1>1 DEF NextRow, RowsEnd
<1>2. CASE RowsFail(w) \/ QueryFails(w)
  BY <1>2 DEF RowsFail, QueryFails, ReturnErr
<1>3. CASE AcquireCancelled(w) \/ NewPoolFails(w)
  BY <1>3 DEF AcquireCancelled, NewPoolFails, ReturnErr
<1>4. CASE Acquire(w) \/ NewPool(w) \/ Query(w)
  BY <1>4 DEF Acquire, NewPool, Query
<1>5. CASE ClosePool(w) \/ Release(w)
  BY <1>5 DEF ClosePool, Release
<1> QED
  BY <1>1, <1>2, <1>3, <1>4, <1>5 DEF ForDatabase

\* The steps of a list...ForDatabase function together.
LEMMA ForDatabaseStep ==
  ASSUME IndInv, NEW w \in Goroutines, ForDatabase(w)
  PROVE  IndInv'
<1> USE DEF IndInv
<1>a. /\ UNCHANGED <<cluster, poolConns, resultsCh, callVars>>
      /\ wpc[w] # "none"
      /\ \E to \in WorkPlaces \ {"none"} : wpc' = [wpc EXCEPT ![w] = to]
  BY ForDatabaseShape
<1>b. \A v \in Goroutines : wpc'[v] = "none" <=> wpc[v] = "none"
  BY <1>a DEF TypeOK
<1>c. \A c \in Calls : Outstanding(c)' = Outstanding(c)
  BY <1>a, <1>b DEF Outstanding, Goroutines
<1>1. TypeOK' /\ FiniteInv'
  BY <1>a, ForDatabaseTypes
  DEF TypeOK, FiniteInv, callVars, Permits!PermitTypeOK
<1>2. PermitInv'
  BY ForDatabasePermit
<1>3. FanInInv'
  BY <1>a, <1>b, <1>c DEF TypeOK, FanInInv, callVars, Batches, Goroutines
<1>4. PhaseInv' /\ AllOrNothing'
  BY <1>a DEF PhaseInv, AllOrNothing, callVars
<1>5. DataInv'
  BY <1>a, <1>c, ForDatabaseRows DEF DataInv, callVars
<1> QED
  BY <1>1, <1>2, <1>3, <1>4, <1>5

\* A result moves from its goroutine to the channel: its database stays
\* outstanding, and an errorless batch is a complete one.
LEMMA SendStep ==
  ASSUME IndInv, NEW w \in Goroutines, Send(w)
  PROVE  IndInv'
<1> USE StoreAssumption DEF IndInv, Send, Goto, goUnchanged, callVars
<1> DEFINE c == w[1]
           d == w[2]
           b == Batch(w)
<1>a. c \in Calls /\ d \in Databases /\ w = <<c, d>>
  BY DEF Goroutines
<1>b. b \in Batches /\ b.db = d /\ b.rows = rows[w] /\ b.err = err[w]
  BY <1>a DEF TypeOK, Batch, Batches
<1> HIDE DEF b
<1>c. /\ resultsCh'[c] = resultsCh[c] \cup {b}
      /\ \A x \in Calls \ {c} : resultsCh'[x] = resultsCh[x]
  BY <1>a DEF TypeOK, b
<1>d. /\ wpc[w] = "send" /\ wpc'[w] = "none"
      /\ \A v \in Goroutines \ {w} : wpc'[v] = wpc[v]
  BY DEF TypeOK
<1>e. phase[c] = "fanin" /\ \A a \in resultsCh[c] : a.db # d
  <2>1. wpc[<<c, d>>] = "send"
    BY <1>a, <1>d
  <2>2. d \in Outstanding(c)
    BY <1>a, <2>1 DEF Outstanding
  <2>3. phase[c] = "fanin"
    BY <1>a, <2>2 DEF FanInInv
  <2>4. \A a \in resultsCh[c] : wpc[<<c, a.db>>] = "none"
    BY <1>a DEF FanInInv
  <2> HIDE DEF c, d
  <2> QED
    BY <2>1, <2>3, <2>4
<1>f. \A x \in Calls : Outstanding(x)' = Outstanding(x)
  <2>1. \A x \in Calls \ {c} : Outstanding(x)' = Outstanding(x)
    BY <1>a, <1>c, <1>d DEF Outstanding, Goroutines
  <2>2. Outstanding(c)' = Outstanding(c)
    BY <1>a, <1>b, <1>c, <1>d DEF Outstanding, Goroutines
  <2> QED
    BY <2>1, <2>2
<1>1. TypeOK' /\ FiniteInv'
  <2>1. /\ IsFiniteSet(resultsCh[c] \cup {b})
        /\ Cardinality(resultsCh[c] \cup {b}) \in Nat
        /\ Cardinality(resultsCh[c]) \in Nat
        /\ Cardinality(resultsCh[c] \cup {b}) \leq Cardinality(resultsCh[c]) + 1
    BY <1>a, LargerSet DEF FiniteInv
  <2>2. Cardinality(dbs[c]) \in Nat
    BY <1>a, FS_Subset, FS_CardinalityType DEF TypeOK
  <2>3. Cardinality(resultsCh[c] \cup {b}) \leq Cardinality(dbs[c])
    BY <2>1, <2>2
  <2>4. Cardinality(resultsCh'[c]) \leq Cardinality(dbs'[c])
    BY <1>c, <2>3, Zenon
  <2>5. \A x \in Calls : Cardinality(resultsCh'[x]) \leq Cardinality(dbs'[x])
    BY <1>a, <1>c, <2>4, CapacityKept
  <2>6. resultsCh' \in [Calls -> SUBSET Batches]
    BY <1>a, <1>b DEF TypeOK, b
  <2>7. rows' \in [Goroutines -> Nat] /\ wpc' \in [Goroutines -> WorkPlaces]
    BY DEF TypeOK, WorkPlaces
  <2>8. err' \in [Goroutines -> BOOLEAN]
    BY Zenon DEF TypeOK
  <2>9. \A x \in Calls : IsFiniteSet(resultsCh'[x])
    BY <1>c, <2>1 DEF FiniteInv
  <2> QED
    BY <2>5, <2>6, <2>7, <2>8, <2>9 DEF TypeOK, FiniteInv, Permits!PermitTypeOK
<1>2. PermitInv'
  BY <1>d DEF PermitInv, WithPermit, Permits!Exclusive
<1>3. FanInInv'
  <2>1. \A x \in Calls : \A a \in resultsCh'[x] : wpc'[<<x, a.db>>] = "none"
    <3> SUFFICES ASSUME NEW x \in Calls, NEW a \in resultsCh'[x]
                 PROVE  wpc'[<<x, a.db>>] = "none"
      OBVIOUS
    <3>1. CASE x = c /\ a = b
      BY <3>1, <1>a, <1>b, <1>d
    <3>2. CASE ~(x = c /\ a = b)
      <4>1. a \in resultsCh[x] /\ a.db \in Databases
        BY <3>2, <1>c DEF TypeOK, Batches
      <4>2. wpc[<<x, a.db>>] = "none" /\ <<x, a.db>> \in Goroutines
        BY <4>1 DEF FanInInv, Goroutines
      <4> QED
        BY <4>2, <1>d
    <3> QED
      BY <3>1, <3>2
  <2>2. \A x \in Calls : \A a, e \in resultsCh'[x] : a.db = e.db => a = e
    BY <1>b, <1>c, <1>e DEF FanInInv
  <2>3. \A x \in Calls : phase'[x] # "fanin" => resultsCh'[x] = {}
    BY <1>c, <1>e DEF FanInInv
  <2> QED
    BY <1>f, <2>1, <2>2, <2>3 DEF FanInInv
<1>4. PhaseInv' /\ AllOrNothing'
  BY DEF PhaseInv, AllOrNothing
<1>5. DataInv'
  <2>1. ~b.err => Complete(b)
    BY <1>b, <1>d DEF DataInv, Complete
  <2>2. \A x \in Calls : \A a \in resultsCh'[x] : ~a.err => Complete(a)
    BY <1>c, <2>1 DEF DataInv
  <2>3. \A v \in Goroutines :
          wpc'[v] \in {"close", "release", "send"} /\ ~err'[v]
            => rows'[v] = RowCount[v[2]]
    BY <1>d DEF TypeOK, DataInv
  <2> QED
    BY <1>f, <2>2, <2>3 DEF DataInv
<1> QED
  BY <1>1, <1>2, <1>3, <1>4, <1>5

-----------------------------------------------------------------------------
\* The steps of the specification, with those of equal shape taken together.
LEMMA StepCases ==
  ASSUME [Next]_vars
  PROVE  \/ \E d \in Databases : CreateDatabase(d) \/ DropDatabase(d)
         \/ \E c \in Calls : \E o, p : OpeningPhase(o, p) /\ Start(c, o, p)
         \/ \E c \in Calls : \/ Cancel(c) \/ Finish(c) \/ PoolQuery(c)
                             \/ Receive(c) \/ ForEachReturns(c)
         \/ \E c \in Calls : PoolFails(c) \/ ServerInfoRead(c) \/ AvailableRead(c)
         \/ \E c \in Calls : \E listed \in SUBSET cluster :
              DatabasesListed(c, listed)
         \/ \E w \in Goroutines : ForDatabase(w)
         \/ \E w \in Goroutines : Send(w)
         \/ UNCHANGED vars
<1>1. ASSUME NEW c \in Calls,
             \/ ListDatabases(c) \/ GetServerInfo(c) \/ ListSchemas(c)
             \/ ListExtensions(c) \/ ListSequences(c) \/ ListFunctions(c)
             \/ ListTables(c)
      PROVE  \E o, p : OpeningPhase(o, p) /\ Start(c, o, p)
  BY <1>1 DEF ListDatabases, GetServerInfo, ListSchemas, ListExtensions,
     ListSequences, ListFunctions, ListTables, OpeningPhase, AllOperations
<1>2. ASSUME NEW c \in Calls, DatabasesRead(c) \/ DatabasesCut(c)
      PROVE  \E listed \in SUBSET cluster : DatabasesListed(c, listed)
  BY <1>2 DEF DatabasesRead, DatabasesCut
<1> QED
  BY <1>1, <1>2
  DEF Next, PoolRead, listSchemasForDatabase, listInstalledExtensionsForDatabase,
      listSequencesForDatabase, listFunctionsForDatabase, listTablesForDatabase

\* Every step, stutters included, preserves the inductive invariant.
LEMMA NextIndInv == IndInv /\ [Next]_vars => IndInv'
<1> SUFFICES ASSUME IndInv, [Next]_vars PROVE IndInv'
  OBVIOUS
<1>1. ASSUME NEW d \in Databases, CreateDatabase(d) \/ DropDatabase(d)
      PROVE  IndInv'
  BY <1>1, CreateDatabaseStep, DropDatabaseStep
<1>2. ASSUME NEW c \in Calls, NEW o, NEW p, OpeningPhase(o, p), Start(c, o, p)
      PROVE  IndInv'
  BY <1>2, StartStep
<1>3. ASSUME NEW c \in Calls,
             Cancel(c) \/ Finish(c) \/ PoolQuery(c) \/ Receive(c) \/ ForEachReturns(c)
      PROVE  IndInv'
  BY <1>3, CancelStep, FinishStep, PoolQueryStep, ReceiveStep, ForEachReturnsStep
<1>4. ASSUME NEW c \in Calls,
             PoolFails(c) \/ ServerInfoRead(c) \/ AvailableRead(c)
      PROVE  IndInv'
  BY <1>4, PoolFailsStep, ServerInfoReadStep, AvailableReadStep
<1>5. ASSUME NEW c \in Calls, NEW listed \in SUBSET cluster,
             DatabasesListed(c, listed)
      PROVE  IndInv'
  BY <1>5, DatabasesListedStep
<1>6. ASSUME NEW w \in Goroutines, ForDatabase(w) \/ Send(w)
      PROVE  IndInv'
  BY <1>6, ForDatabaseStep, SendStep
<1>7. CASE UNCHANGED vars
  <2>1. (\A x \in Calls : Outstanding(x)' = Outstanding(x)) /\ PermitInv'
    BY <1>7, QuietStep DEF vars, workVars, IndInv
  <2> QED
    BY <1>7, <2>1
    DEF IndInv, vars, callVars, workVars, TypeOK, FiniteInv, FanInInv, PhaseInv,
        DataInv, AllOrNothing, Permits!PermitTypeOK
<1> QED
  BY <1>1, <1>2, <1>3, <1>4, <1>5, <1>6, <1>7, StepCases

\* The inductive invariant holds in every reachable state.
THEOREM StoreInv == Spec => []IndInv
  BY InitIndInv, NextIndInv, PTL DEF Spec

\* Types, the size of the shared pool and the capacity of every result channel.
THEOREM StoreTypeOK == Spec => []TypeOK
<1>1. IndInv => TypeOK
  BY DEF IndInv
<1> QED
  BY <1>1, StoreInv, PTL

\* At most one coordinated connection to a database, for any number of calls:
\* a connection is inside its goroutine's permit, and permits are exclusive.
THEOREM StoreOneConnection == Spec => []OneConnectionPerDatabase
<1>1. IndInv => OneConnectionPerDatabase
  <2> SUFFICES ASSUME IndInv, NEW v \in conns, NEW w \in conns, v # w
               PROVE  v[2] # w[2]
    BY DEF OneConnectionPerDatabase
  <2>1. v \in Goroutines /\ w \in Goroutines /\ v[2] \in Databases
    BY DEF IndInv, TypeOK, Goroutines
  <2>2. holds[v] = v[2] /\ holds[w] = w[2]
    BY <2>1 DEF IndInv, PermitInv, WithPermit
  <2> QED
    BY <2>1, <2>2, StoreAssumption DEF IndInv, PermitInv, Permits!Exclusive
<1> QED
  BY <1>1, StoreInv, PTL

\* A fan-out that succeeds returns every listed database's complete result,
\* and one that fails returns none.
THEOREM StoreAllOrNothing == Spec => []AllOrNothing
<1>1. IndInv => AllOrNothing
  BY DEF IndInv
<1> QED
  BY <1>1, StoreInv, PTL

\* A returned call has no goroutine, permit, connection or pending result.
THEOREM StoreQuiescentOnReturn == Spec => []QuiescentOnReturn
<1>1. IndInv => QuiescentOnReturn
  <2> SUFFICES ASSUME IndInv, NEW c \in Calls, phase[c] \in {"idle", "returned"}
               PROVE  /\ c \notin poolConns
                      /\ resultsCh[c] = {}
                      /\ \A d \in Databases :
                           /\ wpc[<<c, d>>] = "none"
                           /\ holds[<<c, d>>] = NoDb
                           /\ <<c, d>> \notin conns
    BY DEF QuiescentOnReturn
  <2>1. c \notin poolConns /\ resultsCh[c] = {} /\ Outstanding(c) = {}
    BY DEF IndInv, FanInInv, PoolPhases
  <2>2. \A d \in Databases : wpc[<<c, d>>] = "none"
    BY <2>1 DEF Outstanding
  <2> QED
    BY <2>1, <2>2 DEF IndInv, PermitInv, WithPermit, Goroutines
<1> QED
  BY <1>1, StoreInv, PTL

-----------------------------------------------------------------------------
(* No deadlock inside the process. *)

\* A goroutine never waits to send its result: the channel has room for it.
SendHasRoom ==
  \A w \in Goroutines :
    wpc[w] = "send" => Cardinality(resultsCh[w[1]]) < Cardinality(dbs[w[1]])

\* The fan-in never waits for a result that nobody will send.
ReceiveHasSender ==
  \A c \in Calls :
    phase[c] = "fanin" /\ left[c] > 0 =>
      resultsCh[c] # {} \/ \E d \in Databases : wpc[<<c, d>>] # "none"

\* A goroutine that waits for a permit has none itself, and the one that has
\* it is past its Acquire: no goroutine waits for one that waits.
HolderDoesNotWait ==
  \A v, w \in Goroutines :
    wpc[v] = "acquire" =>
      holds[v] = NoDb /\ (holds[w] = v[2] => wpc[w] \in WithPermit)

\* The result of a goroutine that still runs is not in the channel, and no
\* database has two: the channel lacks one of the listed databases at least.
LEMMA RoomForResult ==
  ASSUME IndInv, NEW w \in Goroutines, wpc[w] = "send"
  PROVE  Cardinality(resultsCh[w[1]]) < Cardinality(dbs[w[1]])
<1>1. PICK c \in Calls, d \in Databases : w = <<c, d>>
  BY DEF Goroutines
<1>2. w[1] = c /\ w[2] = d /\ wpc[<<c, d>>] = "send"
  BY <1>1
<1> DEFINE B == resultsCh[c]
           T == dbs[c] \ {d}
           f == [b \in B |-> b.db]
<1>3. d \in Outstanding(c)
  BY <1>2 DEF Outstanding
<1>4. phase[c] = "fanin" /\ Outstanding(c) \subseteq dbs[c]
  BY <1>3 DEF IndInv, FanInInv
<1>5. \A b \in B : b.db \in Databases
  BY DEF IndInv, TypeOK, Batches
<1>6. \A b \in B : b.db \in T
  <2> TAKE b \in B
  <2>1. b.db \in Outstanding(c)
    BY <1>5 DEF Outstanding
  <2>2. b.db # d
    BY <1>2 DEF IndInv, FanInInv
  <2> QED
    BY <1>4, <2>1, <2>2
<1>7. IsFiniteSet(B) /\ IsFiniteSet(dbs[c])
  <2>1. dbs[c] \in SUBSET Databases
    BY DEF IndInv, TypeOK
  <2> QED
    BY <2>1, StoreAssumption, FS_Subset DEF IndInv, FiniteInv
<1>8. IsFiniteSet(T) /\ Cardinality(T) = Cardinality(dbs[c]) - 1
  BY <1>3, <1>4, <1>7, FS_RemoveElement
<1>9. /\ Cardinality(B) \in Nat /\ Cardinality(T) \in Nat
      /\ Cardinality(dbs[c]) \in Nat
  BY <1>7, <1>8, FS_CardinalityType
<1>10. f \in [B -> T]
  BY <1>6
<1>11. ~(Cardinality(T) < Cardinality(B))
  <2> SUFFICES ASSUME Cardinality(T) < Cardinality(B) PROVE FALSE
    OBVIOUS
  <2>1. \E x, y \in B : x # y /\ f[x] = f[y]
    <3> HIDE DEF B, T, f
    <3> QED
      BY <1>7, <1>8, <1>10, FS_PigeonHole
  <2> QED
    BY <2>1 DEF IndInv, FanInInv
<1> QED
  BY <1>2, <1>8, <1>9, <1>11

\* What the loop still counts is outstanding.
LEMMA SenderRemains == IndInv => ReceiveHasSender
<1> SUFFICES ASSUME IndInv, NEW c \in Calls, phase[c] = "fanin", left[c] > 0
             PROVE  \/ resultsCh[c] # {}
                    \/ \E d \in Databases : wpc[<<c, d>>] # "none"
  BY DEF ReceiveHasSender
<1>1. left[c] = Cardinality(Outstanding(c))
  BY DEF IndInv, FanInInv
<1>2. Outstanding(c) # {}
  BY <1>1, FS_EmptySet
<1> QED
  BY <1>2 DEF Outstanding

(* Goroutines, the fan-in and the permits form no cycle of waiting: sends  *)
(* do not block (forEachDatabase makes the channel as large as the list),  *)
(* a receive has a sender, and who holds a permit waits for no other.      *)
THEOREM StoreNoWaitingCycle ==
  Spec => [](SendHasRoom /\ ReceiveHasSender /\ HolderDoesNotWait)
<1>1. IndInv => SendHasRoom
  BY RoomForResult DEF SendHasRoom
<1>2. IndInv => ReceiveHasSender
  BY SenderRemains
<1>3. IndInv => HolderDoesNotWait
  <2> SUFFICES ASSUME IndInv, NEW v \in Goroutines, NEW w \in Goroutines,
                      wpc[v] = "acquire"
               PROVE  holds[v] = NoDb /\ (holds[w] = v[2] => wpc[w] \in WithPermit)
    BY DEF HolderDoesNotWait
  <2>1. v[2] # NoDb
    BY StoreAssumption DEF Goroutines
  <2> QED
    BY <2>1 DEF IndInv, PermitInv, WithPermit
<1> QED
  BY <1>1, <1>2, <1>3, StoreInv, PTL

-----------------------------------------------------------------------------
(* Store implements Listing. *)

\* Until its list is read a call has none: what Listing knows of an earlier
\* call with the same slot is gone.
ListedInv ==
  \A c \in Calls : phase[c] \in {"idle"} \cup PoolPhases => dbs[c] = {}

\* What Listing sees of the answer of call c.
AnswerOf(c) ==
  [reply |-> reply[c], batches |-> IF reply[c] = "none" THEN {} ELSE results[c]]

\* Only DatabasesListed fills the list, and it leaves the phases of the pool.
LEMMA NextListedInv == IndInv /\ ListedInv /\ [Next]_vars => ListedInv'
<1> SUFFICES ASSUME IndInv, ListedInv, [Next]_vars PROVE ListedInv'
  OBVIOUS
<1> USE DEF IndInv, TypeOK, ListedInv, callVars, workVars, PoolPhases
<1>1. ASSUME NEW d \in Databases, CreateDatabase(d) \/ DropDatabase(d)
      PROVE  ListedInv'
  BY <1>1 DEF CreateDatabase, DropDatabase
<1>2. ASSUME NEW c \in Calls, NEW o, NEW p, OpeningPhase(o, p), Start(c, o, p)
      PROVE  ListedInv'
  BY <1>2 DEF Start
<1>3. ASSUME NEW c \in Calls,
             Cancel(c) \/ Finish(c) \/ PoolQuery(c) \/ Receive(c) \/ ForEachReturns(c)
      PROVE  ListedInv'
  BY <1>3 DEF Cancel, Finish, PoolQuery, Receive, ForEachReturns, Return
<1>4. ASSUME NEW c \in Calls,
             PoolFails(c) \/ ServerInfoRead(c) \/ AvailableRead(c)
      PROVE  ListedInv'
  BY <1>4 DEF PoolFails, ServerInfoRead, AvailableRead, Return
<1>5. ASSUME NEW c \in Calls, NEW listed, DatabasesListed(c, listed)
      PROVE  ListedInv'
  BY <1>5 DEF DatabasesListed, SpawnForEach, Return
<1>6. ASSUME NEW w \in Goroutines, ForDatabase(w)
      PROVE  ListedInv'
  BY <1>6, ForDatabaseShape
<1>7. ASSUME NEW w \in Goroutines, Send(w)
      PROVE  ListedInv'
  BY <1>7 DEF Send, goUnchanged
<1>8. CASE UNCHANGED vars
  BY <1>8 DEF vars
<1> QED
  BY <1>1, <1>2, <1>3, <1>4, <1>5, <1>6, <1>7, <1>8, StepCases

\* A step that Listing sees as a stutter.
LEMMA StutterMapped ==
  ASSUME UNCHANGED <<cluster, op, dbs>>,
         \A c \in Calls : StatusOf(c)' = StatusOf(c) /\ AnswerOf(c)' = AnswerOf(c)
  PROVE  UNCHANGED Listings!vars
  BY DEF Listings!vars, AnswerOf

\* The places of a call that Listing tells apart.
LEMMA StatusValues ==
  ASSUME TypeOK, NEW c \in Calls
  PROVE  /\ phase[c] = "idle" => StatusOf(c) = "idle"
         /\ phase[c] \in PoolPhases => StatusOf(c) = "asked"
         /\ phase[c] = "fanin" => StatusOf(c) = "listed"
         /\ phase[c] = "returned" => StatusOf(c) = "answered"
  BY DEF TypeOK, StatusOf, PoolPhases

\* The same of the next state.
LEMMA StatusValuesNext ==
  ASSUME TypeOK', NEW c \in Calls
  PROVE  /\ phase'[c] = "idle" => StatusOf(c)' = "idle"
         /\ phase'[c] \in PoolPhases => StatusOf(c)' = "asked"
         /\ phase'[c] = "fanin" => StatusOf(c)' = "listed"
         /\ phase'[c] = "returned" => StatusOf(c)' = "answered"
  BY DEF TypeOK, StatusOf, PoolPhases

\* Opening a call asks; nothing is listed or answered yet.
LEMMA StartMapped ==
  ASSUME IndInv, IndInv', NEW c \in Calls, NEW o, NEW p, OpeningPhase(o, p),
         Start(c, o, p)
  PROVE  o \in Operations /\ Listings!Ask(c, o)
<1> USE DEF IndInv, Start
<1>1. phase[c] = "idle" /\ phase'[c] \in PoolPhases
  BY DEF TypeOK, OpeningPhase, PoolPhases
<1>2. \A x \in Calls \ {c} : StatusOf(x)' = StatusOf(x)
  BY DEF TypeOK, StatusOf
<1>3. StatusOf(c) = "idle" /\ StatusOf(c)' = "asked"
  BY <1>1, StatusValues, StatusValuesNext
<1>4. \A x \in Calls : AnswerOf(x)' = AnswerOf(x)
  BY DEF AnswerOf
<1> QED
  BY <1>2, <1>3, <1>4 DEF Listings!Ask, AnswerOf

\* Every path that returns an error without a list answers Internal.
LEMMA ErrorMapped ==
  ASSUME IndInv, IndInv', NEW c \in Calls,
         phase[c] \in PoolPhases \cup {"fanin"},
         Return(c, "Internal"), results'[c] = {},
         \A x \in Calls \ {c} : results'[x] = results[x],
         UNCHANGED <<cluster, op, dbs>>
  PROVE  Listings!AnswerError(c)
<1> USE DEF IndInv
<1>1. \A x \in Calls \ {c} : StatusOf(x)' = StatusOf(x) /\ AnswerOf(x)' = AnswerOf(x)
  BY DEF TypeOK, Return, StatusOf, AnswerOf
<1>2. StatusOf(c) \in {"asked", "listed"} /\ StatusOf(c)' = "answered"
  <2>1. phase'[c] = "returned"
    BY DEF TypeOK, Return
  <2> QED
    BY <2>1, StatusValues, StatusValuesNext
<1>3. AnswerOf(c)' = [reply |-> "Internal", batches |-> {}]
  BY DEF TypeOK, Return, AnswerOf
<1> QED
  BY <1>1, <1>2, <1>3
  DEF Listings!AnswerError, Listings!Answer, Listings!Internal, AnswerOf

\* GetServerInfo answers at once, with no list.
LEMMA ServerInfoMapped ==
  ASSUME IndInv, IndInv', ListedInv, NEW c \in Calls, ServerInfoRead(c)
  PROVE  Listings!AnswerAtOnce(c) \/ Listings!AnswerError(c)
<1> USE DEF IndInv, ServerInfoRead
<1>0. /\ phase[c] \in PoolPhases /\ op[c] = "GetServerInfo"
      /\ dbs[c] = {} /\ results[c] = {}
  BY DEF PhaseInv, ListedInv, DataInv, PoolPhases
<1>1. CASE Return(c, "Internal")
  BY <1>0, <1>1, ErrorMapped
<1>2. CASE Return(c, "OK")
  <2>1. \A x \in Calls \ {c} : StatusOf(x)' = StatusOf(x) /\ AnswerOf(x)' = AnswerOf(x)
    BY <1>2 DEF TypeOK, Return, StatusOf, AnswerOf
  <2>2. StatusOf(c) = "asked" /\ StatusOf(c)' = "answered"
    <3>1. phase'[c] = "returned"
      BY <1>2 DEF TypeOK, Return
    <3> QED
      BY <1>0, <3>1, StatusValues, StatusValuesNext
  <2>3. AnswerOf(c)' = [reply |-> "OK", batches |-> {}]
    BY <1>0, <1>2 DEF TypeOK, Return, AnswerOf
  <2>4. dbs' = [dbs EXCEPT ![c] = {}]
    BY <1>0 DEF TypeOK
  <2> QED
    BY <1>0, <2>1, <2>2, <2>3, <2>4
    DEF Listings!AnswerAtOnce, Listings!Answer, Listings!OK, AnswerOf
<1> QED
  BY <1>1, <1>2

\* The list is the answer of ListDatabases and the start of a fan-out.
LEMMA DatabasesListedMapped ==
  ASSUME IndInv, IndInv', NEW c \in Calls, NEW listed \in SUBSET cluster,
         DatabasesListed(c, listed)
  PROVE  Listings!AnswerAtOnce(c) \/ Listings!List(c)
<1> USE DEF IndInv, DatabasesListed
<1>0. /\ phase[c] \in PoolPhases /\ op[c] # "GetServerInfo"
      /\ results[c] = {} /\ reply[c] = "none"
  BY DEF PhaseInv, DataInv, PoolPhases
<1>1. CASE op[c] = "ListDatabases" /\ Return(c, "OK")
  <2>1. \A x \in Calls \ {c} : StatusOf(x)' = StatusOf(x) /\ AnswerOf(x)' = AnswerOf(x)
    BY <1>1 DEF TypeOK, Return, StatusOf, AnswerOf
  <2>2. StatusOf(c) = "asked" /\ StatusOf(c)' = "answered"
    <3>1. phase'[c] = "returned"
      BY <1>1 DEF TypeOK, Return
    <3> QED
      BY <1>0, <3>1, StatusValues, StatusValuesNext
  <2>3. AnswerOf(c)' = [reply |-> "OK", batches |-> {}]
    BY <1>0, <1>1 DEF TypeOK, Return, AnswerOf
  <2> QED
    BY <1>1, <2>1, <2>2, <2>3
    DEF Listings!AnswerAtOnce, Listings!Answer, Listings!OK, AnswerOf
<1>2. CASE op[c] # "ListDatabases" /\ SpawnForEach(c, listed)
  <2>1. \A x \in Calls \ {c} : StatusOf(x)' = StatusOf(x)
    BY <1>2 DEF TypeOK, SpawnForEach, StatusOf
  <2>2. StatusOf(c) = "asked" /\ StatusOf(c)' = "listed"
    <3>1. phase'[c] = "fanin"
      BY <1>2 DEF TypeOK, SpawnForEach
    <3> QED
      BY <1>0, <3>1, StatusValues, StatusValuesNext
  <2>3. \A x \in Calls : AnswerOf(x)' = AnswerOf(x)
    BY <1>2 DEF SpawnForEach, AnswerOf
  <2> QED
    BY <1>0, <1>2, <2>1, <2>2, <2>3 DEF Listings!List, AnswerOf
<1> QED
  BY <1>1, <1>2

\* A fan-out that ends answers with everything in its list, or with an error.
LEMMA ForEachReturnsMapped ==
  ASSUME IndInv, IndInv', NEW c \in Calls, ForEachReturns(c)
  PROVE  Listings!AnswerAll(c) \/ Listings!AnswerError(c)
<1> USE DEF IndInv, ForEachReturns
<1>1. CASE errs[c] > 0 /\ Return(c, "Internal")
  <2>1. results'[c] = {} /\ \A x \in Calls \ {c} : results'[x] = results[x]
    BY <1>1 DEF TypeOK
  <2> QED
    BY <1>1, <2>1, ErrorMapped
<1>2. CASE Return(c, "OK") /\ UNCHANGED results
  <2>1. \A x \in Calls \ {c} : StatusOf(x)' = StatusOf(x) /\ AnswerOf(x)' = AnswerOf(x)
    BY <1>2 DEF TypeOK, Return, StatusOf, AnswerOf
  <2>2. StatusOf(c) = "listed" /\ StatusOf(c)' = "answered"
    <3>1. phase'[c] = "returned"
      BY <1>2 DEF TypeOK, Return
    <3> QED
      BY <3>1, StatusValues, StatusValuesNext
  <2>3. results'[c] = Listings!Everything(dbs[c])
    <3>1. reply'[c] = "OK" /\ op'[c] \notin {"ListDatabases", "GetServerInfo"}
      BY <1>2 DEF TypeOK, Return, PhaseInv
    <3> QED
      BY <3>1 DEF AllOrNothing, Listings!Everything
  <2>4. AnswerOf(c)' = [reply |-> "OK", batches |-> Listings!Everything(dbs[c])]
    BY <1>2, <2>3 DEF TypeOK, Return, AnswerOf
  <2> QED
    BY <2>1, <2>2, <2>4
    DEF Listings!AnswerAll, Listings!Answer, Listings!OK, AnswerOf
<1> QED
  BY <1>1, <1>2

\* The slot of a returned call is empty again.
LEMMA FinishMapped ==
  ASSUME IndInv, IndInv', NEW c \in Calls, Finish(c)
  PROVE  Listings!Forget(c)
<1> USE DEF IndInv, Finish
<1>1. \A x \in Calls \ {c} : StatusOf(x)' = StatusOf(x) /\ AnswerOf(x)' = AnswerOf(x)
  BY DEF TypeOK, StatusOf, AnswerOf
<1>2. StatusOf(c) = "answered" /\ StatusOf(c)' = "idle"
  <2>1. phase'[c] = "idle"
    BY DEF TypeOK
  <2> QED
    BY <2>1, StatusValues, StatusValuesNext
<1>3. AnswerOf(c)' = [reply |-> "none", batches |-> {}]
  BY DEF TypeOK, AnswerOf
<1> QED
  BY <1>1, <1>2, <1>3 DEF Listings!Forget, Listings!NoAnswer, AnswerOf

\* Steps inside a call: the pool's queue, the goroutines and their permits and
\* connections, the channel, and the fan-in before it ends.
LEMMA InnerMapped ==
  ASSUME IndInv, IndInv',
         \/ \E c \in Calls : \/ Cancel(c) \/ PoolQuery(c) \/ AvailableRead(c)
                             \/ Receive(c)
         \/ \E w \in Goroutines : ForDatabase(w) \/ Send(w)
         \/ UNCHANGED vars
  PROVE  UNCHANGED Listings!vars
<1> USE DEF IndInv
<1>1. CASE \/ \E c \in Calls : Cancel(c) \/ PoolQuery(c)
           \/ \E w \in Goroutines : ForDatabase(w) \/ Send(w)
           \/ UNCHANGED vars
  <2>1. UNCHANGED <<cluster, phase, op, dbs, results, reply>>
    BY <1>1, ForDatabaseShape
    DEF Cancel, PoolQuery, Send, goUnchanged, callVars, vars
  <2>2. \A c \in Calls : StatusOf(c)' = StatusOf(c) /\ AnswerOf(c)' = AnswerOf(c)
    BY <2>1 DEF StatusOf, AnswerOf
  <2> QED
    BY <2>1, <2>2, StutterMapped
<1>2. ASSUME NEW c \in Calls, AvailableRead(c)
      PROVE  UNCHANGED Listings!vars
  <2>1. phase[c] \in PoolPhases /\ phase'[c] \in PoolPhases
    BY <1>2 DEF AvailableRead, TypeOK, PoolPhases
  <2>2. StatusOf(c)' = StatusOf(c)
    BY <2>1, StatusValues, StatusValuesNext
  <2>3. \A x \in Calls \ {c} : StatusOf(x)' = StatusOf(x)
    BY <1>2 DEF AvailableRead, TypeOK, StatusOf
  <2>4. \A x \in Calls : AnswerOf(x)' = AnswerOf(x)
    BY <1>2 DEF AvailableRead, AnswerOf
  <2> QED
    BY <1>2, <2>2, <2>3, <2>4, StutterMapped DEF AvailableRead
<1>3. ASSUME NEW c \in Calls, Receive(c)
      PROVE  UNCHANGED Listings!vars
  <2>1. reply[c] = "none" /\ UNCHANGED <<cluster, phase, op, dbs, reply>>
    BY <1>3 DEF Receive, DataInv
  <2>2. \A x \in Calls \ {c} : results'[x] = results[x]
    BY <1>3 DEF Receive, TypeOK
  <2>3. \A x \in Calls : StatusOf(x)' = StatusOf(x) /\ AnswerOf(x)' = AnswerOf(x)
    BY <2>1, <2>2 DEF StatusOf, AnswerOf
  <2> QED
    BY <2>1, <2>3, StutterMapped
<1> QED
  BY <1>1, <1>2, <1>3

\* Databases that come and go change nothing a call has seen.
LEMMA ClusterMapped ==
  ASSUME IndInv, IndInv', NEW d \in Databases,
         CreateDatabase(d) \/ DropDatabase(d)
  PROVE  Listings!Change
<1>1. /\ cluster' \in SUBSET Databases
      /\ UNCHANGED <<phase, op, dbs, results, reply>>
  BY DEF CreateDatabase, DropDatabase, callVars, IndInv, TypeOK
<1>2. \A c \in Calls : StatusOf(c)' = StatusOf(c) /\ AnswerOf(c)' = AnswerOf(c)
  BY <1>1 DEF StatusOf, AnswerOf
<1> QED
  BY <1>1, <1>2 DEF Listings!Change, Listings!callVars, AnswerOf

\* Every step of the store is a step of Listing or changes nothing of it.
LEMMA NextMapped ==
  IndInv /\ IndInv' /\ ListedInv /\ [Next]_vars
    => [Listings!Next]_(Listings!vars)
<1> SUFFICES ASSUME IndInv, IndInv', ListedInv, [Next]_vars
             PROVE  Listings!Next \/ UNCHANGED Listings!vars
  OBVIOUS
<1>1. ASSUME NEW d \in Databases, CreateDatabase(d) \/ DropDatabase(d)
      PROVE  Listings!Next
  BY <1>1, ClusterMapped DEF Listings!Next
<1>2. ASSUME NEW c \in Calls, NEW o, NEW p, OpeningPhase(o, p), Start(c, o, p)
      PROVE  Listings!Next
  BY <1>2, StartMapped DEF Listings!Next
<1>3. ASSUME NEW c \in Calls, Finish(c) \/ ForEachReturns(c)
      PROVE  Listings!Next
  BY <1>3, FinishMapped, ForEachReturnsMapped DEF Listings!Next
<1>4. ASSUME NEW c \in Calls, PoolFails(c)
      PROVE  Listings!Next
  <2>1. results[c] = {}
    BY <1>4 DEF PoolFails, IndInv, DataInv
  <2>2. Listings!AnswerError(c)
    BY <1>4, <2>1, ErrorMapped DEF PoolFails
  <2> QED
    BY <2>2 DEF Listings!Next
<1>5. ASSUME NEW c \in Calls, ServerInfoRead(c)
      PROVE  Listings!Next
  BY <1>5, ServerInfoMapped DEF Listings!Next
<1>6. ASSUME NEW c \in Calls, NEW listed \in SUBSET cluster,
             DatabasesListed(c, listed)
      PROVE  Listings!Next
  BY <1>6, DatabasesListedMapped DEF Listings!Next
<1> QED
  BY <1>1, <1>2, <1>3, <1>4, <1>5, <1>6, InnerMapped, StepCases

\* A store that has just been made maps to a server that nobody has asked.
LEMMA InitMapped == Init => Listings!Init
<1> SUFFICES ASSUME Init PROVE Listings!Init
  OBVIOUS
<1>1. \A c \in Calls : StatusOf(c) = "idle"
  BY InitIndInv, StatusValues DEF Init, IndInv
<1>2. \A c \in Calls : AnswerOf(c) = [reply |-> "none", batches |-> {}]
  BY DEF Init, AnswerOf
<1>3. /\ cluster \in SUBSET Databases /\ op = [c \in Calls |-> "none"]
      /\ dbs = [c \in Calls |-> {}]
  BY DEF Init
<1> QED
  BY <1>1, <1>2, <1>3 DEF Listings!Init, Listings!NoAnswer, AnswerOf

\* The store implements Listing: to its handler a call is one listing of the
\* databases and one complete answer or one error, for any number of calls,
\* databases and rows, and through every failure of goroutines and queries.
THEOREM StoreImplementsListing == Spec => ImplementsListing
<1>1. Init => ListedInv
  BY DEF Init, ListedInv
<1>2. Spec => []ListedInv
  BY <1>1, StoreInv, NextListedInv, PTL DEF Spec
<1> QED
  BY <1>2, StoreInv, InitMapped, NextMapped, PTL
  DEF Spec, ImplementsListing, Listings!Spec
=============================================================================
