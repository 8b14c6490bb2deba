------------------------------ MODULE DbPermit ------------------------------
(***************************************************************************)
(* What ConnectionCoordinator promises to the rest of the extractor        *)
(* (internal/extractor/store/coordinator.go): "max 1 connection per        *)
(* database at a time".  A process holds the permit of at most one         *)
(* database, and no two processes hold the permit of the same database.    *)
(* An Acquire that gives up because its context is done changes nothing    *)
(* here.  Coordinator implements this specification; Store is built on it. *)
(***************************************************************************)
CONSTANTS
  Procs,      \* goroutines that run a ...ForDatabase function
  Databases,  \* names of the databases of the monitored server
  NoDb        \* stands for "no database", itself not a database

VARIABLE holds  \* holds[p]: the database whose permit p has, or NoDb

Init == holds = [p \in Procs |-> NoDb]

Free(d) == \A p \in Procs : holds[p] # d

\* Acquire returns nil to p.
Grant(p, d) ==
  /\ holds[p] = NoDb
  /\ Free(d)
  /\ holds' = [holds EXCEPT ![p] = d]

\* Release(d) by p has taken p's token out of the semaphore.
Release(p, d) ==
  /\ holds[p] = d
  /\ holds' = [holds EXCEPT ![p] = NoDb]

Next == \E p \in Procs, d \in Databases : Grant(p, d) \/ Release(p, d)

Spec == Init /\ [][Next]_holds

-----------------------------------------------------------------------------
PermitTypeOK == holds \in [Procs -> Databases \cup {NoDb}]

\* Two processes never hold the permit of one database.
Exclusive ==
  \A p, q \in Procs : p # q /\ holds[p] # NoDb => holds[p] # holds[q]
=============================================================================
