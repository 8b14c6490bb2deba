------------------------------ MODULE Listing ------------------------------
(***************************************************************************)
(* What an operation of the store promises to its handler.  A call lists   *)
(* the server's databases at one moment, and then has one answer: all rows *)
(* of all the databases it listed, or an error and no rows.  Goroutines,   *)
(* permits, connections and the order of results are not visible here.     *)
(* Store implements this specification.                                    *)
(***************************************************************************)
CONSTANTS
  Calls,      \* RPCs the server may be serving at a time
  Databases,  \* names of connectable databases the server may have
  RowCount,   \* RowCount[d]: rows the catalog query returns in database d
  Operations  \* the operations clients call

VARIABLES
  cluster,  \* the databases the server has now
  op,       \* the operation of each call
  status,   \* idle, asked, listed or answered
  listed,   \* the databases the call has listed
  answer    \* the answer of the call

vars == <<cluster, op, status, listed, answer>>
callVars == <<op, status, listed, answer>>

NoAnswer == [reply |-> "none", batches |-> {}]
Internal == [reply |-> "Internal", batches |-> {}]
OK(batches) == [reply |-> "OK", batches |-> batches]

\* All rows of all databases of S.
Everything(S) == {[db |-> d, rows |-> RowCount[d], err |-> FALSE] : d \in S}

Init ==
  /\ cluster \in SUBSET Databases
  /\ op = [c \in Calls |-> "none"]
  /\ status = [c \in Calls |-> "idle"]
  /\ listed = [c \in Calls |-> {}]
  /\ answer = [c \in Calls |-> NoAnswer]

\* Databases come and go, whatever the calls do.
Change == cluster' \in SUBSET Databases /\ UNCHANGED callVars

Ask(c, o) ==
  /\ status[c] = "idle"
  /\ op' = [op EXCEPT ![c] = o]
  /\ status' = [status EXCEPT ![c] = "asked"]
  /\ UNCHANGED <<cluster, listed, answer>>

\* A fan-out lists databases the server has, and not always all of them.
List(c) ==
  /\ status[c] = "asked" /\ op[c] \notin {"ListDatabases", "GetServerInfo"}
  /\ status' = [status EXCEPT ![c] = "listed"]
  /\ \E S \in SUBSET cluster : listed' = [listed EXCEPT ![c] = S]
  /\ UNCHANGED <<cluster, op, answer>>

Answer(c, a) ==
  /\ status' = [status EXCEPT ![c] = "answered"]
  /\ answer' = [answer EXCEPT ![c] = a]
  /\ UNCHANGED <<cluster, op>>

\* ListDatabases answers with its list, GetServerInfo without one.
AnswerAtOnce(c) ==
  /\ status[c] = "asked" /\ op[c] \in {"ListDatabases", "GetServerInfo"}
  /\ \E S \in SUBSET cluster :
       /\ op[c] = "GetServerInfo" => S = {}
       /\ listed' = [listed EXCEPT ![c] = S]
  /\ Answer(c, OK({}))

\* A fan-out answers with everything in what it has listed.
AnswerAll(c) ==
  /\ status[c] = "listed"
  /\ Answer(c, OK(Everything(listed[c])))
  /\ UNCHANGED listed

AnswerError(c) ==
  /\ status[c] \in {"asked", "listed"}
  /\ Answer(c, Internal)
  /\ UNCHANGED listed

Forget(c) ==
  /\ status[c] = "answered"
  /\ op' = [op EXCEPT ![c] = "none"]
  /\ status' = [status EXCEPT ![c] = "idle"]
  /\ listed' = [listed EXCEPT ![c] = {}]
  /\ answer' = [answer EXCEPT ![c] = NoAnswer]
  /\ UNCHANGED cluster

Next ==
  \/ Change
  \/ \E c \in Calls :
       \/ \E o \in Operations : Ask(c, o)
       \/ List(c) \/ AnswerAtOnce(c) \/ AnswerAll(c) \/ AnswerError(c)
       \/ Forget(c)

Spec == Init /\ [][Next]_vars
=============================================================================
