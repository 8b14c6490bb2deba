---------------------------- MODULE ServerInfo ----------------------------
(***************************************************************************)
(* GetServerInfo (store.go, types.go, server.go) on a server that is       *)
(* promoted, follows other primaries and rejoins as a standby while calls  *)
(* are under way.  The one SELECT is one transaction, whose read-only flag *)
(* is fixed when it begins, but pg_is_in_recovery() and the control file   *)
(* are read when their column is evaluated.                                *)
(*                                                                         *)
(* Abstractions: of the eleven columns those that the properties tell      *)
(* apart.  The other settings are copied; ssl, which the server gives as   *)
(* on or off too, is converted as the read-only flag is.                   *)
(***************************************************************************)
EXTENDS Integers

CONSTANTS
  Calls,          \* GetServerInfo calls that may be under way
  FirstTimeline,  \* timeline of the server at first
  MaxTimeline,    \* bound: last timeline
  Builds          \* server versions: [major, kind, minor]

ASSUME ServerInfoAssumption ==
  /\ MaxTimeline \in Nat /\ FirstTimeline \in 1..MaxTimeline
  /\ Builds \subseteq [major : Nat, kind : {".", "beta"}, minor : Nat]

VARIABLES
  build,     \* the server's version
  recovery,  \* the server is a standby
  timeline,  \* the timeline it writes or replays
  control,   \* the timeline of the last checkpoint, in the control file
  readOnly,  \* default_transaction_read_only
  pc,        \* where each call is: idle, begun, recovery, row or returned
  row,       \* the columns evaluated so far
  reply,
  floor,     \* history: what calls had been told before the call began
  told       \* history: what calls have been told

serverVars == <<build, recovery, timeline, control, readOnly>>
callVars == <<pc, row, reply>>
history == <<floor, told>>
vars == <<serverVars, callVars, history>>

NoRow == [is_in_recovery |-> FALSE, is_read_only |-> "", timeline_id |-> 0]
NoReply == [code |-> "none", cause |-> "none"]
Error(cause) == [code |-> "Internal", cause |-> cause]
Nothing == [timeline_id |-> 0, primary |-> FALSE]

Init ==
  /\ build \in Builds
  /\ recovery \in BOOLEAN
  /\ timeline = FirstTimeline /\ control = FirstTimeline
  /\ readOnly \in {"on", "off"}
  /\ pc = [c \in Calls |-> "idle"]
  /\ row = [c \in Calls |-> NoRow]
  /\ reply = [c \in Calls |-> NoReply]
  /\ floor = [c \in Calls |-> Nothing]
  /\ told = Nothing

-----------------------------------------------------------------------------
(* The server. *)

Promote ==
  /\ recovery /\ timeline < MaxTimeline
  /\ recovery' = FALSE
  /\ timeline' = timeline + 1
  /\ UNCHANGED <<build, control, readOnly, callVars, history>>

\* A standby goes on with the timeline of another server that was promoted.
Follow ==
  /\ recovery /\ timeline < MaxTimeline
  /\ timeline' = timeline + 1
  /\ UNCHANGED <<build, recovery, control, readOnly, callVars, history>>

\* A checkpoint or a restart point writes the control file.
Checkpoint ==
  /\ control # timeline
  /\ control' = timeline
  /\ UNCHANGED <<build, recovery, timeline, readOnly, callVars, history>>

Reload ==
  /\ readOnly' = IF readOnly = "on" THEN "off" ELSE "on"
  /\ UNCHANGED <<build, recovery, timeline, control, callVars, history>>

Return(c, r) ==
  /\ pc' = [pc EXCEPT ![c] = "returned"]
  /\ reply' = [reply EXCEPT ![c] = r]

Active == {c \in Calls : pc[c] \notin {"idle", "returned"}}

\* An old primary comes back as a standby of the new one.  Its restart breaks
\* the connections of the pool, and the queries that use them fail.
Rejoin ==
  /\ ~recovery /\ timeline < MaxTimeline
  /\ recovery' = TRUE
  /\ timeline' = timeline + 1
  /\ control' = timeline + 1
  /\ pc' = [c \in Calls |-> IF c \in Active THEN "returned" ELSE pc[c]]
  /\ reply' = [c \in Calls |-> IF c \in Active THEN Error("query") ELSE reply[c]]
  /\ told' = [told EXCEPT !.primary = FALSE]
  /\ floor' = [c \in Calls |-> [floor[c] EXCEPT !.primary = FALSE]]
  /\ UNCHANGED <<build, readOnly, row>>

-----------------------------------------------------------------------------
(* Store.GetServerInfo: QueryRow. *)

\* The transaction begins: it is read-only on a standby.
Begin(c) ==
  /\ pc[c] = "idle"
  /\ pc' = [pc EXCEPT ![c] = "begun"]
  /\ row' = [row EXCEPT ![c].is_read_only = IF recovery THEN "on" ELSE readOnly]
  /\ floor' = [floor EXCEPT ![c] = told]
  /\ UNCHANGED <<serverVars, reply, told>>

\* No connection, or a query that fails.
QueryFails(c) ==
  /\ c \in Active
  /\ Return(c, Error("query"))
  /\ UNCHANGED <<serverVars, row, history>>

EvalIsInRecovery(c) ==
  /\ pc[c] = "begun"
  /\ pc' = [pc EXCEPT ![c] = "recovery"]
  /\ row' = [row EXCEPT ![c].is_in_recovery = recovery]
  /\ UNCHANGED <<serverVars, reply, history>>

\* Mutation: the settings are read by a second query, in its own transaction.
EvalTimelineSecondQuery(c) ==
  /\ pc[c] = "recovery"
  /\ pc' = [pc EXCEPT ![c] = "row"]
  /\ row' = [row EXCEPT ![c].timeline_id = control,
                        ![c].is_read_only = IF recovery THEN "on" ELSE readOnly]
  /\ UNCHANGED <<serverVars, reply, history>>

EvalTimeline(c) ==
  /\ pc[c] = "recovery"
  /\ pc' = [pc EXCEPT ![c] = "row"]
  /\ row' = [row EXCEPT ![c].timeline_id = control]
  /\ UNCHANGED <<serverVars, reply, history>>

-----------------------------------------------------------------------------
(* Scan, ServerInfoToProto and Server.GetServerInfo. *)

\* Mutation: Scan accepts any integer.
ScanAny(r) == TRUE

\* pgx refuses an integer that does not fit the int8 it is scanned into.
ScanOK(r) == r.timeline_id < 2^7

\* The int8 that info.TimelineID holds, and that int32() widens.
TimelineId(r) == ((r.timeline_id + 2^7) % 2^8) - 2^7

\* `^PostgreSQL (\d+\.\d+)`: a beta has no such prefix.
VersionOK(b) == b.kind = "."
parsePgVersion(b) == <<b.major, b.minor>>

\* Anything but on and off is an error.
OnOffOK(s) == s \in {"on", "off"}
parsePgOnOffToBool(s) == s = "on"

\* ServerInfoToProto returns no error.
ConvertOK(r) == VersionOK(build) /\ OnOffOK(r.is_read_only)

ServerInfoToProto(r) ==
  [code |-> "OK", cause |-> "none",
   pg_version |-> parsePgVersion(build),
   is_read_only |-> parsePgOnOffToBool(r.is_read_only),
   is_in_recovery |-> r.is_in_recovery,
   timeline_id |-> TimelineId(r)]

Answer(c) ==
  /\ pc[c] = "row"
  /\ \/ ~ScanOK(row[c]) /\ Return(c, Error("scan")) /\ UNCHANGED told
     \/ /\ ScanOK(row[c]) /\ ~ConvertOK(row[c])
        /\ Return(c, Error("convert"))
        /\ UNCHANGED told
     \/ /\ ScanOK(row[c]) /\ ConvertOK(row[c])
        /\ Return(c, ServerInfoToProto(row[c]))
        /\ told' = [timeline_id |-> IF TimelineId(row[c]) > told.timeline_id
                                      THEN TimelineId(row[c])
                                      ELSE told.timeline_id,
                    primary |-> told.primary \/ ~row[c].is_in_recovery]
  /\ UNCHANGED <<serverVars, row, floor>>

Finish(c) ==
  /\ pc[c] = "returned"
  /\ pc' = [pc EXCEPT ![c] = "idle"]
  /\ row' = [row EXCEPT ![c] = NoRow]
  /\ reply' = [reply EXCEPT ![c] = NoReply]
  /\ floor' = [floor EXCEPT ![c] = Nothing]
  /\ UNCHANGED <<serverVars, told>>

-----------------------------------------------------------------------------
Next ==
  \/ Promote \/ Follow \/ Checkpoint \/ Reload \/ Rejoin
  \/ \E c \in Calls :
       \/ Begin(c) \/ QueryFails(c) \/ EvalIsInRecovery(c) \/ EvalTimeline(c)
       \/ Answer(c) \/ Finish(c)

Spec == Init /\ [][Next]_vars

-----------------------------------------------------------------------------
Timelines == FirstTimeline..MaxTimeline
Known == [timeline_id : Timelines \cup {0}, primary : BOOLEAN]

Replies ==
  [code : {"none", "Internal"}, cause : {"none", "query", "scan", "convert"}]
    \cup [code : {"OK"}, cause : {"none"}, pg_version : Nat \X Nat,
          is_read_only : BOOLEAN, is_in_recovery : BOOLEAN,
          timeline_id : Timelines]

(* The variables' types.  A reply's timeline is one the server had, not    *)
(* one that a conversion to a narrower integer made of it.                 *)
TypeOK ==
  /\ build \in Builds
  /\ recovery \in BOOLEAN /\ readOnly \in {"on", "off"}
  /\ timeline \in Timelines /\ control \in Timelines
  /\ pc \in [Calls -> {"idle", "begun", "recovery", "row", "returned"}]
  /\ row \in [Calls -> [is_in_recovery : BOOLEAN,
                        is_read_only : {"", "on", "off"},
                        timeline_id : Timelines \cup {0}]]
  /\ reply \in [Calls -> Replies]
  /\ floor \in [Calls -> Known]
  /\ told \in Known

OKReply(c) == reply[c].code = "OK"

(* No reply describes a standby that accepts writes, although the server   *)
(* may be promoted, and its settings reloaded, between any two columns.    *)
NoWritableStandby ==
  \A c \in Calls :
    OKReply(c) /\ reply[c].is_in_recovery => reply[c].is_read_only

(* A call that begins after another one was answered is not answered with  *)
(* an earlier state: neither with a lower timeline nor, unless the server  *)
(* has been made a standby again, as a standby after a primary.            *)
RepliesDoNotGoBack ==
  \A c \in Calls :
    OKReply(c) =>
      /\ reply[c].timeline_id \geq floor[c].timeline_id
      /\ floor[c].primary => ~reply[c].is_in_recovery
=============================================================================
