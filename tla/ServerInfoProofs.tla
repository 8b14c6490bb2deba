------------------------- MODULE ServerInfoProofs -------------------------
(***************************************************************************)
(* Proofs about ServerInfo, for any number of calls, any server version    *)
(* and any timelines.                                                      *)
(***************************************************************************)
EXTENDS ServerInfo, TLAPS

-----------------------------------------------------------------------------
(* The inductive invariant. *)

\* What calls have been told does not exceed what the server knows: the control
\* file's timeline, and that it is no standby.
ToldInv ==
  /\ control \leq timeline
  /\ told.timeline_id \leq control
  /\ told.primary => ~recovery

\* A call under way never meets the server becoming a standby, since the
\* restart breaks its connection.  So recovery is only ever left during a call,
\* and the read-only flag, which is fixed first, is on if it was seen.
RowInv(c) ==
  /\ pc[c] = "begun" /\ recovery => row[c].is_read_only = "on"
  /\ pc[c] \in {"recovery", "row"} =>
       /\ row[c].is_in_recovery => row[c].is_read_only = "on"
       /\ recovery => row[c].is_in_recovery
  /\ pc[c] = "row" =>
       row[c].timeline_id \in Timelines /\ row[c].timeline_id \leq control

\* The state when the call began bounds what its columns can show.
FloorInv(c) ==
  /\ c \in Active => /\ floor[c].timeline_id \leq control
                     /\ floor[c].primary => ~recovery
  /\ pc[c] \in {"recovery", "row"} /\ floor[c].primary => ~row[c].is_in_recovery
  /\ pc[c] = "row" => row[c].timeline_id \geq floor[c].timeline_id

\* A call has a reply only once it has returned.
ReplyInv(c) == pc[c] # "returned" => reply[c] = NoReply

IndInv ==
  /\ TypeOK
  /\ ToldInv
  /\ \A c \in Calls : RowInv(c) /\ FloorInv(c) /\ ReplyInv(c)
  /\ NoWritableStandby
  /\ RepliesDoNotGoBack

-----------------------------------------------------------------------------
\* An integer that fits the int8 is the int8.
LEMMA ScannedTimeline ==
  ASSUME NEW r, r.timeline_id \in Nat, ScanOK(r)
  PROVE  TimelineId(r) = r.timeline_id
<1>1. 2^7 = 128 /\ 2^8 = 256
  BY SMT
<1> QED
  BY <1>1 DEF ScanOK, TimelineId

\* Timelines are the numbers between the bounds.
LEMMA TimelineBounds ==
  /\ FirstTimeline \in Nat \ {0} /\ MaxTimeline \in Nat
  /\ FirstTimeline \leq MaxTimeline
  /\ \A t : t \in Timelines <=>
           t \in Nat /\ FirstTimeline \leq t /\ t \leq MaxTimeline
<1>1. FirstTimeline \in Nat \ {0} /\ MaxTimeline \in Nat
      /\ FirstTimeline \leq MaxTimeline
  BY ServerInfoAssumption
<1> QED
  BY <1>1 DEF Timelines

\* What TypeOK says of numbers.
LEMMA Numbers ==
  ASSUME TypeOK
  PROVE  /\ timeline \in Nat /\ FirstTimeline \leq timeline /\ timeline \leq MaxTimeline
         /\ control \in Nat /\ FirstTimeline \leq control /\ control \leq MaxTimeline
         /\ told.timeline_id \in Nat
         /\ \A c \in Calls : floor[c].timeline_id \in Nat /\ row[c].timeline_id \in Nat
<1>1. \A t \in Timelines \cup {0} : t \in Nat
  BY TimelineBounds
<1>2. /\ told.timeline_id \in Timelines \cup {0}
      /\ \A c \in Calls : /\ floor[c].timeline_id \in Timelines \cup {0}
                          /\ row[c].timeline_id \in Timelines \cup {0}
  BY DEF TypeOK, Known
<1>3. timeline \in Timelines /\ control \in Timelines
  BY DEF TypeOK
<1> QED
  BY <1>1, <1>2, <1>3, TimelineBounds

\* A server that nobody has asked yet.
LEMMA InitIndInv == Init => IndInv
<1> SUFFICES ASSUME Init PROVE IndInv
  OBVIOUS
<1>0. /\ timeline \in Timelines /\ control \in Timelines
      /\ control \leq timeline /\ 0 \leq control
  BY TimelineBounds DEF Init
<1> USE DEF Init, NoRow, NoReply, Nothing
<1>1. TypeOK
  <2>1. /\ pc \in [Calls -> {"idle", "begun", "recovery", "row", "returned"}]
        /\ reply \in [Calls -> Replies]
    BY DEF Replies
  <2>2. /\ floor \in [Calls -> Known] /\ told \in Known
        /\ row \in [Calls -> [is_in_recovery : BOOLEAN,
                              is_read_only : {"", "on", "off"},
                              timeline_id : Timelines \cup {0}]]
    BY DEF Known
  <2> QED
    BY <1>0, <2>1, <2>2 DEF TypeOK
<1>2. ToldInv
  BY <1>0 DEF ToldInv
<1>3. \A c \in Calls : RowInv(c) /\ FloorInv(c) /\ ReplyInv(c)
  BY DEF RowInv, FloorInv, ReplyInv, Active
<1>4. NoWritableStandby /\ RepliesDoNotGoBack
  BY DEF NoWritableStandby, RepliesDoNotGoBack, OKReply
<1> QED
  BY <1>1, <1>2, <1>3, <1>4 DEF IndInv

\* A promotion, another server's promotion, a checkpoint or a reload leaves the
\* calls alone, and takes the server forward.
LEMMA ServerStep ==
  ASSUME IndInv, Promote \/ Follow \/ Checkpoint \/ Reload
  PROVE  IndInv'
<1> USE DEF IndInv, callVars, history
<1>0. /\ UNCHANGED <<build, pc, row, reply, floor, told>>
      /\ recovery' \in BOOLEAN /\ readOnly' \in {"on", "off"}
      /\ recovery' => recovery
  <2>1. CASE Promote
    BY <2>1 DEF Promote, TypeOK
  <2>2. CASE Follow \/ Checkpoint \/ Reload
    <3>1. /\ UNCHANGED <<build, pc, row, reply, floor, told>>
          /\ readOnly' \in {"on", "off"}
      BY <2>2 DEF Follow, Checkpoint, Reload, TypeOK
    <3>2. UNCHANGED recovery
      BY <2>2 DEF Follow, Checkpoint, Reload
    <3> QED
      BY <3>1, <3>2, Zenon DEF TypeOK
  <2> QED
    BY <2>1, <2>2
<1>a. /\ timeline' \in Timelines /\ control' \in Timelines
      /\ control \leq control' /\ control' \leq timeline'
  BY Numbers, TimelineBounds DEF Promote, Follow, Checkpoint, Reload, ToldInv
<1>1. TypeOK'
  BY <1>0, <1>a DEF TypeOK
<1>b. control \in Nat /\ control' \in Nat /\ told.timeline_id \in Nat
  BY <1>1, <1>a, Numbers, TimelineBounds
<1>2. ToldInv'
  BY <1>0, <1>a, <1>b DEF ToldInv
<1>3. \A c \in Calls : RowInv(c)' /\ FloorInv(c)' /\ ReplyInv(c)'
  <2> TAKE c \in Calls
  <2>1. floor[c].timeline_id \in Nat /\ row[c].timeline_id \in Nat
    BY Numbers
  <2>2. RowInv(c)'
    BY <1>0, <1>a, <1>b, <2>1 DEF RowInv
  <2>3. FloorInv(c)'
    BY <1>0, <1>a, <1>b, <2>1 DEF FloorInv, Active
  <2> QED
    BY <1>0, <2>2, <2>3 DEF ReplyInv
<1>4. NoWritableStandby' /\ RepliesDoNotGoBack'
  BY <1>0 DEF NoWritableStandby, RepliesDoNotGoBack, OKReply
<1> QED
  BY <1>1, <1>2, <1>3, <1>4

\* The restart of an old primary ends every call under way.
LEMMA RejoinStep ==
  ASSUME IndInv, Rejoin
  PROVE  IndInv'
<1> USE DEF IndInv, Rejoin
<1>0. /\ \A c \in Calls : pc'[c] = (IF c \in Active THEN "returned" ELSE pc[c])
      /\ \A c \in Calls : reply'[c] = (IF c \in Active THEN Error("query")
                                       ELSE reply[c])
      /\ \A c \in Calls : /\ floor'[c].timeline_id = floor[c].timeline_id
                          /\ ~floor'[c].primary
      /\ told'.timeline_id = told.timeline_id /\ ~told'.primary
  BY DEF TypeOK, Known
<1>1. TypeOK'
  <2>1. reply' \in [Calls -> Replies]
    BY DEF TypeOK, Replies, Error
  <2>2. pc' \in [Calls -> {"idle", "begun", "recovery", "row", "returned"}]
    BY DEF TypeOK
  <2>3. floor' \in [Calls -> Known] /\ told' \in Known
    BY DEF TypeOK, Known
  <2>4. timeline' \in Timelines /\ control' \in Timelines
    BY Numbers, TimelineBounds
  <2> QED
    BY <2>1, <2>2, <2>3, <2>4 DEF TypeOK
<1>2. ToldInv'
  <2>1. told.timeline_id \leq timeline + 1
    BY Numbers DEF ToldInv
  <2> QED
    BY <1>0, <2>1, Numbers DEF ToldInv
<1>3. \A c \in Calls : RowInv(c)' /\ FloorInv(c)' /\ ReplyInv(c)'
  <2> TAKE c \in Calls
  <2>1. pc'[c] \in {"idle", "returned"} /\ c \notin Active'
    BY <1>0 DEF Active, TypeOK
  <2> QED
    BY <1>0, <2>1 DEF RowInv, FloorInv, ReplyInv, Active
<1>4. NoWritableStandby' /\ RepliesDoNotGoBack'
  BY <1>0 DEF NoWritableStandby, RepliesDoNotGoBack, OKReply, Error
<1> QED
  BY <1>1, <1>2, <1>3, <1>4

\* What a step of call c leaves alone: the server and the other calls.
LEMMA OtherCalls ==
  ASSUME IndInv, NEW c \in Calls, UNCHANGED serverVars,
         \A x \in Calls \ {c} : /\ pc'[x] = pc[x] /\ row'[x] = row[x]
                                /\ reply'[x] = reply[x] /\ floor'[x] = floor[x],
         RowInv(c)', FloorInv(c)', ReplyInv(c)',
         OKReply(c)' => /\ reply'[c].is_in_recovery => reply'[c].is_read_only
                        /\ reply'[c].timeline_id \geq floor'[c].timeline_id
                        /\ floor'[c].primary => ~reply'[c].is_in_recovery
  PROVE  /\ \A x \in Calls : RowInv(x)' /\ FloorInv(x)' /\ ReplyInv(x)'
         /\ NoWritableStandby' /\ RepliesDoNotGoBack'
<1> USE DEF IndInv, serverVars
<1>1. ASSUME NEW x \in Calls, x # c
      PROVE  RowInv(x)' /\ FloorInv(x)' /\ ReplyInv(x)'
  BY <1>1 DEF RowInv, FloorInv, ReplyInv, Active
<1>2. NoWritableStandby'
  BY DEF NoWritableStandby, OKReply
<1>3. RepliesDoNotGoBack'
  BY DEF RepliesDoNotGoBack, OKReply
<1> QED
  BY <1>1, <1>2, <1>3

\* The transaction begins with the read-only flag of that moment.
LEMMA BeginStep ==
  ASSUME IndInv, NEW c \in Calls, Begin(c)
  PROVE  IndInv'
<1> USE DEF IndInv, Begin, serverVars
<1>0. /\ \A x \in Calls \ {c} : /\ pc'[x] = pc[x] /\ row'[x] = row[x]
                                /\ reply'[x] = reply[x] /\ floor'[x] = floor[x]
      /\ pc'[c] = "begun" /\ floor'[c] = told /\ reply'[c] = NoReply
      /\ row'[c].is_read_only = IF recovery THEN "on" ELSE readOnly
  BY DEF TypeOK, ReplyInv
<1>1. TypeOK'
  BY DEF TypeOK
<1>2. ToldInv'
  BY DEF ToldInv
<1>3. RowInv(c)' /\ FloorInv(c)' /\ ReplyInv(c)' /\ ~OKReply(c)'
  BY <1>0 DEF RowInv, FloorInv, ReplyInv, OKReply, NoReply, ToldInv
<1> QED
  BY <1>0, <1>1, <1>2, <1>3, OtherCalls

\* A failing query answers with an error.
LEMMA QueryFailsStep ==
  ASSUME IndInv, NEW c \in Calls, QueryFails(c)
  PROVE  IndInv'
<1> USE DEF IndInv, QueryFails, Return, serverVars, history
<1>0. /\ \A x \in Calls \ {c} : /\ pc'[x] = pc[x] /\ row'[x] = row[x]
                                /\ reply'[x] = reply[x] /\ floor'[x] = floor[x]
      /\ pc'[c] = "returned" /\ reply'[c] = Error("query")
  BY DEF TypeOK
<1>1. TypeOK'
  BY DEF TypeOK, Replies, Error
<1>2. ToldInv'
  BY DEF ToldInv
<1>3. RowInv(c)' /\ FloorInv(c)' /\ ReplyInv(c)' /\ ~OKReply(c)'
  BY <1>0 DEF RowInv, FloorInv, ReplyInv, OKReply, Error, Active
<1> QED
  BY <1>0, <1>1, <1>2, <1>3, OtherCalls

\* pg_is_in_recovery() may have become false since the transaction began.
LEMMA EvalIsInRecoveryStep ==
  ASSUME IndInv, NEW c \in Calls, EvalIsInRecovery(c)
  PROVE  IndInv'
<1> USE DEF IndInv, EvalIsInRecovery, serverVars, history
<1>0. /\ \A x \in Calls \ {c} : /\ pc'[x] = pc[x] /\ row'[x] = row[x]
                                /\ reply'[x] = reply[x] /\ floor'[x] = floor[x]
      /\ pc'[c] = "recovery" /\ reply'[c] = reply[c] /\ reply[c] = NoReply
      /\ row'[c].is_in_recovery = recovery
      /\ row'[c].is_read_only = row[c].is_read_only
  BY DEF TypeOK, ReplyInv
<1>1. TypeOK'
  BY DEF TypeOK
<1>2. ToldInv'
  BY DEF ToldInv
<1>3. RowInv(c)' /\ FloorInv(c)' /\ ReplyInv(c)' /\ ~OKReply(c)'
  BY <1>0 DEF RowInv, FloorInv, ReplyInv, OKReply, NoReply, Active
<1> QED
  BY <1>0, <1>1, <1>2, <1>3, OtherCalls

\* The control file is read last.
LEMMA EvalTimelineStep ==
  ASSUME IndInv, NEW c \in Calls, EvalTimeline(c)
  PROVE  IndInv'
<1> USE DEF IndInv, EvalTimeline, serverVars, history
<1>0. /\ \A x \in Calls \ {c} : /\ pc'[x] = pc[x] /\ row'[x] = row[x]
                                /\ reply'[x] = reply[x] /\ floor'[x] = floor[x]
      /\ pc'[c] = "row" /\ reply'[c] = reply[c] /\ reply[c] = NoReply
      /\ row'[c].is_in_recovery = row[c].is_in_recovery
      /\ row'[c].is_read_only = row[c].is_read_only
      /\ row'[c].timeline_id = control
  BY DEF TypeOK, ReplyInv
<1>1. TypeOK'
  BY DEF TypeOK
<1>2. ToldInv'
  BY DEF ToldInv
<1>3. RowInv(c)' /\ FloorInv(c)' /\ ReplyInv(c)' /\ ~OKReply(c)'
  <2>1. control \in Timelines /\ control \leq control
    <3>1. control \in Nat /\ control \in Timelines
      BY Numbers DEF TypeOK
    <3> QED
      BY <3>1
  <2>2. RowInv(c)' /\ FloorInv(c)'
    BY <1>0, <2>1 DEF RowInv, FloorInv, Active
  <2> QED
    BY <1>0, <2>2 DEF ReplyInv, OKReply, NoReply
<1> QED
  BY <1>0, <1>1, <1>2, <1>3, OtherCalls

\* The row becomes a reply, which is what its columns were.
LEMMA AnswerStep ==
  ASSUME IndInv, NEW c \in Calls, Answer(c)
  PROVE  IndInv'
<1> USE DEF IndInv, Return, serverVars
<1>0. /\ pc[c] = "row" /\ pc'[c] = "returned"
      /\ UNCHANGED <<build, recovery, timeline, control, readOnly, row, floor>>
      /\ \A x \in Calls \ {c} : /\ pc'[x] = pc[x] /\ row'[x] = row[x]
                                /\ reply'[x] = reply[x] /\ floor'[x] = floor[x]
      /\ pc' \in [Calls -> {"idle", "begun", "recovery", "row", "returned"}]
  BY DEF Answer, TypeOK
<1>1. RowInv(c)' /\ FloorInv(c)' /\ ReplyInv(c)'
  BY <1>0 DEF RowInv, FloorInv, ReplyInv, Active
<1>2. CASE /\ UNCHANGED told
           /\ Return(c, Error("scan")) \/ Return(c, Error("convert"))
  <2>1. reply'[c].code = "Internal" /\ reply' \in [Calls -> Replies]
    <3>1. Error("scan") \in Replies /\ Error("convert") \in Replies
      BY DEF Error, Replies
    <3>2. PICK e \in {Error("scan"), Error("convert")} :
            reply' = [reply EXCEPT ![c] = e]
      BY <1>2
    <3>3. e.code = "Internal" /\ e \in Replies
      BY <3>1 DEF Error
    <3> QED
      BY <3>2, <3>3 DEF TypeOK
  <2>2. TypeOK' /\ ToldInv'
    BY <1>0, <1>2, <2>1 DEF TypeOK, ToldInv
  <2> QED
    BY <1>0, <1>1, <2>1, <2>2, OtherCalls DEF OKReply
<1>3. CASE /\ ScanOK(row[c]) /\ ConvertOK(row[c])
           /\ Return(c, ServerInfoToProto(row[c]))
           /\ told' = [timeline_id |-> IF TimelineId(row[c]) > told.timeline_id
                                         THEN TimelineId(row[c])
                                         ELSE told.timeline_id,
                       primary |-> told.primary \/ ~row[c].is_in_recovery]
  <2>1. /\ row[c].timeline_id \in Timelines /\ row[c].timeline_id \leq control
        /\ row[c].timeline_id \geq floor[c].timeline_id
        /\ TimelineId(row[c]) = row[c].timeline_id
    BY <1>0, <1>3, Numbers, ScannedTimeline DEF RowInv, FloorInv
  <2>2. ServerInfoToProto(row[c]) =
          [code |-> "OK", cause |-> "none",
           pg_version |-> <<build.major, build.minor>>,
           is_read_only |-> (row[c].is_read_only = "on"),
           is_in_recovery |-> row[c].is_in_recovery,
           timeline_id |-> row[c].timeline_id]
    BY <2>1 DEF ServerInfoToProto, parsePgVersion, parsePgOnOffToBool
  <2>3. ServerInfoToProto(row[c]) \in Replies
    <3>1. build.major \in Nat /\ build.minor \in Nat
      BY ServerInfoAssumption DEF TypeOK
    <3>2. row[c].is_in_recovery \in BOOLEAN /\ (row[c].is_read_only = "on") \in BOOLEAN
      BY Zenon DEF TypeOK
    <3> QED
      BY <2>1, <2>2, <3>1, <3>2 DEF Replies
  <2>4. told' \in Known
    BY <1>3, <2>1 DEF TypeOK, Known
  <2>5. TypeOK'
    BY <1>0, <1>3, <2>3, <2>4 DEF TypeOK
  <2>6. ToldInv'
    BY <1>0, <1>3, <2>1 DEF ToldInv, RowInv
  <2>7. reply'[c] = ServerInfoToProto(row[c])
    BY <1>3 DEF TypeOK
  <2>8. /\ reply'[c].is_in_recovery => reply'[c].is_read_only
        /\ reply'[c].timeline_id \geq floor'[c].timeline_id
        /\ floor'[c].primary => ~reply'[c].is_in_recovery
    <3>1. /\ reply'[c].is_in_recovery = row[c].is_in_recovery
          /\ reply'[c].is_read_only = (row[c].is_read_only = "on")
          /\ reply'[c].timeline_id = row[c].timeline_id
      BY <2>2, <2>7
    <3>2. /\ row[c].is_in_recovery => row[c].is_read_only = "on"
          /\ floor[c].primary => ~row[c].is_in_recovery
      BY <1>0 DEF RowInv, FloorInv
    <3> QED
      BY <1>0, <2>1, <3>1, <3>2
  <2> QED
    BY <1>0, <1>1, <2>5, <2>6, <2>8, OtherCalls
<1> QED
  BY <1>2, <1>3 DEF Answer

\* The handler is done.
LEMMA FinishStep ==
  ASSUME IndInv, NEW c \in Calls, Finish(c)
  PROVE  IndInv'
<1> USE DEF IndInv, Finish, serverVars
<1>0. /\ \A x \in Calls \ {c} : /\ pc'[x] = pc[x] /\ row'[x] = row[x]
                                /\ reply'[x] = reply[x] /\ floor'[x] = floor[x]
      /\ pc'[c] = "idle" /\ reply'[c] = NoReply
  BY DEF TypeOK
<1>1. TypeOK'
  BY DEF TypeOK, NoRow, NoReply, Nothing, Known, Replies
<1>2. ToldInv'
  BY DEF ToldInv
<1>3. RowInv(c)' /\ FloorInv(c)' /\ ReplyInv(c)' /\ ~OKReply(c)'
  BY <1>0 DEF RowInv, FloorInv, ReplyInv, OKReply, NoReply, Active
<1> QED
  BY <1>0, <1>1, <1>2, <1>3, OtherCalls

\* Every step preserves the inductive invariant.
LEMMA NextIndInv == IndInv /\ [Next]_vars => IndInv'
<1> SUFFICES ASSUME IndInv, [Next]_vars PROVE IndInv'
  OBVIOUS
<1>1. CASE UNCHANGED vars
  <2>1. UNCHANGED <<build, recovery, timeline, control, readOnly, pc, row, reply,
                    floor, told>>
    BY <1>1 DEF vars, serverVars, callVars, history
  <2> QED
    BY <2>1 DEF IndInv, TypeOK, ToldInv, RowInv, FloorInv, ReplyInv, Active,
       NoWritableStandby, RepliesDoNotGoBack, OKReply
<1>2. CASE Next
  BY <1>2, ServerStep, RejoinStep, BeginStep, QueryFailsStep,
     EvalIsInRecoveryStep, EvalTimelineStep, AnswerStep, FinishStep DEF Next
<1> QED
  BY <1>1, <1>2

\* The inductive invariant holds in every reachable state.
THEOREM ServerInfoInv == Spec => []IndInv
  BY InitIndInv, NextIndInv, PTL DEF Spec

\* The types; a reply's timeline is one the server had, however the int8 that
\* the code scans it into would wrap.
THEOREM ServerInfoTypeOK == Spec => []TypeOK
<1>1. IndInv => TypeOK
  BY DEF IndInv
<1> QED
  BY <1>1, ServerInfoInv, PTL

\* No reply describes a standby that accepts writes, whenever the server is
\* promoted or reloaded between the columns.
THEOREM ServerInfoNoWritableStandby == Spec => []NoWritableStandby
<1>1. IndInv => NoWritableStandby
  BY DEF IndInv
<1> QED
  BY <1>1, ServerInfoInv, PTL

\* Calls that follow each other see the server go forward only.
THEOREM ServerInfoRepliesDoNotGoBack == Spec => []RepliesDoNotGoBack
<1>1. IndInv => RepliesDoNotGoBack
  BY DEF IndInv
<1> QED
  BY <1>1, ServerInfoInv, PTL
=============================================================================
