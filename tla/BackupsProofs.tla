--------------------------- MODULE BackupsProofs ---------------------------
(***************************************************************************)
(* Proofs about Backups, for any names, repositories, versions and labels, *)
(* and any number of changes of the configuration table.                   *)
(***************************************************************************)
EXTENDS Backups, TLAPS

-----------------------------------------------------------------------------
(* The inductive invariant. *)

\* A store has a stanza only if the name was accepted.  Nothing leaves the
\* ready stage, so a name on a command line stays the one that was checked.
NamesInv ==
  /\ Stanza # NoName => isValidStanzaName(Stanza)
  /\ stage \in {"cluster_name", "ready"} => Stanza # NoName
  /\ stage = "ready" => ClusterName # NoName
  /\ asked # NoName => stage = "ready" /\ asked = Stanza
  /\ proc = "running" => asked # NoName

\* A label names one backup, in one repository.
LabelsInv ==
  /\ \A a, b \in made : a.label = b.label => a = b
  /\ \A k \in RepoKeys : \A l \in repo[k].labels :
       \E b \in made : b.label = l /\ b.repo_key = k
  /\ \A k \in RepoKeys : \A l \in printed[k].labels :
       \E b \in made : b.label = l
  /\ \A k \in RepoKeys : Len(repo[k].dbs) \leq MaxDbs

\* A process runs only while the call waits for its output; what was printed
\* is complete once the output is parsed.
ProcessInv ==
  /\ proc = "running" => pc = "output"
  /\ proc = "exited" => \A k \in RepoKeys : printed[k].read
  /\ pc = "parse" => proc = "exited"
  /\ pc = "idle" => \A k \in RepoKeys : printed[k] = Unread
  /\ \A k \in RepoKeys : printed[k].dbs # <<>> => asked = RepoStanza

\* A backup that was there all the time is in a repository that was read with
\* it or is yet to be read; what was read was there during the call.
WindowInv ==
  /\ pc = "output" => Present \subseteq ever
  /\ \A k \in RepoKeys : printed[k].labels \subseteq ever
  /\ \A l \in always : \E k \in RepoKeys :
       /\ pc = "output" => l \in repo[k].labels
       /\ printed[k].read /\ asked = RepoStanza => l \in printed[k].labels

ReplyInv == pc # "returned" => reply.code = "none"

IndInv ==
  /\ TypeOK
  /\ NamesInv
  /\ LabelsInv
  /\ ProcessInv
  /\ WindowInv
  /\ ReplyInv
  /\ BackupsFaithful

-----------------------------------------------------------------------------
\* Before NewStore.
LEMMA InitIndInv == Init => IndInv
<1> SUFFICES ASSUME Init PROVE IndInv
  OBVIOUS
<1> USE BackupsAssumption DEF Init, NoReply, Unread
<1>1. TypeOK
  <2>1. /\ repo \in [RepoKeys -> [dbs : Seq(Versions), labels : SUBSET Labels]]
        /\ printed \in [RepoKeys -> [dbs : Seq(Versions), labels : SUBSET Labels,
                                     read : BOOLEAN]]
    OBVIOUS
  <2>2. changes \in 0..MaxChanges /\ reply.code \in {"none", "OK", "NotFound", "Internal"}
    OBVIOUS
  <2>3. /\ config \in Configs /\ made \subseteq Backup
        /\ cancelled \in BOOLEAN /\ pipe \in BOOLEAN
        /\ always \subseteq Labels /\ ever \subseteq Labels
    OBVIOUS
  <2> QED
    BY <2>1, <2>2, <2>3 DEF TypeOK
<1>2. NamesInv /\ LabelsInv /\ ProcessInv
  BY DEF NamesInv, LabelsInv, ProcessInv
<1>3. WindowInv /\ ReplyInv /\ BackupsFaithful
  BY DEF WindowInv, ReplyInv, BackupsFaithful
<1> QED
  BY <1>1, <1>2, <1>3 DEF IndInv

\* The table may change at any time: the store has its own copies.
LEMMA ChangeConfigStep ==
  ASSUME IndInv, ChangeConfig
  PROVE  IndInv'
<1> USE BackupsAssumption DEF IndInv, ChangeConfig, repoVars, storeVars, callVars,
      procVars
<1>1. TypeOK'
  BY DEF TypeOK
<1>2. NamesInv' /\ LabelsInv' /\ ProcessInv'
  BY DEF NamesInv, LabelsInv, ProcessInv
<1>3. WindowInv' /\ ReplyInv' /\ BackupsFaithful'
  BY DEF WindowInv, ReplyInv, BackupsFaithful, Present
<1> QED
  BY <1>1, <1>2, <1>3

\* A stanza-upgrade adds a cluster to a repository's history.
LEMMA UpgradeStanzaStep ==
  ASSUME IndInv, NEW k \in RepoKeys, NEW v \in Versions, UpgradeStanza(k, v)
  PROVE  IndInv'
<1> USE BackupsAssumption DEF IndInv
<1>a. /\ repo' = [repo EXCEPT ![k].dbs = Append(@, v)]
      /\ Len(repo[k].dbs) < MaxDbs
      /\ UNCHANGED <<config, changes, made, stage, Stanza, ClusterName, pc,
                     cancelled, proc, pipe, asked, printed, always, ever, reply>>
  BY DEF UpgradeStanza, serverVars, storeVars, callVars, procVars
<1>b. /\ Append(repo[k].dbs, v) \in Seq(Versions)
      /\ Len(Append(repo[k].dbs, v)) \leq MaxDbs
  BY <1>a DEF TypeOK
<1>0. /\ \A j \in RepoKeys : repo'[j].labels = repo[j].labels
      /\ \A j \in RepoKeys \ {k} : repo'[j].dbs = repo[j].dbs
      /\ repo'[k].dbs = Append(repo[k].dbs, v)
      /\ repo' \in [RepoKeys -> [dbs : Seq(Versions), labels : SUBSET Labels]]
  BY <1>a, <1>b DEF TypeOK
<1>1. TypeOK'
  BY <1>0, <1>a DEF TypeOK
<1>2. NamesInv' /\ ProcessInv'
  BY <1>a DEF NamesInv, ProcessInv
<1>3. LabelsInv'
  BY <1>0, <1>a, <1>b DEF LabelsInv
<1>4. WindowInv' /\ ReplyInv' /\ BackupsFaithful'
  BY <1>0, <1>a DEF WindowInv, ReplyInv, BackupsFaithful, Present
<1> QED
  BY <1>1, <1>2, <1>3, <1>4

\* A backup gets a new label, and was there during the call if there is one.
LEMMA MakeBackupStep ==
  ASSUME IndInv, NEW k \in RepoKeys, NEW l \in Labels, MakeBackup(k, l)
  PROVE  IndInv'
<1> USE BackupsAssumption DEF IndInv, MakeBackup, serverVars, storeVars, procVars
<1> DEFINE new == [label |-> l, repo_key |-> k, id |-> Len(repo[k].dbs),
                   version |-> repo[k].dbs[Len(repo[k].dbs)]]
<1>0. /\ \A j \in RepoKeys : repo'[j].dbs = repo[j].dbs
      /\ \A j \in RepoKeys \ {k} : repo'[j].labels = repo[j].labels
      /\ repo'[k].labels = repo[k].labels \cup {l}
      /\ repo' \in [RepoKeys -> [dbs : Seq(Versions), labels : SUBSET Labels]]
  BY DEF TypeOK
<1>a. new \in Backup
  <2>1. repo[k].dbs \in Seq(Versions) /\ repo[k].dbs # <<>>
        /\ Len(repo[k].dbs) \leq MaxDbs
    BY DEF TypeOK, LabelsInv
  <2>2. Len(repo[k].dbs) \in 1..MaxDbs /\ repo[k].dbs[Len(repo[k].dbs)] \in Versions
    BY <2>1
  <2> QED
    BY <2>2 DEF Backup
<1>b. made' = made \cup {new} /\ new.label = l /\ new.repo_key = k
  OBVIOUS
<1> HIDE DEF new
<1>c. ever \subseteq ever' /\ (pc = "output" => ever' = ever \cup {l})
  OBVIOUS
<1>1. TypeOK'
  <2>1. ever' \subseteq Labels
    BY DEF TypeOK
  <2> QED
    BY <1>0, <1>a, <1>b, <2>1 DEF TypeOK
<1>2. NamesInv' /\ ProcessInv'
  BY DEF NamesInv, ProcessInv
<1>3. LabelsInv'
  BY <1>0, <1>b DEF LabelsInv
<1>4. WindowInv'
  <2>1. pc' = "output" => Present' \subseteq ever'
    BY <1>0, <1>c DEF WindowInv, Present
  <2>2. \A x \in always' : \E j \in RepoKeys :
          /\ pc' = "output" => x \in repo'[j].labels
          /\ printed'[j].read /\ asked' = RepoStanza => x \in printed'[j].labels
    BY <1>0 DEF WindowInv
  <2> QED
    BY <1>c, <2>1, <2>2 DEF WindowInv
<1>5. ReplyInv' /\ BackupsFaithful'
  BY <1>b, <1>c DEF ReplyInv, BackupsFaithful
<1> QED
  BY <1>1, <1>2, <1>3, <1>4, <1>5

\* A backup that expires during the call was not there all the time.
LEMMA ExpireBackupStep ==
  ASSUME IndInv, NEW k \in RepoKeys, NEW l \in Labels, ExpireBackup(k, l)
  PROVE  IndInv'
<1> USE BackupsAssumption DEF IndInv, ExpireBackup, serverVars, storeVars, procVars
<1>0. /\ \A j \in RepoKeys : repo'[j].dbs = repo[j].dbs
      /\ \A j \in RepoKeys \ {k} : repo'[j].labels = repo[j].labels
      /\ repo'[k].labels = repo[k].labels \ {l}
      /\ repo' \in [RepoKeys -> [dbs : Seq(Versions), labels : SUBSET Labels]]
  BY DEF TypeOK
<1>a. /\ always' \subseteq always /\ (pc = "output" => l \notin always')
      /\ pc # "output" => always' = always
  OBVIOUS
<1>1. TypeOK'
  BY <1>0, <1>a DEF TypeOK
<1>2. NamesInv' /\ ProcessInv'
  BY DEF NamesInv, ProcessInv
<1>3. LabelsInv'
  BY <1>0 DEF LabelsInv
<1>4. WindowInv'
  <2>1. pc' = "output" => Present' \subseteq ever'
    BY <1>0 DEF WindowInv, Present
  <2>2. \A x \in always' : \E j \in RepoKeys :
          /\ pc' = "output" => x \in repo'[j].labels
          /\ printed'[j].read /\ asked' = RepoStanza => x \in printed'[j].labels
    BY <1>0, <1>a DEF WindowInv
  <2> QED
    BY <2>1, <2>2 DEF WindowInv
<1>5. ReplyInv' /\ BackupsFaithful'
  BY <1>a DEF ReplyInv, BackupsFaithful
<1> QED
  BY <1>1, <1>2, <1>3, <1>4, <1>5

\* NewStore takes the stanza only if it is accepted, and both names only once.
LEMMA NewStoreStep ==
  ASSUME IndInv, LoadStanza \/ LoadClusterName \/ Restart
  PROVE  IndInv'
<1> USE BackupsAssumption DEF IndInv
<1>0. UNCHANGED <<config, changes, repo, made, pc, cancelled, proc, pipe, asked,
                  printed, always, ever, reply>>
  BY DEF LoadStanza, LoadClusterName, Restart, serverVars, repoVars, callVars,
     procVars
<1>1. /\ stage' \in {"stanza", "cluster_name", "ready"} \cup Failures
      /\ Stanza' \in StanzaNames \cup {NoName}
      /\ ClusterName' \in ClusterNames \cup {NoName}
  BY DEF TypeOK, Configs, LoadStanza, LoadClusterName, Restart, Failures
<1>2. NamesInv'
  <2>1. asked = NoName /\ stage # "ready"
    BY DEF NamesInv, LoadStanza, LoadClusterName, Restart, Failures
  <2>2. CASE LoadStanza
    BY <1>0, <2>1, <2>2 DEF LoadStanza, NamesInv
  <2>3. CASE LoadClusterName
    BY <1>0, <2>1, <2>3 DEF LoadClusterName, NamesInv
  <2>4. CASE Restart
    BY <1>0, <2>1, <2>4 DEF Restart, NamesInv
  <2> QED
    BY <2>2, <2>3, <2>4
<1>3. TypeOK'
  BY <1>0, <1>1 DEF TypeOK
<1>4. LabelsInv' /\ ProcessInv' /\ WindowInv' /\ ReplyInv' /\ BackupsFaithful'
  BY <1>0 DEF LabelsInv, ProcessInv, WindowInv, ReplyInv, BackupsFaithful, Present
<1> QED
  BY <1>2, <1>3, <1>4

\* The call begins: nothing has been read, and everything is there.
LEMMA StartProcessStep ==
  ASSUME IndInv, StartProcess
  PROVE  IndInv'
<1> USE BackupsAssumption DEF IndInv, StartProcess, serverVars, repoVars, storeVars
<1>0. Present \subseteq Labels /\ \A k \in RepoKeys : printed[k] = Unread
  BY DEF TypeOK, ProcessInv, Present
<1>1. TypeOK'
  BY <1>0 DEF TypeOK
<1>2. NamesInv' /\ LabelsInv'
  BY DEF NamesInv, LabelsInv
<1>3. ProcessInv'
  BY <1>0 DEF ProcessInv, Unread
<1>4. WindowInv'
  <2>1. \A l \in Present : \E k \in RepoKeys : l \in repo[k].labels
    BY DEF Present
  <2>2. \A k \in RepoKeys : ~printed[k].read /\ printed[k].labels = {}
    BY <1>0 DEF Unread
  <2>3. Present' = Present
    BY DEF Present
  <2> QED
    BY <2>1, <2>2, <2>3 DEF WindowInv
<1>5. ReplyInv' /\ BackupsFaithful'
  BY DEF ReplyInv, BackupsFaithful
<1> QED
  BY <1>1, <1>2, <1>3, <1>4, <1>5

\* What pgbackrest prints of a stanza it does not know.
LEMMA NothingRead ==
  [Unread EXCEPT !.read = TRUE]
    \in [dbs : Seq(Versions), labels : SUBSET Labels, read : BOOLEAN]
<1>1. Unread \in [dbs : Seq(Versions), labels : SUBSET Labels, read : BOOLEAN]
  BY DEF Unread
<1> QED
  BY <1>1

\* A repository is read as it is at that moment.
LEMMA ReadRepoStep ==
  ASSUME IndInv, NEW k \in RepoKeys, ReadRepo(k)
  PROVE  IndInv'
<1> USE BackupsAssumption DEF IndInv, ReadRepo, serverVars, repoVars, storeVars
<1>0. /\ \A j \in RepoKeys \ {k} : printed'[j] = printed[j]
      /\ printed'[k].read
      /\ asked = RepoStanza => /\ printed'[k].labels = repo[k].labels
                               /\ printed'[k].dbs = repo[k].dbs
      /\ asked # RepoStanza => printed'[k].labels = {} /\ printed'[k].dbs = <<>>
      /\ pc = "output"
  BY DEF TypeOK, Unread, ProcessInv
<1>1. TypeOK'
  <2>1. printed' \in [RepoKeys -> [dbs : Seq(Versions), labels : SUBSET Labels,
                                   read : BOOLEAN]]
    BY NothingRead DEF TypeOK
  <2> QED
    BY <2>1 DEF TypeOK
<1>2. NamesInv' /\ LabelsInv'
  BY <1>0 DEF NamesInv, LabelsInv
<1>3. ProcessInv'
  BY <1>0 DEF ProcessInv
<1>4. WindowInv'
  <2>1. Present' = Present /\ repo[k].labels \subseteq Present
    BY DEF Present
  <2>2. \A j \in RepoKeys : printed'[j].labels \subseteq ever
    BY <1>0, <2>1 DEF WindowInv
  <2>3. \A l \in always : \E j \in RepoKeys :
          /\ pc' = "output" => l \in repo'[j].labels
          /\ printed'[j].read /\ asked' = RepoStanza => l \in printed'[j].labels
    BY <1>0 DEF WindowInv
  <2> QED
    BY <2>1, <2>2, <2>3 DEF WindowInv
<1>5. ReplyInv' /\ BackupsFaithful'
  BY DEF ReplyInv, BackupsFaithful
<1> QED
  BY <1>1, <1>2, <1>3, <1>4, <1>5

\* Processes, their output and the context, before the output is complete.
LEMMA ProcessStep ==
  ASSUME IndInv,
         ForkProcess \/ OtherProcessEnds \/ ProcessExits \/ Cancel \/ KillProcess
  PROVE  IndInv'
<1> USE BackupsAssumption DEF IndInv
<1>0. UNCHANGED <<config, changes, repo, made, stage, Stanza, ClusterName, pc,
                  asked, printed, always, ever, reply>>
  BY DEF ForkProcess, OtherProcessEnds, ProcessExits, Cancel, KillProcess,
     serverVars, repoVars, storeVars, procVars
<1>1. /\ proc' \in {"none", "running", "exited", "failed"}
      /\ proc' = "running" => proc = "running"
      /\ proc = "exited" => proc' = "exited"
      /\ proc' = "exited" => \A k \in RepoKeys : printed[k].read
  BY DEF ForkProcess, OtherProcessEnds, ProcessExits, Cancel, KillProcess,
     procVars, TypeOK, ProcessInv
<1>2. cancelled' \in BOOLEAN /\ pipe' \in BOOLEAN
  BY Zenon DEF ForkProcess, OtherProcessEnds, ProcessExits, Cancel, KillProcess,
     procVars, TypeOK
<1>3. TypeOK'
  BY <1>0, <1>1, <1>2 DEF TypeOK
<1>4. NamesInv' /\ LabelsInv' /\ ProcessInv'
  BY <1>0, <1>1 DEF NamesInv, LabelsInv, ProcessInv
<1>5. WindowInv' /\ ReplyInv' /\ BackupsFaithful'
  BY <1>0 DEF WindowInv, ReplyInv, BackupsFaithful, Present
<1> QED
  BY <1>3, <1>4, <1>5

\* The output is complete, or the process has failed.
LEMMA OutputReturnsStep ==
  ASSUME IndInv, OutputReturns
  PROVE  IndInv'
<1> USE BackupsAssumption DEF IndInv, OutputReturns, serverVars, repoVars, storeVars,
      procVars, Return
<1>0. \/ pc' = "parse" /\ proc = "exited" /\ reply' = reply
      \/ pc' = "returned" /\ reply'.code = "Internal"
  BY DEF Error, NoReply
<1>1. TypeOK'
  BY <1>0 DEF TypeOK
<1>2. NamesInv' /\ LabelsInv' /\ ProcessInv'
  BY <1>0 DEF NamesInv, LabelsInv, ProcessInv
<1>3. WindowInv' /\ ReplyInv' /\ BackupsFaithful'
  BY <1>0 DEF WindowInv, ReplyInv, BackupsFaithful, Present
<1> QED
  BY <1>1, <1>2, <1>3

\* A reply is made of everything that was printed, of databases that belong to
\* the stanza that was asked for.
LEMMA ListBackupsStep ==
  ASSUME IndInv, ListBackups
  PROVE  IndInv'
<1> USE BackupsAssumption DEF IndInv, serverVars, repoVars, storeVars, procVars,
      Return
<1>0. /\ pc = "parse" /\ pc' = "returned"
      /\ UNCHANGED <<config, changes, repo, made, stage, Stanza, ClusterName,
                     cancelled, proc, pipe, asked, printed, always, ever>>
      /\ \/ reply'.code \in {"NotFound", "Internal"}
         \/ /\ AllDbs # {}
            /\ reply' = [code |-> "OK", stanza |-> asked, backups |-> BackupInfo]
  BY DEF ListBackups, Error, NoReply
<1>1. reply'.code \in {"OK", "NotFound", "Internal"}
  BY <1>0
<1>2. TypeOK'
  BY <1>0, <1>1 DEF TypeOK
<1>3. NamesInv' /\ LabelsInv' /\ ProcessInv'
  BY <1>0 DEF NamesInv, LabelsInv, ProcessInv
<1>4. WindowInv' /\ ReplyInv'
  BY <1>0 DEF WindowInv, ReplyInv, Present
<1>5. BackupsFaithful'
  <2> SUFFICES ASSUME reply'.code = "OK" PROVE BackupsFaithful'
    BY DEF BackupsFaithful
  <2>1. AllDbs # {} /\ reply'.backups = BackupInfo
    BY <1>0
  <2>2. asked = RepoStanza /\ \A k \in RepoKeys : printed[k].read
    <3>1. \E k \in RepoKeys : DOMAIN printed[k].dbs # {}
      BY <2>1 DEF AllDbs
    <3>2. \E k \in RepoKeys : printed[k].dbs # <<>>
      <4>1. DOMAIN <<>> = {}
        OBVIOUS
      <4> QED
        BY <3>1, <4>1, Zenon
    <3> QED
      BY <1>0, <3>2 DEF ProcessInv
  <2>3. \A b \in BackupInfo : \E m \in Printed :
          b = ToProto(m, FirstDb.version)
    BY DEF BackupInfo
  <2>4. \A m \in Printed : ToProto(m, FirstDb.version) \in BackupInfo
    BY DEF BackupInfo
  <2>5. \A m, v : ToProto(m, v).label = m.label /\ ToProto(m, v).repo_key = m.repo_key
    BY DEF ToProto
  <2>6. ASSUME NEW l \in always
        PROVE  \E b \in BackupInfo : b.label = l
    <3>1. PICK k \in RepoKeys : l \in printed[k].labels
      BY <2>2 DEF WindowInv
    <3>2. PICK m \in made : m.label = l
      BY <3>1 DEF LabelsInv
    <3>3. m \in Printed
      BY <3>1, <3>2 DEF Printed
    <3> QED
      BY <2>4, <2>5, <3>2, <3>3
  <2>7. ASSUME NEW b \in BackupInfo
        PROVE  /\ b.label \in ever
               /\ \E m \in made : m.label = b.label /\ m.repo_key = b.repo_key
               /\ \A x \in BackupInfo : x.label = b.label => x = b
    <3>1. PICK m \in Printed : b = ToProto(m, FirstDb.version)
      BY <2>3
    <3>2. m \in made /\ m.label \in ever
      BY DEF Printed, WindowInv
    <3>3. ASSUME NEW x \in BackupInfo, x.label = b.label
          PROVE  x = b
      <4>1. PICK n \in Printed : x = ToProto(n, FirstDb.version)
        BY <2>3
      <4>2. n = m
        BY <2>5, <3>1, <3>2, <3>3, <4>1 DEF Printed, LabelsInv
      <4> QED
        BY <3>1, <4>1, <4>2
    <3> QED
      BY <2>5, <3>1, <3>2, <3>3
  <2> QED
    BY <1>0, <2>1, <2>6, <2>7 DEF BackupsFaithful
<1> QED
  BY <1>2, <1>3, <1>4, <1>5

\* The handler is done.
LEMMA FinishStep ==
  ASSUME IndInv, Finish
  PROVE  IndInv'
<1> USE BackupsAssumption DEF IndInv, Finish, serverVars, repoVars, storeVars
<1>1. TypeOK'
  <2>1. printed' \in [RepoKeys -> [dbs : Seq(Versions), labels : SUBSET Labels,
                                   read : BOOLEAN]]
    BY DEF Unread
  <2> QED
    BY <2>1 DEF TypeOK, NoReply
<1>2. NamesInv' /\ LabelsInv' /\ ProcessInv'
  BY DEF NamesInv, LabelsInv, ProcessInv, Unread
<1>3. WindowInv' /\ ReplyInv' /\ BackupsFaithful'
  BY DEF WindowInv, ReplyInv, BackupsFaithful, NoReply, Unread
<1> QED
  BY <1>1, <1>2, <1>3

\* Every step preserves the inductive invariant.
LEMMA NextIndInv == IndInv /\ [Next]_vars => IndInv'
<1> SUFFICES ASSUME IndInv, [Next]_vars PROVE IndInv'
  OBVIOUS
<1>1. CASE UNCHANGED vars
  <2>1. UNCHANGED <<config, changes, repo, made, stage, Stanza, ClusterName, pc,
                    cancelled, proc, pipe, asked, printed, always, ever, reply>>
    BY <1>1 DEF vars, serverVars, repoVars, storeVars, callVars, procVars
  <2> QED
    BY <2>1 DEF IndInv, TypeOK, NamesInv, LabelsInv, ProcessInv, WindowInv,
       ReplyInv, BackupsFaithful, Present
<1>2. CASE Next
  BY <1>2, ChangeConfigStep, UpgradeStanzaStep, MakeBackupStep, ExpireBackupStep,
     NewStoreStep, StartProcessStep, ReadRepoStep, ProcessStep,
     OutputReturnsStep, ListBackupsStep, FinishStep DEF Next
<1> QED
  BY <1>1, <1>2

\* The inductive invariant holds in every reachable state.
THEOREM BackupsInv == Spec => []IndInv
  BY InitIndInv, NextIndInv, PTL DEF Spec

\* The types.
THEOREM BackupsTypeOK == Spec => []TypeOK
<1>1. IndInv => TypeOK
  BY DEF IndInv
<1> QED
  BY <1>1, BackupsInv, PTL

\* Only a name that isValidStanzaName accepted reaches a command line, however
\* often the table changes and the extractor is restarted.
THEOREM BackupsOnlyCheckedNamesAsked == Spec => []OnlyCheckedNamesAsked
<1>1. IndInv => OnlyCheckedNamesAsked
  BY DEF IndInv, NamesInv, OnlyCheckedNamesAsked
<1> QED
  BY <1>1, BackupsInv, PTL

\* A successful ListBackups has every backup that was there all the time and
\* none that was never there, for any repositories, however they change.
THEOREM BackupsReplyFaithful == Spec => []BackupsFaithful
<1>1. IndInv => BackupsFaithful
  BY DEF IndInv
<1> QED
  BY <1>1, BackupsInv, PTL
=============================================================================
