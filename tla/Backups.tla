------------------------------ MODULE Backups ------------------------------
(***************************************************************************)
(* The backup path of the extractor: NewStore (store.go), which reads the  *)
(* stanza and cluster names once, and ListBackups (pgbackrest.go,          *)
(* server.go), which runs `pgbackrest info` as a process and turns its     *)
(* JSON into a reply.  The configuration table and the repositories change *)
(* meanwhile.  pgBackRest is external: it reads the repositories one after *)
(* the other, and prints databases from the oldest to the newest.          *)
(***************************************************************************)
EXTENDS Naturals, Sequences

CONSTANTS
  StanzaNames,   \* values of the stanza row: [length, first, rest]
  ClusterNames,  \* values of the cluster_name row
  RepoStanza,    \* the stanza that the repositories hold
  RepoKeys,      \* keys of the repositories
  Versions,      \* PostgreSQL versions; "" is a missing field
  Labels,        \* backup labels
  MaxDbs,        \* bound: clusters in the history of a stanza
  MaxChanges,    \* bound: changes of the configuration table
  NoName         \* no such row, or a value not read yet

ASSUME BackupsAssumption ==
  /\ StanzaNames \subseteq [length : Nat, first : {"letter", "other"},
                            rest : {"plain", "other"}]
  /\ RepoStanza \in StanzaNames
  /\ NoName \notin StanzaNames /\ NoName \notin ClusterNames
  /\ RepoKeys \subseteq Nat
  /\ MaxDbs \in Nat /\ MaxChanges \in Nat

VARIABLES
  config,       \* the rows of monitoring.cluster_config
  changes,      \* number of changes of config
  repo,         \* repo[k]: cluster versions by id, and the labels it holds
  made,         \* every backup ever made
  stage,        \* where NewStore is, or how it ended
  Stanza,       \* the fields of the store
  ClusterName,
  pc,           \* the ListBackups call: idle, output, parse or returned
  cancelled,    \* its context is done
  proc,         \* the pgbackrest process
  pipe,         \* another process keeps its output open
  asked,        \* the stanza on its command line
  printed,      \* printed[k]: what it has read of repository k, if anything
  always, ever, \* history: labels there during all, or some, of the call
  reply

procVars == <<proc, pipe, asked, printed>>
callVars == <<pc, cancelled, procVars, always, ever, reply>>
storeVars == <<stage, Stanza, ClusterName>>
serverVars == <<config, changes>>
repoVars == <<repo, made>>
vars == <<serverVars, repoVars, storeVars, callVars>>

NoReply == [code |-> "none", stanza |-> NoName, backups |-> {}]
Error(code) == [NoReply EXCEPT !.code = code]
Unread == [dbs |-> <<>>, labels |-> {}, read |-> FALSE]

Configs == [stanza : StanzaNames \cup {NoName},
            cluster_name : ClusterNames \cup {NoName}]

Init ==
  /\ config \in Configs
  /\ changes = 0
  /\ repo = [k \in RepoKeys |-> [dbs |-> <<>>, labels |-> {}]]
  /\ made = {}
  /\ stage = "stanza"
  /\ Stanza = NoName
  /\ ClusterName = NoName
  /\ pc = "idle"
  /\ cancelled = FALSE
  /\ proc = "none"
  /\ pipe = FALSE
  /\ asked = NoName
  /\ printed = [k \in RepoKeys |-> Unread]
  /\ always = {}
  /\ ever = {}
  /\ reply = NoReply

-----------------------------------------------------------------------------
(* The monitored server and its backups. *)

ChangeConfig ==
  /\ changes < MaxChanges
  /\ changes' = changes + 1
  /\ config' \in Configs \ {config}
  /\ UNCHANGED <<repoVars, storeVars, callVars>>

\* stanza-create, or stanza-upgrade after a major upgrade of PostgreSQL.
UpgradeStanza(k, v) ==
  /\ Len(repo[k].dbs) < MaxDbs
  /\ repo' = [repo EXCEPT ![k].dbs = Append(@, v)]
  /\ UNCHANGED <<serverVars, made, storeVars, callVars>>

\* A backup of the current cluster of repository k; labels are not reused.
MakeBackup(k, l) ==
  /\ repo[k].dbs # <<>>
  /\ \A b \in made : b.label # l
  /\ repo' = [repo EXCEPT ![k].labels = @ \cup {l}]
  /\ made' = made \cup {[label |-> l, repo_key |-> k, id |-> Len(repo[k].dbs),
                         version |-> repo[k].dbs[Len(repo[k].dbs)]]}
  /\ ever' = ever \cup IF pc = "output" THEN {l} ELSE {}
  /\ UNCHANGED <<serverVars, storeVars, pc, cancelled, procVars, always, reply>>

ExpireBackup(k, l) ==
  /\ l \in repo[k].labels
  /\ repo' = [repo EXCEPT ![k].labels = @ \ {l}]
  /\ always' = IF pc = "output" THEN always \ {l} ELSE always
  /\ UNCHANGED <<serverVars, made, storeVars, pc, cancelled, procVars, ever,
                 reply>>

-----------------------------------------------------------------------------
(* NewStore. *)

\* `^[a-zA-Z][a-zA-Z0-9_-]{0,62}$`
isValidStanzaName(s) ==
  s.length \in 1..63 /\ s.first = "letter" /\ s.rest = "plain"

\* Mutation: the row is taken as it is.
LoadStanzaUnchecked ==
  /\ stage = "stanza" /\ config.stanza # NoName
  /\ stage' = "cluster_name"
  /\ Stanza' = config.stanza
  /\ UNCHANGED <<serverVars, repoVars, ClusterName, callVars>>

LoadStanza ==
  /\ stage = "stanza"
  /\ \/ stage' = "query failed" /\ UNCHANGED Stanza
     \/ config.stanza = NoName /\ stage' = "no stanza" /\ UNCHANGED Stanza
     \/ /\ config.stanza # NoName /\ ~isValidStanzaName(config.stanza)
        /\ stage' = "invalid stanza"
        /\ UNCHANGED Stanza
     \/ /\ config.stanza # NoName /\ isValidStanzaName(config.stanza)
        /\ stage' = "cluster_name"
        /\ Stanza' = config.stanza
  /\ UNCHANGED <<serverVars, repoVars, ClusterName, callVars>>

\* A second query, on whatever the table holds by then.
LoadClusterName ==
  /\ stage = "cluster_name"
  /\ \/ stage' = "query failed" /\ UNCHANGED ClusterName
     \/ /\ config.cluster_name = NoName
        /\ stage' = "no cluster_name"
        /\ UNCHANGED ClusterName
     \/ /\ config.cluster_name # NoName
        /\ stage' = "ready"
        /\ ClusterName' = config.cluster_name
  /\ UNCHANGED <<serverVars, repoVars, Stanza, callVars>>

Failures == {"query failed", "no stanza", "invalid stanza", "no cluster_name"}

\* main exits with status 1; whoever runs the extractor starts it again.
Restart ==
  /\ stage \in Failures
  /\ stage' = "stanza"
  /\ Stanza' = NoName
  /\ UNCHANGED <<serverVars, repoVars, ClusterName, callVars>>

-----------------------------------------------------------------------------
(* Store.ListBackups and the process it runs. *)

Present == UNION {repo[k].labels : k \in RepoKeys}

\* Mutation: the stanza is read from the table again.
StartProcessWithRow ==
  /\ stage = "ready" /\ pc = "idle"
  /\ pc' = "output" /\ proc' = "running" /\ asked' = config.stanza
  /\ always' = Present /\ ever' = Present
  /\ UNCHANGED <<serverVars, repoVars, storeVars, cancelled, pipe, printed,
                 reply>>

\* res.Output() starts `pgbackrest info --stanza=... --output=json`.
StartProcess ==
  /\ stage = "ready" /\ pc = "idle"
  /\ pc' = "output" /\ proc' = "running" /\ asked' = Stanza
  /\ always' = Present /\ ever' = Present
  /\ UNCHANGED <<serverVars, repoVars, storeVars, cancelled, pipe, printed,
                 reply>>

\* pgbackrest reads one repository; what it knows of other stanzas is nothing.
ReadRepo(k) ==
  /\ proc = "running" /\ ~printed[k].read
  /\ printed' = [printed EXCEPT ![k] =
       IF asked = RepoStanza
         THEN [dbs |-> repo[k].dbs, labels |-> repo[k].labels, read |-> TRUE]
         ELSE [Unread EXCEPT !.read = TRUE]]
  /\ UNCHANGED <<serverVars, repoVars, storeVars, pc, cancelled, proc, pipe,
                 asked, always, ever, reply>>

\* A process that pgbackrest, or a wrapper around it, has started.
ForkProcess ==
  /\ proc = "running" /\ ~pipe
  /\ pipe' = TRUE
  /\ UNCHANGED <<serverVars, repoVars, storeVars, pc, cancelled, proc, asked,
                 printed, always, ever, reply>>

OtherProcessEnds ==
  /\ pipe
  /\ pipe' = FALSE
  /\ UNCHANGED <<serverVars, repoVars, storeVars, pc, cancelled, proc, asked,
                 printed, always, ever, reply>>

\* pgbackrest prints its JSON and exits with 0, or fails.
ProcessExits ==
  /\ proc = "running"
  /\ \/ proc' = "exited" /\ \A k \in RepoKeys : printed[k].read
     \/ proc' = "failed"
  /\ UNCHANGED <<serverVars, repoVars, storeVars, pc, cancelled, pipe, asked,
                 printed, always, ever, reply>>

\* The client goes away or its deadline passes.
Cancel ==
  /\ pc \in {"output", "parse"} /\ ~cancelled
  /\ cancelled' = TRUE
  /\ UNCHANGED <<serverVars, repoVars, storeVars, pc, procVars, always, ever,
                 reply>>

\* Mutation: exec.Command does not know the context.
KillProcessMissing == FALSE /\ UNCHANGED vars

\* exec.CommandContext kills pgbackrest once the context is done, and only it.
KillProcess ==
  /\ cancelled /\ proc = "running"
  /\ proc' = "failed"
  /\ UNCHANGED <<serverVars, repoVars, storeVars, pc, cancelled, pipe, asked,
                 printed, always, ever, reply>>

Return(r) == pc' = "returned" /\ reply' = r

\* Output returns when the process is gone and its output is at end of file.
OutputReturns ==
  /\ pc = "output" /\ proc \in {"exited", "failed"} /\ ~pipe
  /\ \/ proc = "exited" /\ pc' = "parse" /\ UNCHANGED reply
     \/ proc = "failed" /\ Return(Error("Internal"))
  /\ UNCHANGED <<serverVars, repoVars, storeVars, cancelled, procVars, always,
                 ever>>

-----------------------------------------------------------------------------
(* parseBackrestInfo and Server.ListBackups. *)

\* The databases of the document, and the first one: they come by repository,
\* in the order of the keys, and of each repository from the oldest.
AllDbs == UNION {{[repo_key |-> k, id |-> i, version |-> printed[k].dbs[i]]
                    : i \in DOMAIN printed[k].dbs} : k \in RepoKeys}
FirstDb ==
  CHOOSE e \in AllDbs : e.id = 1 /\ \A x \in AllDbs : e.repo_key \leq x.repo_key

Printed == {b \in made : \E k \in RepoKeys : b.label \in printed[k].labels}

\* json.Unmarshal refuses a number that does not fit its uint8 field.
Unmarshals ==
  \A e \in AllDbs \cup Printed : e.repo_key < 2^8 /\ e.id < 2^8

\* Backup.ToProto(dbVersion); the cluster's id is not part of the message.
ToProto(b, dbVersion) ==
  [label |-> b.label, repo_key |-> b.repo_key, database_version |-> dbVersion]

\* Mutation: only backups of the cluster whose version is reported.
BackupInfoOfFirstDb ==
  {ToProto(b, FirstDb.version) : b \in {x \in Printed : x.id = FirstDb.id}}

\* The loop: one version for all backups.
BackupInfo == {ToProto(b, FirstDb.version) : b \in Printed}

\* Mutation: Db[0] is used without a look at the length.
ListBackupsUnguarded ==
  /\ pc = "parse"
  /\ \/ AllDbs = {} /\ Return(Error("panic"))
     \/ /\ AllDbs # {}
        /\ Return([code |-> "OK", stanza |-> asked, backups |-> BackupInfo])
  /\ UNCHANGED <<serverVars, repoVars, storeVars, cancelled, procVars, always,
                 ever>>

\* pgbackrest prints no element, or one without databases, for a stanza that
\* it does not find.
ListBackups ==
  /\ pc = "parse"
  /\ \/ ~Unmarshals /\ Return(Error("Internal"))
     \/ Unmarshals /\ AllDbs = {} /\ Return(Error("NotFound"))
     \/ Unmarshals /\ AllDbs = {} /\ Return(Error("Internal"))
     \/ /\ Unmarshals /\ AllDbs # {} /\ FirstDb.version = ""
        /\ Return(Error("Internal"))
     \/ /\ Unmarshals /\ AllDbs # {} /\ FirstDb.version # ""
        /\ Return([code |-> "OK", stanza |-> asked, backups |-> BackupInfo])
  /\ UNCHANGED <<serverVars, repoVars, storeVars, cancelled, procVars, always,
                 ever>>

\* The handler has returned; the call's variables are gone.
Finish ==
  /\ pc = "returned"
  /\ pc' = "idle" /\ cancelled' = FALSE /\ reply' = NoReply
  /\ proc' = "none" /\ asked' = NoName
  /\ printed' = [k \in RepoKeys |-> Unread]
  /\ always' = {} /\ ever' = {}
  /\ UNCHANGED <<serverVars, repoVars, storeVars, pipe>>

-----------------------------------------------------------------------------
Next ==
  \/ ChangeConfig
  \/ \E k \in RepoKeys :
       \/ \E v \in Versions : UpgradeStanza(k, v)
       \/ \E l \in Labels : MakeBackup(k, l) \/ ExpireBackup(k, l)
       \/ ReadRepo(k)
  \/ LoadStanza \/ LoadClusterName \/ Restart
  \/ StartProcess \/ ForkProcess \/ OtherProcessEnds \/ ProcessExits
  \/ Cancel \/ KillProcess \/ OutputReturns \/ ListBackups \/ Finish

Spec == Init /\ [][Next]_vars

(* The code runs when it can, a killed process dies, and the processes     *)
(* that pgbackrest leaves behind end.  pgbackrest itself may hang.         *)
Fairness ==
  /\ WF_vars(KillProcess) /\ WF_vars(OtherProcessEnds)
  /\ WF_vars(OutputReturns) /\ WF_vars(ListBackups)

FairSpec == Spec /\ Fairness

-----------------------------------------------------------------------------
Backup == [label : Labels, repo_key : RepoKeys, id : 1..MaxDbs,
           version : Versions]

(* The variables' types. *)
TypeOK ==
  /\ config \in Configs /\ changes \in 0..MaxChanges
  /\ repo \in [RepoKeys -> [dbs : Seq(Versions), labels : SUBSET Labels]]
  /\ made \subseteq Backup
  /\ stage \in {"stanza", "cluster_name", "ready"} \cup Failures
  /\ Stanza \in StanzaNames \cup {NoName}
  /\ ClusterName \in ClusterNames \cup {NoName}
  /\ pc \in {"idle", "output", "parse", "returned"}
  /\ cancelled \in BOOLEAN /\ pipe \in BOOLEAN
  /\ proc \in {"none", "running", "exited", "failed"}
  /\ asked \in StanzaNames \cup {NoName}
  /\ printed \in [RepoKeys -> [dbs : Seq(Versions), labels : SUBSET Labels,
                               read : BOOLEAN]]
  /\ always \subseteq Labels /\ ever \subseteq Labels
  /\ reply.code \in {"none", "OK", "NotFound", "Internal"}

(* A name reaches pgbackrest's command line only if isValidStanzaName      *)
(* accepted it, however the table changes after NewStore has read it, and  *)
(* calls are served only by a store that has both of its names.            *)
OnlyCheckedNamesAsked ==
  /\ asked # NoName => isValidStanzaName(asked) /\ ClusterName # NoName
  /\ proc = "running" => asked # NoName

(* Although pgbackrest reads repositories one by one while backups are     *)
(* made and expire, a successful reply has every backup that was there     *)
(* during the whole call and none that was not there during the call, each *)
(* once and with the key of its repository.                                *)
BackupsFaithful ==
  reply.code = "OK" =>
    /\ \A l \in always : \E b \in reply.backups : b.label = l
    /\ \A b \in reply.backups :
         /\ b.label \in ever
         /\ \E m \in made : m.label = b.label /\ m.repo_key = b.repo_key
         /\ \A x \in reply.backups : x.label = b.label => x = b

(* A cancelled ListBackups returns even if pgbackrest hangs, as long as no *)
(* process that it started keeps its output open for ever.                 *)
CancelledListReturns == cancelled ~> pc = "returned"
=============================================================================
