\* Every kind of stanza name; two repositories, upgrades of PostgreSQL, a backup
\* that is made and expires, and the table changed, all under way.
CONSTANTS
  b1 = b1
  NoName = NoName
  RepoStanza <- Main
  StanzaNames <- AllNames
  ClusterNames = {"prod"}
  RepoKeys <- TwoKeys
  Versions <- OneVersion
  Labels <- OneLabel
  MaxDbs = 2
  MaxChanges = 1
SPECIFICATION FairSpec
INVARIANT TypeOK
INVARIANT OnlyCheckedNamesAsked
INVARIANT BackupsFaithful
PROPERTY CancelledListReturns
