# TLA+ models of the pg-inventory extractor

pg-inventory gives developers a view of PostgreSQL instances they cannot reach.
The *extractor* is a gRPC server next to one PostgreSQL server; it answers each
RPC by querying that server, for most RPCs by connecting to each of its
databases. The *collector* and the *api-service* of the architecture are stubs
in this repository, so the models are about the extractor.

## Inventory

| Part | Source | State | Operations | Interacts with | Hard behaviours |
| --- | --- | --- | --- | --- | --- |
| ConnectionCoordinator | `internal/extractor/store/coordinator.go` | mutex, map database -> channel of capacity 1 | `Acquire(ctx, db)`, `Release(db)` | called by each goroutine of a fan-out | lock, channel and context interleave; Release blocks without a context |
| Store, shared pool | `store/store.go` | pgx pool on the default database | `ListDatabases`, `GetServerInfo`, `listAvailableExtensions` | handlers; every fan-out starts with `ListDatabases` | pool at its limit; row iteration that breaks |
| Store, fan-out | `store/store.go`, `store/tables.go` | per call: channel of results, loop counter, results, errors; per goroutine: permit, pool, rows | `ListSchemas`, `ListExtensions`, `ListSequences`, `ListFunctions`, `ListTables`, `forEachDatabase`, five `list...ForDatabase` | coordinator, one pool per database | concurrent calls, partial failure, cancellation, databases that come and go |
| Store, catalog queries | `store/store.go`, `store/tables.go` | none | seven SQL texts and the loops that scan their rows | PostgreSQL catalogs | DDL, growth and promotions while a query runs; NULLs; which objects the WHERE clauses keep |
| Store, construction and ListBackups | `store/store.go`, `store/pgbackrest.go` | stanza and cluster name | `NewStore`; run `pgbackrest info`, parse JSON | `monitoring.cluster_config`, subprocess | names checked once and used later; a process that hangs, is killed, or leaves others behind |
| Server handlers | `server.go` | none | eight RPCs | store, gRPC | status of each error |
| Types | `types/types.go` | none | conversions to messages | store, server | widths (timeline is an int8), on/off and version texts |
| Config | `config.go` | flags | SSL validation, connection strings | main | modes that are accepted and then dropped |
| Lifecycle | `cmd/extractor/main.go` | listener, pool, server | start, serve, stop | all | order of shutdown, calls under way |
| Loggers, collector, api-service, test support, local_dev | `cmd/`, `internal/testutil`, `local_dev` | - | - | - | not part of the extractor's logic |

What makes each part correct:

- coordinator: one holder per database; no permit lost, whatever is cancelled;
  Release never blocks; nobody starves while holders release;
- store: one coordinated connection per database at a time; a reply is complete
  or an error; a call leaves nothing behind; a cancelled call returns;
- lifecycle: no handler runs against a closed pool on a requested shutdown;
- backups: only a checked name reaches the command line; a reply has the backups
  that were there and no others; a cancelled call returns;
- server info: no reply contradicts itself or goes back behind an earlier one;
- catalog queries: a list has what was there while the query ran, and fails only
  for a reason; a table is described as it was declared;
- types, config: what they compute agrees with what they document.

## Modules

- `DbPermit` - what the coordinator promises: `holds[p]` is the database whose
  permit process `p` has; `Grant` and `Release` are its only steps.
- `Coordinator` - `coordinator.go`, one action per lock, map or channel
  operation. A worker is a goroutine that calls `Acquire`, then `Release`; its
  `pc` says between which two statements it is. Channels are numbered in the
  order `make` creates them (0 is nil), and a channel's state is whether its one
  place is full. `Cancel` closes a worker's `ctx.Done()` at any time. When both
  cases of the `select` are ready, either action may be taken.
- `CoordinatorProofs` - the proofs about `Coordinator`.
- `Store` - the store's calls. A call goes through `phase`: the queries on the
  shared pool (`info`, `available`, `databases`), the fan-in, `returned`.
  Goroutine `<<c, d>>` of a fan-out is in `wpc`: `acquire`, `connect`
  (pgxpool.New), `query`, `rows`, `close` (rows.Close and pool.Close),
  `release`, `send`. Every step that can fail in the code has an action for the
  failure. The permits are `DbPermit`'s actions on `holds`, so `Store` rests on
  what `Coordinator` is proved to implement. `cluster` is the set of connectable
  databases, which `CreateDatabase` and `DropDatabase` change under the calls.
- `StoreProofs` - the proofs about `Store`, with the refinement of `Listing`.
- `Listing` - what an operation of the store promises to its handler: it lists
  the server's databases at one moment and then has one answer, all rows of all
  databases it listed or an error. `Store` implements it (`ImplementsListing`):
  `phase` is mapped to Listing's `status`, `dbs` to `listed`, `reply` and
  `results` to `answer`.
- `Backups` - `NewStore`'s two queries with the check of the name (`stage`), and
  `ListBackups`: `pc` is where the call is, `proc` the process that
  `exec.CommandContext` runs, `pipe` whether another process has its output
  open, `printed` what it has read of each repository. `AllDbs` is the clusters
  in the printed document and `FirstDb` the one that comes first, by repository
  and from the oldest, which the handler takes. The configuration table
  and the repositories change meanwhile (`ChangeConfig`, `UpgradeStanza`,
  `MakeBackup`, `ExpireBackup`). `always` and `ever` are history variables: the
  backups that were there during all, or some, of the call.
- `ServerInfo` - `GetServerInfo`: the query's columns are evaluated one after the
  other (`Begin`, `EvalIsInRecovery`, `EvalTimeline`) on a server that is
  promoted, follows another one, is reloaded and rejoins; then the scan into an
  int8, the version text and the on/off flags, with their errors. `told` and `floor` are history
  variables: what calls have been told, and what they had been told when a call
  began.
- `SchemaNames` - the WHERE clauses that choose schemas. A name is the sequence
  of its parts, enough for LIKE to be what it is: `_` is any one character.
- `Catalog` - the queries for schemas, functions, sequences and extensions, each
  with the loop that scans its rows, under CREATE and DROP ... CASCADE.
- `Tables` - `queryTables` over the catalogs PostgreSQL makes of declared tables,
  the loop over its rows and `tableToProto`. A row's joins (with the sizes of
  indexes), its total, heap and TOAST size are four steps, between which tables,
  TOAST tables and indexes grow and are dropped. The five documents of a row go
  through `Unmarshals`: the guards on NULL of the loop, and `json.Unmarshal` with
  the types of `types.go`, given as sets of documents (`TableStats`,
  `TableIndex`, ...). A value that may be NULL is a set with one member or none;
  `AggOrdered` puts each row at its rank, the number of rows whose number does
  not exceed its own. The parts of `DesignFaithful` refer to the ascending
  enumeration of places (`InOrder`) instead.
- `Extractor` - the whole process: `Lifecycle` and `Store` as instances, sharing
  the calls and the shared pool. A call is in `Lifecycle`'s `handlers` exactly
  while `Store` works on it or while it is one of `backups`, the calls of
  `ListBackups`, which wait for pgbackrest and use neither the pool nor permits
  (`gaveUp` are those whose context is done; `Backups` has what happens in such
  a call). `pool.Close` waits for the pool's connections and lends no more. The
  server's databases stay the same here.
- `Config` - `config.go` as operators: which log levels and SSL settings are
  accepted and which SSL parameters a connection string carries. A path is
  represented by what `os.Stat` finds there; the flag's text by one of
  PostgreSQL's six modes.
- `Lifecycle` - `main`: `stage` is the statement main is at, each start-up step
  may fail and end the process, `serveGo` is the goroutine that runs `Serve`,
  `errCh` and `sigCh` are the two channels main selects on. The calls are those
  of `Store`, reduced to being under way (`handlers`). A broken listener makes
  `Serve` return while connected clients are still served; a signal before
  `Notify` kills the process.
- `LifecycleProofs` - the proofs about `Lifecycle` and `Config`.
- `BackupsProofs`, `ServerInfoProofs`, `CatalogProofs`, `TablesProofs`,
  `ExtractorProofs` - the proofs about the module of that name.
- `MC...` - values of the constants for TLC, one module for each of the above
  that has runs.

How they compose: `Coordinator` implements `DbPermit`; `Store` uses `DbPermit`
for its permits and implements `Listing`; `Lifecycle` uses `Config`'s operators
and assumes of calls only that they return; `Extractor` puts `Store`'s calls in
their place and implements `Lifecycle`. `Catalog` and `Tables` use
`SchemaNames` and describe what happens inside `Store`'s step from a query to
its rows, `ServerInfo` inside its `info` phase: permits, connections and failing
queries are `Store`'s and are not repeated there, so that each module's state
space has only its own hazards in it.

Data that is left out: a row is counted (`rows`, against `RowCount[d]`, the rows
the query returns in database `d`); messages and error texts are absent; a reply
is `OK` or `Internal`, the only codes these handlers produce. `resultsCh` and
`results` are sets of batches, because the order of rows in a reply is the order
in which goroutines finish and nothing depends on it. A set cannot show that a
batch came twice, but the fan-in receives exactly once per listed database, so
then another one would be missing, which `AllOrNothing` excludes. Columns that the code
copies as they are are left out of `Catalog`, `Tables` and `ServerInfo`, and so is `ssl`, which
`ServerInfoToProto` converts as it does the read-only flag. `missed`
is a history variable: the databases that `ListDatabases` did not return although
the server had them, and still has them.

External behaviour, modelled from its use: contexts, `pgxpool` (a bounded pool
that makes a query wait; connections opened by the first query; Close that
returns after connections are closed), PostgreSQL's refusal to drop a database
that has connections, `grpc.Server` (`GracefulStop` refuses new calls and waits
for the ones under way; `Serve` returns nil after it, and an error if it was
stopped before it began), pgx's default mode, prefer, when a connection
string has no `sslmode` and the environment sets none, and its refusal to scan a
NULL into a string or an integer into a type it does not fit;
`exec.CommandContext`, which kills its process and not that process's children,
and whose `Output` waits for both the process and the end of its output;
PostgreSQL's queries, which read the catalogs with one snapshot but evaluate
`pg_is_in_recovery`, the control file, relation sizes, definitions and regclass
names at the moment a row is made; pgbackrest, which reads repositories one after
the other and prints clusters from the oldest.

## Runs

| Run | Instance | Shows |
| --- | --- | --- |
| `coordinator_safety` | 3 workers, 2 databases, symmetric | types, `MutualExclusion`, `ReleaseFindsToken`, `PermitsAccounted`, `SemaphoreStable`, and that `Coordinator` implements `DbPermit` |
| `coordinator_live` | 3 workers, 1 database | `CancelledAcquireReturns`, `ReleaseReturns`, `AcquireReturns` |
| `store_safety` | 2 calls, 2 databases (1 and 2 rows), one pooled connection, `ListTables` and `GetServerInfo` | types, `OneConnectionPerDatabase`, `AllOrNothing`, `QuiescentOnReturn`, and that `Store` implements `Listing` |
| `store_live` | 2 calls of any operation, 1 database | `CancelledCallReturns`, also if the database never answers; `CallReturns`, if it does |
| `store_cut_list` | 1 call, 2 databases | violates `ListsEveryDatabase` (see Findings) |
| `lifecycle` | 2 calls, all 1536 configurations | types and channel bounds, `GracefulShutdown`, `CallsHavePool`, `VerifyNotWeakened`, `SignalStops` |
| `lifecycle_sslmode` | 2 calls, modes disable, require, verify-full | violates `SSLModeUsed` (see Findings) |
| `backups` | 6 kinds of stanza name, 2 repositories, 1 backup, 2 clusters in each history, 1 change of the table | types, `OnlyCheckedNamesAsked`, `BackupsFaithful`, `CancelledListReturns` |
| `serverinfo` | 2 calls, timelines 126 to 129, a release and a beta | types (no timeline the server never had), `NoWritableStandby`, `RepliesDoNotGoBack` |
| `catalog` | every kind of schema name, 6 objects that users create and drop, extensions with and without a default version | types, `ListFaithful`, `FailsForAReason` |
| `tables` | 4 databases with every kind of table part | types, `DesignFaithful`, `SizesFaithful`, `NoTableFailsTheList` |
| `extractor` | 2 calls of `ListTables`, `GetServerInfo` and `ListBackups`, 1 database with 1 row, 1 pooled connection | `NothingLeftBehind`, `ShutdownWaits`, that `Extractor` implements `Lifecycle`, `SignalStops`, `ServeFailureStops` |

Bounds. Three workers on two databases give two first callers of one database, a
holder and two waiters, and a third worker on another database; workers call
again and again, so nothing bounds the number of calls. Two calls on two
databases give contention on each permit while the other goroutine of the call
is elsewhere; one pooled connection makes the pool the scarcest it can be; a
database with two rows can fail before the first row, between rows and after the
last. The five fan-out operations have the same control, so the safety run
takes one of them, and the liveness run takes all operations on one database.
`Calls` are slots: after a call has returned its slot serves another one. In
`Lifecycle` two calls are enough for one to be under way while another begins,
and signals may arrive any number of times.

In `backups` the two repositories can be read before and after a change; nothing
in the code compares two backups, so one label, which may be in either
repository, made and expired once, stands for any of them; two clusters make a
history with an upgrade; the names are the longest that is accepted, one of one
letter, and one for each way to be refused. Two repositories are the least that
are read at different moments; all have a cluster of version "14", so
`ListBackups`'s refusal of an empty version and of a key above 255 are in the
model and not in the run. In `serverinfo` the timelines lie around 127, the last
one an int8 holds, and three changes of timeline suffice for a promotion, a
rejoin and a promotion; two calls make one begin after the other was answered.
In `catalog` the names are one of each kind the two WHERE clauses tell apart. In
`tables` a heap, a TOAST table or an index grows at most once (`MaxGrowth`),
which makes the sizes of a row differ; the declared tables have a dropped column,
an index on an expression only and one in another order of columns, every
constraint type that is aggregated differently, one and two parents, no columns,
indexes or constraints at all, a TOAST table or none, and a view, a partitioned,
a system and a temporary table beside them. They are spread over four databases,
because relations grow and go independently of each other and each multiplies the
states of its database; what one table's row shows of another, its name as a
parent or foreign table and the sizes of its own indexes, is within one. In
`extractor` two calls contend for the pool and the permit at every stage of main,
and either may be one of `ListBackups` meanwhile; `store_live` has the other
operations. Deadlock is checked in every run.

## Fairness

`Coordinator`: a goroutine inside `Acquire` or `Release` that can run does run
(weak fairness). `sync.Mutex` hands the lock over after a waiter has waited 1 ms
and a channel serves its blocked senders first come, first served, so locking
and sending are strongly fair. Nothing forces a holder to release:
`AcquireReturns` assumes that in its statement, the other two do not.

`Store`, `CodeFairness`: only what the Go runtime and pgx give without a
database's help: runnable goroutines run, `pool.Close` ends, and an operation
whose context is done returns. `DatabaseFairness` says that a query that was sent
is answered, with rows or an error, and adds strong fairness for the permit and
for a pooled connection, both first come, first served. It is not part of the
specification but the hypothesis of `CallReturns`; `CancelledCallReturns` does
without it.

`Lifecycle`: main and the Serve goroutine run when they can, and a call under
way returns. The last is an assumption about handlers, which `Extractor` does
without. Nothing forces a signal, a call or a failure to happen.

`Extractor`: main and the Serve goroutine run when they can, `Store`'s
`CodeFairness` holds while the process lives, and a call of `ListBackups` whose
context is done returns, by the fairness of `Backups` below. `SignalStops` and
`ServeFailureStops` suppose that databases answer and pgbackrest does not hang
(`DatabaseFairness` and `BackrestFairness`), or that clients give up calls that
take too long (`ClientFairness`). Without either they are false: main gives
`GracefulStop` no deadline, so one hung database or one hung pgbackrest, with one
patient client, keeps the process from ending.

`Backups`: the code runs when it can, a killed process dies, and processes that
pgbackrest or a wrapper has left behind end some day, which `Output` needs,
because the code sets no `WaitDelay`. pgbackrest itself may hang for ever.

## Proofs

`CoordinatorProofs` proves for any sets of workers and databases, from
`CoordinatorAssumption` (the markers `NoWorker` and `NoDb` are not a worker and
not a database), that `Spec` implies always `TypeOK`, `MutualExclusion`,
`PermitsAccounted` and `ReleaseFindsToken`, the action property
`SemaphoreStable`, and `ImplementsPermit`.

`MutualExclusion` is not inductive: a sender finds room in a channel, and to
conclude that nobody holds the database one must know that the channel is the
database's only one and that its buffer is full while the permit is held.
`IndInv` adds

- `MutexInv`: exactly the owner of the mutex is between lock and unlock, so no
  other worker can test or make a semaphore between a worker's test and make;
- `PublishedInv`: from the load on, the worker's database has a semaphore, and
  where `make` runs it has none, so a semaphore is never replaced;
- `LocalInv`: a worker's local `sem` is the channel in the map;
- `DistinctInv`: databases do not share channels;
- `PermitsAccounted` and `MutualExclusion` themselves.

There is one lemma per action. In the refinement the send is `Grant`, the
receive is `Release` and all other steps leave `permitOf` unchanged.

Two more theorems follow. `CoordinatorWaitingEnds`: whoever is blocked waits for
another worker, and along every chain of workers that wait for the next one
`Depth` decreases, from a waiting sender (2) to one that waits for the mutex (1)
to one that does not wait (0); so Acquire and Release cannot deadlock, whatever
the number of workers and databases. `CoordinatorChannelsInUse`: every channel
ever made is in the map for one database, by an induction that rests on
`PublishedInv`, so no token can sit in a channel that later callers do not see.

`StoreProofs` proves for any calls, any finite set of databases, any row counts
and any pool size (`StoreAssumption`) that `Spec` implies always `TypeOK`,
`OneConnectionPerDatabase`, `AllOrNothing` and `QuiescentOnReturn`, and
`ImplementsListing`. None of the invariants but the first is inductive. `IndInv`
adds

- `PermitInv`: a goroutine has its permit exactly from `Acquire` to `Release`
  and a connection only strictly inside; with the permits exclusive this gives
  one connection per database;
- `FanInInv`: the fan-in's counter equals the number of *outstanding* databases,
  whose goroutine runs or whose result is in the channel. When the counter
  reaches 0 nothing is left, which is `QuiescentOnReturn`. The proof is about
  cardinalities, hence `FiniteInv`;
- `PhaseInv`: which operations are in which phase;
- `DataInv`: a result without an error has all rows, wherever it is (goroutine,
  channel, results), and while no error was received every listed database is
  outstanding or among the results; with the counter at 0 this is `AllOrNothing`.

`LifecycleProofs` proves for any set of calls and any configurations, from
`LifecycleAssumption` (the configurations are among `Configs`), that `Spec`
implies always `TypeOK`, `GracefulShutdown`, `CallsHavePool` and
`VerifyNotWeakened`. `IndInv` adds `StageInv` (what main has established when it
is at a stage), `ServerInv` (after its select main is either draining, and past
`GracefulStop` without calls, or has Serve's result) and `EndInv` (calls are cut
off only by the end of the process, and then by a signal before `Notify` or by a
main that did not drain because Serve had returned).

`StoreNoWaitingCycle` draws from the same `IndInv` what a deadlock inside the
process would need to be otherwise: a goroutine at its send finds room in the
channel (`SendHasRoom`: results in the channel and the databases listed, without
the sender's own, by the pigeonhole principle), the fan-in waits only while
somebody is to send (`ReceiveHasSender`), and a goroutine that waits for a permit
has none, while the one that has it is past its wait (`HolderDoesNotWait`).

`StoreImplementsListing` needs one fact more, `ListedInv`: a call that has not
read its list has an empty one, so that a slot's earlier call does not show.
`DatabasesListed` is Listing's listing, the steps that return a call are its
answers and its errors, and the steps of goroutines, of the shared pool and of
the server leave what Listing sees unchanged; there is one lemma for each kind of
step. `DataInv` and `FanInInv` are what the last step of a fan-out needs.

`ServerInfoProofs` proves for any calls, versions and timelines
(`ServerInfoAssumption`: timelines begin at 1 or later) that `Spec` implies always
`TypeOK`, `NoWritableStandby` and `RepliesDoNotGoBack`. `IndInv` adds `ToldInv`
(the control file's timeline bounds what calls have been told, and a server that
was a primary for some call is no standby), `RowInv` (recovery is only ever left
during a call, because a rejoin breaks its connection, and the read-only flag is
fixed first), `FloorInv` (what was told before the call began bounds the columns
it reads) and `ReplyInv`. That the scan into an int8 returns the timeline itself
or fails is the lemma `ScannedTimeline`.

`BackupsProofs` proves for any names, repositories, versions and labels
(`BackupsAssumption`) that `Spec` implies always `TypeOK`,
`OnlyCheckedNamesAsked` and `BackupsFaithful`. `IndInv` adds `NamesInv` (a name on
a command line is the store's, and the store's was accepted), `LabelsInv` (a
label names one backup), `ProcessInv` (the output is parsed only after the
process has read every repository) and `WindowInv`, the heart of it: a backup
that was there all the time is in a repository that was read with it or is yet to
be read.

`CatalogProofs` proves for any schema names, objects and extensions
(`CatalogAssumption`) that `Spec` implies always `TypeOK`, `ListFaithful` and
`FailsForAReason`. `IndInv` adds `HistoryInv` (the history variables bound the
catalog while a query reads it) and `RowsInv` (a wanted object that was there all
the time is scanned or still to come). `WhereLeavesOutSystem` and
`WhereKeepsOthers` say what the LIKE pattern does to a name: it leaves out every
system schema, and of the user schemas those that begin with pg and go on, such as
`pgmonitor`, about whose objects `ListFaithful` therefore says nothing.

`TablesProofs` proves for any declared tables that `Spec` implies always
`TypeOK`, `DesignFaithful`, `SizesFaithful` and `NoTableFailsTheList`.
`TablesAssumption` is what PostgreSQL guarantees of the tables of a database
(`WellFormedTable`, `DistinctOids`): an oid names one table, TOAST table or index,
keys refer to columns, foreign keys and parents to tables of the database,
`reltuples`, which is never NULL, is an integer, -1 included, and schemas that
begin with `pg_` are the ones PostgreSQL makes. `WordsAssumption` says that seven
words are strings, which the provers do not know. `IndInv` adds `ShapeInv` (the
parts of a row), `GrowthInv` (relations do not shrink, and a TOAST table goes with
its table), `RowInv` (a size that was read is one its relation had since the query
began, or NULL because it is gone, and a table that was gone for the total size is
gone for the heap's and the TOAST table's) and `JoinsInv`: once the joins of a row
are evaluated, its indexes, constraints and parents describe the table as
declared, whatever is dropped later, and their documents are ones `json.Unmarshal`
takes (`Decodes`). The total size needs that pages counted over more relations or
larger ones are more (`PagesGrow`).

The argument for `JoinsInv` has two halves. The first is about order. Ranks of a
finite set of numbers grow with the numbers (`RankGrows`: a proper subset is
smaller), so they are injective and, by counting, take every value up to the
set's size (`RankCounts`); hence an ascending enumeration exists
(`InOrderAscends`), in any of them each number stands at its rank
(`AscendingRank`), and there is only one (`InOrderUnique`). `AggListed` concludes
that an ordered aggregate lists its values along that enumeration. This needs no
induction over data. The second half shows for each sub-select that the rows it
aggregates are the declared parts and no others: `KeyNames` for the joins of keys
with `pg_attribute`, `TableColumns`, `TableParents` (rows of `pg_inherits` for
indexes do not interfere), `TableIndexes`, `TableConstraints` and
`RelationsListed`. `ColumnsDocument`, `IndexesDocument`, `ConstraintsDocument` and
`ParentsDocument` show that what they aggregate fits the types of `types.go`, with
the NULLs that dropped relations, index expressions and empty aggregates leave in
it; with the guards of the loop this is `NoTableFailsTheList`. `SchemaFiltersAgree` compares the filter for tables with that
of the other queries.

`ExtractorProofs` proves for any calls, databases and configurations
(`ExtractorAssumption`: what `Store` and `Lifecycle` assume) that `Extractor`
implements `Store` (`ExtractorImplementsStore`) and `Lifecycle`
(`ExtractorImplementsLifecycle`), and that always `NothingLeftBehind` and
`ShutdownWaits`. A step of the process is a step of `Store` or leaves the
store alone, so `Store`'s `IndInv` holds here too, by the theorems of
`StoreProofs`. For `Lifecycle` the steps that return a call are `EndCall`, and
every other step of the store or of pgbackrest is a stutter; this needs
`BackupsInv`, that no call is both the store's and `ListBackups`'s. `MainInv` is
what main adds: past
`GracefulStop` no call is under way and none begins, and past `pool.Close` no
connection of the pool is in use and none is lent. With `FanInInv` and
`PermitInv` of the store, calls that are not under way have no goroutine, permit
or connection, which is `NothingLeftBehind`. `ExtractorShutdownWaits` says what main
can wait for: a call under way waits for pgbackrest, is at a query, or has a result
to receive or a goroutine that will send one, a call with a connection of the shared pool has no
goroutine and no permit, and after `GracefulStop` no connection is in use.

Each inductive invariant was also checked with TLC, on the instance of its
module's safety run, before it was proved.

Only model-checked: the liveness properties (fairness is outside the prover's
reach), for which the theorems on waiting above give the safety half, and the two
properties that are violated. Every other property of the runs is proved.

## Findings

- `ListDatabases` (`store.go:56-75`) does not ask `rows.Err()` after its loop. If
  the connection breaks or the context is done while rows are read, the
  databases read so far, possibly none, are returned without an error, and a
  fan-out over them replies OK. `store.go:151` and `tables.go:12` promise rows
  "from every database". Run `store_cut_list` shows it; all other row loops of
  the store ask `rows.Err()`.

- `ConnStrForDb` (`config.go:99-109`) passes on the modes disable, verify-ca and
  verify-full only. `isValidSSLSettings` accepts every other text, and
  `config_test.go:82` has the case "require mode without certs"; the connection
  string then has no mode and the driver's default applies, while the flag's
  help says "SSL mode to use" (`config.go:26`). Run `lifecycle_sslmode` shows it
  for require. `VerifyNotWeakened` shows the verify modes are not affected.

What else the definitions show, each to be read off one of them:

- `ListBackups` gives every backup the version of the oldest cluster of the
  stanza (`info.Db[0]`, `server.go:54`; `BackupInfo`), although a backup names
  its cluster: after an upgrade new backups have the old version.
- `NewStore` fails without a stanza row (`store.go:33`; `LoadStanza`), although
  the repository's `README.md:52` asks for one only "if using pgBackRest".
- From timeline 128 on `GetServerInfo` always answers Internal (`types.go:70`;
  `ScanOK`), while PostgreSQL and the reply have 32 bits for it.
- `LIKE 'pg_%'` leaves out schemas such as `pgmonitor` with their functions and
  sequences (`store.go:366`; `Where`), while `queryTables` lists their tables
  (`WhereTables`). `ListFaithful` therefore excepts names that begin with pg.
- `LIKE 'pg_temp_%'` and `LIKE 'pg_toast_temp_%'` (`tables.go:167`; `LikePgTemp`)
  have wildcards for the underscores too: a user schema such as `pgxtempxa` is
  left out of `ListTables`. `RelationsFaithful` excepts such names.
- `inhparent::regclass::text` has no schema for a parent in the search path
  (`tables.go:121`; `RegclassText`), although `types.go:146` says "Fully
  qualified name"; the comment on constraint types at `types.go:173` lists other
  words than the query yields.
- One function dropped while `ListFunctions` reads rows, or one available
  extension without a default version, fails the call for all databases
  (`HasNull`, `FailsForAReason`).
- When `Serve` fails, main closes the pool and returns without stopping the
  server, so calls of connected clients end with the process (`GracefulShutdown`
  and `CallsHavePool` name this exception); a signal between the start of `Serve` and
  `signal.Notify` ends the process at once; the coordinator covers the fan-out's
  pools and not the shared pool's connections to the default database.

## Not modelled, and the plan

Every operation of the extractor that changes state is an action of a module.
Left out, and why:

- the loops of `server.go` and `types.go` that copy databases, schemas,
  sequences, functions and extensions into messages field by field: there is
  nothing between two of them, and no value changes;
- host, port, user and database name of the connection strings, which are put
  into the text as they are;
- the log handlers and the dev build's reflection service, which have no state
  of the extractor's;
- the collector and the API service, which print their names and exit;
- test support (`internal/testutil`, the DDL of the integration tests) and the
  local environment, which are not part of the program.

Of the plan nothing is open: every component that changes state is modelled,
every invariant, action property and refinement a run checks is proved for all
values of the constants, and liveness is checked on the instances above.
