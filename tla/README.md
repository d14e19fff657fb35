# A TLA+ verification of vearch

Vearch is a distributed vector database.  This directory has TLA+ models of
the parts of it in which the order of steps matters, TLC configurations that
check them on small instances, and TLAPS proofs of their main invariants for
every instance.

## 1. The system

| part | code | state | what makes it hard |
|---|---|---|---|
| **Master** | `internal/master` | everything in etcd: databases, spaces, partitions, servers, users, roles, aliases, configurations, backups | several masters and requests at once; operations of many etcd writes and RPCs, any of which may fail; locks that are leases |
| **Router** | `internal/router`, `internal/client` | caches of the etcd keys, kept by watches | stale caches, retries, partial answers |
| **Partition server (PS)** | `internal/ps` | the partitions it hosts, one raft group each | raft log, sn file and engine files that must agree after a crash; snapshots and restores that replace the engine under running requests |
| **Gamma** | `internal/engine` (C++), `internal/ps/engine/gammacb` (its Go side) | documents, vectors, indexes, in files and memory | a pointer shared by all goroutines, background index builds |

A space has a key in etcd with its partitions and their replicas, a version
and an enabled flag.  Each partition has a key of its own, put by the PS that
leads its raft group.  The master creates and deletes partitions by RPC.  A
document goes from the router to the leader of its partition, through raft,
into the C++ engine of every replica.  A flush job writes the index up to which
the engine is on disk to the *sn file*; raft resumes from it after a restart,
and the truncate job cuts the raft log by it.

`PROJECT.json` lists all parts (modelled or not), where each definition comes
from, and the main hazards of the code; section 5 has the others.

## 2. The modules

| module | models | run by | proofs |
|---|---|---|---|
| `AbstractLock` | what a lock promises: one owner, and no owner in between | (refined by `DistLock`) | |
| `DistLock` | `master/store/distlock.go` | `MCDistLock` | `DistLockProofs` |
| `RaftStore` | one replica: `ps/storage/raftstore` over the files of gamma | `MCRaftStore`, `RaftStoreLeak.cfg` | `RaftStoreProofs` |
| `GammaEngine` | the Go object around the C++ engine: `gammacb/*.go` and the jobs that close it | `MCGammaEngine` | `GammaEngineProofs` |
| `SpaceMeta` | spaces in etcd and partitions on servers: `space_service.go`, `member_service.go`, `db_service.go`, `schedule_job.go` | `MCSpaceMeta` | `SpaceMetaInv`, `SpaceMetaProofs`, `SpaceMetaHosts`, `SpaceMetaMembers` |
| `MasterCache` | the router's caches of etcd, their watches and reloads, the rpc clients: `client/master_cache.go`, `client/ps.go` | `MCMasterCache` | `RouterProofs` |
| `BackupFiles` | what a partition server uploads, counts, downloads and deletes: `ps/backup`, backup handlers | `MCBackup` | |
| `BackupTasks` | requests, tasks, monitor and checker of the master: `backup_service.go` | `MCBackup` | |
| `FilterBounds` | folding of the conditions on a numeric field: `doc_query.go` | `MCScalarIndexes` | `RouterProofs` |
| `SortableKeys` | scalar values as ordered keys, dropping the keys of an index: `scalar_index_utils.cc` | `MCScalarIndexes` | `RouterProofs` |
| `ScalarFilter` | a filter from its conditions to the documents: `doc_query.go`, `scalar_index_manager.cc` and the indexes | `MCScalarIndexes` | |
| `EngineIndexes` | documents, scalar indexes and the maintenance worker of one engine, with crashes: `engine.cc`, `table.cc`, `scalar_index_manager.cc` | `MCScalarIndexes` | |
| `VectorStore` | raw vectors, vector index, realtime buffer, dump and load: `vector_manager.cc`, `raw_vector.cc` and the index models | `MCVectorIndex` | |
| `InvertedLists` | the lists of the IVF indexes in memory, with readers: `realtime_mem_data.cc` | `MCVectorIndex` | |
| `IndexingThread` | start, stop and join of the indexing thread: `engine.cc` | `MCIndexingThread` | |
| `RouterSearch` | one search or query over the partitions of a space: `client.go`, `handler_document.go` | `MCRouter` | |
| `RouterWrite` | upserts, gets, deletions, flushes, rebuilds, force merges: `client.go`, `handler_document.go` | `MCRouter` | |
| `MasterCatalog` | users, roles, databases, aliases and settings: `user_service.go`, `role_service.go`, `alias_service.go`, `db_service.go`, `config_service.go`, `cluster_api.go` | `MCMaster` | |
| `ServerLife` | partition servers that stop and return, failure records and recovery: `ps/server.go`, `ps/schedule_job.go`, `client/master_cache.go`, `server_service.go`, `member_service.go` | `MCMaster` | |
| `SpaceIndexes` | the list of indexes of a space in etcd, in the raft logs and in every replica: `space_service.go`, `raftstore`, `gammacb` | `MCMaster` | |

The models keep the control (guards, early returns, error paths, order) and
abstract the data: a command is its kind and its log index, an engine is the
set of indexes it contains, a space is its name, flag, version and replicas.
Definitions named after a *slip* are wrong variants of the definition that
follows them.  They show that a property depends on the line in question: with
the slip in its place TLC finds the property violated.

### DistLock

A contender grants itself a lease, puts a key under the lock's path and owns
the lock when no key has a lower revision.  State: the leases and keys in etcd,
and for each contender its program counter, lease, revision and the key it
waits for.  There is one action for every etcd call, with the outcomes success,
failure and *failure at the client that was applied at the server*.  A lease may
expire at any time, since nothing renews it; the context of a request may end.

* `MutualExclusion`: no two callers have the lock while the keys of both are in
  etcd.  `ImplementsAbstractLock`: between two owners there is none.
  `LockReturns`: every call returns.  All three hold in `lock_faults`, with lease
  expiry and a failing call, applied or not.
* Callers rely on more, that at most one of them is in its section.  The code does
  not promise it: `Lock` returns the result of `Unlock` for an error, so one failing
  transaction lets a second caller in, and so does a section that outlives its lease.
* The fairness: the goroutine of a call runs on, and etcd expires leases.  None is
  assumed of callers in their sections, or of contexts.

### RaftStore

State: the committed log and its truncation point, what raft has applied, the
commands the engine contains, the sn file, `Store.Sn`, the goroutines of `Commit`,
the flush job, a snapshot that is being applied.  Actions: `Apply`, the ticks of
the flush and truncate jobs, the three parts of `Commit`, the two of
`ApplySnapshot`, `Crash` and `Start`.  A crash loses memory and keeps files.

* `ReplicaComplete`: whatever raft will not replay is in the engine, as long as no
  snapshot has failed (the history variable `lost`).
* `RestartPoint`: until a snapshot is received, the raft log reaches back to the
  sn file, although several writers write the file out of order.  Nothing in
  `innerApply` waits for a dump: when more than `TruncateCount` commands are applied
  while one runs, the property says no more of the replica (`overtaken`).
* `CaughtUpAndAnswered`: in a *calm* behaviour (no overlapping FLUSH commands, no
  snapshot, no failing write of the sn file) the replica applies the whole log and
  answers every FLUSH.  The fairness is of raft, of goroutines and of the restart;
  none of jobs, clients and crashes.  `calm` is chosen at the start and kept.

`store_lock_leak` shows what happens when FLUSH commands overlap: `Commit` returns
with the lock held when another runs, and `FlushAnswered` is violated.

### GammaEngine

State: for each Go object its C++ pointer, the goroutines that count in it and
`hasClosed`; the C++ engines alive; the requests, the jobs and the goroutines of
`Close`.  A request checks the pointer, may read it again, is in C++, and may
start a goroutine (`Commit`, `BuildIndex`, `RebuildIndex`).  A job (snapshot,
restore, shard restore, destroy) closes the engine, waits for `hasClosed`,
replaces the files and loads or rebuilds the engine.

* `CountedUsesLive`: a goroutine that counts is never in C++ with a deleted
  engine.  It holds with concurrent jobs, time-outs and failing loads.
  It says nothing of goroutines that do not count: `Commit` stops counting before
  its goroutine is done with the engine.
* `CalmSafe`: in a *calm* behaviour, one job at a time without time-outs, files are
  replaced only while no C++ engine has them open (`FilesClosed`), no engine is
  deleted twice (`DeletedOnce`) and between jobs there is an engine that serves
  (`Reopened`); see section 5 for what happens otherwise.
* `CloseEnds`: liveness, given that calls into C++ return.

### SpaceMeta

State: the database, the space keys, the partition keys, the partitions on each
PS, the members of each raft group, registrations under way, locks and their
holders, the requests, what servers reported, and CleanTask.  Every request is
cut at each etcd operation or RPC whose result others can see; a call that creates a
partition may fail before or after the partition is stored.  `Update` of the
etcd store is an unconditional `Put`, `Delete` fails on a missing key; both
matter.  `CreateSpace` locks one constant name, all others the name of the
space; `DeleteSpace` and `ChangeMember` read the space before they lock.

What holds depends on which requests meet.  The variable `env` is the setting of a
behaviour (kinds of requests, faults, CleanTask), chosen at the start and never
changed, and a property says for which settings it is promised (`Only`):

* creations: `EnabledHosted` (an enabled space is registered and hosted),
  `NothingLeft` (a creation that fails leaves nothing on a server), `CleanSafe`
  (CleanTask removes no key of a space);
* creations and deletions, whatever fails: `UniqueNames`;
* updates and deletions: `EnabledHosted`, `DeletedStays` (an update does not bring
  a space back), and with member additions `UpdatesKeep` (every change raises the
  version, since caches take a space only when its version is greater, and no
  partition is lost);
* member changes and updates: `MembersHosted`.

A creation and a deletion do not exclude each other although both lock: a space
that is deleted while it is being created is written again.

### MasterCache

State: etcd as the log of its writes, so that a position in it is a revision; the
watch and the revision it has passed; the cache; what the handler of an event is
about to do; the reloads of requests that found no entry; the rpc clients and the
one being made; the count of routers.  The jobs of the different prefixes share
nothing, so a behaviour is about one kind of entry.

`WatchPrefix` reads a revision and watches from there.  The write at that revision
is delivered although it may be known; what came between the load, or the last
watch, and that revision is not delivered at all.

* `CacheFollows` has two parts. `CacheCurrent`: what a request is served is no older
  than what the watch has passed, but for the exceptions the model records in `marked`:
  an event that was lost, dropped, stored under another key or rejected by a clock that
  is behind, another name of a space, or a reload that read before an event and stored
  after it. An exception ends when the entry is right again. `RoutersCounted`: repeated
  events do not count a router twice.
* `ClientCurrent` says the same of the addresses of rpc clients; its exceptions are
  in `late`: a lost event, or a client that was made of an entry which was out of
  date by the time the client was stored.
* `CacheRecovers` is liveness. `LoadedOnDemand`: an entry that exists and is asked for
  is loaded. `WatchCatchesUp`: a cancelled watch comes back, without `AutoRecoverPs`.
  The fairness is that goroutines run and that requests for an entry keep coming.

### BackupFiles and BackupTasks

On the servers (`BackupFiles`) the state is the objects in S3, the counts of files
in memory, on their way and in S3, the managers (a server may come to have several,
made without a lock), and one record per request and its goroutine.  A backup
uploads a file, counts it, copies the counts and saves the copy, each a step.  The
checkpoints of a partition are in one directory, which every backup of it writes anew
and removes at its end.

* `BackupsIntact`: deleting a version harms no other (`KeptIntact`;
  `CountsCoverVersions` is why), and a completed restore has the files of one
  snapshot (`RestoredWhole`).  Left out are backups that shared the directory with
  another or whose checkpoint failed, which `Engine::Backup` does not report (`mixed`).
* `BackupsEnd`, first part (`TasksEnd`): every accepted task ends, unless the server
  restarts or a deletion has taken the lock of the counts for good (`RemoveReference`
  saves while it holds it).

On the master (`BackupTasks`) the state is the tasks, the versions in process, the
cache of versions, and the goroutines of monitor, checker and dispatch.  A restore is
sent to one replica after another, a backup to one replica of each partition.

* `ReportedIsDone`: a backup that is reported as completed is so on a server for each
  partition (`CompletedIsBackedUp`), a restore on a replica of each
  (`CompletedIsRestored`), and no accepted version is forgotten before it is reported
  (`AcceptedIsTracked`).  A restore need not be complete on every replica: the monitor
  asks the one it was sent to last.
* `BackupsEnd`, second part (`BackupsSettle`): if only tasks fail, every backup is
  settled.

The properties name what they leave out: requests that run beside another of their space
(`mixed`) or share its version or BackupID, a lost update of `ProcessingVersion`
(`torn`), lost calls (`lossy`), a replaced manager (`replaced`).

### FilterBounds, SortableKeys, ScalarFilter

`FilterBounds` has one copy of the two folds the code repeats for five numeric types.
`ScalarFilter` takes a request through parsing, planning and reading: the steps are the
stages, the state is what each has produced. `SearchIsExact` compares the documents
selected with those that satisfy the conditions, but for the cases of section 5. The
other properties are the conjuncts of `FilterSound`. `NothingMissed` says that even in
those cases no document is lost, except for floats nearer to a strict bound than the
epsilon it is moved by. `NeverHalfBuilt`: an index that is being filled never answers.
`PagesTile`: pages of a query hold each document once. `DropAllExact`: dropping an index
deletes its keys and no others.

### EngineIndexes

The applier, the maintenance worker and Load step by step over the tables, the delete
bitmap, the index objects and the BUILDING markers; a crash between any two writes.
`EngineIsTheLog` joins three invariants. `DocumentsAreTheLog`: replaying commands that
were applied in part or in whole ends in the same documents. `ReadyIsExact`: a READY
index holds the keys of the live documents. `IndexesAreTheLog`: at rest the indexes are
those the log defines. `EngineComesToRest`: it gets there. Load reads the markers once,
when it starts. `torn`, `raced`, `blind`, `lost`, `owed` and `astray` record the windows
of section 5.

### VectorStore, InvertedLists

`VectorStore`: the applier, the indexing thread and a dump, which writes one list after
another, over one field; the disk and what Load makes of it. `IndexFollows`:
`CountWithinStore`, `IndexIsStore` (at rest the index is the store), `RealtimeSees` (a
document is found as soon as it is put); `why` records that an index descends from a
dump taken in a window of section 5.

`InvertedLists`: the arrays behind a list, the writer's steps of an append, an
extension, a move and a compaction, and a reader that takes the size and the two
arrays in three steps.  `ListsSound`: `InBounds`, `EachOnce` (nothing is lost or repeated),
`ReaderSound` (a scan is not disturbed by appends and extensions).

### IndexingThread

The atomic state, the thread object, the condition variable and the index objects;
the applier, a rebuild, an index task and the destructor.  What C++ leaves undefined
is recorded in `ub` and ends a behaviour.  `IndexingSafe` (`NoUndefined`,
`IndexesAreConfigured`) and `IndexingLives` (`Closes`: the destructor returns;
`Maintained`: the thread comes back) hold outside the situations named in `lapses`.
The fairness is of the threads, and of an engine that goes on receiving documents.

### RouterSearch, RouterWrite

`RouterSearch`: one goroutine per partition, the replicas it tries, the queue, slots
and kill entries of a server, and the merge in the order of arrival.  `ResultsExact`
(`SearchIsTopN`, `QueryIsUnion`): the merged answer is the best of all, whatever the
order and whichever partitions failed beside them.  `FailuresContained`: an answer
without an error means that some partition answered and that none met a memory limit,
or, for a query, was turned down by its server (`ErrorsSurface`; every other failure is
dropped); a refused call is given up only when no other replica was left (`FailsOver`);
and no kill entry outlives its search (`NoStrayKill`), unless the killer was overtaken
between its CAS and its entry.

`RouterWrite`: a partition is a raft group with the log it committed; two requests run
at once, calls break or time out before or after their effect, leaders move.
`AnswersTrue` joins four invariants: `RoutedToOwner` compares the binary search over
slots with its definition, `AckedApplied`: an acknowledged upsert is in the log of the
owner, `DeletedTrue`: what a deletion reports as deleted was there and went, and
`ShardsTrue`: shards counted as successful did what was asked, unless a flush was
running there or, for a rebuild, every call failed.  `FreshReads`: a get
from a leader that stays leader finds what was acknowledged before it, or something
newer.  `Answered`, for both modules: every request is answered, and a search gives
back the goroutines and slots it took.  The fairness: goroutines run and calls into
the engine end.

### MasterCatalog

State: the keys of etcd, the locks, and one record for each of three requests with its
program counter, what it has read and what it was answered; what was pushed to servers.
A request is authenticated (three reads), reads what it is about, takes the lock, runs
its transaction or unlocked writes, releases the lock, and may call the servers.  The
reads come before the lock.  A database may be asked for by its number.

* `AnswersJustified`: every answer was true at some moment of the request, and only
  root and users whose role lists the resource made a change.  The level of a privilege
  is modelled (`Suffices`) and makes no difference: see section 5.
* `CatalogSound`: etcd holds what the requests would leave there one after the other
  (`Serial`, against the reference `ref`), and the keys of a database belong together
  (`DBsWhole`), but for the keys in `lapsed`, whose writer acted on an outdated read.

### ServerLife

State: the servers with their heartbeats and keys, the masters' watches, the failure
records, the recovery loops, an operator, and the three places that say who has a
replica: the raft group, the key of the partition, and the space.  A change of a member
is one step with the points where it can stop; `SpaceMeta` has its single steps.  The
lock of the recovery loop may expire under a loop that works, a heartbeat may give its
lease up after five failing puts, and the deletion of a failure record may fail.

* `ServersSound`: recovery never takes a replica without having added one
  (`ReplicasKept`), and when no event is under way the failure records are true
  (`RecordsTrue`), but for the causes the history `blame` names.

### SpaceIndexes

State: the record of the space, the requests, the calls to leaders, the log of every
partition, and for every replica the names its engine knows, the queue of the engine's
worker and the space it remembers.  A request changes the leaders at the same
time, writes the record, and sends the opposite change when one of them failed.  An
entry may fail on a replica after a part of it was queued, and counts as applied.

* `IndexesAgree`: when everything has ended, a replica that has applied its log and run
  its tasks has the indexes of the record, in its engine and in the space it remembers,
  but for those in `doubt` (the opposite change did not get through in order) or
  `astray` (the replica was loaded behind its own log, or failed an entry with nobody to
  undo it).  The engine, not the remembered space, may lack those in `lost`: added again
  while their removal was queued.

`MasterSettles` is the liveness of these three modules: every request is answered and
no lock is left, a replica on a server that stays down is moved if it can be, and every
change of indexes reaches every replica.  The fairness is that requests, jobs, watches
and calls go on and leases run out; nothing makes a failure, a stop or a return happen.

## 3. Runs and bounds

`PROJECT.json` says in a sentence what every run shows.  All runs end within
five minutes on two cores.

Five runs check several modules each: `backup`, `scalar_indexes`, `vector_index`,
`router` and `master_objects`. A behaviour is about one of the modules, and the others
stay in an initial state; nothing is claimed of their combination. `store_restart` and
`engine_close` have calm and other behaviours in one run, told apart by the rigid
variable `calm`.

* `DistLock`: two contenders that lock again and again, three leases, one failing
  call: enough for a waiter whose predecessor's lease expires, and for a key that
  is put although its call failed.
* `RaftStore`: a log of four commands, one crash, one snapshot, truncate count 1: enough
  for two overlapping `Commit`s, a flush job between them and a truncation, before and
  after a restart.
* `GammaEngine`: two requests, two calls of any kind and one job; or one request, a
  search or a rebuild, and two jobs with time-outs and failures; three C++ engines, so
  that an engine is reopened and closed again.
* `SpaceMeta`: two or three requests, three servers, spaces of one or two partitions
  of one replica, to which a member change adds others; up to three spaces, so that
  a name is used again.  Ids are never used twice.
* `MasterCache`: three or four writes of one or two keys (a space is created, renamed,
  its old name given to another, and deleted); one outage, which is a second watch;
  two requests at a time for a user.  Renames and outages are not combined.
* `BackupFiles`: seven scripts of two or three requests on two servers and two
  partitions, with one fault; files are shared by versions.  `BackupTasks`: seven scripts
  of one or two requests, spaces of one or two partitions with one or two replicas, one
  lost call, and one pair with the same BackupID.
* `ScalarFilter`: values 0 to 3 (as floats two that are nearer than the epsilon, a small
  and a large one), one, two or three conditions on four fields, seven sets of indexes,
  twelve documents of which at most one is deleted. `EngineIndexes`: logs of four
  commands on two documents and three indexes, one crash.
* `VectorStore`: three commands, two keys, two vectors, batches of two, one dump and
  one crash.  `InvertedLists`: three documents, two lists, with two updates and one
  deletion, or one of each and a reader; a list is refused beyond six entries.
* `IndexingThread`: two fields, two documents, one rebuild, one index task, one
  failure.
* `RouterSearch`: up to three partitions on two nodes, two faults for a search.
  `RouterWrite`: seventeen pairs of requests, up to two faults.
* `MasterCatalog`: three requests at once in chosen cases (the same user, role, alias or
  database created, changed and deleted), with one failure of etcd, a time-out or locks
  removed by hand. `ServerLife`: three or four servers, one or two masters, one server
  that stops and may return, and one lost lease, event or answer. `SpaceIndexes`: ten
  plans of up to three requests on two partitions of one or two replicas, each with one
  or two mishaps: a failed call, write or apply, a restart, a snapshot.

`CHECK_DEADLOCK FALSE` is said since requests, calls and writes are bounded and end.
Symmetry is used where no liveness is checked.

## 4. Proofs

TLAPS proves the following for every value of the constants that satisfies the
named assumptions: `DistLockAssumption`, `RaftStoreAssumption`,
`GammaEngineAssumption` (the constants have their types); `SpaceMetaAssumption` (also,
the servers are finite in number and at least as many as replicas, and a space that is
there at first has its partitions); `MasterCacheAssumption` (also, the keys are finite
in number and a key with the prefix of its kind is no name of a reader); `TopAssumption`
(`Top` is a positive number).  The settings (`env`) are any set of records of the right
type, so that the theorems are about any number of requests, names, writes and faults.

| theorem | states | inductive invariant |
|---|---|---|
| `LockExcludes` | `Spec => []MutualExclusion` | `IInv` |
| `LockRefines` | `Spec => ImplementsAbstractLock` | `IInv` |
| `StoreComplete` | `Spec => []ReplicaComplete` | `CInv`, until a snapshot fails |
| `StoreRestarts` | `Spec => []RestartPoint` | `RInv`, until a snapshot is received or a dump overtaken |
| `CountedSafe` | `Spec => []CountedUsesLive` | `EngineInv(own)` for some `own` |
| `CleaningSafe` | `Spec => CleanSafe` | `Base`, `CreateInv` |
| `CreationsCleanUp` | `Spec => []NothingLeft` | `Base`, `CreateInv`, `BuildInv` |
| `EnabledServed` | `Spec => []EnabledHosted` | `BuildInv`; `UpdateInv`, `ServeInv` |
| `DeletionsStay`, `UpdatesKept` | `Spec => DeletedStays`, `Spec => UpdatesKeep` | `Base`, `UpdateInv` |
| `NamesUnique` | `Spec => []UniqueNames` | `Base`, `NameInv` |
| `MembersHaveIt` | `Spec => []MembersHosted` | `Base`, `UpdateInv`, `MemberInv` |
| `CacheFollowsEtcd` | `Spec => []CacheFollows` | `Types`, `Follow` |
| `ClientsFollowEtcd` | `Spec => []ClientCurrent` | `Types`, `Follow` |

and the type invariants `TypeCorrect`, `StoreTypeCorrect`, `EngineTypeCorrect`,
`SpaceTypeCorrect`, on which they rest.

* **`DistLockProofs`**.  Mutual exclusion is not
  inductive.  `IInv` adds that a key has the revision of its put and that
  revisions differ (`KeysOK`), that no two contenders have the same lease
  (`LeasesOK`), and that a holder whose key is in etcd has the lowest revision of
  all keys (`RevisionsOK`): a new key is always put behind it.  For the refinement
  `NewOwner` shows that a step that makes an owner starts without one.
* **`RaftStoreProofs`**.  `CInv` says that every number the flush job, a
  `Commit` or the sn file holds is one whose commands the engine has.
  `RInv` says that the log reaches back to every number that is still to be written,
  since none is more than `TruncateCount` behind what is applied.
* **`GammaEngineProofs`**.  `EngineInv(own)` speaks of a function `own` from C++
  engines to the Go
  objects that made them: a pointer is only found in its object, a goroutine of
  `Close` that is about to delete an engine has seen the counter of its object at
  zero after the pointer was reset, and who counts afterwards reads nil.  `own`
  does not change for the engines made so far, so the theorem quantifies over it
  and extends it when an engine is made.
* **`SpaceMetaInv`** has the types.  They need more than `TypeOK`: which labels a kind of
  request comes to (`Legal`), that the partitions a request or a space names have been
  given ids (`Fit`, `Ids`), and that CleanTask has numbers of the kind of thing it
  removes (`Cleaning`).
* **`SpaceMetaProofs`**.  `Base` adds to the types that the requests at certain labels
  hold the lock they asked for, so that two of them are never in the section of one
  name.  `CreateInv`: a creation finds the space it has put, so that CleanTask judges
  by a key that is there.  `UpdateInv`: what a request knows of its space between its
  read and its write is true while it holds the lock; a member change, which
  copies the space before it locks, knows only partitions that the space still has, and it
  reads the version again.
* **`SpaceMetaHosts`**.  `BuildInv`: a partition on a server belongs to a space that
  exists, and a creation that has met an error still has every one it created on its list to
  remove.  `ServeInv`: the partitions that an update is about to write are registered
  and on their servers, or on its list to create.
* **`SpaceMetaMembers`**.  `NameInv`: a creation that has found its name free is the only
  one to use it, since creations share one lock and deletions make no names.
  `MemberInv`: a raft group has a member only where the partition was
  created before, and a partition that an expansion creates is unknown to
  member changes.
* **`RouterProofs`**, the cache. `CacheCurrent` compares the cache with etcd as it was
  at earlier revisions, so the invariant has the history of etcd in it. `Types` includes
  `Hist`: no two keys have the same slot at any revision, the next put of a space under
  the same name has a greater version, and the time of a partition is not ahead of its
  revision. `Follow` adds to the two properties that a handler is about to store what
  etcd had where the watch is (`HandKnown`), that aliases and routers are never reloaded
  (`ReloadsOnly`), that a router's entry is its only value (`RoutersPlain`, `Counted`),
  and where a client's address comes from (`ClientsHad`). The main steps: `EventAhead`
  and `EventBehind` say what etcd holds at the revision of an event and before it;
  `SpaceOvertaken` and `CurrentPartition` that an entry which is not older than an event
  is one that a reload took from a later revision, so that the handler rightly drops the
  event; `CurrentStored` and `CurrentStore` cover what handlers and reloads store.
* **`RouterProofs`**, the filters.  `NarrowIsExact`, `WidenIsExact`, `CloseIsExact`: each
  condition that is folded keeps or adds exactly the values that satisfy it, for every
  width of the type; `SentIsSelected`: what is sent selects what was folded.
  `IntKeysOrdered`, `FloatKeysOrdered`: keys are ordered as the
  numbers.

Only model-checked are:

* the liveness properties (`LockReturns`, `CaughtUpAndAnswered`, `CloseEnds`,
  `CacheRecovers`, `BackupsEnd`, `EngineComesToRest`, `IndexingLives`, `Answered`,
  `MasterSettles`): TLAPS 1.4.5 cannot reason about `ENABLED`, which fairness needs;
* what folds and recursive definitions compute for every input (the planner and the
  scans of `ScalarFilter`, the replay of a log in `EngineIndexes`, `SpaceIndexes` and
  `RouterWrite`, the merge in `RouterSearch`): this is induction over data, whose
  theorems take an operator as a parameter, which the provers cannot instantiate;
* `CalmSafe`, which is about the calm behaviours that `MCGammaEngine` defines;
* the invariants of `BackupFiles`, `BackupTasks`, `VectorStore`, `InvertedLists`,
  `IndexingThread`, `MasterCatalog` and `ServerLife`: their proofs would be of the
  kind of those above, and have not been made.

## 5. What the code does not guarantee

`store_lock_leak` has a finding in `PROJECT.json`.  Besides, the models show these
limits, which is why the properties above say when they hold.

* **Lock**: `Lock` returns nil for a failed call whose revocation succeeds.
* **Store**: commands are applied while a dump runs, without a bound; after more than
  `TruncateCount` of them the log may be cut past the sn file that the dump then writes.
  A snapshot that fails or is cut by a crash leaves an empty engine that
  raft takes for caught up; the sn file may then point before the log.
* **Engine object**: with time-outs a late `Close` marks the next engine as closed, and
  with two jobs an engine is deleted twice; the goroutine of `Commit` may use a deleted
  engine.  Requests that count stay safe.
* **Spaces**: a deletion or a failing last write leaves partitions on servers; a space
  deleted while it is created comes back; when etcd fails, an update of a space whose
  creation has failed writes it again; a rename can give a space the name of another;
  CleanTask can remove a partition that is being created, and a failing read makes it
  take a space for absent.  Of two concurrent member changes the space may forget one.
* **Router cache**: an entry whose key is written between the load and the watch, or
  between two watches, keeps its old value until the next event of the key.  A deleted
  space can stay, and keeps a new space of its name out until the version of that is
  higher.  An updated user or role is not seen.  An alias can be missed for good,
  although a miss is taken for its absence (`master_cache.go:1006`).  With
  `AutoRecoverPs` a cancelled watch does not come back.
* **Backup**: a deletion of a version never returns once it has removed a reference;
  two backups within a minute share a version; a restore of a version that is being
  backed up reports the status of the backup; a restore whose status cannot be asked
  for counts as completed, and so does one that the replica sent to last has completed
  while others have not been sent it; a failed task of a lost request goes back to
  running.  Two backups of a partition write and remove one directory; a checkpoint that
  failed is not noticed.
* **Scalar filter**: exclusive bounds on large floats act as inclusive, on small ones
  pass over values within the epsilon, and on the extreme integers wrap; an OR of
  impossible conditions selects everything; the prefix of an inverted string key matches
  longer strings with `_`; `NOT IN []` selects nothing; pages count entries of deleted
  documents.
* **Engine and indexes**: a crash inside `Table::Add` lets two documents share a docid
  (the comment at `engine.cc:1985` says ids are never reused); crashes between the
  bitmap and the table, or the table and the indexes, leave half a command; a build in
  the middle of an update leaves a stale key; an addition is ignored while the removal
  of the index is queued; Load trusts an index that this replica never built.
* **Vectors**: updates queued at a dump are lost; a dump beside an addition is torn, and
  one beside a move may miss the moved entry; IVFPQ takes the entries of its lists for
  its count; one count key serves all fields; HNSW skips its load after deletions; the
  realtime buffer is loaded up to the newest stored vector. A list at its limit makes a
  retried batch repeat entries; a scan beside a compaction may miss or repeat some.
  Replaced arrays are freed after a second, which the model does not do.
* **Indexing thread**: a failed training leaves no thread, a failed re-creation no
  index; `describe` stops it for good; overlapping callers join it twice; a notification
  without the mutex is not heard; a removal during training deletes an object in use;
  after the last index is removed the next upsert reports INDEXED.
* **Router**: a search drops the error of a partition if another answered; only a
  refused connection fails over; a kill entry made late stays; a timed-out request
  keeps its slot.  An upsert whose call broke after the commit is sent again and may
  overwrite a newer one; gets fail over to followers without a check; a rebuild whose
  calls all failed counts as successful; a deletion by query drops errors of calls and
  deletes what changed since the query.
* **Catalog**: two changes of one role, user, alias, database or setting that overlap
  undo each other, since both read before the lock, or take none.  A role that lists a
  resource has it whatever the level: `HasPermissionForResources` returns nil at its end
  also when the level does not suffice (`entity/user.go:300`), although the README of the
  Rust SDK says "`ReadOnly` - Read-only access".
* **Servers**: the recovery loop of a master dies, with its lock left behind, when a
  record names a partition that is gone (`master_cache.go:1216`), and while it lives a
  cancelled watch is not started again (`master_cache.go:1364`).  After a failed
  reconnection the heartbeat waits on a nil channel, and the context of a successful
  one ends its keep-alive after five seconds (`ps/schedule_job.go:218`).  A master that
  `TryLock` refuses leaves a failure record stale or unmade; a record may be made again
  for a server that has returned.  Only empty servers are used for recovery.
  `CreatePartition` of a partition that is there stores a closed store
  (`ps/partition_service.go:156`).
* **Indexes**: `notifyPartitionsIndexChange` returns at the first error while other
  calls are in flight, so that the opposite change can overtake one
  (`space_service.go:960`). A replica that restarts applies its log again, so that an
  addition that was not undone stays (the comment at `space_service.go:1516` expects the
  record to prevail). An addition is not idempotent beside a queued removal of the same
  name (the comment at `space_service.go:1511` relies on it): the engine passes it over,
  and the index is gone once the removal has run. One loaded from a record older than
  its flush point is astray. A late `UPDATESPACE` replaces the list a replica remembers,
  a snapshot rebuilds a follower from its own, and updates with new fields are always
  refused by the replicas.

More hazards, of code that is modelled in part or not yet (paths under
`src/internal`):

| where | what can go wrong |
|---|---|
| `ps/engine/gammacb/snapshot.go:128` | the sn file of an earlier backup is kept; a snapshot reports a truncated index |
| `ps/engine/gammacb/reader.go:163` | the pointer is checked, read again, and may be nil then |
| `ps/engine/gammacb/gamma.go:420` | an engine that fails to load keeps its files open |
| `master/services/space_service.go:251`, `:304` | partitions stay when the enabling write fails, or a partition key is missing |
| `master/services/space_service.go:615`, `:661` | a rename, or an update of a failed creation, makes two spaces of one name |
| `master/services/space_service.go:268` | a deletion acts on the copy of the space it read before its lock |
| `master/schedule_job.go:96` | CleanTask goes by the partitions that a server listed in its last heartbeat |
| `master/services/space_service.go:1025` | the wait for leaders is never cancelled and holds the lock of all creations |
| `master/services/space_service.go:1168`, `:1219` | partition rules: a channel for one error; a division by zero after the last range |
| `master/services/db_service.go:119`, `:201` | a space is created while its database is deleted; an update without a lock |
| `master/services/member_service.go:115`, `:293` | a partition not yet in its space; a `TryLock` whose result is ignored |
| `master/services/config_service.go:98`, `alias_service.go:102` | read and write without a lock; a check before the lock |
| `client/master_cache.go:517`, `:992`, `:1216` | clocks that differ; early returns that keep a server, or a lock |
| `client/master.go:658`, `client/ps.go:166` | the error of an earlier master; a client closed under a call |
| `ps/backup/ref_count_manager.go:207`, `:252`, `ps_backup_service.go:314` | counts of a file added twice; of one whose deletion failed; of a file that did not load |
| `ps/schedule_job.go:267` | the list of requests is read without its lock |

## 6. What is not modelled

Partition rules (adding and dropping ranges) and the master's own copy of the spaces
(`WatchSpaceJob`) are not modelled; the hazards of the former are in the table above.

The numerical part of the C++ engine (distances, quantisers, graph indexes), the
encoding of documents, listings and monitoring, metrics and the SDKs: they
are sequential, and wrong results there are better found by tests.  The raft
library and etcd are dependencies, modelled by what the code uses of them.
