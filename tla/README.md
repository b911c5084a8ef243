# Plati in TLA+

Plati is a platform that gives users Linux containers ("instances") on one or more
Incus servers. A Go backend keeps users, templates, instances and volumes in SQLite,
drives Incus over its API, and serves a web frontend by HTTP and WebSocket.

This directory holds TLA+ models of the backend, TLC configurations that check them on
small instances, and theorems that TLAPS proves for every value of the constants. Paths
below are relative to the repository, `services/` and the like to
`src/backend/internal/`. `PROJECT.json` maps each definition to the lines that it models.

    tlc -workers 2 -config Operations.cfg MCInstanceOps
    tlc -workers 2 -config LogStreams.cfg CreationLog
    tlapm InstanceOpsProofs.tla

Contents: 1 inventory, 2 modules, 3 runs, 4 fairness, 5 proofs, 6 where code and documents
disagree and what the properties leave out, 7 not modelled, 8 what could come next.

## 1. Inventory

| component | state | operations | what makes it correct | status |
|---|---|---|---|---|
| **Instance lifecycle** (`services/instance_service.go`) | tables `instances`, `volumes`, `instance_volumes`; containers, devices and storage volumes in Incus | CreateAsync, Create, Start, Stop, Rebuild, Delete; the renaming of a container | the tables speak of the right volumes; the status is the truth; a home survives every Rebuild; a creation is decided | partly, `InstanceLifecycle` over `InstanceBook` |
| **Creation log and stream** (`services/creation_log.go`, `handlers/terminal.go`) | one in-memory entry per creation, a channel per viewer; `instances.creation_log` | Log, Complete, Subscribe, Unsubscribe; CreationStream; finalize | each line once and in order; no send on a closed channel; every stream ends | modelled, `CreationLog` over `LogStream` |
| **Auto-stop** (`services/sleep_service.go`, `handlers/sleep.go`) | `last_active_at`, the policy columns; the worker's ticker and list | sweep, GetSettings, Update, ResetTimer | what is due is stopped in time, and nothing too early | modelled, `AutoStop` |
| **Rename and transfer** (`instance_service.go`, `instance_transfer.go`) | display name, Incus name, owner; host name and keys in the container | Rename, TransferToUser, renameContainer | row and container keep naming each other; keys follow the owner | modelled, `InstanceOps`; its effect on volumes in `InstanceLifecycle` |
| **Resource limits, Incus configuration** (`instance_resources.go`) | limits in the row and in Incus | UpdateResources, UpdateIncusConfig | the two agree | modelled, `InstanceOps` |
| **Storage and snapshots** (`storage_service.go`) | snapshots in Incus | create, restore, delete | no restore under a running container | partly, `InstanceOps` |
| **SSH keys in instances** (`instance_service.go`, `incus/instances.go`) | `authorized_keys`, `id_rsa` of a container | AddAuthorizedKey, Rebuild, ReapplySetup, transfer | who gets in was meant to | modelled, `InstanceOps` and `KeyRing` |
| **Managed keys and user keys** (`managed_key_service.go`, `user_service.go`) | three key tables, assignments, private keys on disk | generate, delete, assign, collect for a container | rows, files and assignments agree; a key goes only to whom it is meant for | modelled, `KeyRing` |
| **Templates** (`template_service.go`) | YAML files, mixins in memory, table `templates`, a watcher with a timer | SyncFromDir, WatchDir, create, update, import, save, reload, delete | the table follows the files; no change is forgotten; a template in use is kept | modelled, `TemplateSync` |
| **Git repositories** (`repo_service.go`) | clones on disk, host keys, table `git_repos` | add, clone, pull, rename, delete, choose a key | what is ready is a whole clone; a clone ends; a deletion leaves nothing | modelled, `GitRepos` |
| **API keys, authentication** (`auth/`, `api_key_service.go`) | hashed keys, signed tokens | log in, issue, regenerate, check | a key acts for its holder only | modelled, `Accounts` |
| **Setup and configuration** (`handlers/setup.go`, `config/`, `cmd/plati-config`) | the configuration file and its copy in memory | plati-config, first setup, restart | file and process agree on password and encryption key | modelled, `Accounts` |
| Users, secrets, preferences (`user_service.go`) | a table each | statements, cascades | nothing belongs to nobody | partly, `Accounts` |
| Database (`database/`) | the SQLite file, foreign keys on, one connection | statements and migrations | constraints and cascades hold | partly: what the modules above use |
| Server selection, SyncServers (`server_service.go`) | table `servers`, the pool of clients | selectServer, sync from the configuration | capacity | partly: selection, in `InstanceLifecycle` |
| Duplicate | a new instance, the copies of volumes | free name, synchronous Create, copy | the copy is its own | partly: name and Create |
| Container setup (`incus/instances.go`) | shell scripts made from data | build and run | | partly: the keys, in `KeyRing` |
| Incus client and pool (`incus/`) | HTTP clients | calls | | partly: as environment |
| HTTP layer (`handlers/`) | none | decode, authorise, call a service | | partly: in the first action of an operation |
| Server start and shutdown (`cmd/plati-server/main.go`) | goroutines | start workers, serve, stop | nothing that was interrupted is repaired | partly: the crash and start actions |
| Quick links and sshx; terminal and debug logs | | | | not modelled |
| Web frontend; landing page, scripts, deployment | | | | not modelled |

**How they interact.** HTTP handlers call services; services write to SQLite and call
Incus. CreateAsync, AddRepo and the template watcher return at once and leave a goroutine
behind. The sleep worker lists rows in SQLite and stops containers. An instance refers to
its template, its owner and its server by foreign keys, to its volumes by join rows, to its
container by a name, and to repositories by a name in the template. Nothing locks an instance, a repository or a
directory: requests, goroutines and the worker meet in the database, in Incus and in the
file system only. The pool of database connections has size one, so each statement is
atomic, and only `SetManagedKeyUsers` uses a transaction over several of them.

**What is hard.** A creation is ten or more calls over minutes; a rename is a stop, a move, a
write and a start. Any may fail, the errors of many are ignored on purpose, and a restart
resumes none of it. What one call read is used several calls later, when its owner, name,
status or file may have changed. `PROJECT.json` lists forty hazards at their lines and the properties
that would catch them.

## 2. Modules

| module | what it is |
|---|---|
| `InstanceBook` | what the operations on instances promise while no two concern the same one (abstract) |
| `InstanceLifecycle`, `MCInstanceLifecycle` | the lifecycle, call by call, with failures and crashes; implements `InstanceBook` |
| `LogStream` | what the creation stream promises (abstract) |
| `CreationLog` | manager, creation goroutine and stream handlers; implements `LogStream` |
| `AutoStop`, `MCAutoStop` | the worker, the policy and the requests that move the deadline, in discrete time |
| `InstanceOps`, `MCInstanceOps` | rename, transfer, limits, keys, power and restore of instances, and their creation in two steps |
| `KeyRing`, `MCKeyRing` | keys: tables, files, assignments, and what containers are given |
| `TemplateSync`, `MCTemplateSync` | template files, mixins, the table, the watcher and the API |
| `GitRepos`, `MCGitRepos` | repositories, their directories and jobs |
| `Accounts`, `MCAccounts` | users, sessions, API keys, secrets; setup and configuration |
| `...Proofs` | theorems and lemmas, one module for each of the eight above |

The MC modules hold the values of functions and the symmetry sets. Common to all: one
database statement, one Incus call or one file operation is one action; `pc` says which
comes next; what a Go function keeps in local variables between two calls is in the record
of its request or job (`req[p]`, `job[p]`, `sync[p]`, `call`). Requests are numbered or
counted (`MaxRequests`, `MaxEvents`), ids are AUTOINCREMENT and never given twice. A variable
marked "history" is read by properties only. Operators with the comment "Mutant" are not
part of a specification; each is the form that its neighbour would have with a plausible
bug, and with it the property named in `PROJECT.json` is violated.

### InstanceLifecycle and InstanceBook

`inst`, `vol`, `joins` are the three tables; `cont`, `devs`, `store` are the containers,
their volume devices and the storage volumes in Incus; `req[p]` is what process `p` is
doing, with the local variables that the Go function keeps between two calls (`id`, `key`
as read, `snap` for `instanceVols`, `vid` and `first` for the ids of volumes, `todo` for
the current loop). A process is a request, a creation goroutine or the sleep worker. `to` and `was` are
`newIncusName` and `wasRunning` of `renameContainer`. One
call is one action; `pc` says which comes next, and shared labels stand for calls that two
operations make alike (`CreateContainer` is the call of a creation and of a Rebuild).

Database statements enforce what the schema enforces: `UNIQUE(incus_name, server_id)`
(`RowAccepted`), `UNIQUE(name, server_id)` of volumes (`taken` in `RecordVolume`), the
foreign keys and their cascades (`InsertJoin`, `DeleteVolumeRow`, `DeleteRow`), and
AUTOINCREMENT, by which ids are never given twice (`FreshId`). An Incus call has the
precondition and the effect that the code relies on (start needs a stopped container,
delete refuses a running one, a volume that a container lists cannot be deleted) and, if
it is named in `Faults`, may fail without effect.

An instance changes its Incus name in `renameContainer`, which a Rename with its container and a
TransferToUser call: `CheckName` (is another row of that name?), `StopRequested` if it
runs, `MoveContainer`, `RecordName` (the UPDATE, refused by UNIQUE or without effect when the row
is gone or has changed hands), `UndoMove`, and the start again. The container takes its devices along; **the volumes
keep their names** (`instance_service.go:1592-1594`). So a name that has been given up is not like new. Create A named x, rename its
container to y, create B named x: the record of B's volume is refused by UNIQUE and skipped (743),
`GetVolumeByName` finds A's (780), and B is joined to A's home; the Delete of B cannot remove a volume that
A's container uses, ignores that, and deletes its record (1053-1059), and when a failed Rebuild has left A
without a container it destroys A's home. This happens in turn, on one server and without any failure, so no property
can say otherwise of such names. The history `names` of a row keeps the keys it has had or was to get; `Renamed` are the keys that some
instance has had beside another, and the properties say what holds of the others, and of these what is
left: a join is about a name that the instance *has had*, and a request remembers a key that its row *has had*.

Abstractions: names are two-part keys (server, Incus name), and a volume is named by
the instance's name and a device, as the code names it. Setup scripts, addresses, keys and
the log are left out: their failures change no state here. Looser than the code: the dirs
are taken in any order; `GetVolumeByName` may return any of several matching rows; any
server below its capacity may be chosen, since any may be offline. Statements of the database
do not fail except by a constraint.

`InstanceBook` knows neither calls nor tables. A request takes the key of an instance, works on it,
and leaves it: instances of other keys stay as they were, an id is used once, what has been decided is never
undecided, homes go only with their instance, and whoever leaves a key leaves a status that is true. A rename takes the two names
that it turns from and to off the book (`GiveUp`), with the instances, machines and homes there, for good: what
is begun at them later is not entered. Everything else stays on it. `KeepsBook` maps `homes` to the
volumes that are both in Incus and joined, `held` to the keys of requests under way, and all of `Renamed` to off the book. It is a promise to requests that keep
apart; the code does not see to that.

### CreationLog and LogStream

`entry` is the manager's entry (number of lines, subscribers, done), `chan[v]` a
subscriber's channel of capacity `Cap`, `view[v]` the handler that serves viewer `v`,
`writer` the creation goroutine, `row` the status and stored log in the database. The four
operations of the manager hold its mutex and are one action each; the handler reads the row
in one step (`Open`) and subscribes in a later one. The drop of a line on a full channel and the
values that remain readable after a close are as in Go. `LogStream` knows neither channels
nor replay: it has a log, viewers that see its lines in order and skip some only if they
are slow, and an end that they are told after the last line. `KeepsPromise` maps each
subscribed view to it; a stream served from the row alone is outside of the promise.
A crash loses the entry and ends no stream, which is why `StreamEndsUncrashed` excludes it.

### AutoStop

`now` is a number; the ticker puts one token in a channel of size one at every multiple of
`Interval`, and drops it when the channel is full. `worker` holds the rest of the list and
the instance being stopped, `row` the status, `last_active_at` and the policy. The worker
lists due rows in one statement, then for each makes two calls, Incus and the database.
Requests (create, start, stop, reset, update, rebuild, rename) are as slow as they like. `upAt`
and `since` are histories. An update of the policy gives one field, both or none (`fields`), and writes both. Rebuild's probe, stop, detach and
delete are one step here (`Remove`), and its volumes are the other module's business. A
deletion or a crash of the server takes no part: the worker has no memory beyond one sweep.

### InstanceOps

`row[i]` is what the table has of instance `i` (owner, display name, `incus_name` as `key`,
status, override of the limit), `cont[k]` the container of that Incus name, with `of` telling whose
it really is. A name stands for the host name that `sanitizeName` makes of it, and an Incus name
is the pair of owner and host name. `job[p]` holds the row as `GetInstanceForActor` read it: every
later call uses that copy, as the code does. `WriteName` and `WriteOwner` are the two statements of Rename and
TransferToUser, `CheckKey` to `Started` are `renameContainer` (and the Start and Stop that
make the same calls), `SetHost`, `InstallKeys`, `RevokeKeys` the rest of a transfer;
`ApplyResources`, `UpdateIncusConfig`, `StoreResources` the two ways to set limits.
`CreateAsync` inserts the row, in `creating`, and `FinishCreate` is all that its goroutine does between (those calls are in
`InstanceLifecycle`): a container with the keys the script could install, one that does not start, or none. The row is
checked against the Incus names of the server and against no display name. `Installable` is `installableKeys`: a key of the owner or of an
administrator for everyone who may open the instance, any key for an administrator. The instances are on one server, and the users of the run
are both administrators, so that every key may be put anywhere.

The properties speak of instances at rest and exclude those that a history names: `loose` (requests overlapped on
the instance, or one was cut short between Incus and the database, or a stale name hit its
container), `behind` (a change did not reach the container, and the code only warns), `kept` (keys
were to stay, or could not be reached), `granted` (a key of another account that was put there), `raced` (two
names were chosen in one account at once), `clashed` (a creation took a sibling's host name). What is excluded is exactly what the code gives up on; section 6 says what happens then.

### KeyRing

`ring` is the three key tables, `assigned` the assignments, `disk` the private key that lies in the directory of
a user or a managed key, `authorized` and `idrsa` what an owner's container holds. A key is
its pair. Row and file are written in two steps, and the keys for a container are collected table by
table (`CollectPublic` to `ReadManaged`) and written at the end (`WriteKeys`); every read of a
private key falls back to the row when the file is missing. `intended` is what administrators last
chose, `opened` and `invited` what was ever meant: a key that was revoked while a collection ran may
still be written, a key that was never meant may not.

### TemplateSync

`file` is the directory (absent, broken or a text with a slug, an edition and the number of
exports), `mixfile` and `mixins` the mixins on disk and in memory, `row` the table, `sync[p]` a goroutine of
`SyncFromDir` with its glob, `yamlSlugs` and list of stale rows, `armed` the debounce timer, `call` a
SaveToDisk or ReloadFromDisk. `there` are the directories that exist and `watched` those that the watcher was added to: `templates` and `mixins/` may be
made, removed or moved away at any time, and `WatchDir` waits for none of them. A sync without the directory returns at once (`StatDir`).
The server starts with a sync and watches only then. `dirty` and
`disturbed` are histories: a change seen that no sync has started after, and a change that
the last sync could not have followed, such as one in a directory that nobody watches.

### GitRepos

`repo` is the table, `dir` and `hosts` the clone and the host keys under a directory name, `job[p]` a clone,
a pull or a deletion, with the row as read. git refuses a directory that is not empty and a host it
does not know; it cleans up after a failure unless the directory was removed from under it. A deletion is four calls (read the row, delete it,
remove the directory, remove the host keys), of which the last two may fail and are only logged.
`Copies(n)` is what `attachReposDirAndBuildCmds` gives an instance for the name `n`.
`mixed` names the directories that two rows or two jobs have had to do with, that a renaming or a restart has parted from its row, or
that a failed removal has left behind.

### Accounts

`user`, `key`, `secret`, `prefs` are tables; `file`, `mem`, `done`, `up` the configuration,
its copy, `setup_completed` and whether the server runs. Keys and password of the n-th setup are
the number n. A session is the user, the role of its login and the generation it was signed with; nothing looks the user
up, so a request may be that of a user who is gone. An API key is looked up with its user. Setup is
four steps after its check (truncate, write, memory, setting), and `Stop` may come between any two. A file cut off and not written is `Empty`: `config.Load` then
falls back on its defaults, `database.path` among them, so that the server starts with another, new database (`BootElsewhere`), unless the
lost one was that of the default path (`own`).

## 3. Runs

Bounds are in each cfg. The five newer runs check deadlock: their `Quiet` step is enabled only when
all requests of the bound are done. In the others the platform rests when nobody asks for anything,
ids run out, and time ends.

| run | question and properties | bounds |
|---|---|---|
| `LifecycleOverlap` | Two requests at once, creations that fail late, a Create whose row comes last: are the tables about the right instances and volumes, does each volume keep one owner, and does each request remember the truth, also when an instance is renamed (`JoinIntegrity`, `NoSharedVolume`, `MemoryHolds`)? | 2 processes, 2 names, 2 instance ids, 3 volume ids, 1 dir: two owners of a name in succession and a failed volume in between. 750,000 states |
| `LifecycleInTurn` | One request after another, almost any Incus call failing: is the status the truth between requests, do recorded volumes exist and outlive a Rebuild, and does every creation leave `creating` (`StatusTruth`, `JoinedVolumesExist`, `JoinedVolumesSurvive`, `CreationSettles`)? Is every operation, call by call, a request of `InstanceBook` (`KeepsBook`)? | 1 process, all operations, 2 names, fairness, no symmetry. 1.3 million states |
| `LifecycleCrash` | Crashes between any two calls: is every storage volume still recorded, and, without a crash, does every container have its row (`VolumesRecorded`, `ContainersHaveRows`)? | 2 crashes, 2 dirs, 2 names: a crash in a repair of a crash. 1.2 million states |
| `LifecycleRebuildHome` | violation: Rebuild repairs a creation that died half-way (`RebuildProvidesHome`) | 1 process |
| `LogStreams` | Lines in order, none lost or doubled unless dropped, no closed subscriber, refinement of `LogStream`, and the end reaches all (`NothingMissed`, `InOrder`, `SubscribersOpen`, `KeepsPromise`, `StreamEndsUncrashed`) | 2 viewers that reopen, 3 lines, channels of 1, 1 crash: a full channel beside one that is not. 69,000 states |
| `AutoStopTimely` | Every operation against the sweep: is a running instance past its deadline stopped within an interval and the stop (`StoppedInTime`)? | 1 instance, time to 8 with a deadline of 1 or 4, an interval of 2. 870,000 states |
| `AutoStopInTurn` | Without overlap: a full timeout after each start, a running container is always listed (`CountedFromStart`, `RunningIsListed`) | 1 instance, timeouts 1, 2 and 3, failing starts and stops. 100,000 states |
| `Operations` | Two requests at once, refused calls and restarts: does a row reach its container, say its status and describe its configuration; do keys follow the owner; are host names distinct; is no volume restored under a running container (`TypeOK`, `RowsReachContainers`, `ConfigFollowsRow`, `KeysFollowOwner`, `HostNamesDiffer`, `RestoredAtRest`)? | 2 instances of 2 users, 2 keys, 2 names, 3 requests or faults: a rename and a transfer that meet, and a failure. 1.4 million states |
| `KeyRings` | Two requests at once with failing writes: is a key available as intended, do files match rows, was access granted (`TypeOK`, `AvailabilityIsIntended`, `DiskMatchesRows`, `AccessIsGranted`)? | 3 users, 1 public, 2 user and 1 managed key, 5 requests: generate, assign, delete and collect. 900,000 states |
| `Templates` | Two syncs at once against edits of files and rows, creations and a restart: do rows follow files, is a change kept pending, is a used template kept (`TypeOK`, `RowsFollowFiles`, `ChangeIsPending`)? | 2 slugs, 2 files, 1 instance, 3 events. 1.3 million states |
| `Repositories` | Two jobs at once, lost keys and restarts: is what is ready a whole clone of its URL, does a deletion leave nothing, does a clone end (`TypeOK`, `ReadyIsCloned`, `NothingLeftBehind`, `CloneEnds`)? | 3 URLs, two of one name on different hosts, 2 names, 4 requests, fairness. 110,000 states |
| `Logins` | Users, sessions, keys and secrets around setups that are cut short: nothing belongs to nobody, keys act for their holders, password and secrets survive, the configuration stays (`TypeOK`, `NoOrphans`, `KeysActForHolders`, `SetupSurvives`, `SetupKeysStay`) | 3 users, 3 keys, 2 setups, 2 jobs, 10 requests: plati-config, start, setup, restart and a login before, between and after. 900,000 states |

The hazards need few actors: two requests suffice for every interleaving that two of them can make
on one row, and a third name, line or instance adds no new guard. Where bounds on the number of
requests are small, the theorems of section 5 make up for it: they hold for any sets and any bound.

**Where a property is stated narrowly.** `StatusTruth`, `JoinedVolumesExist` and
`ContainersHaveRows` speak of moments when no request is under way, and are checked with
one request at a time: with requests that overlap on one instance the code does not keep the first. For any
number of requests on different instances they are theorems (section 5). `LifecycleInTurn` leaves out the failure of `DeleteInstance`, after which a
Rebuild returns with the container stopped and the status unchanged. `VolumesRecorded`
assumes that a volume that is not in use can be deleted, and that a container can be stopped and deleted: Delete ignores
those failures and forgets the record all the same. `ContainersHaveRows` leaves out the
synchronous Create, which returns without its row when the start fails, and crashes.
`StoppedInTime` takes stops shorter than the interval, as the code's 30 seconds and five minutes are.
The properties of `InstanceOps`, `GitRepos`, `TemplateSync` and `Accounts` have the exceptions that
their histories name; `KeyRing` has one, `late`, the file of a key written after its deletion.

## 4. Fairness

- `InstanceLifecycle!FairSpec`: weak fairness of each process's `Step`. A goroutine is
  scheduled and an Incus call answers or fails. No request has to be made, and the liveness run has no crash.
- `CreationLog!FairSpec`: weak fairness of the creation goroutine and of each handler,
  which blocks on its channel only. No viewer has to open or leave.
- `GitRepos!FairSpec`: weak fairness of each job's step. git comes to an end; nobody has to ask for anything.
- `AutoStop` needs no fairness: time may pass only while the worker has nothing to do or
  waits for Incus, so "in time" is an invariant.

## 5. Proofs

Each `...Proofs` module proves its theorems for any values of the constants that satisfy the
named assumptions of the module it extends (bounds are naturals, `None` is no id, key kinds are disjoint, and the
like). TLC evaluates these assumptions in the runs. Every module first
proves `TypeOK` as an invariant, mostly one lemma per action.

| module | theorems |
|---|---|
| `InstanceLifecycleProofs` | for all interleavings `TypeCorrect`, `JoinsAreOwn` (`JoinIntegrity`), `MemoryIsTrue` (`MemoryHolds`), `RequestsKeepToTheirOwn`, `RequestsAdvance`; without crashes `CreationsAreUnderway`; with one server `OneServerSharesNothing` (`NoSharedVolume`), `OneServerFindsItsOwn` (`FoundIsOwn`); for any number of requests on different instances `StatusIsTrue` (`StatusTruth`), `ContainersAreHoused` (`ContainersHaveRows`), `VolumesSurvive` (`JoinedVolumesSurvive`), `NoVolumeIsLost` (`VolumesRecorded`), `VolumesExist` (`JoinedVolumesExist`), `TheBookIsKept` (`KeepsBook`, the refinement) |
| `CreationLogProofs` | `TypeCorrect`, `NoneMissed` (`NothingMissed`), `LinesInOrder` (`InOrder`), `NoneLeftBehind` (`SubscribersOpen`), `Implements` (`KeepsPromise`, the refinement), `StreamsAreServed` |
| `AutoStopProofs` | `TypeCorrect`, `InTime` (`StoppedInTime`), `NothingUnlisted` (`RunningIsListed`), `FullTimeout` (`CountedFromStart`), `TurnsAreApart`, `OtherFieldStays` (`FieldKept`) |
| `InstanceOpsProofs` | `TypeCorrect`, `RowsReach` (`RowsReachContainers`), `RestoresAreSafe` (`RestoredAtRest`), `HostNamesAreOwn` (`HostNamesDiffer`), `ConfigFollows` (`ConfigFollowsRow`), `KeysFollow` (`KeysFollowOwner`) |
| `KeyRingProofs` | `TypeCorrect`, `AvailableAsIntended` (`AvailabilityIsIntended`), `AccessGranted` (`AccessIsGranted`), `DisksMatch` (`DiskMatchesRows`) |
| `TemplateSyncProofs` | `TypeCorrect`, `ChangesArePending` (`ChangeIsPending`), `RowsFollow` (`RowsFollowFiles`) |
| `GitReposProofs` | `TypeCorrect`, `ReadyClones` (`ReadyIsCloned`), `DeletionIsClean` (`NothingLeftBehind`), `ClonesUnderway`, `JobsAdvance` |
| `AccountsProofs` | `TypeCorrect`, `NobodyOwnsNothing` (`NoOrphans`), `KeysAreTheirs` (`KeysActForHolders`), `SetupOutlivesRestarts` (`SetupSurvives`), `SetupIsFinal` (`SetupKeysStay`) |

**The arguments.**

- *Lifecycle.* `JoinIntegrity` is not inductive: a join row is inserted with ids and a name that were read
  calls ago, and rows may have been deleted and made since. `IInv` adds `UniqueKeys` (no two rows of one server and
  name) and, for each process, `MemoryHolds`: it holds the ids that the code needs at its label (`Placed`), and what it
  remembers is still about the same instance and volumes, alive or deleted (`Remembers`). That works since ids are never reused
  and keys never change (`IdsKept`), and `MemoryKept` carries the memory of the *other* processes over a
  step. On one server a volume's name and the uniqueness of instance names determine its owner.
  `SInv` adds what the constraints of Incus and the database keep for any number of requests: the labels of each operation (`OnCourse`),
  one record per volume (`RecordsUnique`), and no volume removed under a container (`IncusSound`).
  `RequestsKeepToTheirOwn` follows from it: a step leaves every container, device, volume, row, record and join of another key alone
  (`Elsewhere`).
  The next six theorems read `Spec /\ []Apart => ...`: they hold of every behaviour in which no two requests under way concern the
  same key, with as many requests at once as one likes. That is a condition on the users, not on the code, and with the one
  process of the runs it always holds; without it TLC refutes the first. Since whatever another request does is `Elsewhere`, it is enough to follow each one: `RowInv`
  says at which labels its row exists or is gone, `VolumeInv` that a record just made is nobody's yet, and `RowsInv` and
  `VolsInv` say so of all. Each theorem adds one part, stated for the rows outside of a set `E` of keys that are being worked on:
  `TruthInv` says where the row may lie and what the container then is (`InDoubt`, `Started`), `HousedInv` and `Stilled` that a Delete takes
  the row away only from a container that it can delete, `RecordInv` and `ExistInv` which volume and record are apart at which
  label; `AllTruth` to `AllExist` put them together over all requests.
  Crashes are allowed where the theorem does not say `MaxCrashes = 0`; the faults that it excludes are among those that the run of
  its property excludes.
  The refinement of `InstanceBook` uses `VolsInv`, `AllTruth` and `CreatingIsUnderway`: `BookTake` is the step that begins a request,
  `BookLive` and `BookHeld` are its steps, `BookHomes` (over `JoinsKept`) says which homes may come and go, and `BookTruth` that one that ends leaves the
  truth.
- *Towards liveness.* The provers know no fairness, but each liveness property has a half that needs none. Who waits, waits for
  somebody: a row in `creating` for a request that will decide it (`CreatingIsUnderway`), a row in `pending` or `cloning` for its clone
  (`ClonesAreUnderway`), a stream on an open and empty channel for the creation goroutine (`WaitsForWriter`). And whoever is waited for
  comes closer: a step of a request ends it or makes its phase, its dirs still to do and its call smaller in a well-founded order (`Closer`), a
  step of a job ends it or leaves fewer steps (`JobsMove`), and nobody else sets either back. What fairness adds is that the steps are taken.
- *Creation log.* `ManagerInv` relates the entry to the channels, `Attached` a view to its channel, `Ordered` and `Whole` say that
  replay, channel and lines sent make up the log. For the refinement, `StateOf` and `LastSeen` are the
  mapping, one lemma per abstract step shows which it is, and everything else stutters.
- *Auto-stop.* `SweepInv`: there is a time `m`, the tick of the last sweep, such that the clock is
  within an interval of it (`Paced`) and no exposed instance has been due since before `m`, or is in the
  sweep's care (`Current`). `InTime` assumes that the stops of one sweep fit into an interval together
  (`Cardinality(Insts) * StopTime <= Interval`); with the code's 30 seconds and five minutes that is ten
  stops. `NothingUnlisted` and `FullTimeout` read `Spec /\ []SleepApart => ...`: an instance has one request at a time, and none
  while a sweep has listed it or is stopping it (Rebuild and rename are left out, see section 6); requests and sweeps about different instances overlap as they like. `TurnInv` says how far
  each request is from `Rest`, a running container whose row says so and whose timer
  was started after it, and that the sweep's list stays due; since a step about one instance leaves the others as they are, it is enough to
  follow each request (`Outcome`). `TurnsAreApart` proves `SleepApart` of `InTurn`, the setting of the run. `OtherFieldStays` assumes of overlap only that two updates of one
  instance's policy do not (`UpdatesApart`): what an update will write is the row's policy but for one field (`PoliciesFresh`).
- *Operations.* `AllSettled`: where the one request on an instance stands tells how far row
  and container are apart; steps for other instances leave the container alone or put the instance into `loose`. Besides it
  `OneContainer` (an instance has at most one) and `NamesInv` with `ChosenFree` (a name being written is
  free or the account is in `raced`). On the same plan `ConfigInv` and `KeysInv` say what host name, limit and keys the container
  that the request works on (`Body`) has at each place of each kind of request (`OnTrack`); renaming, starting and stopping
  leave all three alone (`Calmly`).
- *Keys.* `Core` adds to the types what rows and requests have in common (`RowsProper`, `RequestsProper`), and `Kept` says that users of
  rows stay and that `opened` and `invited` only grow, which carries what a collection has read
  to the moment it writes. `FilesFit` covers the deletions still to come.
- *Templates.* `Watched` for the timer; `SyncInv` says how much of the rows already follows the
  files at each label of an undisturbed sync (`AtFile`, `AtWrite`, `AtClean`), which there is only one of.
- *Repositories.* `JobsOwn` (a job works on the directory and URL of its row) and `NamesKept` (a row whose name is
  not its directory's has been renamed) hold except in `mixed` directories; `Tidy` says that every other directory is `Tended`,
  as far along as its row and jobs say, or `Left`, with nothing remaining once a deletion is through.
- *Accounts.* `SetupInv` is `AloneInSetup` and `ConfigKept`: where a single setup stands determines file, memory
  and setting. `Handed`: secrets handed out are numbered below `tokens`, so that a new one is nobody else's.

Two corrections came from the proofs. The mapping of `KeepsPromise` had an ambiguous
`CASE`, which TLC resolves by taking the first and a proof cannot; and `StoppedInTime` for several instances needs
the assumption above, which the single instance of the run satisfies unnoticed.

**Only model-checked**: liveness itself (`CreationSettles`, `StreamEndsUncrashed`, `CloneEnds`), out of the
provers' reach. Every safety property of a passing run is a theorem. The type invariants of
`InstanceLifecycle`, `CreationLog` and `AutoStop` are proved and in no run.

## 6. Where code and documents disagree, and what the properties leave out

With a run, quoted in `PROJECT.json`: a Rebuild hands back a container without its home after a
creation whose start failed.

Defined in the modules, refuted by TLC when asked, and in no run:

| definition | what the code does |
|---|---|
| `InstanceLifecycle!FoundIsOwn` | with two servers a creation records another server's volume as its own (`GetVolumeByName` names no server); with one it cannot (`OneServerFindsItsOwn`) |
| `InstanceLifecycle!DeleteLeavesNothing` | deleting an instance whose creation failed before its joins leaves its volumes |
| `InstanceLifecycle!WithinCapacity` | rows in `error` are not counted; starting them exceeds `max_instances` |
| `CreationLog!StreamEnds` | after a restart a creation stream tails for ever |
| `CreationLog!EndsWithLog` | `finalize` writes the status before the log: a stream opened in between says ready without a line |
| `AutoStop!CountedFromStart`, with Rebuild or rename | a rebuilt instance is stopped by the next sweep, where `README.md:259-260` counts from the last start |
| `AutoStop!StopsOnlyDue` | the worker stops what it has listed, also when the timer was reset since |
| `AutoStop!RunningIsListed`, overlapping requests | a Start between the worker's two calls leaves a container running that no sweep lists; requests and sweeps that meet on no instance do not (`NothingUnlisted`) |
| `AutoStop!FieldKept`, overlapping requests | two updates of different fields: the second restores the other field; if they do not overlap it stays (`OtherFieldStays`) |
| `AutoStop!ShownDeadline` | a Rebuild after a failed creation is due at once while no deadline is shown |

What happens in the cases that the histories except:

- *Operations.* A request that holds an `incus_name` read before a rename reaches whichever container has it now, perhaps another
  instance's. A rename that a transfer overlaps writes `... AND user_id = ?` for the old owner: zero rows, no error. A
  restart between `RenameInstance` and `UpdateInstanceIncusName` leaves the instance unreachable. `UpdateIncusConfig`
  with an empty limit takes the container's limit away while the row then says the template's (comment at `instance_service.go:1920-1922`). Keys
  that the previous owner deleted before a transfer stay authorized, as do all in an instance that is
  stopped. Two concurrent renames may choose one host name.
- *Keys.* A user's directory holds one private key, that of the last pair. Generate and Delete at once may leave
  the file of a key that is gone. The deletion of the last user that a managed key is assigned to makes it everybody's
  (`queries/plati_keys.go:104`). ReapplySetup writes over a granted `authorized_keys`, and an empty list leaves the old one.
- *Templates.* A change between the first sync and the watcher is missed. Overlapping syncs may leave stale rows or mixins. SaveToDisk truncates
  first: a sync in between makes a template with a blank slug; each save adds the mixins' commands once more and drops `incus_config`.
  The documentation page of the frontend (`docs/templates/+page.svelte:280`) says that a duplicate slug is
  skipped; the code lets the last file win.
- *Repositories.* A renamed repository is copied from the directory of its new name (`repo_service.go:174-179`,
  `instance_service.go:273`). A chosen managed key that is deleted blocks all of git, a generated one notwithstanding. A restart leaves `cloning` for good. Without
  a ready row a directory will do, half a clone as well.
- *Accounts.* A secret stored between setup and restart is encrypted with the old key, left out silently
  afterwards, and `needs_restart` may say no. Two setups at once may leave password and file different. A session keeps the
  role of its login; an API key has that of today. The administrator of the migrations can be deleted, after
  which the setup's password lets nobody in.

## 7. Not modelled, and why

Quick links, sshx, the terminal and debug relays, the frontend, the landing page and the deployment scripts: I/O
and presentation, without state that two steps share. Of components that are modelled partly: SyncServers (one upsert per
server at the start), the copy of files that ends a Duplicate (best effort, and no state of the model changes), making and
deleting snapshots and browsing volumes (single calls to Incus), setup scripts but for the keys they write, decoding and
route authorisation in handlers, migrations, the order of shutdown. Errors of the database other than constraints (a full
disk, a locked file) and panics are not explored. `InstanceLifecycle` keeps templates and their
persistence dirs fixed while an instance lives, and `TemplateSync` knows of an instance only that it
holds its template. Cryptography is a key's identity.

## 8. What could come next

1. What the lifecycle keeps when requests overlap on the same instance, beyond `JoinIntegrity` and `MemoryHolds`.
2. `Duplicate` with its copy, composed with `InstanceLifecycle` and two servers.
3. `SyncServers` and capacity, with rows in `error` counted or not.
4. `InstanceLifecycle` with templates that `TemplateSync` changes.
