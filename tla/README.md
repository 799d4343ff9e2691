# A verification development of Potato Launcher

Potato Launcher installs, updates and starts Minecraft instances that a team
publishes through a small build server. This directory holds TLA+ models of the
parts of it where order, failure or concurrency decide whether it works, the TLC
configurations that check them on small instances, and TLAPS proofs of the main
results for every value of the constants.

- Part 1: the system, component by component
- Part 2: the modules and how they correspond to the code
- Part 3: the runs, their bounds, the fairness they assume
- Part 4: what is proved, from what, and how
- Part 5: where the code and what is said of it differ
- Part 6: what is not modelled, and what could come next

`PROJECT.json` has the same in a form for tools: components, runs, mutants (a
plausible bug for each checked property, which its run must find), the lines every
definition models, hazards, findings and theorems.

## 1. The system

The launcher is one process. A desktop interface (`crates/frontend`) sends
messages over an unbounded FIFO channel (`crates/bridge`) to the backend event loop
(`crates/backend/src/lib.rs`, `run`), which answers with messages the interface
displays. The loop owns all state and handles one message or one event at a
time. Whatever takes time runs in spawned tasks, which talk back only through a
second FIFO channel of events. The build server (`backend`, in Go) is another
process: it edits one spec file, runs the instance builder
(`crates/instance-builder`, `crates/generate`) on it and streams the builder's log.
The builder turns the spec into a directory of metadata and files, which
launchers read over plain HTTP while it is rebuilt.

| Component | State | Operations | What is hard | What makes it correct |
|---|---|---|---|---|
| Backend event loop (`backend/src/lib.rs`) | the maps `activities`, `creating_local`, `install_errors`, `launch_errors`, `launch_after_install`; `auth_instance`; the instance storage | install, create, retry, cancel, delete, launch, kill, authenticate, resolve Java, refresh, delete everything; the events from tasks | an event names an instance and not the task that sent it, so it can arrive after the task was aborted and another was started; an abort takes effect at an await | one worker per instance; a busy instance becomes idle again; a game that is shown is watched; memory agrees with the disk |
| Install and launch tasks (`install.rs`, `launch.rs`, `local.rs`) | where the task stands; the kill channel; the child process | authenticate, sync, save metadata, start the game, wait for its exit or a kill | every early return must report; a dropped sender is a kill; a launch needs what an earlier sync left | the end is reported; a kill takes effect; the command of a launch names only what is there |
| Instance sync (`install.rs`, `instance/src/mod_sync.rs`, `instance_metadata.rs`, `config_options.rs`) | mods, files, shared resources and natives on disk, the recorded metadata | plan, delete, check, download, link, set options, mark, extract, record | changes by the user between syncs; a sync that is cut off; overlapping rules | the user's own files survive; what is published is there; markers tell the truth |
| Task progress (`tasks.rs`) | rows with current and total | append, increment (throttled), finish | dropped increments | the last state of a row is sent |
| Instance storage (`instance/src/storage.rs`, `utils/src/files.rs`) | descriptors on disk, in memory, directory names | load with recovery, save, remove, choose a directory | crashes between the steps of a save; a name chosen from a snapshot | a descriptor that was saved is found again; no two instances in one directory |
| Adaptive download (`utils/src/adaptive_download.rs`) | list of files, downloads under way, concurrency, timeouts | spawn, succeed, retry, give up, be dropped | the retry loop must neither lose a file nor run for ever | Ok means complete; exact progress; bounded retries |
| Accounts (`auth/src/storage.rs`, `flow.rs`, `backend/src/lib.rs`) | accounts, provider configurations and their ids, in memory and in a file; flows; the prompt | add, remove, choose, refresh, look up, log in, cancel | a bounded loop over tokens that expire; a flow that ends after the account it is about changed | one account per key, tokens with their user, the account shown is the account played |
| Catalog (`backend/src/catalog.rs`) | manifest and fetch status per URL, the cache, the URL list | fetch, refresh, add and remove a URL | answers late, out of order or never | a known manifest is kept; what is offered can be installed |
| Instance views (`backend/src/instances.rs`) and buttons (`frontend/src/pages/instances.rs`) | none | projection of the loop's state | every state must be shown as one the user can leave | a button that is shown is not refused |
| Instance builder and generator (`instance-builder`, `generate`, `instance`) | the served directory | build metadata, download, copy, mirror Java, save, clean up | launchers read meanwhile; a build may die | what the manifest lists is served, for every platform, but for what is being replaced |
| Self-update (`backend/src/update.rs`) with the upload (`backend/internal/api/launchers.go`) | binary, version file | upload, compare, replace, restart | two files written one after the other | an update ends in the version it was for |
| Build server: runner (`services/runner.go`) | `running`, `status`, the builder process | start a build, stream its output, finish | one build at a time; early returns | the server becomes free again; the log is in order |
| Build server: store (`storage/store.go`, `api/instances.go`, `api/settings.go`) | the spec file | read, update | truncate and write are two steps; the runner writes without the lock | an edit that was answered stays, unless a build undid it |
| Build server: hub (`services/hub.go`) | the clients' map and channels, two goroutines per client | register, broadcast, unregister, pump | slow, stalled and vanishing clients | an ordered stream without gaps; no panic; no leak |

The hazards of each, at their lines, are in `PROJECT.json`, with the properties
that cover them or the reason why none does.

## 2. The modules

### InstanceLifecycle, InstanceViews: the event loop, its tasks and what is shown

One action per message of the interface (`StartInstall`, `StartCreateLocal`,
`RetryCreateLocal`, `CancelInstall`, `DeleteInstance`, `StartLaunch`, `KillLaunch`,
`CancelAuth`, `SetLaunchAfterInstall`, `UpdateInstanceSettings`, `ResolveJavaPath`,
`Refresh`, `DeleteAllLauncherData`), one per event (`HandleInstallFinished`, ...),
and the steps of the tasks between two awaits (`Authenticate`, `FilesReady`,
`MetadataSaved`, `StartGame`, `KillGame`, `ReportExit`, `Fail`, ...). The maps of
the loop are variables of their names; `events` is the internal channel; `task[t]`
says where task t stands; `killed` and `game` are the kill channels that are ready
and the processes alive. An abort ends a task at the await it stands at.

The loop takes from two channels with an unbiased `select!`, so a message may be
handled before events that were sent earlier, and an event on the entry of a task that did not
send it: nothing in the model keeps messages back. `DiskFaults` says whether saves and deletions may
fail. Three histories name what such orders and failures do: `misled` (tasks whose
entry an event of another task has removed or changed), `shown` (launches whose `LaunchStarted` was handled on their
own entry) and `lost` (instances whose descriptor went with a save or a deletion that failed half-way, or is in the
directory that the clean-up of their cancelled creation is about to remove). No action reads them; the properties state their exceptions with them.

`InstanceViews` is the projection of the loop's state into what the interface shows
(`build_instance_views`) and the buttons it draws for it: pure operators on a record
of inputs. `MCLifecycle` feeds it the loop's state, with everything the catalogs and
the accounts may say; `Catalog` feeds it the manifests.

### InstanceSync and the planners it is made of

- `ModSync` is the planner of `mod_sync.rs`: which jars to delete, check, download and
  link, for delta and mirror modes, with required, optional and blocked mods, and what the
  user is warned of. Operators on the view the planner has.
- `ContentRules` is the part of `instance_metadata.rs` that turns rules into checks and
  deletions: which rule is skipped, which of two overlapping ones wins, which files are extra.
- `ConfigOptions` sets options in a document and leaves the rest of it; documents are trees.
- `Generator` is the other end (`generate`): the entries and rules a release gets from the
  author's directories, and the checks that refuse contradictory policies. `MCInstanceSync`
  makes its releases with it, so that nothing is published that could not be.
- `InstanceSync` carries a plan out, one deletion, download, link or file write at a time, while
  the user edits files, the publisher publishes and the launcher may end between any two steps
  (`Stop`). The record `meta.json` is written last, in two steps. The directory of the natives is removed one entry at
a time (`ClearNatives`, `RemoveNative`, `NativesCleared`), its marker among them.

Histories: `cut` (a sync ended while it removed the natives, and none has removed all of them since), `touched` (mods the user
changed, or a set he switched), `left` and `lost` (what an interrupted
sync had done, and what the record names and is not to be there), from which `sync.undone` is taken at the start of the next.

### AccountChoice, AuthFlow, Accounts

`AuthFlow` is the loop of `perform_auth`: the operators give, for each answer of the user
or of a server, the flows it leads to or the error that ends it. `AccountChoice` is the
decision which account an instance uses, made once for the interface
(`effective_account`) and once for a launch (`resolve_instance_account`). `Accounts` has
the storage with its ids and its file, the flow of the user who adds an account beside
those of instances, the prompt they share, and the handlers of the loop. A save may fail and the
launcher be started again.

### Catalog

A fetch is a task with one answer, and answers are handled in any order, also after the URL
they belong to was removed. Writes to the cache are tasks of their own. URLs are added and removed, the
settings file is saved or is not, backends publish anew and are away, installs resolve their plan
against the manifest known at that moment. The instances stored from a URL keep it visible when it is
removed (`Referenced`).

### Libraries, Publishing, Launching: from the spec to the game

`Libraries` is which files of a version a platform needs: rules, artifacts, natives, overrides of
`lwjgl`, merged versions, the client, asset indices. The builder computes it for all platforms at once
(`All`), a launcher for its own; that they agree is what the composition is about.

`Publishing` is the builder: it generates metadata, downloads, copies, mirrors Java, saves the
metadata of each instance, then the manifest, then deletes all the files the new build did not name.
A file that is replaced (a metadata file, the manifest, an asset index) is removed and then another renamed to
it (`WithdrawMetadata`, `PutMetadata`, ...); the history `away` holds those removed and not back.
A build may die between any two file operations and is followed by another spec.

`Launching` extends it with one launcher on one platform that refreshes, syncs in full or as part of
a launch, extracts natives, finds a Java and starts the game.

### LogStream, BuildHub, BuildServer: the build server

`BuildHub` is `hub.go`. A rendezvous with `Run` on one of the hub's unbuffered
channels is one step with its handling, since `Run` never waits for a client.
`BuildServer` extends it with the spec file, the handlers that edit it and the build.
`os.WriteFile` is two steps, truncate and write, and a second writer in between may
leave a mixture of both texts. The build reads through the store and writes without its lock, at any
point of an edit. Four histories follow the edits: `acked` (what the edits answered with success say), `since` (the instances
edited since a build read the spec it will write back), `clashed` (requests that read or rewrote the file while a build
rewrote it) and `doubted` (instances whose last edit one of these has undone, or may have).

`LogStream` is the abstract specification of the hub: a client receives, in order and
without a gap, what is published from its registration until it is let go, and then
only what it was already owed. `ServesLogStream` is the refinement: the clients that are
owed messages are `h.clients`, and the last position a client is owed is where it
registered, plus what was written to it, plus what its channel holds.

### AdaptiveDownload: the downloader

The loop of `download_files` with its controller. Since the futures are polled by
the loop itself, the end of a download and the handling of its result are one
step. A download is waiting for its response, receiving its body, or ended:
successfully, in a way that may pass (the file waits again), or for good (the loop
returns and drops the others). The success rate and latency of the two-second
window are any, because a window may hold nothing but the last result. The numbers of
the code are constants of the same names.

### InstanceStorage: the instances on disk

The `instances` directory of the launcher and the vector of the loop, with the
loop's handlers that choose a directory (`UpdateSettings`, `StartInstall`,
`CreateLocal`), save (`InstallFinished`, and the same `UpdateSettings`), delete
(`DeleteInstance`, `DeleteEnds`) and read everything again (`Load`, `Read`,
`Rehandle`, `Recover`, `LoadEnds`). A save is what `write_file_atomic` does: a temporary file
(`WriteTemp`), the old file removed (`RemoveOld`), the new one renamed (`Rename`); the launcher may
die (`Crash`) or an operation fail (`WriteFails`, `DeleteEnds`) between any two.
Installations and the removal of a cancelled creation's directory (`Clean`) are tasks of
their own and go on while the loop awaits. Between two runs of the launcher the user may
copy a directory or a descriptor may be damaged, which gives `load` its repairs.
Two histories are kept: `data`, the directories in which the user has made
something, and `doubt`, the directories touched by an operation that failed since the
launcher started.

`OneAtATime` and `Patient` are assumptions about the user: starting nothing that takes a
directory while another such thing is pending, and cancelling nothing that has just
ended. The code needs both, since a name is chosen when a task starts and stored when it has
ended.

This module and `InstanceLifecycle` overlap in the handlers, each with the half of
their effects it is about: the lifecycle has activities, errors, events in order and one bit of disk
for each instance; the storage has directories and files and leaves errors, launches and the order of
events out. `InstanceSync`, `Accounts` and `Catalog` reduce an instance's life to what concerns them, and say so
at their heads.

## 3. The runs

Deadlock is checked in StorageCrashes, where the user may always do something more. It is not
checked in the others: bounds (tasks, builds, requests, edits) end behaviours, and each of
these systems may rest.

| Run | Instance | States | Question |
|---|---|---|---|
| LifecycleRemote | 1 published instance, 2 tasks, fair | 137,787 | one worker; an end to every activity; no refused button; reports and kills take effect |
| LifecycleLocal | 1 local instance, 3 tasks, 1 snapshot per task, failing saves | 2,248,246 | memory and disk; creations in no storage |
| LifecycleRacing | 1 published, 1 local, 2 tasks, failing saves | 1,864,058 | stoppable launches; supervised games |
| BuildLog | 1 client with a channel of 1, 2 requests, 1 build, 1 line per stream, fair | 196,628 | the hub's promise; the build ends; gone clients are forgotten |
| BuildSpecFile | 2 instances, 3 requests, 2 builds, 1 line per stream | 766,814 | edits are kept, or undone by a build; one build; its log in order |
| AdaptiveDownload | 3 files of sizes unknown, 0, 1; concurrency from 4, at most 5; updates every 5, 2 timeouts | 440,034 | complete, exact, bounded, ends |
| StorageCrashes | 1 published and 1 local instance of the same id, 3 names, 2 faults, one at a time, patient | 963,321 | disk and vector agree; no shared directory; nothing of the user's is lost |
| InstanceSync | 3 releases, 3 mods in 4 jars, 5 files, 2 resources; 1 edit, 1 stop, 1 new release | 1,814,241 | what is published is there; what the user did is respected; natives are whole but after a removal cut off |
| SyncInterrupted | the same | violation | a mod that an interrupted sync loses |
| Accounts | 3 providers, 2 users, 1 instance; 2 flows, 2 edits, 1 mishap, 5 rounds | 875,362 | sound storage, tokens, the account played, room for another log-in |
| Catalog | 1 URL, 1 id, 2 versions, 3 fetches, 3 mishaps | 1,780,940 | a known manifest is kept; Fetching means an answer is due; offers can be installed |
| Launching | 3 specs, 2 of them built, 2 platforms | 269,808 | what is listed is served but while it is replaced; launches find what they name |

Why the bounds are enough to be of interest:

- Two tasks are enough for a stale event of the first to meet the entry of the second, three for
  a third (a launch after an install, a Java probe) to run beside them; the local run has three. Every order of messages and
  events is taken in all three runs. Instances share nothing in the loop except `auth_instance` and the
  channel; the racing run has two of them for that reason. Failing saves are in the local and the racing run; the remote one
  asks about entries and buttons, which a failing save of a published instance changes only by an error it shows, and the
  proofs cover both.
- A channel of capacity one makes every client slow, so cutting off, closing and a
  late unregistration all occur with a single message more than it holds. Three
  requests are two edits and a build, or an edit and two builds. Instances and requests are
  interchangeable, so BuildSpecFile is symmetric in both (`MCBuildServer`).
- With three files, all waiting at concurrency one, the controller goes through every value
  from 5 to 1 and back; the counters of the code (5 and 2) are kept, only
  `MAX_CONCURRENCY` is 5 instead of 50, so that it is reached. Body chunks of one byte with
  sizes 0 and 1 make bodies shorter than, equal to and longer than what the manifest says.
- Two faults are two crashes, each in the window of a save, a crash and a damaged or copied
  directory that the next start repairs, or a crash and a failing operation; the properties are
  about every state, so that the next crash after them is covered. With one id for all, every name after the first is
  given because another is taken. The handles `load` gives out are interchangeable, so the
  run is symmetric in them.
- A sync depends on the past only through the record and the directories. One new release between
  syncs, in either mode and in any of the three orders, with one change by the user and one end of a sync, gives it
  every kind of past: a renamed mod, one that became required, optional or blocked, one the
  user removed, options that were already set, natives that grew and shrank. Any number of syncs is made;
  `MaxEdits`, `MaxStops` and `MaxReleases` bound only what happens to them. `Careful` says that a launch
  happens as the interface offers it, of what is installed and not outdated.
- The rounds of `perform_auth` are 5 instead of 10: a full circle of refresh, look up, log in and look up again,
  and the end of the loop. Three provider ids leave each of two flows one to draw. One mishap is a failed save, a
  restart, or a changed requirement.
- Nothing couples two URLs but the URL list and a refresh, which treat each alike: the run has one URL, with three fetches
  of it under way. A mishap is a new manifest, a failed answer or write, or a restart.
- Two builds of three specs are every change of a spec there is in them: libraries, natives by a patch, the asset index
  under the same name, Java, mirroring, an instance that goes. Java archives exist for one of the two
  platforms; the other plays with a Java of its own or finds none. Files of a step come and go in an order of their own,
  not in all orders: until the step is over the metadata that names them is not saved, and what is there early or
  late is only more than is needed.

Fairness, and why the code justifies it:

- `InstanceLifecycle`: the runtime polls every task and the loop receives every event (`select!`
  without `biased` takes both channels). Nothing is assumed of the user, of an
  authentication that waits for the user, or of a game.
- `BuildServer`: goroutines are scheduled. Requests, the builder and the peer of a
  connection owe nothing: `BuildEnds` therefore says "or the builder runs for
  ever", and a stalled connection may stay stalled.
- `AdaptiveDownload`: a download moves on. A body that stops is cut off after
  `REQUEST_TIMEOUT`; for the wait for a response this is an assumption about the peer,
  since the code sets a timeout for connecting and none for the response
  (listed as a hazard).
- `Accounts`: the loop handles what is sent to it, and a task that was cancelled is polled. Nothing is
  assumed of the user's answers or of a server's, which is why `AddEnds` is about an addition the user
  cancels.

## 4. The proofs

TLAPS checks the following, for any finite or infinite sets of instances, clients, mods
and files and any values of the bounds, from the hypotheses a theorem states, which are
explained below with it, and the named assumptions on the constants (`LifecycleAssumption`, `HubAssumption`, `ServerAssumption`, `DownloadAssumption`,
`ModAssumption`, `RuleAssumption`, `SyncAssumption`, `MetaAssumption`, `SpecsAssumption`,
`IndexAssumption`, `AuthlibAssumption`, `BoundAssumption`, `WantedAssumption`, `NoneAssumption`,
`CatalogAssumption`, `FlowAssumption`, `AccountsAssumption`, `StorageAssumption`). A type invariant that is proved is not
checked by a run again.

**InstanceLifecycle_proofs.** `TypeCorrect`: TypeOK is invariant. It is not
inductive alone: an event is typed only if the task it names was spawned, so
`Typed` adds that the task an entry names was. `LaunchesCanBeStopped`: a launch under way is killed or
is named by an entry that holds its kill sender. The strengthening `StopInv` adds
that the entry of an install holds no kill sender, so that losing one never loses a
launch. `CreationsAreNotStored`: a local instance under creation is stored nowhere,
in any order of messages, with failing saves. The strengthening `KnownInv` says
that entries and events only name handles that are known, and that an unknown local
handle is in no storage: the fresh handle of a creation is new.

The rest rests on one invariant, for every order of messages and events. `WorkInv` has a part for each thing that can go
out of step. `Entries`: an entry names a task of its own instance and kind that was not aborted, and a launch it names can be killed or has been.
`Workers`: a task under way is named by its entry, unless it is `misled`. `Games`: a game that is shown is named by its
entry, or is being killed. `Mail`: an event that ends an activity comes from a task that is done, one
that announces a game from a task that has started one, so that an abort, which sends nothing, is the only way to end without one.
`Endings`: an entry has a task under way, is `Mistaken`, or has its closing event in the channel. A step either leaves an entry and
the task it names alone, or removes the entry, or gives it to a task spawned in that step (`EntrySteps`, `NewTasks`), which is
shown action by action; that the invariant is kept is then shown once, from this. `OneTaskAtATime` and
`BusyInstancesAreFreed` are read off. `DiskInv` adds what is on disk, of every instance that is not
`lost`: memory and disk agree (`MemoryIsOnDisk`), the directory of a cancelled creation holds no
instance (`Cleaned`), and what is being launched is installed (`Launched`). A deletion needs an idle instance, so a
game's files stay (`GamesAreSupervised`). `ButtonsAreAnswered` compares what is shown with what the loop accepts, in any state of the invariant. A local
instance is not in that theorem: its "Retry" can be refused (Part 6). No theorem of this module has a hypothesis besides `LifecycleAssumption`:
the exceptions are in the properties, and Part 5 says what they are in the code.

**BuildServer_proofs.** `HubServesLogStream`: the server implements LogStream. The
invariant `HubInv` has three parts beside types: a connection that was never made
left no trace (`Unconnected`), the buffer continues the log exactly where the
connection stands and reaches its end while the client is registered (`NoGap`), and
no registered client's channel is closed. Each step of the server either leaves the
hub alone or is one of Publish, Register, Leave, Write, WriteClose and Peer, and each of those is a step
of LogStream or a stutter. `ServerNeverPanics` follows from the same invariant.
`BuildsAreExclusive`: at most one build is under way, and the runner is busy
exactly then. `LogsAreInOrder`: the log of a build begins with its announcement and ends with its end, although that is
sent after the runner is free. `LogInv` adds in which phases a build has nothing in the log yet, or its end already, and
that lines still to be logged are those of a builder `execute` waits for. `EditsAreKept`: once nobody rewrites the file, it says of
each instance what its last edit says, unless that edit is `doubted`. `SpecInv` says what everyone knows who will write the file: a request that holds
the lock knows all edits but what it changes itself, unless it has clashed with a build; a draft knows
the edits up to its reading, `since` tells the later ones (`Preparing`); two writers at once have clashed, and while the text they leave may be
mixed everything is doubted. Each step of a request or a build is shown to keep it; the other steps do not touch
the file (`SpecUntouched`).
`TypeCorrect` adds what bounds a channel (`Fits`), that one request at most holds the lock
(`Filed`) and that no line is counted twice on its way from the builder to the log (`Printed`).

**AdaptiveDownload_proofs.** `OkIsComplete`: Ok means every file is in place. What makes
it true is that the concurrency never falls below one, so whenever something
waits something is active (`Spawns`), and that no file is lost (`NothingLost`).
`FailuresAreBounded`: failures in a row stay below
`UPDATE_CONCURRENCY_EVERY * (MAX_CONCURRENCY - 1 + MAX_TIMEOUTS_AT_MIN_CONCURRENCY)`.
The invariant `Budget` counts what is spent: a failure that counts lowers the
concurrency or is one more timeout at the lowest, `UPDATE_CONCURRENCY_EVERY` failures
apart. `TypesHold` bounds the controller's counters. `ProgressStaysExact`: a sum of sizes is the cardinality of a
set of bytes (`SumOf`), so that a file more or less is that many bytes more or less without an induction (`AddSum`, `DropSum`);
`Tidy` adds that a file is in one place, and that only a response that is being read has counted anything.

**InstanceSync_proofs.** `TypeCorrect`, for any releases that satisfy `MetaAssumption`. On it rest two
arguments. About the plan: what a sync may delete and download is fixed when it starts, and while nobody else
touches the mods directory, which `quiet` tells, what is left of the plan fits it. `DeletesFit` says that a jar
still to be deleted is one some manifest speaks of, or warned of; `TasksFit` that a mod still to be downloaded is required, new to
the record, there in another jar, or was taken away by this sync. The three action properties follow: in a delta no jar of a foreign mod is
touched (`OwnModsAreKept`), no removal goes untold (`RemovalsAreTold`), and a removed mod is not downloaded
again (`RemovedModsStay`). About the natives: `NativesInv` says that the marker is gone while they are extracted (`NativesAreWhole`) and
that from then on they are those of the metadata being recorded (`NativesAreRecorded`), whether they were extracted
or skipped for a marker that names them; both except for `cut`, a removal of the directory that was cut off and may have left
the marker and not the natives.
`ModsAreAsPublished`: after an update nobody interferes with, the mods are those published, whatever releases, edits, switches and ends
of earlier syncs came before. A sync starts from what the last ones left, so the invariant `Mods` has a half for each.
`RecordInv`, at any time: the directory holds what the record says (`Followed`), no mod twice (`OneJarEach`), and the cache what was
published under its name (`CacheTells`), but for the mods that were `Disturbed`, by the user or by a sync that has not
recorded yet. `SyncInv`, from the start of a sync to its new record: each part of the plan is done, is still to be done, or is about
a mod that was disturbed (`PlanFit`: a normal mod in place and alone, an optional one linked from the
cache and alone unless a delta brings it in a new build, what must go gone). A delta looks only at what changed between two
manifests, which is enough exactly because the old one
is followed (`PlanStart`). Each kind of step is a change of the directory that says which mods it disturbs (`Accounted`), and
`PlanDone` reads the property off an empty plan. The theorem has three hypotheses on the constants, all of which hold in
the instance TLC checks. `NamesTell`: in all releases a jar's name and its contents determine each other; a planner that compares
contents only leaves an unchanged mod under its old name. `HashesChecked`: no release uses `mirror_fast`, which keeps a wrong file of the right
size. `Careful`: an instance that is outdated is not launched, since that would record the new manifest without following it.
`FilesAreAsPublished` is about a single sync. `FilesFit` says of its plan, for each rule that is applied by every update, that a file the rule
supplies is to be checked or is there and stays (`Supplied`), that one it overwrites is to be checked or is as published
(`Overwritten`), and that an extra one is to be deleted, belongs to a rule, or is a marker (`ExtrasGone`). A plan is made so (`FitStart`),
deletions and downloads keep it so (`FitDelete`, `FitWork`), options and markers are written to files that some rule is about (`FitSet`), and at the
end nothing is left to be done (`FilesDone`). That extra files are looked for only in a directory that is there needs `DirsHold`: a
file is in directories that exist. Two hypotheses, which hold in the instance TLC checks: `MarkersApart`, no rule publishes a
completion marker; and `SuppliesKept`, a file of a rule is not deleted as extra on behalf of an earlier one. The generator
gives each file to the most specific rule, once among those that overwrite and once among the others; what the hypothesis leaves out
is a file of both kinds, whose more specific rule is skipped or only sets options, and which the sync neither keeps nor supplies
again (`instance/src/instance_metadata.rs:550`).

**Publishing_proofs.** `ServesAlways`: throughout any builds, those that die included, the manifest, the listed metadata and what a listed instance needs is
served for every platform, except manifest, metadata and indices that are `away`, removed to be replaced and not back. It has two
halves. One is data: what a launcher of some platform looks up is contained
in what the builder checks, copies, mirrors or fetches for all platforms at once (`HostedIsKept`), through
rules, natives, overrides, merged versions and both ways of mirroring. The other is the order of steps: while a build runs
everything the old metadata names stays; before the first metadata is saved everything the new one
names is there; what the clean-up deletes neither names. Its invariant `IInv` adds which phases of a build
are over (`PhasesOver`), what it has noted of each instance it is done with (`DoneNoted`), and that before anything is deleted
exactly those are listed (`ListedAreDone`), and how far the metadata is saved (`SavedAreSafe`). `ServesLaunchers` is the same with
the launchers of `Launching` beside the builder.
`LaunchesComplete` follows a launcher through what the builder does meanwhile. `HasAll` says of a metadata that all a
launch of it names is there or is among the files still to be fetched: a check makes it so
(`Downloading`), a fetch keeps it so, and what a sync verified has it with an empty list (`IsVerified`), until the next check,
before which nothing local is deleted or replaced. `Extracted` and `JavaFound` are the natives and Java. `ServerType` says what
the directory may hold: a served metadata file says something (`MetasSaid`), and of its own id (`OfItsId`). That a launch does not
fail for a missing index needs `WantedAssumption`: the first version of the instance names one, as Mojang's do.
`TypeCorrect` is both types.

**Catalog_proofs.** `FetchingEnds`: an entry that is shown as being fetched has a fetch under way. The invariant `FetchInv`
types the entries and the bag of fetches and says that an answer is due for each entry being fetched (`Due`): a handler that takes one copy
of a fetch away settles its entry, and no other. `ManifestsAreKept` rests on what a handler does to an entry it answers
(`AnsweredEffect`) or fetches anew (`FetchEffect`): neither takes a known manifest away. `OffersCanBeInstalled`
compares the two decisions case by case, status of the view against plan of the loop, for each way an
instance can be known. `RestTyped` types what both read.

**Accounts_proofs.** `KeysAreSound` and `TokensAreOwn` share one invariant. `Safe` says of a record, in memory or in the
file, that it is typed, that its ids were drawn, that its tokens are their user's and that it is sound:
each account once, each configuration under one id, none without an account. Inserting (`InsertSafe`) keeps that because an id
that is new is above all that were
drawn; removing (`RemoveSafe`) because what is left are other places of the same list; a save that
fails leaves the old file or none, and the ids drawn only grow (`SaveSafe`, `SafeStays`), so a restart from either is safe. `FlowInv` says that
the tokens a flow holds, and those it is about to look up, were issued to one user, and that at
`Success` that user is the one named; `EventInv` carries it through the channel to the handler.
`InstancesPlayAsShown` follows from the same invariant and from two lemmas about the choices alone: what a launch resolves to, case by
case (`Resolved`), and that on a list in which no key occurs twice it is what the interface takes as effective, or the refusal that is said
(`ChoicesAgree`). `TypeCorrect` adds what has to be counted: an id is left for everyone who may still draw one (`Room`: the flows under way
and the results not yet handled are no more than the ids kept back for them), so that the ids of the accounts stay those the model has;
and that an instance authenticates only while it is being installed or launched (`Running`).

**InstanceStorage_proofs.** For any directories and handles and any number of faults, as long as nothing that takes a directory is started while
something else may still take or remove one (`OneAtATime`), and no message overtakes an event (`Patient`); Part 5 says what
happens otherwise. The invariant `Inv` says what each state of the loop has at hand (`Phase`), that what is
being deleted is bare (`DeletedIsBare`) and that a start has read what the directories say (`Started`), all this without the two
conditions. With them, while the launcher runs (`Live`): directories are not shared, not even with the one instance that is about to get one
(`Claimed`); what a cancelled creation leaves is not an instance (`Cleaned`), nor is what is being deleted
(`VictimGone`); vector and disk agree but for the descriptor being written (`Agree`, `WriteAgrees`) and a refresh
finds what is stored (`Reloaded`). A failed operation puts in doubt its own directory, a failed load all
of them, and a restart removes the doubt; nothing is said of what is in doubt.
`OneDirectory`: no directory serves two instances, and none has two, counting those that tasks, events and
creations are about to take. `RestartsSame`: when the loop is idle the disk says what the vector says, so a restart or a
refresh finds the same instances. `NothingIsLost`: a directory in which the user made something has a
descriptor, or a whole one beside it, the temporary file of the save that was cut off or the backup of the unreadable
one (`AllKept`). `DataIsKept`: what the user made in a directory with a descriptor goes only when the user deletes
the instance. `NothingVanishes` is as strong as the code allows: a launcher that dies between the two halves of
`atomic_replace_file` leaves the descriptor under its temporary name, `load` does not look for
it, and the name of the directory is given to the next instance that asks.

Model-checked only: all liveness (`EndedIsReported`, `KillTakesEffect`, `BuildEnds`,
`GoneIsForgotten`, `Ends`, `AddEnds`), which is out of the prover's reach. Every invariant and every action property of a passing
run is a theorem.

## 5. Where the code differs from what is said of it

Checked: `SyncInterrupted`. `mod_sync.rs:14` promises to preserve what the user added and removed. A sync deletes the jars of
renamed mods, downloads the new ones and only then saves the record. One that ends in between leaves a mod that is recorded
and not there, and from then on every update takes it for removed by the user
(`crates/backend/src/install.rs:181`).

Known, each reachable in a model, and without a run of its own:

- Cancelling an authentication forgets the install but not its `launch_after_install`; a later resync, which never offered
  it, launches the game (`crates/backend/src/lib.rs:1235`; `CancelAuth` of InstanceLifecycle).
- The progress of a standalone Java resolve is said to be dropped and replaces the tasks shown for a running install or
  launch (`lib.rs:603`; `HandleInstanceTasks`).
- The queued `InstallFinished` or `LaunchFinished` of a cancelled task removes the entry of the next one, which goes on
  unseen; a second one can be started beside it and all data deleted under it (`lib.rs:920`, `lib.rs:1086`; `misled` in `OneWorker`).
- The queued `LaunchStarted` of a cancelled launch turns the entry of the installation started next into Running. That cannot be
  stopped, and the end of the installation does not remove it: the instance is busy until the launcher
  restarts (`lib.rs:2117`, `lib.rs:920`; `Mistaken` in `BusyWillEnd`, `EndedIsReported`, `ButtonsWork`).
- A launch that is aborted after it has spawned the game and before its `LaunchStarted` is handled leaves the game: the
  process is spawned without `kill_on_drop`, nobody watches or can stop it, and the instance can be installed
  again or deleted under it (`launch.rs:234`, `lib.rs:2180`; `GameSupervised` is about games that were `shown`).
- A game that is being killed when all launcher data is deleted and the launcher restarts may be left (`lib.rs:1086`;
  `KillTakesEffect`).
- A creation that is cancelled while its `InstallFinished` is queued is stored all the same, in the directory the clean-up removes: the
  interface shows an instance that the next start does not find (`lib.rs:981`; `lost` in `StoredOnDisk`).
- A save that fails between the removal of the old descriptor and the renaming of the new one, and a deletion of all data that
  fails half-way, leave instances in memory without their descriptor (`files.rs:387`, `lib.rs:1086`; `lost`).
- A published instance that was deleted while the end of its launch was queued, or whose deletion failed, is known again once
  its settings are changed, and then shows the error of that launch with a launch button that is refused (`lib.rs:1120`,
  `lib.rs:2142`; `ButtonsWork`).
- A build writes back the spec it read earlier, without the store's lock, and undoes edits that were answered with success; when both
  write at once the file may even be a mixture (`backend/internal/services/runner.go:151`; `doubted` in `EditsKept`).
- A sync that ends while it removes the natives directory may leave the marker without the natives. The next one skips the
  extraction and reports success, until a jar of the natives is downloaded, the release changes or the sync is forced
  (`install.rs:1043`, `install.rs:1058`; `cut` in `NativesWhole` and `NativesOfRecord`).
- A delta puts the new build of an optional mod beside its old jar when its name has changed, and the game loads both
  (`mod_sync.rs:260-289`; the exception of `ModsAsPublished`).
- While a build replaces the manifest, a metadata file or an asset index, it is not served, nor after a build that dies
  there, until the next one (`utils/src/files.rs:387-394`; `away` in `AlwaysServed`).
- Two creations with one name get one directory, and cancelling one removes the "partial" directory with the other's
  instance in it (`lib.rs:1008`; InstanceStorage with `OneAtATime = FALSE`).
- A rule that is skipped because its directory exists is not seen by a less specific one, which then deletes its files as extra
  (`instance/src/instance_metadata.rs:550`; `ContentRules`).

## 6. Not modelled, and what could come next

Left out for good: rendering and texts, argument building, HTTP and JSON
formats, hashing, finding an installed Java, the builder's batch processing, the admin pages, the installers of loaders. They
have no order of events to get wrong, or only that of the operating system. Self-update is three file operations around
a process that ends; the upload it reads is two writes of one request, whose second one's error is ignored (a hazard that is listed).

Simplifications of what is modelled are named at the head of each module. The main ones: a spec is
the set of its instances' ids in the build server, so an edit of an instance in place is not followed;
a write of the build server that fails half-way and its death are left out; a download's
temporary file and the file it replaces are left out; task progress is one bit.

Behaviour met while modelling that no property is about:

- Lifecycle: the "Retry" of a stored local instance whose sync failed sends `RetryCreateLocal`, which finds no parameters
  and only notifies (`lib.rs:966`, `frontend/src/pages/instances.rs:1876`). A failed resync disables Play until an install succeeds.
  Resync is offered while a launch is under way and then refused, and always fails for an orphaned instance.
- Accounts: `AccountUpdated` puts a removed account back; cancelling an addition whose result is queued still adds it; memory changes
  before the save that may fail; a network error while refreshing ends the flow; a refresh that issues no new refresh token
  loses the old one.
- Mods: one new to the record is put beside a jar of it the user has; one that was optional and off and becomes a normal one is taken for removed by the user
  (`mod_sync.rs:237`); an optional one the record knows is linked from whatever the cache holds, or not at all (`mod_sync.rs:291`);
  an unchanged normal one whose file was renamed stays under its old name in a delta.
- Sync: a JSON or YAML file whose writing was cut off stays
  unreadable; YAML options for a missing file fail; a launch marks directories whose update-only rule was not applied.
- Catalog: an older answer that comes late wins until the next refresh; two writes to the cache may end in the other order; the entry
  of a removed URL is made again; a URL whose settings could not be saved stays in memory, unfetched.
- Builder: equal instance ids in a spec are checked in one place and assumed distinct in another (`spec.rs:67`, `spec.rs:172`); a launcher
  that is mid-sync during the clean-up fails and has to be retried; files that are copied change before the
  metadata that names their hashes.

Next, in this order:

1. An abstract store of instances that survives crashes, which `InstanceStorage` implements.
2. `TaskProgress`: throttling. The settings file of an instance. Uploads and self-update.

To run: `tlc -config BuildLog.cfg BuildServer.tla`, and likewise each run with the
module and configuration `PROJECT.json` names; `tlapm BuildServer_proofs.tla` for the
proofs.
