# Verification of druid-cli

TLA+ models of the runtime daemon of this repository (`apps/druid` and
`internal/`), TLC runs that check them on small instances, and theorems that
TLAPS proves for every value of the constants. Paths are relative to the
repository root; `services/` stands for `apps/druid/core/services/`.

## The system

`druid` is a daemon that runs *scrolls*. A scroll is a file with commands; a
command has procedures (containers or signals), a run mode (`always`, `once`,
`restart`, `persistent`) and needs (other commands). For every scroll the daemon
keeps a record in a store and, while it works with the scroll, a session in
memory. The session's queue decides what runs when; a backend (Docker or
Kubernetes) runs the procedures.

| Component | State | Operations | What makes it hard | What makes it correct |
|---|---|---|---|---|
| Command queue, `services/runtime_session_queue.go` | `queue` (items), `started`, notifiers, `runMu`, wait group | five ways to add or wait, `RunQueue`, the goroutine of an item, `resetQueueState` | three mutexes, decisions on snapshots, triggers after the locks are released, channels closed by a goroutine that may run again | single flight, needs before dependents, no lost wakeup, every caller released exactly once, the store says what the queue decided |
| Statuses, `services/runtime_status.go`, `internal/core/services/queue_manager.go` | none | derivation of command and scroll status | used by every decision of the queue | the order of precedence |
| Session lifecycle, `services/runtime_session*.go` | the record in memory, `started` | `Run`, `StopRuntime`, `StartScroll`, `Hydrate`, `ApplyRestore` | they empty or fill the queue while passes, goroutines and callers use it; crashes; a drain with a timeout | run-once commands run once over stops and crashes; a stop lasts; nothing is left without a wakeup |
| Supervisor, `services/runtime_supervisor.go`, `runtime_session_cache.go`, `runtime_lifecycle.go`, `runtime_update.go`, `runtime_access.go`, `runtime_commands.go` | the map of sessions, the store | create, ensure, update, delete, stop, start, restore, add and remove commands | read, work, write without a lock; a session is cached by whoever needs it | the cached session and the store agree; at most one session schedules a scroll |
| Worker callbacks, `services/worker_callbacks.go`, `runtime_materialization.go` | pending action per runtime | register, cancel, complete | a pull job reports by HTTP, late or twice; the waiting call gives up | a call reports what its own worker did; one worker per runtime |
| UI packages, `services/runtime_ui.go` | scopes in the record | publish | runs a command in a session that writes whole records | a published package stays published |
| State stores, `internal/runtime/{docker,kubernetes}/state_store.go` | the records | create, update, delete, list | callers write whole records they read earlier; the two differ in what an update merges; SQLite repairs its schema on every call | no deleted record comes back, no package or port is lost to an older copy |
| Docker backend, `internal/runtime/docker/` | containers, stdin connections | run command, attempts, signals, stop | maps shared by all scrolls; attempts numbered over crashes | a procedure is attached to its own container |
| Kubernetes backend, `internal/runtime/kubernetes/` | jobs, stateful sets, exits, traffic samples | attempts, wait for job, keep alive | jobs resumed after restarts; stale exits; windows of samples | an attempt gets its own exit; idle scrolls stop and busy ones do not |
| Coldstarter, `internal/core/services/coldstarter*` | listeners, finish channel | serve, stop, finish | listeners open while stop iterates; a send nobody receives | a wake is never lost and frees the ports |
| Console hub and log, `internal/core/domain/broadcast_channel.go`, `console_manager.go`, `log_manager.go` | subscribers, channels, the last lines | subscribe, unsubscribe, broadcast, close, write | full channels, locks held while waiting | the log has every line; no send on a closed channel |
| Development watch, `internal/core/services/watch_service.go`, `apps/druid-dev/` | watcher, build flags, child process | start, stop, hot reload | changes during a build; goroutines that outlive their session; calls that overlap | every change is built; the status is that of the child |
| Registry client, `internal/core/services/registry/oci.go`, `internal/utils/` | artifacts, tags, a directory | push, pull, fetch one file | retries, other clients, moving tags, nested chunks | what is reported was moved; an update touches what its author meant |
| Ports and routing, `services/runtime_ports.go`, `internal/core/services/runtime_env.go`, `internal/routing/` | routing of the record, bindings of a container | apply, publish, resolve, show | several copies of the routing, of different age | shown, told and bound port agree |
| Scroll files, ids, authorization | none (keys) | validate, name, check a token | texts that are names elsewhere | what is accepted can be run; names differ; only owners get in |

Interactions: HTTP handlers call the supervisor; the supervisor finds or makes a
session, and the session calls the backend, which calls back with procedure
statuses; every status is written to the store at once. The supervisor starts
pull workers, which come back as HTTP callbacks. After a crash
`RuntimeSupervisor.Start` rebuilds sessions from the store before the daemon
listens (`apps/druid/adapters/cli/daemon.go:176`).

`PROJECT.json` lists all components, also those left out (request parsing and
generated code), and every hazard with its line.

## Modules

| Module | Models | Checked by |
|---|---|---|
| `CommandStatus` | `DeriveCommandStatus`, `DeriveScrollStatus`: pure functions on sets of statuses | through the others |
| `RuntimeQueue` | the queue of one session | `queue_safety`, `queue_liveness`, `queue_restart_wait` |
| `CommandLifecycle` | what the queue promises: the abstract specification | `queue_safety` |
| `RuntimeQueueLifecycle` (EXTENDS `RuntimeQueue`) | the refinement mapping | `queue_safety` |
| `RuntimeSession` (EXTENDS `RuntimeQueue`) | the queue inside its session, with stops, starts, runs, crashes and hydration | `session_life`, `session_live`, `session_hydrate` |
| `WorkerCallbacks` | the registry of callbacks, the calls that pull a root, the pull workers | through `RuntimeSupervisor` |
| `RuntimeSupervisor` (EXTENDS `WorkerCallbacks`, `CommandStatus`) | the operations of the API on one scroll | `supervisor_ops`, `supervisor_docker` |
| `KeepAlive` | keepAliveTraffic of one Kubernetes job | `keepalive`, `keepalive_busy` |
| `ScrollProcedures` | the commands of a scroll as a backend sees them: constants | through the next two |
| `KubernetesProcedures`, `DockerProcedures` | the procedures of one scroll on either backend | `procedures` |
| `HotReload`, `DevServer` (EXTENDS it) | the file watcher, and the server that starts it with a build process | `services` |
| `ColdStarter`, `ConsoleHub`, `StateStores`, `RegistryTransfer` | one service each | `services` |
| `DataChunks` | a scroll's data from its author to an update | `services` |
| `RuntimeRouting` | ports and routing on Docker | `services` |
| `RuntimeRoots`, `ScrollFile`, `RegistryLayout`, `Authorization` | algorithms without state | assumptions of `MCAlgorithms` |
| `FilePaths`, `Texts` | relative paths, and Go's `strings` | through the others |
| `RuntimeQueueProofs`, `RuntimeQueueRefinement` | theorems about `RuntimeQueue`, and that it implements `CommandLifecycle` | TLAPS |
| `RuntimeSessionProofs` | theorems about `RuntimeSession` | TLAPS |
| `RuntimeSupervisorProofs`, `RuntimeSupervisorOutcome` | theorems about `RuntimeSupervisor` | TLAPS |
| `ProceduresProofs` (EXTENDS `MCProcedures`) | theorems about the procedures of both backends | TLAPS |
| `KeepAliveProofs` | theorems about `KeepAlive` | TLAPS |
| `ServicesProofs` | theorems about `StateStores`, `HotReload`, `DevServer`, `ColdStarter`, `ConsoleHub`, `RegistryTransfer` | TLAPS |
| `MC*` | values for the constants | TLC |

### RuntimeQueue

One action is one critical section of `queueMu` (with the sections of `mu` that
are nested in it), or one step of a goroutine between two of them.

| Code | Model |
|---|---|
| `s.queue` | `queued` (keys), `item` (values); an item is its flags and its `doneChan` |
| `s.runtimeScroll` and the store | `record` and `stored`; `Persist` writes both, as `setCommandProcedureStatus` does under `mu` |
| `s.started`, goroutines of `triggerRunQueue` | `started`, `pending` |
| the `RunQueue` that holds `runMu` | `pass`: the commands of its snapshot still to look at, the one it looks at, the needs not yet checked |
| `notify` after the pass, `notifierChan` | `notifying`, `woken` |
| goroutines started by a pass | `worker[w]`: run, settle, back off, close the channel, trigger |
| client calls | `req`, `doneChan`: accept or refuse, trigger, wait, read the error |
| `setQueueStatusLocked`, `setQueueError` | `AsWaiting`, `AsRunning`, `AsDone`, `AsError` |

`completed` is a history variable: what was done at some time, independent of
the flags and statuses the code keeps.

`triggerRunQueue` reads `started` under `mu` and starts its goroutine after it has
released it. For a client these are two steps (`Trigger`, `StartRunQueue`), as a stop may
come between them; for a pass and for the goroutine of an item they are one
(`TriggerRunQueue`), as `workWg` counts both and no drain ends before they do.

Abstractions: the statuses of a command's procedures are written one by one in
the code and at once here (under `mu`, and only read through their derivation);
`isScheduled`, the derived status and `AddTempItem` for one need are one step
(the pass holds `runMu`, and the three sections agree unless a client adds the
same need in between, which `AddTempItem` then refuses as already queued); notifiers keep
only empty lists, and their buffer of ten is not modelled; every command has a
procedure (`internal/core/domain/scroll.go:315` refuses others).

### CommandLifecycle and the refinement

`CommandLifecycle` is the queue without passes, locks and goroutines: a command is
wanted, running, and done or failed; a caller that waits has the outcome of the run
it asked for (`own`) and is told one (`told`). `RuntimeQueueLifecycle` maps the
flags of an item to the phase of its command, and `ImplementsLifecycle`, checked as a
property, says that every step of `RuntimeQueue` is one of these steps or a stutter.
So no interleaving makes a command skip a phase, a run-once command that is done
is wanted again only by force, needs come first, and a caller is told once, and
told the outcome of its own run. Two clauses are weaker than one might wish, because
the code is:

- `Tell` lets a caller report another outcome once its command has been wanted
  again, as it reads the error of whatever item the queue holds when it wakes up;
- a restart command is wanted again after each run and its caller is answered by the
  first (finding 1 excludes waiting for one at all).

### RuntimeSession

`Run` is a client call (`run[r]`): it reads the store, overwrites the statuses in
memory, remembers done needs one by one, adds the command, waits for an empty
queue, stores the derived status or marks the scroll. `life` is the lifecycle
operation under way: `StopRuntime` (stop scheduling, drain, reset, backend, store,
schedule again), `StartScroll`, or `Boot` with `HydrateFromState` and
`AutoStartServe`. A crash keeps `stored` and loses everything else.

`late` is history: a client that had read `started` before `StopRuntime` cleared it
starts its pass when the drain has ended and the queue is not yet reset (`Overtakes`;
`runtime_session_runtime.go:84-91`). `workWg` does not count such a client, so the drain
is in time and the pass launches a command all the same. `StoppedStays` and
`OnceRunsOnce` except what comes after.

Clients cannot call while the daemon hydrates (`Reachable`): listeners open after
`Supervisor.Start`. Lifecycle operations come one at a time. Not modelled here:
a failing store in `StopRuntime`, and `ApplyRestore`, `RemoveCommand` and what the
supervisor does with the session, which are in `RuntimeSupervisor`.

### WorkerCallbacks

A call (`call[c]`) is `runPullWorker`: register an action for the runtime, spawn a
worker and wait for it to exit, wait for the result, cancel. `pending` is the entry
of the registry, `chan[c]` the buffered channel of the action of `c`, `worker[c]`
the pull process, `root` what it makes of the root: an artifact, or `Torn`. The
report of a worker names the runtime only, so `Report` completes whatever is
pending and `Cancel` removes whatever is pending. A worker may outlive its call
(`AtLarge`): the timeout of the call does not end a Kubernetes job, and Docker may
fail to remove the container.

Abstractions: an artifact stands for name and digest; what an update leaves of the
old root's files is not told apart from the new artifact.

### RuntimeSupervisor

One scroll, one pool of sessions, one record in the store; each operation `op[o]` is
a procedure whose steps are the places where the code could be interrupted:

| Code | Model |
|---|---|
| `Supervisor.sessions[id]` | `cached`; a session that was detached stays in `session` while somebody holds it |
| `sessionFor`, `startSession`, `detachSession` | `Find`, `Make`, `Cache`; `Uncache`, `Detach` |
| `createWithOwner`, `Ensure`, `Update` | `Lookup`, `Insert`, `Detach`, `Drain`, `BackendStop`, the pull, `Apply` |
| `DeleteWithPolicy` | `Detach`, `Remove` (backend and root), `Forget` (store) |
| `Stop`, `StopRuntime`, `Quiesce` | `Uncache`, `StopBegin`, `StopDrain`, `StopBackend`, `StopStore`, `Quiesce` |
| `Restore`, `ApplyRestore` | the stop, `RestoreBegin`, the pull, `ApplyRestore`, and the start if asked for |
| `StartScroll`, `AutoStartServe` | `Serve`, `FinishStart` |
| `RunAndWait` | `Run`, `Await` |
| `PublishUIPackage`, `publishDeclaredPrivateUI` | `UILookup`, `UIAdd`, `UIQueue`, `UIAwait`, `UIRead`, `UIStore`, `UIRemove`, `UIRemoved` |
| `Supervisor.Start` | `Boot`, after a `Crash` |

`rec` is the record an operation read when it began and goes on to work with, which
is what makes a lost update possible: `Write` stores a session's whole record.
`Merged` is the one difference between the two stores: Kubernetes keeps the packages
others have published (`MergesUI`). `last`, `overlap` and `crashes` are history.

Abstractions: the session's queue is what waits and what runs of the serve command
and of the temporary commands that publish (the queue itself is `RuntimeQueue`); the
serve command is one that ends; a package is a flag; `Boot` is one step, as the
daemon does not listen before. Not modelled: options of owner, ports and routing,
the repair of a record without commands, failing reads and writes of the
store and conflicts of Kubernetes updates, backups.

### KeepAlive

One job of the Kubernetes backend, the waiter of its procedure and the samples of its
pod. Time is in minutes and counted backwards, and an age is rounded down, as polls
take time.

| Code | Model |
|---|---|
| `podTrafficStore.samples` of the pod, `record` | `samples` (age, and bytes received since), `Recorded` |
| `rxDelta`, `windowReady`, the stopper's three tests | `RxDelta`, `WindowReady`, `Idle` |
| `waitForJobWithIdleStop`, `jobPollInterval` | `PollKeeps`, `PollUnavailable`, `PollStops`, `PollFails`, `PollFindsNone`; `sleep`, `due`, `PollInterval` |
| `deleteJobAndWait` fails | `PollFails`: the job may be gone all the same, and the next poll finds none |
| `ExpectedPorts` | `Query`: a status query samples the pod too |
| daemon restart | `Restart`: an empty store and a new waiter, with the fastest interval again |

`observed`, `received` and `blind` are history. Abstractions: a poll interval of five
seconds follows every event; bytes are units up to the largest threshold; one pod, as
a job has a backoff limit of 0, and its counter does not decrease. Not modelled: the
waiter's deadline and the retention of samples, both of 24 hours, and the start of
a pod. The documentation speaks of KiB where `ParseKeepAliveTraffic` takes 1000.

### KubernetesProcedures and DockerProcedures

The procedures of one scroll on either backend. `MCProcedures` composes the two: a
behaviour has one backend, as `internal/runtime/backend.go` picks one at start. A call
(`call[k]` or `run[k]`) is `RunCommand` of one command; the actions are the
calls of the cluster or the engine it makes between its own steps, so that stops,
removed commands, crashes of the daemon and other calls come between any two of them.

| Code | Kubernetes | Docker |
|---|---|---|
| the objects | `jobs`: name by attempt, and a uid the code does not look at | `containers`, found by their labels |
| attempts | failed jobs are kept and give the next its number | failed containers up to `Retention` |
| resumption | `resumeRestartProcedureIndex`: from the jobs that are there | a container that runs is used again |
| the end of a procedure | polled by name; a recorded exit when the job is gone | waited for by id |
| ports, input | `selected`: the service of a command | `handle`, `stdin`: the maps keyed by name |
| stop | deletes the jobs it lists | stops the containers it lists |

A call that a stop leaves behind between its list and its create is real and
breaks nearly everything; `late`, `strays`, `stray` and `left` mark what such
calls touch, and each property says for itself where it excepts them. The model is of
one scroll: names shared by several are in `RuntimeRoots`.

A poll finds its job failed, or after a minute finds a pod of it that does not start
(`jobStartupFailure`): in the second case the call fails, or goes on if the failure is
ignored, and the cluster goes on with the job (`PollFailed`). `ResumedAlone` speaks of the
jobs a resumed call found, at every procedure it goes on to, but for jobs it gave up in
this way (`PassBut` drops them from `seen`). A call may end at every request of the cluster it
makes, the `Get` of a poll included (`CallFails`), and on Docker with an error of
`ContainerWait` while its container goes on (`ExitSeen`).

### The services

`MCServices` runs each of these parts in a behaviour of its own, as they share no state.

- `HotReload`, `DevServer`: a session of the watcher is a number that stands for its
  context, hub and fsnotify watcher; goroutines and timers keep the number they
  captured. The server's calls are steps between sections of its mutex, a
  goroutine per child waits for its exit. The watcher alone runs with failures
  to open and close (`part` "reload").
- `ColdStarter`: `Serve`, `Run`, `Stop`, `Finish`, the TCP and UDP servers and both
  handlers; a Lua script is free to answer, finish and close, and the scripts of a
  port share one state. `GetHandler` is one step.
- `ConsoleHub`: one console with Go's read-write lock (a waiting writer keeps readers
  out), channels with their capacities, the goroutine that reads the process, and the
  log. Lines are numbers.
- `StateStores`: the calls of both stores at the level of their database and API calls.
- `RegistryTransfer`: pushes by several clients with retries, and a pull that resolves,
  copies layer by layer and records, beside a moving tag. Putting one layer on the disk
  is one step. A directory is unpacked over what is there, and `TransferExact` promises
  that the selected layers are there, not that nothing else is.
- `DataChunks`: the author's declaration is cut into chunks, packed, and pulled by an
  install, an update or a restore; paths are sequences of names, and a name is always
  a file or always a directory. A link leads to a file of the data or dangles; `Push`
  follows it (`Exists`, `Followed`), as `FileExists` does.
- `RuntimeRouting`: the routing in the record, the one a run found and the one its
  container was created from, with restarts of the daemon and updates to a version
  with other ports. `kept` are the containers that exited and were not removed: they
  give the next one its number (`NewBox`), and only number 1 has the name `ExpectedPorts`
  asks for (`BaseNamed`).

### The algorithms

`RuntimeRoots`, `ScrollFile`, `RegistryLayout` and `Authorization` are functions. What
they are for is stated in the assumptions of `MCAlgorithms`, which TLC evaluates over
bounded inputs before the run `services`; a text is a sequence of marks and words, and
names stay below the 50 characters from which `dnsLabel` hashes them.

| Assumption | States |
|---|---|
| `IdStable`, `DockerRootsDistinct`, `ClaimsDistinct` | an id names itself; scrolls share no volume or directory on Docker; on Kubernetes they share a claim exactly when their ids have the same DNS label ("a.b" and "a-b") |
| `ContainersDistinct`, `BindNamesShared` | containers of different commands and scrolls have different names unless one id continues the other: "a" with command "b-c" and "a-b" with "c"; with directories also "a" and "a-data" |
| `WorkloadsShared` | on Kubernetes the part of the id before its first dash names jobs, stateful sets and services: "deployment-1" and "deployment-2" share them all |
| `MountsInside`, `NamesDistinct`, `ThresholdNeverGrows`, `DaemonPortsKept` | what `Validate` lets pass: mounts stay in the scroll, procedure names differ (unless an id is the default name of another), a threshold that overflows is smaller than written, the daemon's ports are the daemon's |
| `ReferenceWhole`, `PortReadAsTag` | a reference is cut at one mark and nothing is lost; `registry:5000/repo` without a tag is read as tag `5000/repo` |
| `FileFound`, `PushedOnce` | `FetchFile` finds a path exactly if it is there; nothing is packed twice but `.meta` |
| `TokensHonoured`, `OwnersOnly` | a console token opens its console until it expires or the daemon restarts; a user's token gets to its own scrolls and to nobody's |
| `WorkerMayReport` | the worker of a scroll may report exactly when the label of its pod is the id: not with a dot or an underscore in it |

## What the runs check

| Run | Instance | Shows |
|---|---|---|
| `queue_safety` | install (once) <- backup (always) <- serve (persistent); two calls of four kinds, two goroutines, two waiting passes | type invariant; `SingleFlight`, `NoLostWakeup`, `WaiterHeld`, `ClosedOnce`, `NeedsCompleted`, `StoreMatchesQueue`; the refinement `ImplementsLifecycle` |
| `queue_liveness` | install <- backup, install <- loop (restart); failures; under fairness | `WaiterReleased` |
| `queue_restart_wait` | one restart command, two calls | violated: `ClosedOnce` (finding 1) |
| `session_life` | install (once) and serve (restart) that do not fail, two lifecycle operations and a crash | type invariant; `WakeupSurvives`, `StoppedStays`; `OnceRunsOnce` across all of them (the last two while `~late`) |
| `session_live` | install (once) <- serve (always), one `Run`, one crash; under fairness | `HydratedSettles`, `RunReturns` |
| `session_hydrate` | install (once) <- serve, one crash | violated: `OnceRunsOnce` (finding 2) |
| `supervisor_ops` | all nine operations, two of them, two artifacts, two sessions, one crash, Kubernetes store | type invariant; `ReportDeliveredOnce`, `OutcomeHonest`, `SessionMatchesStore`, `OneScheduler`, `StopLasts`; action `PublishedStays` |
| `supervisor_docker` | publish and update, Docker store | violated: `PublishedStays` (finding 3) |
| `keepalive` | 2 units in 2 minutes and 1 unit in 3, every poll interval | type invariant; actions `BusyRecentlyKept`, `FailsOpen`; `IdleStopped` under fairness |
| `keepalive_busy` | 1 unit in 2 minutes | violated: `BusyKept` (finding 4) |
| `procedures` | a restart command with a coldstarter, a persistent command that signals it; two calls; Kubernetes or Docker; a stop or removed command, a crash | type invariant; `OneWorkload`, `PortFollows`, `InputReaches`; action `DoneHonest` |
| `services` | one part per behaviour | type invariant; `ChangeBuilt`, `StatusOfChild` (development server), `WakeHandedOver` (coldstarter), `OutputUndisturbed` (console), `TransferExact` (registry), `UpdateExact` (data), `RoutesHonoured` (routing), action `RecordsKept` (stores) |

Bounds. Two goroutines and two calls are enough for every pair of actors to
conflict on one command; three commands give a chain of needs and a need shared by
two commands; `MaxPasses` = 2 lets one pass wait while another decides (a third
waiting pass would start with the same snapshot rights as the second). A
trigger beyond the bound is merged with those that wait, and a pass delays its
end while the notifications are at the bound: both only limit how far behind
a goroutine can be. One crash suffices because a crash keeps nothing but the store,
and every record of the store is reachable before it. Procedures fail in the runs of the
queue and in `session_live`; `session_life` leaves them out for its size, and the theorems
about the session have them.

For the supervisor two operations suffice for every pair to meet, and for an operation
to meet what an earlier one left behind; a third session adds no state, as the third
is never needed (both were compared). `OverlapBound` keeps operations that overlap
to the daemon's first life, to workers that have not outlived their call, and to one
pull; pulls that overlap are left to the theorems, which have no bound.
`MaxCrashes` = 1: what a crash leaves is the store, the root and the workers.

For `KeepAlive` nothing but ages is bounded: an age counts up to the longest window and
the time of a waiter up to two hours (`MaxWaited`), after which the poll interval no
longer changes; outages, queries, restarts and failed deletions have no bound.
Windows of two and three minutes are shorter than, as long as, and longer than the
intervals of one, two and five minutes.

For `procedures` two jobs or three containers are the least with which an attempt
meets an earlier one of its procedure. Calls that the cluster or the engine refuses have no
bound. A stop, removed command or crash of the daemon may come at every step of the two
calls: one on Kubernetes (`MaxFaults`), two on Docker (`MaxDisturbed`), where a stop and
then a restart leave containers behind that a later call adopts.

For `services` two callers, peers, viewers, clients or writers suffice for every pair to
meet; `HubCapacity` and the other capacities are 1 or 2, so that channels are full as
soon as anybody is slow, which the code reaches with 25, 100 and 1024; a layer is tried
twice instead of four times; containers have numbers up to three with one failed one kept
(`FailedRetention`, 3 in the code), so that the base name is taken, then free again beside a
later one; declarations have up to three levels, with patterns,
absolute paths, `..` and `skip_update` in each.

The largest runs have 4.4 million states (`procedures`), 2.4 million (`session_life`) and
2 million (`services`), and take two to four minutes each with two workers.

The code does not exclude two operations on one scroll from one another. The
properties of the supervisor that relate record, root and sessions therefore have
the premise that operations did not overlap, and those about a root that no worker
of an earlier call is at large. Both premises are needed, see below.

Runs set `CHECK_DEADLOCK FALSE` because the system really stops: calls are made at
most once, and a session without calls is idle; a service nobody calls, a gate that has
returned and a scroll whose commands have ended are idle too.

Symmetry (calls, goroutines, and the callers and peers of a service) is used only in
runs without liveness, and every property of them treats its members alike.

### Fairness

Weak fairness of each goroutine, of passes, of notifications and of calls that have
begun: the Go scheduler runs every goroutine, Go's mutexes hand over to a waiter
that starves, `RunQueue` is started by `go` on every trigger, and the backend ends
every procedure (a backend that hangs for ever is excluded). Nothing is assumed of
clients: a call may never come, and `CancelWait` is never required. `Fairness` names
`Notify` separately, since a steady supply of passes must not starve it: each
notification is a goroutine's own step.

In `KeepAlive` time passes and a waiter polls when its sleep ends. `IdleStopped` has its
own premise, that from some time on there is no traffic, outage, restart or failed
deletion, instead of a fairness nobody guarantees.

Liveness is stated with its exceptions, which are real: `Stuck` commands (a need
that failed, or one whose mode never makes it done) wait for ever, and a command
in restart or persistent mode keeps the queue from being empty.

## What is proved

The theorems about `RuntimeQueue` hold for every value of its constants that
satisfies `CommandsAssumption` and `ClientsAssumption` (typing only, except that a
bound is positive). There is no assumption that needs are acyclic.

- `TypeCorrect`, `SingleFlightSafe` (`RuntimeQueueProofs`). `SingleFlight` is not
  inductive: nothing in it keeps a pass from launching a command that runs. The
  invariant `QueueInv` adds `HasCommand` (a busy goroutine has a command), `ItemInv`
  (which flags exclude each other: an item that asks to be run is not in flight; who
  waits for an item is stated apart from its flags, as a session keeps only the latter),
  `PassInv` (what a pass still holds is queued and asks to be run) and `WorkerInv` (the
  item of a busy goroutine is in flight, with the goroutine's channel). The proof has
  lemmas for the three kinds of steps: of clients, of `RunQueue`, of goroutines.
- `NoLostWakeupSafe`, `WaiterHeldSafe`, `NeedsCompletedSafe`, `StoreMatchesQueueSafe`
  (`RuntimeQueueProofs`), from `QueueInv`, from what a done need means for
  `completed`, and, for the store, from `StoreInv`: the store has what the session has, the
  procedures of an item that is settled say how, and those a goroutine is through with
  have been running.
- `ClosedOnceSafe` (`RuntimeQueueProofs`): under `NoRestartWait` (no client waits for
  a restart-mode command, which finding 1 shows is necessary) no channel is
  closed twice. `ChannelInv` says that each open channel has exactly one holder, an
  item that waits or the goroutine that took it, and a closed one has none.
- `LifecycleImplemented` (`RuntimeQueueRefinement`): `Spec => ImplementsLifecycle`, again
  under `NoRestartWait` (a panicking daemon implements nothing). The initial states
  map to initial states, and a lemma per action maps it to a step of
  `CommandLifecycle` or a stutter. `LifecycleInv` adds to the invariants above `CallInv`
  (which calls have a channel, and when) and `OutcomeInv`: an item and the goroutine that
  has settled it agree on the outcome the caller of its channel will be told.

About `RuntimeSession`, the queue inside its session (`RuntimeSessionProofs`):

- `SessionTypeSafe`, without hypotheses. Types alone are not inductive: `SessionInv` adds
  that a lifecycle operation and a `Run` call have a command of the file in hand at each
  step that writes one.
- `StoppedStaysSafe`. `StopInv` says when the session schedules at all (`StartedInv`),
  what a drain has left unless a trigger overtook it, and that with an empty queue
  nothing is under way (`DrainInv`, `Rest`), what a stop has left (`QuietInv`), and that
  nobody waits in `Run`. The property has the premise `~late` and the theorem three
  hypotheses, each of the four necessary, as TLC finds a stop that does not last without it:
  no `Run` call (one that was waiting stores its status over "stopped" when it returns),
  a drain that waits for what runs (`~DrainTimesOut`), and a scroll with a serve command (a
  start of one without stores its status and runs nothing).
- `SessionSingleFlight` and `WakeupSurvivesSafe`: the queue's two central properties, proved
  above for a queue that is never stopped, survive stops that fail half-way, starts that reset
  the queue, hydration and crashes, until a trigger overtakes a stop: both theorems are
  of the form `[](~late => ...)`. Without that premise TLC finds a command that runs
  twice; `WakeupSurvives` it does not find violated, and checks it as it stands. The
  hypotheses are `SchedulesInPeace`: the first two above (a drain that gives up leaves
  goroutines whose items are reset under them); the serve command needs nothing, as
  `rememberDoneDependencies` marks a need that may be queued as done and wakes nobody,
  so TLC finds a lost wakeup; and no daemon that crashes has commands with needs, as a
  pass may queue what is hydrated next. `SchedInv` is `SessionInv`, `StopInv` and the
  queue's `FlagInv` (flags, passes and goroutines agree), with `BlankInv` (no item
  outside of the queue) and `BootInv` (which queue each step of a start or a boot
  finds). `WakeInv` says who owes the next pass: the queue, or the start or boot under
  way.
- `OnceRunsOnceSafe`: the action property that a run-once command that was done is not
  launched again, from `OnceInv`: its procedures stay "done" in the session and in
  the store, its item in the queue says so, and hydration sees it among what is done.
  It too has the premise `~late`. `RunsOnceInPeace` adds that such a command has
  procedures (nothing else shows after a crash that it ran), is not the serve command,
  and that no client forces it (a forced run is meant to repeat it). The constants of
  `session_life` satisfy all these hypotheses.

About `RuntimeSupervisor`, for any number of operations, sessions, versions and crashes:

- `ChannelFreeSafe`, `ReportDeliveredOnceSafe` (`RuntimeSupervisorProofs`): the
  send of `Complete` never blocks and no two calls receive what the same worker
  did, also when operations overlap and workers outlive their calls. Neither is
  inductive; `CallInv` adds `CallShape` (the variables are functions on
  the calls) and `CallHistory`: a call that has not registered has no result and no
  worker, the pending action is that of a call that has registered, and a result comes
  from a worker that has reported. One lemma per
  step of calls and of workers; the operations disturb the callbacks only where they
  begin a pull.
- `SupervisorTypeCorrect`: types alone are not inductive, as a step reads the record of
  a session and the file of a result. `SupervisorInv` adds `OperationInv` (an operation at a
  step that needs a session or a record has one: `HandOK`; which steps a kind of operation
  can be at: `FlowOK`; sessions that are held or run something have a record:
  `SessionOK`), `CallVersions` (a result has a version) and `RestorePulled`.
- `PublishedStaysSafe`, under `MergesUI`: every write of the store goes through
  `Merged`, is the creation of a record that was not there, or is a deletion. Without
  the hypothesis the property is false (finding 3).
- `OneSchedulerSafe`, `StopLastsSafe` (`RuntimeSupervisorOutcome`). `SequentialInv` says,
  while operations do not overlap, where the session of the only operation is
  (`AloneOK`: in the map, taken from it, or about to be put there), that a session nobody
  can reach is quiet (`UnreachedOK`), that what runs in a session that is off is being
  drained (`OffOK`), and what a stop has established (`StoppedOK`).
- `SessionMatchesSafe`, `OutcomeHonestSafe` (`RuntimeSupervisorOutcome` too). `MatchInv` adds that
  the session in the map has the file that is stored, at every step, and which of the
  records an operation holds still agree with the store. For the outcome `PullInv` says
  which operations pull and at which steps their call is idle, under way or done
  (overlapping or not); `RootInv` that, while no worker is at large, the root is what
  the worker of the last call has pulled; `LastInv` what the last operation leaves:
  after its pull the stored file is the one it fetched (`FetchedOK`), a restore and a
  publication find nothing else running (`RestoreOK`, `PublishOK`), and one that failed
  has marked the scroll, with nothing left that would store another status
  (`MarkedOK`). That nothing runs while a failure is marked is what a marked scroll
  depends on, and it takes the whole chain back to the drain of `StopRuntime`.

  These four have the hypothesis `~DrainTimesOut`: a drain that gives up after its five
  seconds leaves commands running in a session that was detached, and they write the
  record of that session later (see Findings). The properties state their other premises
  themselves.

About the procedures of both backends, for any commands, calls, numbers of attempts and
any bounds on what is disturbed (`ProceduresProofs`). The theorems follow from an invariant
for each backend, which TLC checked before it was proved:

- On Docker (`DockerInv`) the heart is who owns a container: a call that is past its attach
  and whose container still may run is the only one that uses it (`OwnOf`), no other
  container of that procedure may run except strays (`SoleOf`), a call that has lost
  its container to a stop knows less (`LedOf`), and the maps of handles and input
  lead to the container of the last call that attached (`HandlesOwn`, `HandlesRight`).
- On Kubernetes (`KubeInv`) it is what a name stands for: a job a call created is the last
  of its name (`KeepsName`), alone of its procedure (`SoleJob`, `OneActiveJob`),
  and what is remembered as the exit of a name is the exit of a job of that name
  (`RanOf`, `RanRight`); `ServedOf` ties the service to the procedure a call is at. Of
  the jobs a call found when it began, those that are not over are still dealt with
  (`AloneOf`, `Awaits`), and when it goes on none is left but what it gave up (`NoneLeft`),
  as jobs belong to procedures that are run as such (`JobsRun`, `ImageOf`). The premise
  `late = {}` keeps out the job of a call that outlived a stop.
- `ProceduresTypeSafe`, `WorkloadsAlone` (`OneWorkload`), `InputFindsItsContainer`
  (`InputReaches`), `PortsFollowProcedures` (`PortFollows`), `DoneIsHonest` (`DoneHonest`).
  The only assumption is that `NoProc` is not a job (`NoJobAssumption`).

The proofs changed two statements. `DoneHonest` now also holds for calls that outlived a
stop on Kubernetes, which were excepted before; and on Docker a signal may leave a second
container of its target running after a stop and a restart in a row: the stop leaves a call
behind that creates a container, the restarted daemon forgets it, the next call adopts
that one, and the signal stops only the one it finds. The instance of `procedures` had too few
disturbances to show it, and now has two.

About `KeepAlive`:

- `KeepAliveTypeCorrect`, `FailsOpenSafe` (`KeepAliveProofs`): for all thresholds that
  satisfy `ThresholdsAssumption` (typing, and windows that are not empty, which
  `ParseKeepAliveTraffic` ensures), a daemon deletes an idle job only when it has itself
  observed it for the whole of every window. The invariant adds `SampledSince`: no
  sample is older than the time its store has been observed.
- `BusyRecentlyKeptSafe`: a job that received a threshold within its window, not counting
  the first minutes (`Unseen`) that may lie between two polls, while the statistics were
  there, is not deleted. `SeenInv` adds `PolledInv` (of each window that was observed and
  not blind, either there is a sample from those first minutes or the next poll still
  falls into them) and `SleepInv` (the sleep is at most the current poll interval). The
  delta then counts at least what came after those minutes: a sum of bytes whose lemmas
  are proved by induction over the length (`HasEveryNumber`, the least counterexample
  of a set of numbers).

About the services, each from its own initial states and steps (`ServicesProofs`):

- `RecordsKeptSafe`: an update never revives a deleted record, and on config maps loses
  nothing. `StoreInv` says what a record in hand is at each step of its writer; the heart
  is `MergedOK`: while the resource version is the one a merge was based on, and the
  record is there, the merged copy still has every newer package and the ports. A deleted
  and recreated record has a version of its own, which is why the premise suffices.
- `ChangeBuiltSafe`, `StatusOfChildSafe`, for `DevNext`: the server's calls, its child
  processes, the watcher and callers of the watcher alone all interleave (TLC checks
  the server and the watcher in separate parts). `ReloadInv` ties `buildActive` to the
  one goroutine that builds, and a change that is not built to a session that lasts.
  `ServerInv` says of the only call what it has taken, killed and numbered (`AloneOK`),
  and that no process has a number above the server's (`Numbered`), so that the exit of
  an old process cannot be taken for that of a new one.
- `WakeHandedOverSafe`: `SenderWaits` (a finish that was accepted has its sender) and
  `PortsFreed` (a listener `Stop` has seen is closed, next, or still on its list; a closed
  one stays closed).
- `OutputUndisturbedSafe`: `HubLocks` (who holds the read lock while it sends, no client
  has a closed channel) and `LogInv`, which gives every element of the log and of its
  channel as a number counted back from the last line.
- `TransferExactSafe`: `PushOK` says of a push at every step what it has counted, what it
  remembers as the baseline of the layer it works on, and that the registry has what it
  is through with (blobs are never taken away); `PullInv` that a selected layer is
  either still to do or on the disk, and that completed and remaining nodes add up
  to the total, so that the manifest is copied last. What a tag names by then plays no part.

Three named assumptions came with these proofs: the bound on calls is a number
(`DevAssumption`), the capacities of the hub and the log are positive
(`HubAssumption`; 100, 25, 1024 and 100 in the code), and sizes are numbers and an
artifact has one layer for a path (`RegistryAssumption`; what `Push` packs, `PushedOnce`).

Only model-checked:

- `SingleFlight`, `WakeupSurvives` and `OnceRunsOnce` where the hypotheses above fail:
  some of these sessions violate them (finding 2 for a need that is run once), and which of the
  others do not is known only for the instances of the runs.
- `WakeupSurvives` after a trigger overtook a stop.
- `RoutesHonoured`: the model merges ports with folds, whose recursion the provers
  do not unfold.
- `UpdateExact` and the type invariant of `MCServices`, in modules that reach recursive
  operators, as do the assumptions of `MCAlgorithms` (`DataChunks`, `ScrollFile`,
  `RegistryLayout`).
- All liveness: fairness and ENABLED are out of TLAPS's reach.

## Findings

1. `queue_restart_wait`: the deferred function of each run closes the item's
   `doneChan` (`services/runtime_session_queue.go:249`); a restart-mode command runs again
   under the same item, so a caller of `RunAndWait` on it makes the second run
   close a closed channel: the daemon panics.
2. `session_hydrate`: `Hydrate` fills the queue while passes already run. A pass adds
   a run-once need of an item that is already hydrated and starts it; `Hydrate` then
   clears that item's flags and requests it again, and it runs twice.

3. `supervisor_docker`: `PublishUIPackage` adds the package to a record it reads from the
   store, then its deferred `RemoveCommand` stores the session's whole record, which
   does not have it. The Kubernetes store merges packages; the Docker store does not,
   so every publish loses its own package.
4. `keepalive_busy`: `rxDelta` counts from the first sample inside the window, and the
   samples are the waiter's polls. After one hour those are two minutes apart, after
   two hours five: with a window no longer than that (as `10kb/5m`, the documentation's
   example) the current sample is the only one inside it, the delta is 0, and a
   procedure that is in use is deleted. `BusyRecentlyKept` is what holds instead.
   An outage of the statistics as long as the window has the same effect (the premise
   on `blind`).

Also seen while modelling, not a run: `StopRuntime` drains for five seconds and
goes on, and with `DrainTimesOut = TRUE` TLC shows a late goroutine overwrite the
stopped record (`StoppedStays`); `refreshCommandState` can lose a status that is
reported between its read and its write.

A client's trigger can overtake a stop (`Overtakes`): it read `started` before
`StopRuntime` cleared it, and its pass launches a command after a drain that was in
time. The backend is stopped beside that command, its goroutine reports over the
stopped record, and after the next start the command runs twice, or again if it is run
once: without `~late` TLC shows `StoppedStays`, `SingleFlight` and `OnceRunsOnce` violated
in the instance of `session_life`. `TestRuntimeSessionStopQuiescesRestartQueueBeforeBackendStop`
(`services/runtime_supervisor_test.go:319`) does not meet the case, as its only trigger
has returned by then. `ApplyRestore` drains in the same way. In `RuntimeSupervisor` such a
client is an operation that overlaps with the stop, which the premises of its
properties exclude.

Without the premises of the supervisor's properties TLC finds, among others:

- Overlapping operations leave two sessions of one scroll with work
  (`OneScheduler`), a cached session whose record is not the stored one
  (`SessionMatchesStore`), and a root other than the scroll file in the store says
  (`Delivered`).
- A worker at large fills the root after a later call has delivered its own
  artifact, or its report completes the later call (`Delivered`). A late `Cancel`
  removes the action of the next call, which then fails (and is marked).
- With `DrainTimesOut` a run of the detached session writes the stopped record back
  (`StopLasts`).

Also visible in the model, without a property: an update of a scroll marked as error
does not stop its old containers; a failed update followed by a start clears the error
over a torn root (which is why `FailureMarked` speaks of the last operation); a crash
while a package is published leaves its temporary command in the stored file, and
the next daemon runs it again.

In the services and backends, each an exception a property or assumption names:

- An error status hides a command that runs or waits, so `ApplyRouting` is let through
  and a container keeps a dynamic port the routing no longer has (`unguarded` of
  `RoutesHonoured`); an update of an errored scroll does not stop its containers.
- A `skip_update` chunk with a pattern or an absolute path protects nothing: the worker
  joins the path as it is declared, the author's side expands it (`SkipsPlainly`). A
  file beside a chunk more than one level below its parent is in no chunk
  (`BesideChild`), and an emptied file that is a chunk of its own, or a chunk that is a
  link to such a file or to none, is not packed, so an update keeps the old content
  (`SkippedChunk`).
- Docker keeps a container that failed, the next one is named `<base>-r2`, and
  `ExpectedPorts` asks for the base name: the status shows the port as unbound while the
  server listens on it (`BaseNamed` in `RoutesHonoured`).
- A resumed restart command of the Kubernetes backend whose procedure ignores failures goes
  on to the next procedure beside a job whose pod does not start yet (`PollFailed`).
- The goroutine of a persistent Docker procedure clears the entries of its name when its
  container ends, also those of a newer container; `InputReaches` speaks of calls that wait.
- A pull unpacks a directory over what is there, so files of an earlier version stay
  unless the root was emptied.
- The goroutine of an ended build process stops the watch a newer call started
  (`apps/druid-dev/adapters/cli/root.go:314`).
- When `Run` of the coldstarter has left on its context, a script that calls finish
  blocks for ever and holds its Lua state, for which `Stop` then waits.
- Two calls that find a SQLite database of an old version both reset it, the second
  with what the first has written since; nothing is promised of that.
- On Kubernetes a success that was recorded for an earlier job of the same name counts for
  one that is gone (`DoneHonest`).
- A restart of the daemon changes the key of console tokens; the development server
  keeps the old ones for up to an hour.
- Every assumption of `MCAlgorithms` that speaks of shared names, or of a port read as a
  tag, describes what the code does, not what it should.

## Not modelled

- Request parsing, HTTP and CLI wiring, generated code: they have no state.
- YAML, SQL and config map encodings, pod specs, image pulls, logs and metrics, the
  transport to the registry, credentials, TLS.
- Backups; port reservations of the daemon; failing reads and writes of the store by
  the supervisor; the repair of a record without commands.
- The buffer of notifiers, hashed names, the 24 hour deadlines of the Kubernetes waiter.
- Data races on Go maps and on the UDP receive buffer: what they can produce is
  either free in the model (the content of a packet) or a crash of the process.
- Ports on Kubernetes beyond the selection of a service by procedure.

## Plan

1. Done: the queue, its session, the supervisor with its callbacks, `KeepAlive`, the
   procedures of both backends, the services, the algorithms; the abstract
   lifecycle of commands and its refinement.
2. Done: theorems for the safety of the queue, its session, the supervisor, both
   backends' procedures and `KeepAlive`, the refinement of `CommandLifecycle`, and the
   services and transfers that need no recursive operator.
3. Left: what "Only model-checked" above lists.
