# Nook in TLA+

Nook (`nook`, a Rust command line tool) gives local projects HTTPS hostnames.
Its commands write routes into a running Caddy through the Admin API, start
development servers, and keep a registry file of what they own. There is no
daemon: any number of short and long `nook` processes run at once, each can be
killed at any moment, and Caddy can be restarted, reloaded or unreachable. What
keeps hostnames, processes and routes consistent is a protocol between the
registry, a journal of pending operations inside it, and two file locks. That
protocol is what this project models, checks and proves.

All paths are relative to the repository; line numbers are those of `src/*.rs`.

## 1. The system

| component | state | operations | hard part |
| --- | --- | --- | --- |
| Registry and journal (`state.rs`) | one JSON file: aliases, leases, workspace groups, pending operations, Tailscale registrations | `Store::mutate`, `load`, `lock_operations` | concurrent writers, crashes between file operations |
| Route backend (`caddy.rs`) | three containers of routes in Caddy's configuration, marked with owner ids | `ensure`, `remove_if_owned`, discovery | other writers (ETag races), lost answers, two transactions per LAN route |
| Aliases (`reconcile.rs`, `cli.rs`) | recorded aliases | `set_alias_with`, `remove_alias` | forced replacement of a live owner, rollback of a failed publish |
| Runs (`process.rs`) | a lease and a child per run | `prepare_run`, `spawn_prepared_run`, `commit_prepared_runs`, `abandon_route`, `finish`, `cleanup_run_route` | route, process and lease cannot be created in one step |
| Workspaces (`workspace.rs`) | a group of leases, native children or one root runner | `start`, `run_runner`, `finish` | all apps or none, rollback of a part |
| Workspace sessions (`workspace_session.rs`) | a locked context file per root runner | claim, acknowledge, register, shutdown, `cleanup_stale` | lock order session, operations, store |
| Reconciliation (`reconcile.rs`, `cli.rs`) | - | `reconcile_before_command`, `prune_command`, `retry_pending` | undoes or completes whatever a dead command left |
| Stop and process identity (`process.rs`) | process numbers, start times, process groups, a pass over `/proc` | `stop_managed`, `lease_liveness`, `kill_owned_lease`, `signal_marked_workspace_processes` | reused numbers, a tree that forks while it is looked for |
| Ports and readiness (`process.rs`) | a reserved listener, `LeaseState` | `reserve_port_on`, `spawn_prepared_run`, `wait_for_readiness` | the port changes hands before the child binds it |
| Terminal foreground (`process.rs`) | who is in the foreground of the terminal | `TerminalForeground`, `sync_terminal`, `follow_stopped_child` | the user's shell and the child act at the same time |
| LAN names (`lan.rs`) | an mDNS announcement per LAN run | `start`, `is_displaced` | two hostnames with one mDNS name, a polled registry |
| Tailscale Serve (`tailscale.rs`) | ports and handlers of a tailnet node | register, converge, withdraw, release | a configuration others change too |
| Self-update (`update.rs`) | the cache of the latest release, the installed binary, the script and result file of a deferred update | `cached_or_fetch`, `store_cache`, `install_latest`, `replace_binary` | files of one name shared by all processes, without a lock |
| User files (`config.rs`, `cli.rs`) | config.toml, nook.toml, nook.local.toml, an exported certificate | `write_global_at`, `config set`, `init`, `ca export` | users and editors write them too |
| Configuration (`config.rs`, `workspace_config.rs`) | what the files and options say | `load_project`, `merge_run`, `load_inner`, `validate_environment` | five sources of one setting |
| Framework detection (`framework.rs`) | the child's arguments | `detect`, `inject_argv` | every form in which a user can give an address |
| Wrapper, installers, completions | - | - | no state of their own |

The components interact through the registry file (all of them), through
Caddy's configuration (backend calls of aliases, runs and reconciliation) and
through child processes. A command that changes ownership holds the
*operations lock* from the moment it looks at the registry until it has
written its result; the *store lock* is held for a single load or mutate
(reconciliation runs inside one mutate). A run's supervisor stays alive
without any lock while its child runs.

What makes each of them correct:

* registry: one owner per hostname; a write is all or nothing; no owner is lost;
* journal: before anything is done outside the registry there is an entry that
  undoes it; no entry ever undoes what a recorded owner needs;
* routes: every managed route belongs to a recorded owner or to a journal entry;
  a reconciliation without faults makes them exactly the recorded ones;
* runs and workspaces: a failed start costs the previous owner nothing;
* exposure: whatever Nook publishes is on record for the account it is in, and
  no port, handler or account of others is touched;
* sessions: an app has one server, and whatever a workspace started can be found
  and ended from the registry, whoever was killed;
* signals: they reach the processes of the run they mean and no other;
* terminal: it is passed to the child and comes back, and nobody else loses it;
* readiness: a run that counts as ready is answered for by a server;
* updates: a release is noticed, and a failed replacement is reported;
* files and settings: nothing of a user's is replaced unasked, and every setting has
  the value that the documentation says;
* locks: nobody holds one for ever.

## 2. Modules

| module | what it is |
| --- | --- |
| `CaddyRoutes` | the outcomes of one backend call: `Ensure`, `RemoveIfOwned` and their transactions |
| `Nook` | the commands, the registry, the journal, children, crashes; extends `CaddyRoutes` |
| `NookProperties` | safety, action and liveness properties, and the fair specifications |
| `NookInvariant` | the inductive invariants `OwnershipInv` and `DepartureInv` |
| `HostnameOwnership` | the abstract promise: atomic changes of who owns a hostname |
| `NookRefinement` | the mapping from `Nook` to `HostnameOwnership` |
| `NookProofs` | theorems about `Nook`: types, one owner per hostname, the journal, who leaves the registry, and the refinement of `HostnameOwnership` |
| `RouteInvariant` | the inductive invariants `RouteInv` and `LanInv`: what a command knows of the routes |
| `RouteProofs` | theorems about `Nook`: routes, reconciliation and mDNS names |
| `CaddyAdmin` | one transaction of `CaddyRoutes` as the requests it is made of, with competing writers; extends `CaddyRoutes` |
| `CaddyProofs` | theorems about `CaddyAdmin` |
| `AtomicRegistry` | the abstract registry: atomic updates, acknowledged ones stay |
| `RegistryFile` | `Store::mutate` as file operations, with the refinement of `AtomicRegistry` |
| `TailscaleServe` | Tailscale Serve and Funnel: registrations against a configuration that others change |
| `TailscaleProofs` | theorems about `TailscaleServe` |
| `WorkspaceSession` | a root runner's session: the root nook, wrappers, servers and recovery around the locked context file |
| `SessionInvariant` | its inductive invariant `SessionInv` |
| `SessionProofs` | theorems about `WorkspaceSession` |
| `ProcessGroups` | process numbers, groups and every signal Nook sends on Unix |
| `ProcessProofs` | theorems about `ProcessGroups` |
| `RunSupervisor` | one run from its port to its end: readiness, announcement and terminal |
| `SupervisorProofs` | theorems about `RunSupervisor` |
| `SelfUpdate` | the cache of the latest release and the replacement of the binary on Unix |
| `DeferredUpdate` | the replacement on Windows, left to a script |
| `UserFiles` | the files that Nook and users both write |
| `WorkspaceConfig` | selection, merge and validation of the configuration of a run |
| `FrameworkArguments` | the arguments of a development server |
| `LocalProofs` | theorems about `RegistryFile`, `UserFiles`, `WorkspaceConfig` and `FrameworkArguments` |
| `MCNook`, `MCCaddyAdmin`, `MCTailscaleServe`, `MCWorkspaceSession`, `MCProcessGroups` | instances for TLC, one `.cfg` per run |
| `MCPrograms`, `MCLocal` | instances of several small modules that share no state; the first state picks the one a behaviour is about |

`Nook` is the middle layer. It takes a Caddy transaction and a registry write
for atomic steps; `CaddyAdmin` and `RegistryFile` show one level below what
makes that right. `TailscaleServe` stands beside it: it uses the same operations
lock and registry, and sees runs and aliases only as owners that start, are on
record and go. `WorkspaceSession` looks inside what `Nook` has as one runner
workspace: it has no routes, hostnames or journal of pending operations, and
`Nook` no processes below the lease. `RunSupervisor` and `ProcessGroups` look
inside one run: the first has its nook step by step and its child as one thing,
the second the child's whole tree as the kernel numbers it. What `Nook` and
`WorkspaceSession` take for granted of a signal, that it reaches the processes of
the run and no other, is `SignalsStayInRun`.

### State

| TLA+ | code |
| --- | --- |
| `aliases`, `leases`, `grouped` | `Registry::aliases`, `leases`, and the leases with a `group_id` |
| `pending` | `Registry::pending_operations`; kinds `install`, `start`, `remove`, `restore` are `InstallRoute`, `StartProcess`, `RemoveRoute`, `RestoreRoute` |
| `routes` | the routes with a Nook owner marker in Caddy's three containers |
| `child` | the process behind a lease |
| `operations` | who holds `OperationGuard` |
| `pc`, `local` | where each `nook` process is, and the variables it carries across calls (`displaced`, the `PreparedRun`s, cleanup failures, the reconciliation's draft) |
| `used` | the ids generated so far: a UUID never comes twice |
| `faults` | faults injected so far |

An owner is a UUID. Its hostname, protocol and LAN flag never change after it
is generated, so `Host`, `Tls` and `Lan` are constant functions of the owner; a
new id with any combination is a choice among the unused ones.

### Actions

Each command is a sequence of steps, one per registry write or Caddy call, in
the order of the code; other processes, exits of children, crashes and reloads
of Caddy come in between.

* `nook alias set`: `SetAlias` (lock, conflicts, journal), `AliasEnsure`,
  `AliasPublish`, then either `AliasClean` and `AliasCommit`, or `AliasUndo`,
  `AliasRestore` and `AliasDrop`.
* `nook alias remove`: `RemoveAlias`, `UnaliasRemove`, `UnaliasDone`. The
  server selection comes from a listing read before the lock, so `RemoveAlias`
  takes any protocol as input.
* `nook run`, a native workspace and the root runner share `StartRun`,
  `PrepareRun`, `EnsureRun`, `JournalStart`, `Spawn`, `CleanDisplaced` and
  `CommitRuns`; they differ in how they fail (`PrepareRejected`,
  `JournalFails`, `SpawnFails`, `CommitFails`, `RollBack`, `Relock`,
  `Abandon*`) and in their children.
* the end of a run: `ChildExits`, `RunEnds`, `FinishRoute`, `FinishRemove`,
  `FinishWrite`.
* reconciliation: `Reconcile` or `Prune` and `PruneOrphan`, then `JudgeLeases`,
  `ReplayRestore` and `ReplayRemoval` per journal entry, `ReconcileRoute` per
  owner, `ReconcileWrite`.
* faults: `Crash` of a process at any step, failed or unanswered Caddy calls
  (`CaddyRoutes!Transaction`), failed registry writes where the code handles
  them, leases whose identity cannot be read, `CaddyReloads`.

* one Caddy transaction (`CaddyAdmin`): `Begin`, `Read` (list and ETag, checks,
  transform, request), then the request's fate: `Applied`, `PreconditionFailed`
  (412; read again up to three times), `AnswerLost`, `TimesOut`, `Crash`, and
  for the request of a sender that is gone `Lost`. Other programs edit their
  routes with `ForeignAdds` and `ForeignRemoves`. A server's list is a sequence
  of foreign routes and Nook's containers; its content stands for its ETag.
* one registry write (`RegistryFile`): `Begin` (store lock), `ClearTemporary`,
  `Read` or `Refuse`, `Create`, `Write`, `Sync`, `Rename`, `SyncDirectory`, with
  `OperationFails` (an error, or the process is killed) before each.
  `file` is what processes see, `disk` what a power failure would leave;
  `WriteBack` brings the second up to the first at any time, `PowerFails` falls
  back to it. What is written but not synced may be half there afterwards.
* exposure (`TailscaleServe`): `Reconcile` or `Register`, then `Diagnose`,
  `ReadConfig` (with `check_identity`), `Converge` per registration, `Write`;
  a registration goes on with `Reread` (if something was removed), `Allocate`
  (the journal), `ServeOn`, `Confirm` and `Record`. What fails on the way goes
  to `Release`, `ReleaseOff` and `ReleaseForget`, which are also `Withdraw`.
  Around it other tools change handlers, permissions and foreground sessions
  (`Meddle`), another account logs in (`SwitchProfile`), owners change and leave,
  and every call of tailscale can fail before or after it took effect.

* a runner's session (`WorkspaceSession`). The root nook: `Start`, `JournalGroup`,
  `CreateDirectory`, `WriteContext`, `SpawnRunner`, `RecordRunner`, `Commit`,
  then `PollJoins` until it is `Interrupted`; `Close`, `CollectLeases`,
  `SignalTree`, `KillChildren`, the marker scan (`ScanKills`,
  `ScanFindsNothing`), `RemoveSession`, `ForgetGroup`, `CleanRoute`. A wrapper:
  `BeginClaim`, `Evict` and `TakeClaim`, `Released`, `Spawn`, `Associate` and
  `Register` under one session lock, then `run_member`'s loop (`LeaderExits`,
  `Signalled`, `SessionLost`, `LeaseLost`, `LookFails`) and either the graceful `Shutdown`,
  `KillServer`, `CleanTree`, `Finish`, or the immediate stop; `Drop` gives up a
  claim without a child. A later command: `Reconcile`, `JudgeLeases`, the scan,
  `LockStale` (which never waits), `KillMembers`, `RemoveStale`,
  `WriteReconciled`. Around them servers detach children, processes end, other
  runs displace leases, and everybody can be killed or fail at every step.

* processes (`ProcessGroups`): `Fork`, `Setsid`, `Exit`, `OtherStarts` are the
  kernel's; a number is given out again as soon as neither a process nor a group
  has it. The launching nook goes `SpawnChild`, `ReadIdentity` or
  `CleanupUnidentifiedChild`, `CommitLease`, `ForwardSignal`, `Reap`, `Finish`;
  `nook stop` `StopCheck`, `StopTerminate` and with `--force` `StopSeesExit` or
  `StopTimesOut` and `StopKill`; the recovery of a session member
  `RecoverStart`, `RecoverKill`, then per entry of `/proc` `ScanLook` (marker and
  identity), `ScanPin` (`pidfd_open`), `ScanAim` (both read again) and `ScanFire`,
  until a pass finds nothing (`ScanClean`). Nook and commands may die at any step.
* one run (`RunSupervisor`): `ReservePort`, `ReleasePort`, `AcquireTerminal`,
  `Spawn`, `Launch`, `CommitRun`, with `SpawnFails` and `CommitFails`; then the loop
  of `wait_for_readiness` (steps `r_...`) and that of `wait_with_signals`
  (`w_...`), which share `LanPoll`, `SyncTerminal`, `FollowStoppedChild`,
  `SuspendJob` and `ResumeChild`; then `Cleanup`. Around it the child binds, stops,
  exits or moves the terminal to a group of its own, other programs take the port,
  other runs the name, and the user's shell uses `fg`, `bg` and Ctrl-Z.
* updates (`SelfUpdate`): `StartCommand`, `UseCache` or `CacheExpired`,
  `FetchLatest` or `FetchFails`, then `store_cache` in three steps
  (`StoreTruncate`, `StoreWrite`, `StoreAndCompare`), and for an update
  `InstallLatest`. A handle follows the file it was opened for, not its name
  (`handles`).
* deferred updates (`DeferredUpdate`): a command reads the result file, removes it
  and prints what it read in three steps (`ReadResult`, `RemoveResult`,
  `TellResult`); an update removes the file as well and leaves a PowerShell script
  (`ScheduleSwap`). The script goes `AwaitParent`, `AwaitNooks`, `MoveBinary` or
  `MoveFails`, `Retry` or `GiveUp`, which is its last look at the running
  processes; then it opens the file, which empties it (`OpenResult`), and
  writes its message (`WriteResult`). Commands are killed anywhere (`NookKilled`).
  `holds` is what a command has read, `untold` whose failure no command has printed.
* files (`UserFiles`): `BeginNew` or `BeginSet`, `CheckPath`, `CreateTemporary`,
  `PublishFile`, `CleanTemporary`; `UserEdits` at any time.
* configuration (`WorkspaceConfig`): the state is what users write, the actions
  are their edits, which also add and remove apps; `SingleRun`, `LoadWorkspace`,
  `ValidEnvironment` and `Started` are what Nook makes of it. `SearchFrom` is the
  depth-first search of `validate_environment`, as a function of the apps that are
  not on the active path.
* arguments (`FrameworkArguments`): the state is the command typed, the action
  `Type`s another argument; `ChildArgv` is what the child gets.

### Abstractions

* The list of pending operations is a set, replayed in any order; entries have
  unique ids and duplicates are merged by `deduplicate_pending`.
* A reconciliation runs inside one `Store::mutate`: nothing it changes is
  visible before its one final write. The model keeps that draft in `local`
  (`ops`, `kept`, `dead`, `unsure`) and lets other processes move while its
  Caddy calls are made. Leases and aliases are restored in any order.
* A first registry write that only journals is merged with taking the lock,
  as no other process can act on either before the other.
* The apps of a rolled-back workspace are abandoned in any order (the code goes
  backwards); their routes are disjoint.
* A Caddy call on a server that was not selected fails without a fault, as
  `MissingSelectedServer` does. That is why replacing an owner of the other
  protocol always queues a `RemoveRoute`.
* Where `Nook` handles a failed registry write, the write has not happened.
  `RegistryFile` allows one exception: the rename is done and the directory
  cannot be synced (`state.rs:382`), so that `mutate` returns an error for a
  write that others see. `Nook` does not follow what a command does then.
* A request that reaches Caddy after its sender died or timed out is part of
  `CaddyAdmin`, where If-Match makes it a transaction like any other. In `Nook`
  a transaction happens while its sender waits, or not at all.
* In `RegistryFile` a registry is the set of updates it holds and a version:
  1 (migrated), 2 or a later one. A version 3 file stands for every file that
  this Nook refuses.
* In `CaddyAdmin` the bodies of routes are left out, and a caller works on one
  server; the two containers of the HTTP server are changed in one transaction
  by `remove_if_owned`.
* In `TailscaleServe` a port has one root handler, told by whose target it is;
  handlers of other paths only show in that turning the root off may leave the
  Funnel permission. Any free port may be allocated, because a local listener
  may shadow the others. Steps between the operations lock and the registry are
  not split further, and the effect of a call of tailscale happens before its
  caller goes on or dies. A command that cannot tell whose handlers it sees,
  because the account changed under it, sees them as another tool's (`Seen`).
  Another account may log in at any step (`SwitchProfile`); if that happens while a
  command relies on the identity it has read, `moved` says so of the command and
  `crossed` of the whole history.
  Aliases that fail to publish after their registration do not withdraw it
  (`Crash`); runs do (`Withdraw`). Workspaces cannot be exposed
  (`workspace_config.rs:269`).
* In `WorkspaceSession` a claim token is the wrapper that took it: the app's
  server and its descendants carry it in their environment. Each server has at
  most one detached descendant. A scan kills one marked process at a time; that
  it takes too long is a fault. Signals are counted (`asked`, `again`), and the
  two seconds of grace end whenever they like. A context write that fails may
  have replaced the file or not. The session's ids are fresh and its context is
  only removed by those who should; the checks of `recovery_path` and of a
  mismatched context are left out. On Windows job objects take the place of the
  markers; that path is not modelled.
* A registry write that fails and ends the command is the same as a crash
  before it.
* An orphaned child gets a `SIGTERM` from the system when its supervisor dies
  (`PDEATHSIG`); it may ignore it, so a crash leaves children as they are and
  `ChildExits` may follow.
* A workspace's leases are alive as long as their supervisor is
  (`workspace_supervisor_liveness`).
* In `ProcessGroups` a birth stands for a start time, so that two processes of
  one number never agree in it. Three things are assumed: a number that Nook has
  just checked is not given out again before the signal that follows (`Checked`;
  it takes a whole turn of the number space between two system calls), a marked
  tree does not live across such a turn, and every descendant inherits the
  marker. A descendant may leave its group while a scan looks at it, and the
  environment of an entry may be unreadable; the scan passes over both, and
  `moved` and `closed` are the history of whom it left alone in its current
  pass, what these fork included. A workspace lease's refusals (`StopError::PendingMember`) and
  the graceful pass of a shutdown are left out: `WorkspaceSession` has the latter.
* In `RunSupervisor` the child's own processes only show in that they may have the
  terminal. `ShellDuringSpawn` and `NookStoppedAlone` name the two acts of a user
  that the code does not follow: `fg` between `acquire` and the spawn, and a stop
  of nook's job alone while the child has the terminal. With the first
  `TerminalReturned` fails, with the second `TerminalTakenOnlyFromJob` and
  `ForegroundReachesChild`.
* In `SelfUpdate` the refusals by kind of installation come first and change
  nothing, so that they are left out. An archive is good or bad, and a checksum
  tells. Two processes that update at once may leave the older release, and a
  command that is offline stores the release it knew with a new timestamp, which
  may replace a newer one: what is promised is only that a release gets noticed.
* In `DeferredUpdate` an open file keeps writers and removers out, as Windows'
  sharing modes do. Scripts are not killed and what they read does not fail.
  A failed replacement that a running nook explains is tried again for ever, as
  in the script.
* In `UserFiles` one file stands for all. `config set` takes no lock: of two at once
  one may lose its change. On Windows `move_new_file` renames and thus replaces;
  that platform is left out of this module. A killed process leaves its temporary
  file (`litter`).
* In `WorkspaceConfig` "port" stands for every option with a plain value, and an
  environment is the set of apps it refers to. Files that cannot be read or parsed,
  ids twice in one local file, the manifest's own `name`, and `nook.local.toml`
  without a `nook.toml` are left out. A member at the root has no file of its own
  but a `nook.toml` that `--config` passed over and a `nook.local.toml` without
  entries of apps (`OwnFile`, `OwnLocal`).
* In `FrameworkArguments` an argument is a word, or an option with its value in it;
  paths, versions but one and the environment variables of the frameworks are left
  out. An option typed last without a value (`vite --port=80 --port`) keeps having
  none.
* `FinalizeLease` entries are decoded but written by no code; they are left out.
* Left out of `Nook`: readiness and ports, which `RunSupervisor` has, Tailscale,
  the session of the root runner and the group's own entry in the registry; left
  out everywhere: timestamps.

## 3. Runs

| run | question | bounds |
| --- | --- | --- |
| `commands` | do alias set, alias remove, runs, workspaces, prune and reconciliation keep the journal and the routes right, and know at each step what has become of them, competing across servers, and is each of their steps an atomic change of ownership or none? | 2 processes, 3 ids on 2 hostnames (two on different servers compete), 1 fault |
| `workspaces` | the same for workspaces and root runners of several apps next to every other command, with the full inductive invariants; and is the rollback of a root runner, which lets go of the lock, the only step that leaves a route to nobody? | 2 processes, all 7 commands, 3 ids on 2 hostnames (two on different servers compete), none on the LAN; 1 fault |
| `runner_orphan` | the root runner next to `alias remove`: a violation, see section 6 | 2 processes, 1 fault |
| `recovery` | do registry, journal and routes agree in the end, and do two recorded runs ever have one mDNS name? | 3 processes, any 2 of 3 ids: two LAN runs of two hostnames with one mDNS name, on the two servers, and a competitor of one of them; 2 faults |
| `caddy_race` | is every write of a list the transaction that `Nook` is built from, whoever else writes, and does a caller learn the truth? | 2 callers for one hostname and its LAN name, 2 foreign routes of which one is a catch-all, 1 retry, 1 fault |
| `serve` | do registrations and handlers stay consistent, and get settled, while other tools change the configuration and other accounts log in at any step? | 2 owners, one with Funnel; 2 ports, one for Funnel; 2 accounts, 2 changes, 1 fault |
| `serve_switch` | is the account that is logged in left alone if the registrations are another's? a violation, see section 6 | the same |
| `session` | has an app one server, does every shutdown end, and is everything found after a kill or failure? | 1 app, 2 wrappers (a restart, or two tasks in one directory), 2 faults |
| `session_leases` | are the leases found as well? a violation, see section 6 | the same, 1 fault |
| `programs` | of one run: is the terminal handed on and back, and readiness and announcement true, whatever child, shell and other programs do? Of updates: is a new release noticed, and a failed replacement on Windows reported, whoever reads, removes, empties and writes the result file at once? | one run, unbounded; 2 processes, 2 releases; 2 processes and their scripts, unbounded |
| `local` | processes, registry file, user files, configuration and arguments, one at a time | 3 process numbers and 4 births; 2 processes, 2 updates, 3 failures; 2 writers; 2 edits of a workspace of three apps; 3 arguments after each program behind each of 5 wrappers |
| `stop_force` | does `stop --force` end the tree? a violation, see section 6 | 3 process numbers, 3 births |

Two processes are enough for every interleaving of two commands under one
lock, and three ids are a new owner, the owner it displaces and the next one,
or a workspace of two apps and a competitor. Every Caddy call and every crash
point can take the fault; two faults are a failed command and a crash of the
one that recovers. A workspace in `workspaces` has one app or two, of which each can
displace an owner of the other server; there a run on the LAN is left out, whose
routes of two transactions `recovery` has. In `recovery` a run keeps its process busy for as long as
its child lives; with two ids there are at most two runs, so the third process
is always free to reconcile. In `session` two faults are a kill and a failure of
what cleans up after it, or a wrapper killed between spawn and publication and
its successor; a third wrapper would only meet what the second does. In
`caddy_race` one retry is enough for the second attempt to differ from the first,
and two callers with the other program are all that can come between a read and
its write.

In `local`, three numbers are a child, a descendant and whoever gets a free
number, and with four births each of them can be reused while the others are
still there. Three faults are a writer of the registry killed in the middle, a
power failure, and a failure of the next writer. Two edits are any two settings
of two sources, a directory and an option, or an app more or less; the three apps refer to one another
in a row, so that one edit closes a circle. Three arguments are an option, its
value and what follows them, or one option twice. The parts of `local`, and those of `programs`, share no
variables and no steps: a behaviour is one part's behaviour, the others keep their
first state.

Processes are symmetric in the safety runs; symmetry is not used with liveness.
Deadlock is checked except where the system may stop: in `session` and
`session_leases` when the session is over, in `serve` when every owner is gone and
nothing is registered, in `programs` when the run has ended or no nook is
left to run, in `local` and `stop_force` at the bounds. In `serve` a change
is anything that other tools, accounts or dying processes do; two are an account
that logs in and back, or a foreground session and an owner that goes under it.
An account may log in between any two calls of tailscale. A command that has checked
the identity by then publishes or withdraws in the wrong account (`serve_switch`), and
what it leaves there is nowhere on record. That is why `ServeInv`'s part about
handlers and `EventuallySettled` say something only as long as no login came
between a check and its use (`crossed`), while `ChangesFollowCheck`,
`PortsKeepTheirOwner` and `ForeignHandlersKept` hold of every behaviour.

### Properties

* `OrphanedOnlyByRollback`: at every crash point a route is owned or journaled
  (`NoOrphanedRoute`), but for one that the rollback of a root runner puts back
  when its owner left the registry in the rollback's gap. No other step makes an
  orphan, not even after such a rollback.
* `RouteInv`, of which `NoOrphanedRoute` is a part: what a command has taken down is
  gone or noted as failed, what it will bring back is on record, and every route a
  reconciliation meets is accounted for.
* `NoOwnerLeavesSilently`: no failure, crash or recovery costs an owner its
  place; only a successor, the user or its own death does.
* `RouteTakenOnlyUnderJournal`: an owner's route is taken down only while the
  journal holds what brings it back.
* `CleanReconcileConverges`: one reconciliation without a fault repairs
  everything.
* `CommandsStayRight`, the conjunction of `OwnershipInv` and `DepartureInv`: no
  command acts on stale owners, conflicts or journal entries; the reason for which a command drops an owner stays good until
  its write: the owner is on one of its hostnames, or dead and unsupervised; and no
  run is on record whose process was never started.
* `OneRunPerLanName`: two runs never announce one mDNS name.
* `OwnershipSpec`: refinement of `HostnameOwnership`.
* `EventuallyConverged`: journal, registry and Caddy agree for good once faults stop.
* `WritesAreTransactions`: when a request changes Caddy, its checks hold and its
  effect is `PutRoute` or `DropRoutes`, on what Caddy serves then and not on
  what was read before; and it stays before a catch-all.
* `ForeignRoutesUntouched`: Nook shares the list.
* `AnswersAreTrue`: a caller that is told "refused" or "too many retries" has
  changed nothing, and none changes it twice.
* `RegistryInv` (with `NeverHalfWritten` and `AcknowledgedStays`), `AtomicSpec`:
  the registry file.
* `ServeInv`: what Nook publishes, in any account, is on record for that account,
  until an account logs in between a check and its use.
* `ChangesFollowCheck`: the account whose configuration a command changes is that of
  the registrations, or logged in after this command read the identity.
* `PortsKeepTheirOwner`, `ForeignHandlersKept`: whose ports and handlers a command
  may touch.
* `EventuallySettled`: in the end what is registered is served and nothing else.
* `OneServerPerApp`: whatever was killed or failed, two members' processes never
  use one app's port, detached ones included.
* `LeaseFollowsClaim`: registry and context name the same server.
* `JournalCoversSession`: nothing of a session is left once its entry is gone.
* `OneGracefulSignal`: root and wrapper never both ask a process to end.
* `NoServerAfterClose`: the snapshot a shutdown works from is final.
* `ShutdownEnds`, `NothingIsLeftBehind`: shutdown and recovery of a session.
* `SignalsStayInRun`: no signal reaches a process outside the run it means,
  though numbers are reused.
* `RecoveryFindsAll`: a recovery that reports success left no descendant alive,
  however they fork and move meanwhile, but those it could not read and those that
  changed their group between its two looks at them, with what they forked since.
* `ReadyMeansServed`: nook's own reservation never answers its readiness probe.
  Another program that took the port may: the code has no way to tell.
* `TerminalReturned`, `TerminalTakenOnlyFromJob`, `JobControlFollows`,
  `ForegroundReachesChild`: the terminal between shell, nook and child.
* `DisplacedNameWithdrawn`: a run that lost its name stops announcing it.
* `ReleaseNoticed`: no interleaving of cache writers, kill, clock or lost network
  keeps a release unknown.
* `FailureReachesUser`: a failed replacement is printed by some command, unless a
  command started between the script's last look and its message, a reader was
  killed between removing and printing, or another script's message came over it.
* `NothingClobbered`: without `--force` nothing that exists is replaced.
* `SettingsAsDocumented`: every setting comes from the source that the
  documentation ranks highest, for every pair of edits.
* `StartedIsUnambiguous`: ids, names, directories and references of what starts.
* `ArgumentsAligned`: a framework's server listens where Nook looks for it, and
  the rest of its arguments are the user's.

### Fairness

`Progress` is weak fairness of the next step of each command that has begun.
It is what the operating system's scheduler and the code give: a step under
the lock waits for nobody but Caddy, and the lock is a blocking `flock` that its
holder's death frees. Calls on a Unix socket time out after 5 seconds
(`caddy.rs:417`). Those on TCP have no timeout: there, fairness assumes that
Caddy answers or the connection breaks. A Caddy call that keeps
failing is not excluded, it is bounded by `MaxFaults`. Nothing makes a user
start a command or a child exit. `EventuallyConverged` also needs that nook is
run now and then (`RecoverySpec`), since there is no daemon; its messages say
so ("the next reconciliation", "run `nook prune`"). `EventuallySettled` assumes
that the steps of a command go on and that nook is run now and then; it says
nothing while the account that is logged in is not the registered one. In
`session` the root nook, each wrapper and a reconciling command are fair as wholes:
each takes its next step, and waits only for locks that are held by processes that
are fair as well or dead. Reconciling is fair because users run nook again; a
runner and its servers need never end by themselves.

In `programs` nook's loop in a run is weakly fair as a whole, since it sleeps and polls
while its job is not stopped, and `LanPoll` is strongly fair: the loop comes to it
again and again, and each 250 ms it may read the registry. Child, shell and other
programs need do nothing. Of updates it is assumed that commands go on unless they are
killed and scripts go on; that users keep running nook; that of the
commands that get to the network some find it up, and of those that get to a step of
the report not all are killed there (strong fairness of the step by somebody); and
that the clock moves on although it may be set back.

## 4. Proofs

`NookProofs` proves, for every number of processes, ids, hostnames and faults
and every set of commands, from the typing assumptions of the constants only:

| theorem | says |
| --- | --- |
| `OwnershipHolds` | `Spec => []OwnershipInv` |
| `HostnamesHaveOneOwner` | `Spec => []OneOwnerPerHostname` |
| `ReplayIsSafe` | `Spec => []JournalSparesOwners` |
| `TypesHold` | `Spec => []TypeOK` |

`OneOwnerPerHostname` is not inductive: what makes the registering write safe
is that the owners the command noted, perhaps several Caddy calls ago, are
still all the owners of its hostnames. `OwnershipInv` says so
(`NothingMissed`), together with the facts that keep it true: whoever is
between locking and unlocking is the lock's holder (`LockHeld`), ids of
different commands are different (`OwnIds`), the ids of a command are not on
record before its write (`NotRecorded`) and its loops stay within what it noted
(`Loops`). For `JournalSparesOwners` a reconciliation's draft must spare every
owner the write keeps (`Draft`). The proof has one lemma per action or group of
actions; steps of other processes leave the lock holder's facts alone because
they do not write the registry, and the exception, `abandon` after the root
runner took the lock again, is why `NothingMissed` is claimed for committing
labels only.

On these rest, in the same module:

| theorem | says |
| --- | --- |
| `DeparturesAreKnown` | `Spec => []CommandsStayRight`, that is `OwnershipInv /\ DepartureInv` |
| `DeparturesAreNeverSilent` | `Spec => NoOwnerLeavesSilently` |
| `OwnershipIsAtomic` | `Spec => OwnershipSpec`, the refinement of `HostnameOwnership` |

The two action properties need more than `OwnershipInv`: that a commit displaces
owners on its own hostnames only (`Aimed`), that what ends is dead (`Started`), and
that a lease judged dead stays dead and unsupervised while the reconciliation goes
on (`DeadIsDead`). They are kept because a step does at most what `StepOf` allows:
it changes one command, invents ids nobody has used, only starts children of its own
command under the lock, and only the lock's holder adds to a group. Each action is
shown to be such a step, and `StepKeepsDepartures` does the rest once for all. In
the refinement `RegistryWrites` leaves two kinds of steps that change who is on
record: those of `Records` are a `Take` of the command's apps, those of `Drops` a
`Release`; all others give up ids at most, since the ids that can still be recorded
only become fewer (`SpentGrows`).

`RouteProofs` goes on to Caddy's routes, for every number of commands, owners, hosts
and faults:

| theorem | says | assuming |
| --- | --- | --- |
| `LanNamesAreApart` | `Spec => []OneRunPerLanName` | nothing |
| `RoutesAreKnown` | `Spec => []RouteInv` | `[]RollbackKeepsOwners` |
| `OnlyARollbackOrphansRoutes` | `Spec => []NoOrphanedRoute` | `[]RollbackKeepsOwners` |
| `RoutesGoForAReason` | `Spec => RouteTakenOnlyUnderJournal` | `[]RollbackKeepsOwners` |
| `CleanReconciliationsConverge` | `Spec => CleanReconcileConverges` | `[]RollbackKeepsOwners` |
| `WithoutRootRunners` | the last three | `"runner" \notin Commands` instead |

`RollbackKeepsOwners` says that nobody drops an owner which a root runner is going to
put back while it has let go of the operations lock (`workspace.rs:636`). The code does
not ensure that, and finding `runner_orphan` is a behaviour without it; the theorems
say that this gap is the only way to orphan a route, and `WithoutRootRunners` that
all other commands need no assumption.

The run `workspaces` checks the conclusion step by step, without the assumption and in
behaviours where the gap has been used (`OrphanedOnlyByRollback`); that stays with TLC.

`NoOrphanedRoute` is not inductive. A route is installed, taken down, put back and
recorded in four different steps, and the step that drops a journal entry is right
only because of what the earlier ones did. `RouteInv` adds, for each command, what
it knows: until it commits, the journal names every app it has looked up
(`Announced`); whom it will put back is on record (`Restorable`); what it has taken
down is gone unless it noted a failure, for which it then writes an entry
(`TakenDown`); each route that a reconciliation meets has an owner that stays, an
owner it is about to look at, or an entry in the draft (`Accounted`); and as long as
nothing fails it can reach all servers it needs and leaves nothing undone
(`Repairing`, from which `CleanReconcileConverges` follows at the final write).
`EnsureOutcome` and `RemoveOutcome` say what a Caddy call of one or two transactions
can have done when it succeeds, fails or is not answered. Each command then has a
lemma that its own step keeps the invariant; for the others, `OthersWait` says that while a command
is in a step under the operations lock, no other changes the registry, the journal or
the routes. The rollback's gap is the one place where a command knows something
of the registry without the lock, which is where the assumption comes in.

`LanInv` says that an app which was looked up has no recorded run with its mDNS name,
until the commit, and that the apps of a command differ in theirs (`LanApart`). It
needs no assumption, since nobody records a run without the lock.

TLC checks `RouteInv` in the run `commands`, which has no root runner.

`SessionProofs` proves, for every number of apps, wrappers, kills and failures:

| theorem | says |
| --- | --- |
| `SessionInvariantHolds` | `Spec => []SessionInv` |
| `SessionTypes` | `Spec => []TypeOK` |
| `OneServer` | `Spec => []OneServerPerApp` |
| `SessionIsJournaled` | `Spec => []JournalCoversSession` |
| `LeaseFollows` | `Spec => []LeaseFollowsClaim` |
| `SignalledOnce` | `Spec => []OneGracefulSignal` |
| `CloseIsFinal` | `Spec => NoServerAfterClose` |

`SessionInv` starts from who holds which of the locks at which step (`LockInv`). A
member that is in a critical section after its claim still has the claim, because
nobody takes a claim without the session lock (`ClaimInv`), and so everything that is
left of a member is named by the claim of its app (`LeftIsClaimed`): since an app has
one claim, it has one server. `JournalInv` says at which steps of the root and of a
reconciliation nothing can be left any more, which is what makes forgetting the group
safe, and `StartInv` that nothing starts before its journal entry. For
`OneGracefulSignal`, `AskedInv` says who asked: a wrapper that is still in its grace
period, as long as the root has not closed the session, or the root, which signals
after it has closed it (`CloseInv`). `NoServerAfterClose` follows from `CloseInv`: the
step that publishes a server reads the context under the lock.

`CaddyProofs` proves about `CaddyAdmin`, for route lists of any length and every number
of callers, foreign routes, retries and faults:

| theorem | says |
| --- | --- |
| `AdminInvariantHolds` | `Spec => []AdminInv` |
| `AnswersHold` | `Spec => []AnswersAreTrue` |
| `ForeignRoutesStay` | `Spec => ForeignRoutesUntouched` |
| `WritesHold` | `Spec => WritesAreTransactions` |

It assumes of the constants that the other programs' routes are finitely many and none
of them has the `@id` of a container of Nook's (`ForeignRoutesAreTyped`), and that what
Nook serves are containers (`ServedAreContainers`).

`AdminInv` is small: a request on its way carries what its transaction makes of the
list that its ETag names, which passed the checks (`RequestInv`); a caller waits for
one request at most, and until it has an answer nothing of its call has been applied
(`CallInv`). That is why a write that matches is its transaction applied to what Caddy
serves at that moment, and why a caller that is told "refused" or "exhausted" has
changed nothing.

The rest of the proof is about lists. `Retained` (`Vec::retain`) is a recursive
function, and what it computes on a list of any length needs induction. The library's
induction theorems take an operator, which no prover here instantiates, so the module
proves its own that take a set: `LeastNumber` from the well-foundedness of `<`, then
`NumbersByInduction` and `SequencesByInduction`. From these follow the lemmas the
transformation needs: retaining keeps the order of what stays and commutes with
concatenation (`RetainedConcatenated`), inserting a container changes nothing of the
other entries (`Inserted`), and the first catch-all found is the first there is
(`FirstCatchAll`). `RewrittenContainer` and `TransformedList` put them together: the
new list has the foreign routes of the old one in their order, the managed routes that
`PutRoute` or `DropRoutes` of `CaddyRoutes` give, and no catch-all before a container
of the transaction.

`LocalProofs` proves about `RegistryFile`, for every number of processes, updates and
faults:

| theorem | says |
| --- | --- |
| `RegistryHolds` | `Spec => []RegistryInv` |
| `RegistryIsWhole` | `Spec => []NeverHalfWritten` |
| `AcknowledgedUpdatesStay` | `Spec => []AcknowledgedStays` |
| `LaterVersionStays` | `Spec => LaterVersionKept` |
| `RegistryIsAtomic` | `Spec => AtomicSpec`, the refinement of `AtomicRegistry` |

`RegistryInv` adds to these properties that the holder of the lock has drafted
from the registry that is still in the file, that the temporary file is whole
and synced when it is renamed (`WriterInv`), and that the disk is never ahead of
the file (`DiskInv`). Each operation has a lemma; a power failure can only fall
back to `disk`, which `DiskInv` keeps whole and not behind the acknowledged
updates. For the refinement, `Rename` is the atomic update, `SyncDirectory` the
acknowledgement, and `PowerFails` undoes what was not acknowledged.

About `UserFiles` it proves, for every number of commands and settings:

| theorem | says |
| --- | --- |
| `UserFilesTyped` | `FilesSpec => []FilesTypeOK` |
| `NothingIsClobbered` | `FilesSpec => NothingClobbered` |

No stronger invariant is needed: whatever the path held when a command checked it,
the move itself fails if there is anything at the path by now.

About `WorkspaceConfig`, for any apps, directories, values and number of edits:

| theorem | says |
| --- | --- |
| `ConfigurationTyped` | `ConfigSpec => []ConfigTyped` |
| `SettingsFollowSources` | `ConfigSpec => []SettingsAsDocumented` |
| `StartedStaysUnambiguous` | `ConfigSpec => []StartedIsUnambiguous` |

It assumes that the apps of the first manifest are ids and that the fields have values
(`ConfigAssumption`). What is loaded is a function of what is written, so that the
invariant is only that what is written has the right shape; the work is in the
functions. The members that `load_inner` accepts are those of a prefix of the manifest,
pairwise different (`Accepted`), and stay so with each one it adds (`AcceptedGrows`). A
merge takes the first layer that sets a field (`MergedSettings`), and the entry of an
app is the first of its id (`FirstEntry`).

The search for cycles, `SearchFrom`, is a recursive function of the apps that are not
on the active path, and each depth runs over the targets with another recursion. That
both are functions at all is proved first (`Recursion`, `NextDepthSound`), by induction
over numbers with the lemma about sets that `CaddyProofs` also uses. `Sure` is its
invariant: what has been searched refers only to what has been searched, is not on the
active path, and has no set in which every app waits for another of the set. Adding an
app whose references are searched keeps it (`OneMoreIsSure`), so that a search of all
apps that ends well leaves no cycle. The theorem says nothing about the converse, that
every cycle-free workspace starts.

About `FrameworkArguments`, for commands of any length, any wrappers and programs:

| theorem | says |
| --- | --- |
| `ServersListenAsTold` | `ArgumentsSpec => []ArgumentsAligned` |

It assumes only that a wrapper is a sequence (`WrapperAssumption`). `BothPasses` says
what the two overwriting passes make of each argument: an option of Nook's keeps its
name, and is given Nook's value in itself or in the argument after it, unless it is a
`--port` with no value at all. `AlignedAdds` says that what follows are options of
Nook's with their values, for each option that no occurrence was overwritten of. From
the two it follows what the server reads at the user's occurrences
(`ReadsOverwritten`) and at Nook's (`ReadsAdded`), and that no other argument changes or
becomes the value of another option (`OthersStay`). The last step puts the parts
together: the aligned arguments have no `--` in them, so that the server's arguments
end where the user's did (`SeparatorAfter`).

`TailscaleProofs` proves, for every number of owners, ports, accounts, changes and
faults, with accounts that log in at any step:

| theorem | says |
| --- | --- |
| `ServeInvHolds` | `Spec => []ServeInv` |
| `HandlersStayRecorded` | `Spec => []HandlersAreRecorded`, which excepts what comes after a login between a check and its use (`crossed`) |
| `PortsStayWithOwners` | `Spec => PortsKeepTheirOwner` |
| `ChangesFollowTheCheck` | `Spec => ChangesFollowCheck` |
| `ForeignHandlersStay` | `Spec => ForeignHandlersKept` |

`ServeInv` adds to `HandlersAreRecorded` that owners are registered once and have
no port before one is allocated (`OwnersRegisterOnce`), that a command that changes
the configuration works for the registered account, which is the current one unless
another logged in since (`WorksForCurrent`), and that what it is about to forget is not served and the
handlers it has still to judge are as it read them (`ForgetsUnserved`). The last
part is what the order of the code achieves: nothing but Nook makes an owner's
handler, so that a handler may vanish behind a command's back but never appear.
For `ForeignHandlersStay`, `KnowsThePort` says what a command has read of the port
it is about to change. It protects what was read and nothing later: a handler set
between `register`'s read (`tailscale.rs:845`) and its publication
(`tailscale.rs:887`), or before a handler is turned off (`tailscale.rs:1054`, `957`),
is lost, since the command line of tailscale has no conditional write.

`ProcessProofs` proves, for every number of process numbers and births:

| theorem | says |
| --- | --- |
| `GroupsInvHolds` | `GroupsSpec => []GroupsInv` |
| `SignalsAlwaysStay` | `GroupsSpec => []SignalsStayInRun` |
| `RecoveryIsComplete` | `GroupsSpec => RecoveryFindsAll` |

`SignalsStayInRun` rests on what the kernel keeps (`KernelInv`: a birth is given
once, and a group is all in the run or all outside it, since a number that still
names a group is not given out), on what each identity stands for (`ChildInv`,
`LeaseInv`: whoever still has the recorded number, group and start time is what was
launched, and a group whose leader was checked is the run's), and on what the scan
has pinned (`ScanInv`: the identity is read again after `pidfd_open`, so that who
is fired at had the marker). The windows that the code leaves open, between a check
and a `kill` by number, are the assumption `Checked`; those of the scan are closed
by the code, and the proof does not need it there.

`RecoveryFindsAll` rests on `SweepInv`. A pass over `/proc` that has signalled nobody
leaves nothing of the tree behind it: what is alive of the tree has a higher number
than the entry inspected, is that entry, with the birth read there, or is one the
pass left alone (`NobodyBehind`). It stays so because the tree is numbered upwards (`NumbersGrow`; the
model assumes that a marked tree does not live across the turn of the numbers), so
that what an uninspected process forks also comes after the cursor. A pass that has
signalled somebody is followed by another one, and only a pass without a signal ends
the recovery. Those left alone are part of the statement, since the code leaves them: the
scan passes over an entry whose group changed between its two looks (section 6), or
whose environment it cannot read, and what these fork before
the pass ends may be behind the scan as well.

`SupervisorProofs` proves:

| theorem | says |
| --- | --- |
| `SupervisorTypes` | `SupervisorSpec => []SupervisorTypeOK` |
| `ReadyIsServed` | `SupervisorSpec => []ReadyMeansServed` |
| `TerminalIsReturned` | `SupervisorSpec => []TerminalReturned`, assuming `~ShellDuringSpawn` |
| `TerminalStaysWithOthers` | `SupervisorSpec => TerminalTakenOnlyFromJob`, assuming also `~NookStoppedAlone` |

`PortInv` says that nook itself listens on the port only before the child is
spawned. `GuardInv` says that the child, or a group of its making, has the terminal
only while nook holds a `TerminalForeground`, and that every way out of the run has
dropped it. `ForegroundInv` says that under a guard nook's job is not stopped and the
terminal is not the shell's, which is why the guard's end takes it from nobody else.

Only model-checked are the liveness properties, since fairness and `ENABLED` are out of
the prover's reach, and with them `SelfUpdate` and `DeferredUpdate`, of which nothing
else is promised, and `OrphanedOnlyByRollback`: `OnlyARollbackOrphansRoutes` proves that
there is no orphan where the rollback's gap drops no owner, not what happens after
one that does. Every other property of a passing run is stated
by a theorem.

## 5. Not modelled, and what is left

Left to model: discovery and bootstrap of Caddy's servers and the framing of the
HTTP client (`caddy.rs`), the diagnosis of Tailscale's state, Windows job objects and
console events, readiness and ports of the members of a root runner, and the
environment variables that frameworks get.

Theorems to come: that an accepted configuration is not refused, that is, that the
search for cycles fails only if there is one; type invariants of `SelfUpdate` and
`DeferredUpdate`.

Not planned: argument parsing, output, completions, listings, templates, the
JavaScript wrapper, installers and Docker files, which are sequential or hold
no state; the mDNS daemon, the HTTP client and the archive formats, which are
libraries. `PROJECT.json` lists every component and what of it is left out.

## 6. Findings

`runner_orphan`: when a root runner cannot start, `run_runner` releases the
operations lock before its rollback (`workspace.rs:636`) and then abandons its
apps with the displaced owners it noted before. If `nook alias remove` of such
an owner completes in the gap, `abandon_route` (`process.rs:797`) puts back the
route of an alias that is on record no longer. No journal entry names it, so
reconciliations leave it; `nook prune` would remove it. `docs/TRACEABILITY.md:22`
promises that no route is orphaned, and the comment at `process.rs:798` relies
on the registry still recording these owners. Every other start path keeps the
lock, and their runs check the same property successfully.

`session_leases`: `RunnerTree::stop` forgets the group (`workspace.rs:462`) before
`run_runner` removes the leases of its apps (`workspace.rs:760`). If the root nook
is killed in between, or removing a lease fails, reconciliation finds leases with
a dead supervisor and no group, cannot tell where their session was
(`reconcile.rs:413`), and keeps them as indeterminate for good: `nook prune`, which
"removes dead leases and orphaned routes" (`README.md:408`), never removes them.
Native workspaces remove the group last.

`stop_force`: `stop_managed` sends SIGTERM to the whole group and then polls the
leader alone (`process.rs:1093`). When the leader exits while another process of
its group handles the signal and stays, the poll ends the command with success and
the group never gets SIGKILL. `README.md:406` says that `--force` "waits up to two
seconds, then forcibly terminates the same process tree if it is still alive".

`serve_switch`: `check_identity` compares the account that is logged in with the
registered one once (`tailscale.rs:1001`, and `952` for a release), and every `serve`
call that follows goes to whatever account is logged in by then. A login in between
gets Nook's handler (`tailscale.rs:887`) or loses its own to the off call
(`tailscale.rs:957`). `README.md:752` binds registrations to the recorded name
without a condition, and `tests/tailscale_serve.rs:981` tests a switch between two
commands, for which it holds.

Two more disagreements are exceptions that properties make, and have no run of their own:

* `FailureReachesUser`: `README.md:414` says that the next invocation reports a failed
  deferred update. The script looks for running nooks (`update.rs:528`) before it
  writes its message (`update.rs:534`). A command that starts in between finds no
  message yet; if it updates, `replace_binary` removes the message that has come since
  without reading it (`update.rs:555`), and a command that read an older message or an
  empty file does the same (`update.rs:609`).
* `RecoveryFindsAll`: the comment at `process.rs:2403` says that the scan covers
  `setsid` descendants. `signal_marked_process` takes an entry whose group differs from
  what the scan read for another process (`process.rs:2619`), so that a descendant that
  calls `setsid` just then is passed over, and if nobody else was signalled the
  recovery counts the member as gone. It holds for those that had left the group
  before the scan looked.
