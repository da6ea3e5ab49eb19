-------------------------------- MODULE Nook --------------------------------
(***************************************************************************)
(* The core of Nook: which alias or run owns a hostname, and how the       *)
(* registry, its journal of pending operations and the routes served by    *)
(* Caddy are kept in step by concurrent `nook` commands                    *)
(* (src/src/reconcile.rs, process.rs, workspace.rs, cli.rs, state.rs).     *)
(*                                                                         *)
(* A process is one `nook` command at a time.  Commands are serialised by  *)
(* the operations lock, which the system frees when its holder dies; every *)
(* registry write is one atomic Store::mutate; every Caddy call is one     *)
(* step.  Between any two steps the process can crash, and any Caddy call  *)
(* can fail, with or without its write having been applied.                *)
(***************************************************************************)
EXTENDS CaddyRoutes

CONSTANTS
  Procs,      \* concurrently running nook processes
  NoProc,     \* nobody holds the operations lock
  NoOwner,
  Commands,   \* the commands the processes issue
  MaxFaults   \* bound on injected faults (crashes, failed calls and writes)

ASSUME NoProcIsNoProcess == NoProc \notin Procs
ASSUME NoOwnerIsNoOwner == NoOwner \notin Owners
ASSUME FaultsAreBounded == MaxFaults \in Nat
ASSUME CommandsExist ==
  Commands \subseteq {"alias", "unalias", "run", "workspace", "runner", "reconcile", "prune"}

VARIABLES
  \* the registry file
  aliases,    \* ids of the recorded aliases
  leases,     \* ids of the recorded leases
  grouped,    \* those leases that belong to a workspace group
  pending,    \* pending_operations, the journal
  \* outside the registry
  routes,     \* the managed routes Caddy serves
  child,      \* the process behind a lease: none, alive or dead
  operations, \* the holder of the operations lock
  \* the running commands
  pc,
  local,      \* what a command keeps in memory
  \* bookkeeping
  used,       \* ids generated so far (UUIDs are never generated twice)
  faults      \* faults injected so far

registry == <<aliases, leases, grouped, pending>>
vars == <<registry, routes, child, operations, pc, local, used, faults>>

RemovingKinds == {"install", "start", "remove"}
Kinds == RemovingKinds \cup {"restore"}
Op(kind, o) == [kind |-> kind, owner |-> o]
PendingOperations == [kind : Kinds, owner : Owners]

\* The owners the registry records, and the routes it calls for.
Registered == aliases \cup leases
OwnersOf(h) == {o \in Registered : Host[o] = h}
ExpectedRoutes == UNION {RoutesOf(o) : o \in Registered}

LockedLabels ==
  {"aliasEnsure", "aliasPublish", "aliasUndo", "aliasRestore",
   "aliasClean", "unaliasRemove", "unaliasDone",
   "prepare", "ensure", "journal", "spawn", "clean",
   "abandon", "abandonRestore", "finishRemove", "finishWrite",
   "orphans", "replay", "routes"}
Labels == LockedLabels \cup {"idle", "live", "finish", "rollback"}

\* What a command holds in memory.
Locals ==
  [cmd : Commands \cup {"none"},
   force : BOOLEAN,             \* --force
   sel : SUBSET Servers,        \* the Caddy servers it selected
   apps : SUBSET Owners,        \* the ids it generated, one per app
   displaced : SUBSET Owners,   \* the owners it found on their hostnames
   cur : Owners \cup {NoOwner}, \* the app being prepared, abandoned or finished
   todo : SUBSET Owners,        \* what the loop it is in has left
   failed : SUBSET Owners,      \* owners whose route could not be removed
   ops : SUBSET PendingOperations,   \* pending operations left to replay
   kept : SUBSET PendingOperations,  \* pending operations to write back
   orphans : SUBSET Routes,     \* observed routes without a recorded owner
   dead : SUBSET Owners,        \* leases found dead
   unsure : SUBSET Owners,      \* leases of indeterminate liveness
   mark : 0..MaxFaults]         \* faults when this reconciliation began

Idle ==
  [cmd |-> "none", force |-> FALSE, sel |-> {}, apps |-> {}, displaced |-> {},
   cur |-> NoOwner, todo |-> {}, failed |-> {}, ops |-> {}, kept |-> {},
   orphans |-> {}, dead |-> {}, unsure |-> {}, mark |-> 0]

TypeOK ==
  /\ aliases \subseteq Owners
  /\ leases \subseteq Owners
  /\ grouped \subseteq leases
  /\ pending \subseteq PendingOperations
  /\ routes \subseteq Routes
  /\ child \in [Owners -> {"none", "alive", "dead"}]
  /\ operations \in Procs \cup {NoProc}
  /\ pc \in [Procs -> Labels]
  /\ local \in [Procs -> Locals]
  /\ used \subseteq Owners
  /\ faults \in 0..MaxFaults

Init ==
  /\ aliases = {} /\ leases = {} /\ grouped = {} /\ pending = {}
  /\ routes = {}
  /\ child = [o \in Owners |-> "none"]
  /\ operations = NoProc
  /\ pc = [p \in Procs |-> "idle"]
  /\ local = [p \in Procs |-> Idle]
  /\ used = {}
  /\ faults = 0

-----------------------------------------------------------------------------
(* Steps shared by the commands.                                           *)

Goto(p, label, memory) ==
  /\ pc' = [pc EXCEPT ![p] = label]
  /\ local' = [local EXCEPT ![p] = memory]

\* Store::lock_operations, and the guard's release.
Lock(p) == operations = NoProc /\ operations' = p
Unlock == operations' = NoProc
Return(p) == Unlock /\ Goto(p, "idle", Idle)

Spend(fault) ==
  /\ faults' = faults + (IF fault THEN 1 ELSE 0)
  /\ faults' <= MaxFaults

\* Apply one outcome of a Caddy call.
Call(result) == routes' = result.routes /\ Spend(result.fault)

\* Mutation of Removal: a failed removal is only reported.
RemovalForgotten(failed) == {}

\* queue_remove when the removal of an owner's route failed.
Removal(failed) == {Op("remove", o) : o \in failed}

\* Mutation of Completed: the entry is looked up as it was first written.
CompletedInstall(o) == {Op("install", o)}

\* The entry of the command's own operation id, InstallRoute and later
\* StartProcess for a run.
Completed(o) == {Op("install", o), Op("start", o)}

\* The journal without the entries of the owners os.
JournalWithout(os) == {op \in pending : op.owner \notin os}

\* A nook process still works on behalf of this owner.
Supervised(o) == \E q \in Procs : o \in local[q].apps

-----------------------------------------------------------------------------
(* nook alias set: set_alias_with.                                         *)

\* Mutation of Displaced: only aliases are looked up.
DisplacedAliases(h) == {a \in aliases : Host[a] = h}

\* The owners a forced replacement displaces, noted under the lock.
Displaced(h) == OwnersOf(h)

\* Lock, note the owners of the hostname, refuse them without --force, journal.
SetAlias(p, o, force) ==
  LET found == Displaced(Host[o]) IN
  /\ pc[p] = "idle"
  /\ o \notin used /\ ~Lan[o]
  /\ found = {} \/ force
  /\ Lock(p)
  /\ used' = used \cup {o}
  /\ pending' = pending \cup {Op("install", o)}
  /\ Goto(p, "aliasEnsure",
          [Idle EXCEPT !.cmd = "alias", !.force = force, !.sel = {Server(Tls[o])},
                       !.apps = {o}, !.cur = o, !.displaced = found])
  /\ UNCHANGED <<aliases, leases, grouped, routes, child, faults>>

\* Install the route.  On an error the journal entry stays for recovery.
AliasEnsure(p) ==
  LET me == local[p] IN
  /\ pc[p] = "aliasEnsure"
  /\ \E r \in Ensure(routes, me.cur, me.force, me.sel) :
       /\ Call(r)
       /\ IF r.ok THEN operations' = operations /\ Goto(p, "aliasPublish", me)
                  ELSE Return(p)
  /\ UNCHANGED <<registry, child, used>>

\* The publish callback (Tailscale) fails or succeeds.
AliasPublish(p) ==
  LET me == local[p] IN
  /\ pc[p] = "aliasPublish"
  /\ \/ Goto(p, "aliasClean", [me EXCEPT !.todo = me.displaced])
     \/ Goto(p, "aliasUndo", me)
  /\ UNCHANGED <<registry, routes, child, operations, used, faults>>

AliasUndo(p) ==
  LET me == local[p] IN
  /\ pc[p] = "aliasUndo"
  /\ \E r \in RemoveIfOwned(routes, me.cur, Tls[me.cur], me.sel) :
       /\ Call(r)
       /\ Goto(p, "aliasRestore", [me EXCEPT !.todo = me.displaced,
                                             !.failed = IF r.ok THEN {} ELSE {me.cur}])
  /\ UNCHANGED <<registry, child, operations, used>>

\* Errors are ignored: the registry still records these owners.
AliasRestore(p) ==
  LET me == local[p] IN
  /\ pc[p] = "aliasRestore"
  /\ \E d \in me.todo : \E r \in Ensure(routes, d, TRUE, me.sel) :
       Call(r) /\ Goto(p, "aliasRestore", [me EXCEPT !.todo = @ \ {d}])
  /\ UNCHANGED <<registry, child, operations, used>>

AliasDrop(p) ==
  LET me == local[p] IN
  /\ pc[p] = "aliasRestore" /\ me.todo = {}
  /\ pending' = (pending \ Completed(me.cur)) \cup Removal(me.failed)
  /\ Return(p)
  /\ UNCHANGED <<aliases, leases, grouped, routes, child, used, faults>>

AliasClean(p) ==
  LET me == local[p] IN
  /\ pc[p] = "aliasClean"
  /\ \E d \in me.todo : \E r \in RemoveIfOwned(routes, d, Tls[d], me.sel) :
       /\ Call(r)
       /\ Goto(p, "aliasClean",
               [me EXCEPT !.todo = @ \ {d}, !.failed = IF r.ok THEN @ ELSE @ \cup {d}])
  /\ UNCHANGED <<registry, child, operations, used>>

\* One write drops the displaced owners with their journal entries, records
\* the alias, and queues the removals that failed.
AliasCommit(p) ==
  LET me == local[p] IN
  /\ pc[p] = "aliasClean" /\ me.todo = {}
  /\ aliases' = (aliases \ me.displaced) \cup {me.cur}
  /\ leases' = leases \ me.displaced
  /\ grouped' = grouped \ me.displaced
  /\ pending' = (JournalWithout(me.displaced) \ Completed(me.cur))
                  \cup Removal(me.failed)
  /\ Return(p)
  /\ UNCHANGED <<routes, child, used, faults>>

-----------------------------------------------------------------------------
(* nook alias remove.  The server is selected from a listing read before   *)
(* the lock, so it can be the one of an alias replaced in the meantime.    *)

RemoveAlias(p, a, tls) ==
  /\ pc[p] = "idle"
  /\ a \in aliases
  /\ Lock(p)
  /\ aliases' = aliases \ {a}
  /\ pending' = pending \cup {Op("remove", a)}
  /\ Goto(p, "unaliasRemove",
          [Idle EXCEPT !.cmd = "unalias", !.sel = {Server(tls)}, !.cur = a])
  /\ UNCHANGED <<leases, grouped, routes, child, used, faults>>

UnaliasRemove(p) ==
  LET me == local[p] IN
  /\ pc[p] = "unaliasRemove"
  /\ \E r \in RemoveIfOwned(routes, me.cur, Tls[me.cur], me.sel) :
       /\ Call(r)
       /\ IF r.ok THEN operations' = operations /\ Goto(p, "unaliasDone", me)
                  ELSE Return(p)
  /\ UNCHANGED <<registry, child, used>>

UnaliasDone(p) ==
  /\ pc[p] = "unaliasDone"
  /\ pending' = pending \ {Op("remove", local[p].cur)}
  /\ Return(p)
  /\ UNCHANGED <<aliases, leases, grouped, routes, child, used, faults>>

-----------------------------------------------------------------------------
(* nook run: start_run_with_hook, WorkspacePlan::start and run_runner.     *)
(* "run" starts one app; "workspace" several, each with a child of its     *)
(* own; "runner" several behind one child, the root runner.                *)

\* Lock.  Workspaces reject LAN apps and apps sharing a hostname.
StartRun(p, cmd, apps, force) ==
  /\ pc[p] = "idle"
  /\ apps # {} /\ apps \cap used = {}
  /\ IF cmd = "run" THEN \A a, b \in apps : a = b
                    ELSE \A a, b \in apps : ~Lan[a] /\ (Host[a] = Host[b] => a = b)
  /\ Lock(p)
  /\ used' = used \cup apps
  /\ Goto(p, "prepare",
          [Idle EXCEPT !.cmd = cmd, !.force = force, !.apps = apps, !.todo = apps,
                       !.sel = {Server(Tls[a]) : a \in apps}
                                 \cup (IF \E a \in apps : Lan[a] THEN {"HTTP"} ELSE {})])
  /\ UNCHANGED <<registry, routes, child, faults>>

\* Mutation of LanConflict: the LAN names of other hostnames are not compared.
LanConflictIgnored(a) == FALSE

\* Another run already announces this LAN name for another hostname.
LanConflict(a) ==
  Lan[a] /\ \E l \in leases : /\ Lan[l] /\ Host[l] # Host[a]
                              /\ LanName[Host[l]] = LanName[Host[a]]

\* prepare_run, up to the journal: note the owners to displace.
PrepareRun(p) ==
  LET me == local[p] IN
  /\ pc[p] = "prepare"
  /\ \E a \in me.todo :
       LET found == Displaced(Host[a]) IN
       /\ ~LanConflict(a)
       /\ found = {} \/ me.force
       /\ pending' = pending \cup {Op("install", a)}
       /\ Goto(p, "ensure", [me EXCEPT !.cur = a, !.todo = @ \ {a},
                                       !.displaced = @ \cup found])
  /\ UNCHANGED <<aliases, leases, grouped, routes, child, operations, used, faults>>

\* Give up the apps prepared so far.  The root runner's command releases the
\* operations lock first and takes it again to abandon them.
RollBack(p, me, prepared) ==
  IF prepared = {} THEN Return(p)
  ELSE IF me.cmd = "runner"
    THEN Unlock /\ Goto(p, "rollback", [me EXCEPT !.apps = prepared, !.todo = prepared])
    ELSE /\ operations' = operations
         /\ Goto(p, "abandon", [me EXCEPT !.apps = prepared, !.todo = prepared])

\* RunError::Conflict and RunError::LanHostnameConflict: nothing was written
\* for this app, those prepared before it are given up.
PrepareRejected(p) ==
  LET me == local[p] IN
  /\ pc[p] = "prepare"
  /\ \E a \in me.todo :
       /\ LanConflict(a) \/ (Displaced(Host[a]) # {} /\ ~me.force)
       /\ RollBack(p, me, me.apps \ me.todo)
  /\ UNCHANGED <<registry, routes, child, used, faults>>

\* The app being prepared is abandoned under the lock it was prepared under,
\* in a native workspace together with those prepared before it.
AbandonCurrent(p, me) ==
  LET prepared == me.apps \ me.todo IN
  Goto(p, "abandon",
       [me EXCEPT !.apps = prepared,
                  !.todo = IF me.cmd = "runner" THEN {me.cur} ELSE prepared])

EnsureRun(p) ==
  LET me == local[p] IN
  /\ pc[p] = "ensure"
  /\ \E r \in Ensure(routes, me.cur, me.force, me.sel) :
       /\ Call(r)
       /\ IF r.ok THEN Goto(p, "journal", me) ELSE AbandonCurrent(p, me)
  /\ UNCHANGED <<registry, child, operations, used>>

\* The exposure fails, or the StartProcess entry cannot be written.
JournalFails(p) ==
  LET me == local[p] IN
  /\ pc[p] = "journal"
  /\ \/ me.cmd = "run" /\ Spend(FALSE)
     \/ Spend(TRUE)
  /\ AbandonCurrent(p, me)
  /\ UNCHANGED <<registry, routes, child, operations, used>>

\* The route exists and is exposed: StartProcess replaces InstallRoute.
JournalStart(p) ==
  LET me == local[p] IN
  /\ pc[p] = "journal"
  /\ pending' = (pending \ Completed(me.cur)) \cup {Op("start", me.cur)}
  /\ IF me.todo = {} THEN Goto(p, "spawn", [me EXCEPT !.todo = me.apps])
                     ELSE Goto(p, "prepare", me)
  /\ UNCHANGED <<aliases, leases, grouped, routes, child, operations, used, faults>>

\* Every route is installed; only then are processes started.
Spawn(p) ==
  LET me == local[p] IN
  /\ pc[p] = "spawn"
  /\ \E started \in IF me.cmd = "runner" THEN {me.apps} ELSE {{a} : a \in me.todo} :
       /\ child' = [o \in Owners |-> IF o \in started THEN "alive" ELSE child[o]]
       /\ IF me.todo = started
            THEN Goto(p, "clean", [me EXCEPT !.todo = me.displaced])
            ELSE Goto(p, "spawn", [me EXCEPT !.todo = @ \ started])
  /\ UNCHANGED <<registry, routes, operations, used, faults>>

\* Mutation of Kill: the children are signalled and not waited for.
SignalOnly(os) == UNCHANGED child

\* The children already started are killed and reaped.
Kill(os) ==
  child' = [o \in Owners |-> IF o \in os /\ child[o] = "alive" THEN "dead" ELSE child[o]]

SpawnFails(p) ==
  LET me == local[p] IN
  /\ pc[p] = "spawn"
  /\ Kill(me.apps)
  /\ RollBack(p, me, me.apps)
  /\ UNCHANGED <<registry, routes, used, faults>>

\* commit_prepared_runs takes down the routes of the displaced owners...
CleanDisplaced(p) ==
  LET me == local[p] IN
  /\ pc[p] = "clean"
  /\ \E d \in me.todo : \E r \in RemoveIfOwned(routes, d, Tls[d], me.sel) :
       /\ Call(r)
       /\ Goto(p, "clean",
               [me EXCEPT !.todo = @ \ {d}, !.failed = IF r.ok THEN @ ELSE @ \cup {d}])
  /\ UNCHANGED <<registry, child, operations, used>>

\* ...and records every app of the command in one write.
CommitRuns(p) ==
  LET me == local[p] IN
  /\ pc[p] = "clean" /\ me.todo = {}
  /\ aliases' = aliases \ me.displaced
  /\ leases' = (leases \ me.displaced) \cup me.apps
  /\ grouped' = (grouped \ me.displaced) \cup (IF me.cmd = "run" THEN {} ELSE me.apps)
  /\ pending' = (JournalWithout(me.displaced) \ UNION {Completed(a) : a \in me.apps})
                  \cup Removal(me.failed)
  /\ Unlock
  /\ Goto(p, "live", [Idle EXCEPT !.cmd = me.cmd, !.sel = me.sel, !.apps = me.apps])
  /\ UNCHANGED <<routes, child, used, faults>>

\* The write fails: the children are killed and the apps given up.
CommitFails(p) ==
  LET me == local[p] IN
  /\ pc[p] = "clean" /\ me.todo = {}
  /\ Spend(TRUE)
  /\ Kill(me.apps)
  /\ RollBack(p, [me EXCEPT !.failed = {}], me.apps)
  /\ UNCHANGED <<registry, routes, used>>

\* run_runner takes the operations lock again for its rollback.
Relock(p) ==
  /\ pc[p] = "rollback"
  /\ Lock(p)
  /\ Goto(p, "abandon", local[p])
  /\ UNCHANGED <<registry, routes, child, used, faults>>

\* abandon_route: remove the route of a run that will not start...
Abandon(p) ==
  LET me == local[p] IN
  /\ pc[p] = "abandon"
  /\ \E a \in me.todo : \E r \in RemoveIfOwned(routes, a, Tls[a], me.sel) :
       /\ Call(r)
       /\ Goto(p, "abandonRestore", [me EXCEPT !.cur = a,
                                               !.failed = IF r.ok THEN {} ELSE {a}])
  /\ UNCHANGED <<registry, child, operations, used>>

\* ...put back the routes it displaced, whatever comes of it...
AbandonRestore(p) ==
  LET me == local[p] IN
  /\ pc[p] = "abandonRestore"
  /\ \E d \in me.displaced :
       /\ Host[d] = Host[me.cur]
       /\ \E r \in Ensure(routes, d, TRUE, me.sel) :
            Call(r) /\ Goto(p, "abandonRestore", [me EXCEPT !.displaced = @ \ {d}])
  /\ UNCHANGED <<registry, child, operations, used>>

\* ...and drop its journal entry, queueing the removal if it failed.  A
\* workspace goes on with its next app even when this write fails.
AbandonWrite(p) ==
  LET me == local[p]
      left == me.apps \ {me.cur}
  IN
  /\ pc[p] = "abandonRestore"
  /\ \A d \in me.displaced : Host[d] # Host[me.cur]
  /\ \/ /\ pending' = (pending \ Completed(me.cur)) \cup Removal(me.failed)
        /\ Spend(FALSE)
     \/ UNCHANGED pending /\ Spend(TRUE)
  /\ IF me.todo # {me.cur}
       THEN /\ operations' = operations
            /\ Goto(p, "abandon", [me EXCEPT !.apps = left, !.todo = @ \ {me.cur}])
       ELSE RollBack(p, me, left)
  /\ UNCHANGED <<aliases, leases, grouped, routes, child, used>>

-----------------------------------------------------------------------------
(* The end of a run: RunningChild::finish and cleanup_run_route.           *)

\* A child exits by itself, or after the signal of `nook stop`.
ChildExits(o) ==
  /\ child[o] = "alive"
  /\ child' = [child EXCEPT ![o] = "dead"]
  /\ UNCHANGED <<registry, routes, operations, pc, local, used, faults>>

\* A single run ends with its child.  A workspace ends with its first child
\* or with a signal, and stops the others.
RunEnds(p) ==
  LET me == local[p] IN
  /\ pc[p] = "live"
  /\ me.cmd = "run" => \A a \in me.apps : child[a] = "dead"
  /\ Kill(me.apps)
  /\ Goto(p, "finish", [me EXCEPT !.todo = me.apps])
  /\ UNCHANGED <<registry, routes, operations, used, faults>>

\* cleanup_run_route, one app after the other, each under its own lock.
FinishRoute(p) ==
  LET me == local[p] IN
  /\ pc[p] = "finish"
  /\ Lock(p)
  /\ \E a \in me.todo :
       Goto(p, "finishRemove", [me EXCEPT !.cur = a, !.todo = @ \ {a}])
  /\ UNCHANGED <<registry, routes, child, used, faults>>

FinishRemove(p) ==
  LET me == local[p] IN
  /\ pc[p] = "finishRemove"
  /\ \E r \in RemoveIfOwned(routes, me.cur, Tls[me.cur], me.sel) :
       /\ Call(r)
       /\ Goto(p, "finishWrite", [me EXCEPT !.failed = IF r.ok THEN {} ELSE {me.cur}])
  /\ UNCHANGED <<registry, child, operations, used>>

\* Drop the lease; a workspace goes on with its next app if the write fails.
FinishWrite(p) ==
  LET me == local[p] IN
  /\ pc[p] = "finishWrite"
  /\ \/ /\ leases' = leases \ {me.cur}
        /\ grouped' = grouped \ {me.cur}
        /\ pending' = pending \cup Removal(me.failed)
        /\ Spend(FALSE)
     \/ UNCHANGED <<leases, grouped, pending>> /\ Spend(TRUE)
  /\ Unlock
  /\ IF me.todo = {} THEN Goto(p, "idle", Idle) ELSE Goto(p, "finish", me)
  /\ UNCHANGED <<aliases, routes, child, used>>

-----------------------------------------------------------------------------
(* reconcile_before_command, run ahead of most commands, and nook prune.   *)

\* Mutation of IsDead: a lease without a supervisor counts as dead.
DeadUnlessSupervised(o) == ~Supervised(o)

\* lease_liveness and workspace_supervisor_liveness: a lease of a workspace
\* lives as long as its supervisor, any other as long as its process.
IsDead(o) == IF o \in grouped THEN ~Supervised(o) ELSE child[o] # "alive"

\* reconcile judges every lease first, killing what a dead supervisor left.
\* An identity that cannot be read, a kill or a workspace cleanup that fails
\* leaves its leases indeterminate.
JudgeLeases(p, me) ==
  \E unsure \in SUBSET leases :
    LET dead == {o \in leases \ unsure : IsDead(o)} IN
    /\ Kill(dead \cap grouped)
    /\ Spend(unsure # {})
    /\ Goto(p, "replay", [me EXCEPT !.ops = pending, !.dead = dead, !.unsure = unsure,
                                    !.mark = faults])

\* The servers of the protocols that the registry and the journal use.
SelectedServers ==
  {Server(r[1] = "https") : r \in ExpectedRoutes} \cup {Server(Tls[op.owner]) : op \in pending}

Reconcile(p) ==
  /\ pc[p] = "idle"
  /\ Lock(p)
  /\ JudgeLeases(p, [Idle EXCEPT !.cmd = "reconcile", !.sel = SelectedServers])
  /\ UNCHANGED <<registry, routes, used>>

\* prune compares the routes Caddy serves with the registry...
Prune(p) ==
  /\ pc[p] = "idle"
  /\ Lock(p)
  /\ Goto(p, "orphans",
          [Idle EXCEPT !.cmd = "prune", !.sel = Servers,
                       !.orphans = {r \in routes : r[2] \notin Registered}])
  /\ UNCHANGED <<registry, routes, child, used, faults>>

\* ...removes those without a recorded owner, one after the other...
PruneOrphan(p) ==
  LET me == local[p] IN
  /\ pc[p] = "orphans"
  /\ \E seen \in me.orphans :
       \E r \in RemoveIfOwned(routes, seen[2], seen[1] = "https", me.sel) :
         Call(r) /\ Goto(p, "orphans", [me EXCEPT !.orphans = @ \ {seen}])
  /\ UNCHANGED <<registry, child, operations, used>>

\* ...and reconciles under the same lock.
PruneReconcile(p) ==
  LET me == local[p] IN
  /\ pc[p] = "orphans" /\ me.orphans = {}
  /\ JudgeLeases(p, me)
  /\ UNCHANGED <<registry, routes, operations, used>>

\* retry_pending for a RestoreRoute entry: moot when its owner is gone or
\* dead, kept while its liveness is unknown, else the route is ensured.
ReplayRestore(p) ==
  LET me == local[p] IN
  /\ pc[p] = "replay"
  /\ \E op \in me.ops :
       LET rest == [me EXCEPT !.ops = @ \ {op}] IN
       /\ op.kind = "restore"
       /\ \/ /\ op.owner \in me.dead \/ op.owner \notin Registered
             /\ Goto(p, "replay", rest)
             /\ UNCHANGED <<routes, faults>>
          \/ /\ op.owner \in me.unsure
             /\ Goto(p, "replay", [rest EXCEPT !.kept = @ \cup {op}])
             /\ UNCHANGED <<routes, faults>>
          \/ /\ op.owner \in Registered \ (me.dead \cup me.unsure)
             /\ \E r \in Ensure(routes, op.owner, FALSE, me.sel) :
                  /\ Call(r)
                  /\ Goto(p, "replay", IF r.ok THEN rest ELSE [rest EXCEPT !.kept = @ \cup {op}])
  /\ UNCHANGED <<registry, child, operations, used>>

\* retry_pending for every other entry: the route is taken down.
ReplayRemoval(p) ==
  LET me == local[p] IN
  /\ pc[p] = "replay"
  /\ \E op \in me.ops :
       LET rest == [me EXCEPT !.ops = @ \ {op}] IN
       /\ op.kind \in RemovingKinds
       /\ \E r \in RemoveIfOwned(routes, op.owner, Tls[op.owner], me.sel) :
            /\ Call(r)
            /\ Goto(p, "replay", IF r.ok THEN rest ELSE [rest EXCEPT !.kept = @ \cup {op}])
  /\ UNCHANGED <<registry, child, operations, used>>

\* Mutation of Replayed: the aliases are not restored.
ReplayedLeasesOnly(p) ==
  LET me == local[p] IN
  /\ pc[p] = "replay" /\ me.ops = {}
  /\ Goto(p, "routes", [me EXCEPT !.todo = leases])
  /\ UNCHANGED <<registry, routes, child, operations, used, faults>>

\* The journal is replayed: go through the leases and the aliases.
Replayed(p) ==
  LET me == local[p] IN
  /\ pc[p] = "replay" /\ me.ops = {}
  /\ Goto(p, "routes", [me EXCEPT !.todo = Registered])
  /\ UNCHANGED <<registry, routes, child, operations, used, faults>>

\* Restore the route of a live owner, remove the one of a dead lease, leave
\* an indeterminate lease alone; a failure is queued.
ReconcileRoute(p) ==
  LET me == local[p] IN
  /\ pc[p] = "routes"
  /\ \E o \in me.todo :
       LET rest == [me EXCEPT !.todo = @ \ {o}] IN
       \/ /\ o \in me.unsure
          /\ Goto(p, "routes", rest)
          /\ UNCHANGED <<routes, faults>>
       \/ /\ o \in me.dead
          /\ \E r \in RemoveIfOwned(routes, o, Tls[o], me.sel) :
               /\ Call(r)
               /\ Goto(p, "routes",
                       IF r.ok THEN rest ELSE [rest EXCEPT !.kept = @ \cup {Op("remove", o)}])
       \/ /\ o \notin me.dead \cup me.unsure
          /\ \E r \in Ensure(routes, o, FALSE, me.sel) :
               /\ Call(r)
               /\ Goto(p, "routes",
                       IF r.ok THEN rest ELSE [rest EXCEPT !.kept = @ \cup {Op("restore", o)}])
  /\ UNCHANGED <<registry, child, operations, used>>

\* The one registry write of a reconciliation.
ReconcileWrite(p) ==
  LET me == local[p] IN
  /\ pc[p] = "routes" /\ me.todo = {}
  /\ leases' = leases \ me.dead
  /\ grouped' = grouped \ me.dead
  /\ pending' = me.kept
  /\ Return(p)
  /\ UNCHANGED <<aliases, routes, child, used, faults>>

-----------------------------------------------------------------------------
(* Faults.                                                                 *)

\* The process dies, or a registry write fails and the command returns: the
\* lock is freed, the memory lost; children get a SIGTERM they may ignore.
Crash(p) ==
  /\ pc[p] # "idle"
  /\ Spend(TRUE)
  /\ operations' = IF operations = p THEN NoProc ELSE operations
  /\ Goto(p, "idle", Idle)
  /\ UNCHANGED <<registry, routes, child, used>>

\* Caddy reloads its file configuration: every managed route disappears
\* (docs/DOCKER.md:97).
CaddyReloads ==
  /\ routes # {}
  /\ routes' = {}
  /\ Spend(TRUE)
  /\ UNCHANGED <<registry, child, operations, pc, local, used>>

-----------------------------------------------------------------------------

Begin(p) ==
  \/ \E o \in Owners, f \in BOOLEAN : "alias" \in Commands /\ SetAlias(p, o, f)
  \/ \E a \in Owners, t \in BOOLEAN : "unalias" \in Commands /\ RemoveAlias(p, a, t)
  \/ \E c \in Commands \cap {"run", "workspace", "runner"} :
       \E s \in SUBSET Owners, f \in BOOLEAN : StartRun(p, c, s, f)
  \/ "reconcile" \in Commands /\ Reconcile(p)
  \/ "prune" \in Commands /\ Prune(p)

Continue(p) ==
  \/ AliasEnsure(p) \/ AliasPublish(p) \/ AliasUndo(p) \/ AliasRestore(p)
  \/ AliasDrop(p) \/ AliasClean(p) \/ AliasCommit(p)
  \/ UnaliasRemove(p) \/ UnaliasDone(p)
  \/ PrepareRun(p) \/ PrepareRejected(p) \/ EnsureRun(p) \/ JournalFails(p)
  \/ JournalStart(p) \/ Spawn(p) \/ SpawnFails(p) \/ CleanDisplaced(p)
  \/ CommitRuns(p) \/ CommitFails(p) \/ Relock(p) \/ Abandon(p)
  \/ AbandonRestore(p) \/ AbandonWrite(p)
  \/ FinishRoute(p) \/ FinishRemove(p) \/ FinishWrite(p)
  \/ PruneOrphan(p) \/ PruneReconcile(p) \/ ReplayRestore(p) \/ ReplayRemoval(p)
  \/ Replayed(p) \/ ReconcileRoute(p) \/ ReconcileWrite(p)

Next ==
  \/ \E p \in Procs : Begin(p) \/ Continue(p) \/ RunEnds(p) \/ Crash(p)
  \/ \E o \in Owners : ChildExits(o)
  \/ CaddyReloads

Spec == Init /\ [][Next]_vars
=============================================================================
