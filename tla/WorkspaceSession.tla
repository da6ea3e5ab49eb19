-------------------------- MODULE WorkspaceSession --------------------------
(***************************************************************************)
(* A workspace behind a root runner (workspace.rs, workspace_session.rs):  *)
(* a root nook owns a session directory with a locked context file and     *)
(* spawns the runner, the runner's tasks start wrappers (nook-run), and a  *)
(* wrapper claims its app in the context, waits for the app's port, spawns *)
(* the server and publishes it in the registry and in the context.  Servers*)
(* may leave detached descendants.  Everybody can be killed; a later nook  *)
(* (Prune) recovers what the journaled group names.                        *)
(*                                                                         *)
(* Three locks are taken in the order session, operations, store.  The     *)
(* store lock is held across steps only by a reconciliation.  One session  *)
(* is modelled: group ids are never used twice.  A wrapper's name is its   *)
(* claim token, which marks the environment of all it spawns; wrappers and *)
(* the runner carry the session's marker.  Routes are in module Nook.      *)
(***************************************************************************)
EXTENDS Naturals

CONSTANTS
  Apps,       \* the declared applications
  Wrappers,   \* the nook-run processes the runner's tasks may start
  AppOf,      \* AppOf[w]: the app whose directory w runs in
  Root,       \* the root nook; in a lease: the runner stands for the app
  Prune,      \* a later nook command that reconciles
  Nobody,
  MaxFaults   \* bound on kills, failing operations and displaced leases

ASSUME WrapperAssumption ==
  /\ AppOf \in [Wrappers -> Apps]
  /\ Root \notin Wrappers /\ Prune \notin Wrappers /\ Nobody \notin Wrappers
  /\ Root # Prune /\ Root # Nobody /\ Prune # Nobody
ASSUME BoundAssumption == MaxFaults \in Nat

VARIABLES
  group,          \* the group's journal entry in the registry
  lease,          \* whose process an app's lease names
  session,        \* the session directory and its context file
  sessionLock, operationsLock,
  owner,          \* the root nook
  runner,         \* the root command it spawned
  member,         \* what each wrapper does next
  tree,           \* each wrapper's server and the server's detached child
  recon,          \* what the reconciliation does next
  faults

vars == <<group, lease, session, sessionLock, operationsLock, owner, runner,
          member, tree, recon, faults>>
registry == <<group, lease>>
locks == <<sessionLock, operationsLock>>
processes == <<runner, tree>>

-----------------------------------------------------------------------------
\* A running process may have been asked to end, once or again.
Running == {"running", "asked", "again"}
Asked == [none |-> "none", running |-> "asked", asked |-> "again",
          again |-> "again", gone |-> "gone"]
Killed(status) == IF status \in Running THEN "gone" ELSE status

NoClaim == [token |-> Nobody, released |-> FALSE, child |-> FALSE]
Claim(w) == [token |-> w, released |-> FALSE, child |-> FALSE]

WrapperAlive(w) == member[w] \notin {"none", "ended", "killed"}
OwnerDead == owner.step \in {"ended", "killed"}

\* Another process can use the registry.
StoreFree == recon = "idle"

\* Processes that carry w's token, or a marker of the session.
Left(w) == tree[w].server \in Running \/ tree[w].detached \in Running
AnyLeft == runner \in Running \/ \E w \in Wrappers : WrapperAlive(w) \/ Left(w)

\* The context can be read, its owner lives and is not shutting down.
Live == session.dir = "context" /\ ~session.closing /\ ~OwnerDead

ClaimOf(w) == session.claims[AppOf[w]]
Claimed(w) == session.dir = "context" /\ ClaimOf(w).token = w
SetClaim(w, c) == session' = [session EXCEPT !.claims[AppOf[w]] = c]

\* A context write that failed may have replaced the file.
MaybeSetClaim(w, c) == SetClaim(w, c) \/ UNCHANGED session

Fault == faults < MaxFaults /\ faults' = faults + 1

\* One process with w's token is found by its marker and killed.
KillMarked(w) ==
  \E k \in {"server", "detached"} :
    /\ tree[w][k] \in Running
    /\ tree' = [tree EXCEPT ![w][k] = "gone"]

\* A wrapper dies; the kernel drops its lock.
Die(w) ==
  /\ member' = [member EXCEPT ![w] = "killed"]
  /\ sessionLock' = IF sessionLock = w THEN Nobody ELSE sessionLock

\* One process with any marker of the session is killed.
KillAny ==
  \/ /\ runner \in Running
     /\ runner' = "gone"
     /\ UNCHANGED <<tree, member, sessionLock>>
  \/ \E w \in Wrappers :
       \/ WrapperAlive(w) /\ Die(w) /\ UNCHANGED processes
       \/ KillMarked(w) /\ UNCHANGED <<runner, member, sessionLock>>

-----------------------------------------------------------------------------
\* The root nook.  It starts under the operations lock.
OwnerStep(s) == owner' = [owner EXCEPT !.step = s]

Start ==
  /\ owner.step = "idle" /\ operationsLock = Nobody
  /\ operationsLock' = Root
  /\ OwnerStep("journal")
  /\ UNCHANGED <<registry, session, sessionLock, processes, member, recon, faults>>

\* The directory may hold the apps' environment: its owner is journaled first.
JournalGroup ==
  /\ owner.step = "journal" /\ StoreFree
  /\ group' = "journaled"
  /\ OwnerStep("create")
  /\ UNCHANGED <<lease, session, locks, processes, member, recon, faults>>

CreateDirectory ==
  /\ owner.step = "create"
  /\ session' = [session EXCEPT !.dir = "empty"]
  /\ OwnerStep("write")
  /\ UNCHANGED <<registry, locks, processes, member, recon, faults>>

WriteContext ==
  /\ owner.step = "write"
  /\ session' = [session EXCEPT !.dir = "context"]
  /\ OwnerStep("spawn")
  /\ UNCHANGED <<registry, locks, processes, member, recon, faults>>

SpawnRunner ==
  /\ owner.step = "spawn"
  /\ runner' = "running"
  /\ OwnerStep("record")
  /\ UNCHANGED <<registry, session, locks, tree, member, recon, faults>>

RecordRunner ==
  /\ owner.step = "record" /\ StoreFree
  /\ group' = "recorded"
  /\ OwnerStep("commit")
  /\ UNCHANGED <<lease, session, locks, processes, member, recon, faults>>

\* The leases point at the runner until a member is associated.
Commit ==
  /\ owner.step = "commit" /\ StoreFree
  /\ lease' = [a \in Apps |-> Root]
  /\ operationsLock' = Nobody
  /\ OwnerStep("poll")
  /\ UNCHANGED <<group, session, sessionLock, processes, member, recon, faults>>

\* A failed start lets go of the operations lock before it cleans up.  A session
\* that was not created completely is left to a later reconciliation.
StartFails ==
  /\ owner.step \in {"journal", "create", "write", "spawn", "record", "commit"}
  /\ Fault
  /\ operationsLock' = Nobody
  /\ OwnerStep(IF owner.step = "spawn" THEN "scan"
               ELSE IF owner.step \in {"record", "commit"} THEN "close" ELSE "ended")
  /\ UNCHANGED <<registry, session, sessionLock, processes, member, recon>>

\* Members that wait get their port, unless the app's lease was replaced.
Joinable(a) ==
  LET c == session.claims[a] IN c.token \in Wrappers /\ ~c.released /\ WrapperAlive(c.token)

PollJoins ==
  /\ owner.step = "poll" /\ sessionLock = Nobody /\ StoreFree
  /\ \E a \in Apps : Joinable(a)
  /\ IF \E a \in Apps : Joinable(a) /\ lease[a] = Nobody
     THEN OwnerStep("close") /\ UNCHANGED session
     ELSE /\ session' = [session EXCEPT !.claims =
               [a \in Apps |-> IF Joinable(a) THEN [@[a] EXCEPT !.released = TRUE] ELSE @[a]]]
          /\ UNCHANGED owner
  /\ UNCHANGED <<registry, locks, processes, member, recon, faults>>

PollFails ==
  /\ owner.step = "poll" /\ Fault
  /\ OwnerStep("close")
  /\ UNCHANGED <<registry, session, locks, processes, member, recon>>

\* The runner ended or a signal arrived.
Interrupted ==
  /\ owner.step = "poll"
  /\ owner' = [owner EXCEPT !.step = "close", !.graceful = TRUE]
  /\ UNCHANGED <<registry, session, locks, processes, member, recon, faults>>

\* Freeze claims and registrations, and note the children they name.
Children == {w \in Wrappers : ClaimOf(w).token = w /\ ClaimOf(w).child}

Close ==
  /\ owner.step = "close" /\ sessionLock = Nobody
  /\ session' = [session EXCEPT !.closing = TRUE]
  /\ owner' = [owner EXCEPT !.step = "collect", !.known = Children]
  /\ UNCHANGED <<registry, locks, processes, member, recon, faults>>

CloseFails ==
  /\ owner.step = "close" /\ sessionLock = Nobody /\ Fault
  /\ session' = [session EXCEPT !.closing = TRUE] \/ UNCHANGED session
  /\ \E known \in {{}, Children} :
       owner' = [owner EXCEPT !.step = "collect", !.known = known, !.warned = TRUE]
  /\ UNCHANGED <<registry, locks, processes, member, recon>>

\* A wrapper may have been killed between its two publications.
CollectLeases ==
  /\ owner.step = "collect" /\ StoreFree
  /\ owner' = [owner EXCEPT !.step = IF owner.graceful THEN "signal" ELSE "kill",
                            !.known = @ \cup {w \in Wrappers : lease[AppOf[w]] = w}]
  /\ UNCHANGED <<registry, session, locks, processes, member, recon, faults>>

\* Known groups are signalled first, then marked processes outside of them;
\* wrappers and the runner may end on a signal at any time anyway.
SignalTree ==
  /\ owner.step = "signal"
  /\ tree' = [w \in Wrappers |-> [k \in {"server", "detached"} |-> Asked[tree[w][k]]]]
  /\ OwnerStep("kill")
  /\ UNCHANGED <<registry, session, locks, runner, member, recon, faults>>

\* After two seconds of grace.
KillChildren ==
  /\ owner.step = "kill"
  /\ tree' = [w \in Wrappers |-> IF w \in owner.known
                THEN [tree[w] EXCEPT !.server = Killed(@)] ELSE tree[w]]
  /\ runner' = Killed(runner)
  /\ OwnerStep("scan")
  /\ UNCHANGED <<registry, session, locks, member, recon, faults>>

\* The registry cannot be read, a signal is not delivered, or a process does
\* not end: the cleanup goes on, but nothing is removed after it.
StopWarns ==
  /\ owner.step \in {"collect", "signal", "kill"} /\ Fault
  /\ owner' = [owner EXCEPT !.warned = TRUE,
       !.step = CASE owner.step = "collect" -> (IF owner.graceful THEN "signal" ELSE "kill")
                  [] owner.step = "signal" -> "kill"
                  [] owner.step = "kill" -> "scan"]
  /\ UNCHANGED <<registry, session, locks, processes, member, recon>>

ScanKills ==
  /\ owner.step = "scan" /\ KillAny
  /\ UNCHANGED <<registry, session, operationsLock, owner, recon, faults>>

ScanFindsNothing ==
  /\ owner.step = "scan" /\ ~AnyLeft
  /\ OwnerStep(IF owner.warned THEN "routes" ELSE "remove")
  /\ UNCHANGED <<registry, session, locks, processes, member, recon, faults>>

RemoveSession ==
  /\ owner.step = "remove"
  /\ session' = [session EXCEPT !.dir = "absent"]
  /\ OwnerStep("forget")
  /\ UNCHANGED <<registry, locks, processes, member, recon, faults>>

ForgetGroup ==
  /\ owner.step = "forget" /\ StoreFree
  /\ group' = "none"
  /\ OwnerStep("routes")
  /\ UNCHANGED <<lease, session, locks, processes, member, recon, faults>>

\* Mutation of CleanupFails: the failure is ignored.
CleanupFailsIgnored ==
  /\ owner.step \in {"scan", "remove", "forget"} /\ Fault
  /\ OwnerStep("forget")
  /\ UNCHANGED <<registry, session, locks, processes, member, recon>>

\* A failure of the cleanup leaves the journal entry to a later command.
CleanupFails ==
  /\ owner.step \in {"scan", "remove", "forget"} /\ Fault
  /\ OwnerStep("routes")
  /\ UNCHANGED <<registry, session, locks, processes, member, recon>>

\* Only then are the apps' routes and leases removed.
CleanRoute ==
  /\ owner.step = "routes" /\ operationsLock = Nobody /\ StoreFree
  /\ \E a \in Apps :
       lease[a] # Nobody /\ lease' = [lease EXCEPT ![a] = Nobody]
  /\ UNCHANGED <<group, session, locks, owner, processes, member, recon, faults>>

CleanRouteFails ==
  /\ owner.step = "routes" /\ Fault
  /\ OwnerStep("ended")
  /\ UNCHANGED <<registry, session, locks, processes, member, recon>>

OwnerEnds ==
  /\ owner.step = "routes"
  /\ \A a \in Apps : lease[a] = Nobody
  /\ OwnerStep("ended")
  /\ UNCHANGED <<registry, session, locks, processes, member, recon, faults>>

OwnerKilled ==
  /\ ~OwnerDead /\ owner.step # "idle" /\ Fault
  /\ OwnerStep("killed")
  /\ operationsLock' = IF operationsLock = Root THEN Nobody ELSE operationsLock
  /\ UNCHANGED <<registry, session, sessionLock, processes, member, recon>>

-----------------------------------------------------------------------------
\* A member: a wrapper that the runner's tasks start.
Goes(w, s) == member' = [member EXCEPT ![w] = s]
Locks(w) == sessionLock = Nobody /\ sessionLock' = w
Unlocks == sessionLock' = Nobody

StartWrapper(w) ==
  /\ member[w] = "none" /\ runner \in Running
  /\ Goes(w, "claim")
  /\ UNCHANGED <<registry, session, locks, owner, processes, recon, faults>>

\* A claim is held by a living wrapper or a living child.
Held(c) ==
  /\ c.token \in Wrappers
  /\ WrapperAlive(c.token) \/ (c.child /\ tree[c.token].server \in Running)

ClaimRefused(w) ==
  /\ member[w] = "claim" /\ sessionLock = Nobody
  /\ ~Live \/ Held(ClaimOf(w))
  /\ Goes(w, "ended")
  /\ UNCHANGED <<registry, session, locks, owner, processes, recon, faults>>

\* The lock is kept while what is left of the old claim is killed.
BeginClaim(w) ==
  /\ member[w] = "claim" /\ Locks(w)
  /\ Live /\ ~Held(ClaimOf(w))
  /\ Goes(w, "evict")
  /\ UNCHANGED <<registry, session, operationsLock, owner, processes, recon, faults>>

Evict(w) ==
  /\ member[w] = "evict"
  /\ ClaimOf(w).token \in Wrappers /\ KillMarked(ClaimOf(w).token)
  /\ UNCHANGED <<registry, session, locks, owner, runner, member, recon, faults>>

\* Mutation of TakeClaim: what is left of the old claim is not looked for.
TakeClaimAtOnce(w) ==
  /\ member[w] = "evict"
  /\ SetClaim(w, Claim(w))
  /\ Unlocks /\ Goes(w, "wait")
  /\ UNCHANGED <<registry, operationsLock, owner, processes, recon, faults>>

TakeClaim(w) ==
  /\ member[w] = "evict"
  /\ ClaimOf(w).token \in Wrappers => ~Left(ClaimOf(w).token)
  /\ SetClaim(w, Claim(w))
  /\ Unlocks /\ Goes(w, "wait")
  /\ UNCHANGED <<registry, operationsLock, owner, processes, recon, faults>>

ClaimFails(w) ==
  /\ member[w] = "evict" /\ Fault
  /\ IF ClaimOf(w).token \in Wrappers /\ Left(ClaimOf(w).token)
     THEN UNCHANGED session ELSE MaybeSetClaim(w, Claim(w))
  /\ Unlocks /\ Goes(w, "ended")
  /\ UNCHANGED <<registry, operationsLock, owner, processes, recon>>

Released(w) ==
  /\ member[w] = "wait" /\ sessionLock = Nobody
  /\ Live /\ Claimed(w) /\ ClaimOf(w).released
  /\ Goes(w, "spawn")
  /\ UNCHANGED <<registry, session, locks, owner, processes, recon, faults>>

\* The session is gone, a signal arrived, or 30 seconds are over.
GiveUp(w) ==
  /\ member[w] = "wait"
  /\ Goes(w, "drop")
  /\ UNCHANGED <<registry, session, locks, owner, processes, recon, faults>>

\* Mutation of Spawn: the session is not checked again under the lock.
SpawnUnchecked(w) ==
  /\ member[w] = "spawn" /\ Locks(w) /\ Claimed(w)
  /\ tree' = [tree EXCEPT ![w].server = "running"]
  /\ Goes(w, "associate")
  /\ UNCHANGED <<registry, session, operationsLock, owner, runner, recon, faults>>

\* Launch and publication are one critical section of the session lock.
Spawn(w) ==
  /\ member[w] = "spawn" /\ Locks(w)
  /\ Live /\ Claimed(w) /\ ClaimOf(w).released /\ ~ClaimOf(w).child
  /\ tree' = [tree EXCEPT ![w].server = "running"]
  /\ Goes(w, "associate")
  /\ UNCHANGED <<registry, session, operationsLock, owner, runner, recon, faults>>

SpawnRefused(w) ==
  /\ member[w] = "spawn" /\ sessionLock = Nobody
  /\ ~(Live /\ Claimed(w))
  /\ Goes(w, "drop")
  /\ UNCHANGED <<registry, session, locks, owner, processes, recon, faults>>

SpawnFails(w) ==
  /\ member[w] = "spawn" /\ Fault
  /\ Goes(w, "drop")
  /\ UNCHANGED <<registry, session, locks, owner, processes, recon>>

\* The child that cannot be published is ended before the lock is released.
AssociateFails(w) ==
  /\ member[w] = "associate" /\ operationsLock = Nobody /\ StoreFree /\ Fault
  /\ \/ UNCHANGED lease
     \/ lease[AppOf[w]] # Nobody /\ ~OwnerDead /\ lease' = [lease EXCEPT ![AppOf[w]] = w]
  /\ Goes(w, "undo")
  /\ UNCHANGED <<group, session, locks, owner, processes, recon>>

\* Mutation of Associate: it replaces the runner in a lease and nothing else.
AssociateOnce(w) ==
  /\ member[w] = "associate" /\ operationsLock = Nobody /\ StoreFree
  /\ lease' = IF lease[AppOf[w]] = Root THEN [lease EXCEPT ![AppOf[w]] = w] ELSE lease
  /\ Goes(w, "register")
  /\ UNCHANGED <<group, session, locks, owner, processes, recon, faults>>

\* Under the operations lock: the registry first, then the context.
Associate(w) ==
  /\ member[w] = "associate" /\ operationsLock = Nobody /\ StoreFree
  /\ IF lease[AppOf[w]] # Nobody /\ ~OwnerDead
     THEN lease' = [lease EXCEPT ![AppOf[w]] = w] /\ Goes(w, "register")
     ELSE UNCHANGED lease /\ Goes(w, "undo")
  /\ UNCHANGED <<group, session, locks, owner, processes, recon, faults>>

Register(w) ==
  /\ member[w] = "register"
  /\ SetClaim(w, [ClaimOf(w) EXCEPT !.child = TRUE])
  /\ Unlocks /\ Goes(w, "run")
  /\ UNCHANGED <<registry, operationsLock, owner, processes, recon, faults>>

RegisterFails(w) ==
  /\ member[w] = "register" /\ Fault
  /\ MaybeSetClaim(w, [ClaimOf(w) EXCEPT !.child = TRUE])
  /\ Goes(w, "undo")
  /\ UNCHANGED <<registry, locks, owner, processes, recon>>

Undo(w) ==
  /\ member[w] = "undo"
  /\ \/ KillMarked(w) /\ UNCHANGED <<member, sessionLock>>
     \/ ~Left(w) /\ UNCHANGED tree /\ Unlocks /\ Goes(w, "drop")
  /\ UNCHANGED <<registry, session, operationsLock, owner, runner, recon, faults>>

UndoFails(w) ==
  /\ member[w] = "undo" /\ Fault
  /\ Unlocks /\ Goes(w, "drop")
  /\ UNCHANGED <<registry, session, operationsLock, owner, processes, recon>>

\* The wrapper watches its server, its claim and its lease.
LeaderExits(w) ==
  /\ member[w] = "run" /\ tree[w].server \notin Running
  /\ Goes(w, "reaped")
  /\ UNCHANGED <<registry, session, locks, owner, processes, recon, faults>>

Signalled(w) ==
  /\ member[w] = "run"
  /\ Goes(w, "signalled")
  /\ UNCHANGED <<registry, session, locks, owner, processes, recon, faults>>

SessionLost(w) ==
  /\ member[w] = "run" /\ sessionLock = Nobody
  /\ ~(Live /\ Claimed(w))
  /\ Goes(w, "signalled")
  /\ UNCHANGED <<registry, session, locks, owner, processes, recon, faults>>

LeaseLost(w) ==
  /\ member[w] = "run" /\ StoreFree /\ lease[AppOf[w]] # w
  /\ Goes(w, "stop")
  /\ UNCHANGED <<registry, session, locks, owner, processes, recon, faults>>

\* The child or the registry cannot be looked at: the end is as immediate,
\* with everything of the member in place.
LookFails(w) ==
  /\ member[w] = "run" /\ Fault
  /\ Goes(w, "stop")
  /\ UNCHANGED <<registry, session, locks, owner, processes, recon>>

\* Mutation of Shutdown: the owner's delivery is not looked at.
ShutdownAlways(w) ==
  /\ member[w] \in {"reaped", "signalled"} /\ Locks(w)
  /\ Claimed(w)
  /\ tree' = [tree EXCEPT ![w] = [detached |-> Asked[@.detached],
                 server |-> IF member[w] = "signalled" THEN Asked[@.server] ELSE @.server]]
  /\ Goes(w, "grace")
  /\ UNCHANGED <<registry, session, operationsLock, owner, runner, recon, faults>>

\* Graceful shutdown holds the session lock until the claim is removed.  The
\* owner delivers the signals if it closed the session first; a leader that
\* has exited is not signalled again with its group.
Shutdown(w) ==
  /\ member[w] \in {"reaped", "signalled"} /\ Locks(w)
  /\ Claimed(w)
  /\ tree' = IF session.closing /\ ~OwnerDead THEN tree
             ELSE [tree EXCEPT ![w] = [detached |-> Asked[@.detached],
                     server |-> IF member[w] = "signalled" THEN Asked[@.server] ELSE @.server]]
  /\ Goes(w, "grace")
  /\ UNCHANGED <<registry, session, operationsLock, owner, runner, recon, faults>>

ShutdownFails(w) ==
  /\ member[w] \in {"reaped", "signalled"} /\ Fault
  /\ Goes(w, "fallback")
  /\ UNCHANGED <<registry, session, locks, owner, processes, recon>>

\* After two seconds of grace.
KillServer(w) ==
  /\ member[w] \in {"grace", "stop", "fallback"}
  /\ tree' = [tree EXCEPT ![w].server = Killed(@)]
  /\ Goes(w, CASE member[w] = "grace" -> "finish"
               [] member[w] = "stop" -> "clean"
               [] member[w] = "fallback" -> "leave")
  /\ UNCHANGED <<registry, session, locks, owner, runner, recon, faults>>

CleanTree(w) ==
  /\ member[w] \in {"finish", "clean", "leave", "release"} /\ KillMarked(w)
  /\ UNCHANGED <<registry, session, locks, owner, runner, member, recon, faults>>

\* Mutation of Finish: it opens the context although its caller holds the lock.
FinishReentrant(w) ==
  /\ member[w] \in {"finish", "release"} /\ ~Left(w)
  /\ sessionLock = Nobody
  /\ SetClaim(w, NoClaim)
  /\ Unlocks /\ Goes(w, "ended")
  /\ UNCHANGED <<registry, operationsLock, owner, processes, recon, faults>>

Finish(w) ==
  /\ member[w] \in {"finish", "release"} /\ ~Left(w)
  /\ SetClaim(w, NoClaim)
  /\ Unlocks /\ Goes(w, "ended")
  /\ UNCHANGED <<registry, operationsLock, owner, processes, recon, faults>>

FinishFails(w) ==
  /\ member[w] \in {"finish", "release"} /\ Fault
  /\ IF Left(w) THEN UNCHANGED session ELSE MaybeSetClaim(w, NoClaim)
  /\ Unlocks
  /\ Goes(w, IF member[w] = "finish" THEN "fallback" ELSE "ended")
  /\ UNCHANGED <<registry, operationsLock, owner, processes, recon>>

\* An immediate stop cleans up first and locks the context for its end.
BeginFinish(w) ==
  /\ member[w] = "clean" /\ ~Left(w)
  /\ IF Claimed(w) THEN Locks(w) /\ Goes(w, "release")
     ELSE sessionLock = Nobody /\ UNCHANGED sessionLock /\ Goes(w, "ended")
  /\ UNCHANGED <<registry, session, operationsLock, owner, processes, recon, faults>>

CleanFails(w) ==
  /\ member[w] \in {"clean", "leave"} /\ Fault
  /\ Goes(w, IF member[w] = "clean" THEN "fallback" ELSE "ended")
  /\ UNCHANGED <<registry, session, locks, owner, processes, recon>>

\* The claim of a child that was published stays for others to clean.
Leave(w) ==
  /\ member[w] = "leave" /\ ~Left(w)
  /\ Goes(w, "ended")
  /\ UNCHANGED <<registry, session, locks, owner, processes, recon, faults>>

\* An unstarted claim is dropped.
Drop(w) ==
  /\ member[w] = "drop"
  /\ IF Claimed(w) /\ ~ClaimOf(w).child THEN Locks(w) /\ Goes(w, "release")
     ELSE sessionLock = Nobody /\ UNCHANGED sessionLock /\ Goes(w, "ended")
  /\ UNCHANGED <<registry, session, operationsLock, owner, processes, recon, faults>>

WrapperKilled(w) ==
  /\ WrapperAlive(w) /\ Fault
  /\ Die(w)
  /\ UNCHANGED <<registry, session, operationsLock, owner, processes, recon>>

-----------------------------------------------------------------------------
\* A later command reconciles; it holds operations and store lock throughout.
\* While the owner lives it changes nothing here.
ReconGoes(s) == recon' = s

\* Mutation of Reconcile: only leases are reconciled.
ReconcileLeases ==
  /\ recon = "idle" /\ OwnerDead /\ operationsLock = Nobody
  /\ \E a \in Apps : lease[a] # Nobody
  /\ operationsLock' = Prune
  /\ ReconGoes("judge")
  /\ UNCHANGED <<registry, session, sessionLock, owner, processes, member, faults>>

Reconcile ==
  /\ recon = "idle" /\ OwnerDead /\ operationsLock = Nobody
  /\ group # "none" \/ \E a \in Apps : lease[a] # Nobody
  /\ operationsLock' = Prune
  /\ ReconGoes("judge")
  /\ UNCHANGED <<registry, session, sessionLock, owner, processes, member, faults>>

\* The processes that the leases of a dead supervisor name are killed.  If the
\* group's entry is gone its leases stay: where to clean is unknown.
JudgeLeases ==
  /\ recon = "judge"
  /\ tree' = [w \in Wrappers |-> IF lease[AppOf[w]] = w
                THEN [tree[w] EXCEPT !.server = Killed(@)] ELSE tree[w]]
  /\ runner' = IF \E a \in Apps : lease[a] = Root THEN Killed(runner) ELSE runner
  /\ IF group = "none" THEN ReconGoes("idle") /\ operationsLock' = Nobody
     ELSE ReconGoes("scan") /\ UNCHANGED operationsLock
  /\ UNCHANGED <<registry, session, sessionLock, owner, member, faults>>

ReconcileKills ==
  /\ recon = "scan" /\ KillAny
  /\ UNCHANGED <<registry, session, operationsLock, owner, recon, faults>>

ReconcileFindsNothing ==
  /\ recon = "scan" /\ ~AnyLeft
  /\ ReconGoes("stale")
  /\ UNCHANGED <<registry, session, locks, owner, processes, member, faults>>

\* Members hold the session lock before they enter the store: never wait for
\* it here.  A session that is busy is left to the next reconciliation.
LockStale ==
  /\ recon = "stale" /\ session.dir = "context"
  /\ IF sessionLock = Nobody
     THEN sessionLock' = Prune /\ ReconGoes("members") /\ UNCHANGED operationsLock
     ELSE operationsLock' = Nobody /\ ReconGoes("idle") /\ UNCHANGED sessionLock
  /\ UNCHANGED <<registry, session, owner, processes, member, faults>>

KillMembers ==
  /\ recon = "members"
  /\ tree' = [w \in Wrappers |-> IF w \in Children
                THEN [tree[w] EXCEPT !.server = Killed(@)] ELSE tree[w]]
  /\ sessionLock' = Nobody
  /\ ReconGoes("remove")
  /\ UNCHANGED <<registry, session, operationsLock, owner, runner, member, faults>>

\* A crash can precede the context.
RemoveStale ==
  /\ recon = "remove" \/ (recon = "stale" /\ session.dir # "context")
  /\ session' = [session EXCEPT !.dir = "absent"]
  /\ ReconGoes("write")
  /\ UNCHANGED <<registry, locks, owner, processes, member, faults>>

WriteReconciled ==
  /\ recon = "write"
  /\ group' = "none" /\ lease' = [a \in Apps |-> Nobody]
  /\ operationsLock' = Nobody
  /\ ReconGoes("idle")
  /\ UNCHANGED <<session, sessionLock, owner, processes, member, faults>>

\* An identity cannot be read, a process does not end, or the command is killed.
ReconcileFails ==
  /\ recon # "idle" /\ Fault
  /\ operationsLock' = Nobody
  /\ sessionLock' = IF sessionLock = Prune THEN Nobody ELSE sessionLock
  /\ ReconGoes("idle")
  /\ UNCHANGED <<registry, session, owner, processes, member>>

-----------------------------------------------------------------------------
\* Processes come and go; other runs replace leases by force.
Detach(w) ==
  /\ tree[w].server \in Running /\ tree[w].detached = "none"
  /\ tree' = [tree EXCEPT ![w].detached = "running"]
  /\ UNCHANGED <<registry, session, locks, owner, runner, member, recon, faults>>

ProcessEnds(w) ==
  /\ KillMarked(w)
  /\ UNCHANGED <<registry, session, locks, owner, runner, member, recon, faults>>

RunnerEnds ==
  /\ runner \in Running
  /\ runner' = "gone"
  /\ UNCHANGED <<registry, session, locks, owner, tree, member, recon, faults>>

Displace(a) ==
  /\ operationsLock = Nobody /\ StoreFree /\ lease[a] # Nobody /\ Fault
  /\ lease' = [lease EXCEPT ![a] = Nobody]
  /\ UNCHANGED <<group, session, locks, owner, processes, member, recon>>

-----------------------------------------------------------------------------
Init ==
  /\ group = "none"
  /\ lease = [a \in Apps |-> Nobody]
  /\ session = [dir |-> "absent", closing |-> FALSE, claims |-> [a \in Apps |-> NoClaim]]
  /\ sessionLock = Nobody /\ operationsLock = Nobody
  /\ owner = [step |-> "idle", graceful |-> FALSE, known |-> {}, warned |-> FALSE]
  /\ runner = "none"
  /\ member = [w \in Wrappers |-> "none"]
  /\ tree = [w \in Wrappers |-> [server |-> "none", detached |-> "none"]]
  /\ recon = "idle"
  /\ faults = 0

OwnerWorks ==
  \/ Start \/ JournalGroup \/ CreateDirectory \/ WriteContext \/ SpawnRunner
  \/ RecordRunner \/ Commit \/ PollJoins \/ Close \/ CollectLeases \/ SignalTree
  \/ KillChildren \/ ScanKills \/ ScanFindsNothing \/ RemoveSession \/ ForgetGroup
  \/ CleanRoute \/ OwnerEnds

OwnerFails ==
  \/ StartFails \/ PollFails \/ CloseFails \/ StopWarns \/ CleanupFails
  \/ CleanRouteFails \/ OwnerKilled

MemberWorks(w) ==
  \/ ClaimRefused(w) \/ BeginClaim(w) \/ Evict(w) \/ TakeClaim(w) \/ Released(w)
  \/ GiveUp(w) \/ Spawn(w) \/ SpawnRefused(w) \/ Associate(w) \/ Register(w)
  \/ Undo(w) \/ LeaderExits(w) \/ SessionLost(w) \/ LeaseLost(w) \/ Shutdown(w)
  \/ KillServer(w) \/ CleanTree(w) \/ Finish(w)
  \/ BeginFinish(w) \/ Leave(w) \/ Drop(w)

MemberFails(w) ==
  \/ ClaimFails(w) \/ SpawnFails(w) \/ AssociateFails(w) \/ RegisterFails(w)
  \/ UndoFails(w) \/ LookFails(w) \/ ShutdownFails(w) \/ FinishFails(w)
  \/ CleanFails(w) \/ WrapperKilled(w)

Reconciles ==
  \/ Reconcile \/ JudgeLeases \/ ReconcileKills \/ ReconcileFindsNothing
  \/ LockStale \/ KillMembers \/ RemoveStale \/ WriteReconciled

Next ==
  \/ OwnerWorks \/ Interrupted \/ OwnerFails
  \/ \E w \in Wrappers :
       \/ MemberWorks(w) \/ StartWrapper(w) \/ Signalled(w) \/ MemberFails(w)
       \/ Detach(w) \/ ProcessEnds(w)
  \/ Reconciles \/ ReconcileFails
  \/ RunnerEnds \/ \E a \in Apps : Displace(a)

Spec == Init /\ [][Next]_vars

\* The scheduler runs every process that has something to do, and nook is run
\* again while there is something to recover.
FairSpec ==
  /\ Spec
  /\ WF_vars(OwnerWorks)
  /\ \A w \in Wrappers : WF_vars(MemberWorks(w))
  /\ WF_vars(Reconciles)

-----------------------------------------------------------------------------
Statuses == {"none", "gone"} \cup Running
Claims == [token : Wrappers \cup {Nobody}, released : BOOLEAN, child : BOOLEAN]
OwnerSteps == {"idle", "journal", "create", "write", "spawn", "record", "commit",
  "poll", "close", "collect", "signal", "kill", "scan", "remove", "forget",
  "routes", "ended", "killed"}
MemberSteps == {"none", "claim", "evict", "wait", "spawn", "associate", "register",
  "undo", "run", "reaped", "signalled", "grace", "finish", "stop", "clean",
  "release", "fallback", "leave", "drop", "ended", "killed"}

\* Types of the variables; whom the owner knows as children are only wrappers,
\* never its runner (workspace.rs:374).
TypeOK ==
  /\ group \in {"none", "journaled", "recorded"}
  /\ lease \in [Apps -> Wrappers \cup {Root, Nobody}]
  /\ session \in [dir : {"absent", "empty", "context"}, closing : BOOLEAN,
                  claims : [Apps -> Claims]]
  /\ sessionLock \in Wrappers \cup {Prune, Nobody}
  /\ operationsLock \in {Root, Prune, Nobody}
  /\ owner \in [step : OwnerSteps, graceful : BOOLEAN, known : SUBSET Wrappers,
                warned : BOOLEAN]
  /\ runner \in {"none", "running", "gone"}
  /\ member \in [Wrappers -> MemberSteps]
  /\ tree \in [Wrappers -> [server : Statuses, detached : Statuses]]
  /\ recon \in {"idle", "judge", "scan", "stale", "members", "remove", "write"}
  /\ faults \in 0..MaxFaults

\* A live child is never joined twice (workspace_session.rs:973): whatever was
\* killed or failed, at most one member's processes serve an app's port.
OneServerPerApp ==
  \A v, w \in Wrappers : AppOf[v] = AppOf[w] /\ Left(v) /\ Left(w) => v = w

\* The session's directory, which can hold the apps' environment, and every
\* process of the session can be found from the registry (workspace_session.rs:302).
JournalCoversSession == group = "none" => session.dir = "absent" /\ ~AnyLeft

\* A child that the context publishes is the one the registry names, unless
\* another run replaced the lease (workspace_session.rs:947).
LeaseFollowsClaim ==
  \A w \in Wrappers :
    session.dir = "context" /\ w \in Children /\ lease[AppOf[w]] # Nobody
      => lease[AppOf[w]] = w

\* No process gets a graceful signal twice (tests/workspace_sessions.rs:758),
\* unless the one who delivered it first failed or died over it.
OneGracefulSignal ==
  \A w \in Wrappers :
    tree[w].server = "again" \/ tree[w].detached = "again"
      => \/ OwnerDead \/ owner.warned
         \/ member[w] \in {"killed", "fallback", "leave", "ended"}

\* The owner's snapshot of the children is final, unless closing failed
\* (workspace_session.rs:370).
NoServerAfterClose ==
  [][\A w \in Wrappers :
       tree[w].server = "none" /\ tree'[w].server = "running"
         => owner.step \notin {"collect", "signal", "kill", "scan", "remove", "forget"}
              \/ owner.warned]_vars

\* Shutting down ends: no lock is waited for for ever.
ShutdownEnds == owner.step = "close" ~> OwnerDead

\* What a dead owner leaves is found: no process and no directory stays
\* (docs/WORKSPACES.md:293).
NothingIsLeftBehind == OwnerDead ~> [](group = "none" /\ session.dir = "absent" /\ ~AnyLeft)

\* ... and no lease, so that the apps' hostnames are free again.
LeasesAreRecovered == OwnerDead ~> \A a \in Apps : lease[a] = Nobody
=============================================================================
