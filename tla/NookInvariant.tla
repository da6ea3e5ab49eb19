---------------------------- MODULE NookInvariant ----------------------------
(***************************************************************************)
(* The inductive invariant behind OneOwnerPerHostname and                  *)
(* JournalSparesOwners: what a command knows of the registry at each of    *)
(* its steps, and why nobody can make it stale while it holds the lock.    *)
(***************************************************************************)
EXTENDS NookProperties

\* Labels at which the apps of a command are not recorded yet...
AliasLabels == {"aliasEnsure", "aliasPublish", "aliasUndo", "aliasRestore", "aliasClean"}
AbandonLabels == {"rollback", "abandon", "abandonRestore"}
StartLabels == {"prepare", "ensure", "journal", "spawn", "clean"}
Uncommitted == AliasLabels \cup AbandonLabels \cup StartLabels

\* ...and those from which the command can still record them.
Committing == {"aliasEnsure", "aliasPublish", "aliasClean"} \cup StartLabels

\* The apps whose hostname has been looked up in the registry.
LookedUp(p) ==
  IF pc[p] \in {"prepare", "ensure", "journal"} THEN local[p].apps \ local[p].todo
                                                ELSE local[p].apps

\* Only the holder of the operations lock is between locking and unlocking.
LockHeld(p) == pc[p] \in LockedLabels => operations = p

\* The ids a command generated are its own, on distinct hostnames, and never
\* those of an alias on record.
OwnIds(p) ==
  /\ local[p].apps \subseteq used
  /\ local[p].apps \cap aliases = {}
  /\ \A a, b \in local[p].apps : Host[a] = Host[b] => a = b
  /\ \A q \in Procs : q # p => local[p].apps \cap local[q].apps = {}

\* The ids of a command that has not recorded them are not on record.
NotRecorded(p) == pc[p] \in Uncommitted => local[p].apps \cap Registered = {}

\* What the command is going to displace is on record, and is all that is on
\* record for the hostnames it looked up; its journal entries are its own.
NothingMissed(p) ==
  pc[p] \in Committing =>
    /\ local[p].displaced \subseteq Registered
    /\ \A a \in LookedUp(p) : OwnersOf(Host[a]) \subseteq local[p].displaced
    /\ \A op \in pending : op.owner \in local[p].apps => op.kind \in {"install", "start"}

\* The loops run over what they should.
Loops(p) ==
  /\ pc[p] \in AliasLabels => local[p].apps = {local[p].cur}
  /\ pc[p] \in {"prepare", "ensure", "journal", "spawn", "rollback", "abandon", "abandonRestore",
               "finish", "finishRemove", "finishWrite"}
       => local[p].todo \subseteq local[p].apps
  /\ pc[p] \in {"ensure", "journal"} => local[p].cur \in local[p].apps \ local[p].todo
  /\ pc[p] \in {"abandonRestore", "finishRemove", "finishWrite"}
       => local[p].cur \in local[p].apps
  /\ pc[p] \in {"unaliasRemove", "unaliasDone"} => local[p].cur \in used
  /\ pc[p] \in {"aliasEnsure", "aliasPublish", "prepare", "ensure", "journal", "spawn"}
       => local[p].failed = {}
  /\ pc[p] \in {"aliasClean", "clean"}
       => local[p].todo \cup local[p].failed \subseteq local[p].displaced
  /\ pc[p] \in {"aliasRestore", "abandonRestore", "finishWrite"}
       => local[p].failed \subseteq {local[p].cur}

\* The draft of a reconciliation spares the owners it is going to keep.
Draft(p) ==
  /\ pc[p] = "orphans" => local[p].kept = {}
  /\ pc[p] \in {"replay", "routes"} =>
       /\ local[p].dead \subseteq leases
       /\ pc[p] = "routes" => local[p].todo \subseteq Registered
       /\ \A op \in local[p].ops \cup local[p].kept :
            /\ op.owner \in used
            /\ op.kind \in RemovingKinds => op.owner \notin Registered \ local[p].dead

\* No id is forgotten, and none is both an alias and a lease.
Ids ==
  /\ Registered \subseteq used
  /\ aliases \cap leases = {}
  /\ \A op \in pending : op.owner \in used

CommandInv(p) ==
  LockHeld(p) /\ OwnIds(p) /\ NotRecorded(p) /\ NothingMissed(p) /\ Loops(p) /\ Draft(p)

\* No command ever acts on an owner, a conflict or a journal entry that has
\* gone stale since it looked (start_run_with_hook, set_alias_with,
\* run_runner, cleanup_run_route and reconcile keep them across Caddy calls).
OwnershipInv ==
  /\ TypeOK
  /\ Ids
  /\ \A p \in Procs : CommandInv(p)
  /\ OneOwnerPerHostname
  /\ JournalSparesOwners

-----------------------------------------------------------------------------
(* What a command knows of the owners it is about to drop.                 *)

\* What a command is going to displace is on a hostname of one of its apps.
Aimed(p) ==
  pc[p] \in Committing =>
    \A d \in local[p].displaced : \E a \in local[p].apps : Host[a] = Host[d]

\* A run is recorded once its children are started, and dropped once they
\* are dead.
Started(p) ==
  /\ pc[p] = "spawn" => \A a \in local[p].apps \ local[p].todo : child[a] # "none"
  /\ pc[p] \in {"clean", "live"} => \A a \in local[p].apps : child[a] # "none"
  /\ pc[p] \in {"finish", "finishRemove", "finishWrite"} =>
       \A a \in local[p].apps : child[a] = "dead"

\* The leases a reconciliation is about to drop stay dead until it does.
DeadIsDead(p) ==
  pc[p] \in {"replay", "routes"} =>
    \A o \in local[p].dead : child[o] = "dead" /\ (o \in grouped => ~Supervised(o))

\* Between the moment a command decides that an owner goes and the write that
\* drops it, many Caddy calls later, the reason stays good: the owner is on a
\* hostname the command takes over, or its process is dead and unsupervised,
\* whatever other commands, children and crashes do meanwhile (reconcile,
\* commit_prepared_runs, cleanup_run_route); and no run is on record whose
\* process was never started.
DepartureInv ==
  /\ \A p \in Procs : Aimed(p) /\ Started(p) /\ DeadIsDead(p)
  /\ \A o \in leases : child[o] # "none"

\* All of it: no command acts on what has gone stale since it looked, and the
\* reason for which it drops an owner stays good until the write that does.
CommandsStayRight == OwnershipInv /\ DepartureInv
=============================================================================
