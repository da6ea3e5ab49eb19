--------------------------- MODULE RouteInvariant ---------------------------
(***************************************************************************)
(* The inductive invariant behind what module Nook promises of Caddy's     *)
(* routes: what a command knows, at each of its steps, of the routes that  *)
(* it has installed, taken down or still has to bring back.                *)
(***************************************************************************)
EXTENDS NookInvariant

\* Caddy serves no route of this owner.
Clear(o) == \A r \in routes : r[2] # o

\* The journal names this owner as somebody who is about to take a hostname.
Contends(o) == \E op \in pending : op.kind \in {"install", "start"} /\ op.owner = o

\* A route is one of those its owner needs, so that removing it by the
\* protocol of its owner finds it.
RoutesShaped == \A r \in routes : r \in RoutesOf(r[2])

-----------------------------------------------------------------------------
(* mDNS names.                                                             *)

\* The apps of a command differ in their mDNS names, and no recorded run has
\* the mDNS name of an app that was looked up.
LanApart(p) ==
  /\ pc[p] \in AliasLabels => \A a \in local[p].apps : ~Lan[a]
  /\ pc[p] \in StartLabels =>
       /\ \A a, b \in local[p].apps : Lan[a] /\ Lan[b] => a = b
       /\ \A a \in LookedUp(p) : ~LanConflict(a)

\* prepare_run's check of the mDNS names stays good until the commit.
LanInv ==
  /\ \A a \in aliases : ~Lan[a]
  /\ OneRunPerLanName
  /\ \A p \in Procs : LanApart(p)

-----------------------------------------------------------------------------
(* Routes.                                                                 *)

\* Until a command commits, the journal holds an entry for every app it has
\* looked up.
Announced(p) == pc[p] \in Committing => \A a \in LookedUp(p) : Contends(a)

\* Whose routes a rollback puts back is still on record.
Restorable(p) ==
  /\ pc[p] \in {"aliasUndo", "aliasRestore", "abandon", "abandonRestore"} =>
       local[p].displaced \subseteq Registered
  /\ pc[p] = "aliasRestore" => local[p].todo \subseteq local[p].displaced

\* What a command has taken down is gone, unless it noted that this failed.
TakenDown(p) ==
  /\ pc[p] \in {"aliasClean", "clean"} =>
       \A d \in local[p].displaced \ (local[p].todo \cup local[p].failed) : Clear(d)
  /\ pc[p] \in {"aliasRestore", "abandonRestore", "finishWrite"} =>
       local[p].cur \in local[p].failed \/ Clear(local[p].cur)
  /\ pc[p] \in {"unaliasRemove", "unaliasDone"} => local[p].cur \notin Registered
  /\ pc[p] = "unaliasDone" => Clear(local[p].cur)

\* Every route that a reconciliation meets belongs to an owner that stays on
\* record, is about to be looked at, or has an entry in the new journal.
Accounted(p) ==
  /\ pc[p] = "orphans" =>
       /\ local[p].sel = Servers
       /\ \A r \in local[p].orphans : r \in RoutesOf(r[2]) /\ r[2] \notin Registered
  /\ pc[p] = "routes" => local[p].ops = {}
  /\ pc[p] \in {"replay", "routes"} =>
       /\ local[p].dead \cap local[p].unsure = {}
       /\ \A r \in routes :
            \/ /\ r[2] \in Registered
               /\ pc[p] = "routes" /\ r[2] \in local[p].dead => r[2] \in local[p].todo
            \/ \E op \in local[p].ops \cup local[p].kept :
                 op.kind \in RemovingKinds /\ op.owner = r[2]

\* A reconciliation can reach the servers of all it has to put right, and as
\* long as nothing fails it leaves nothing to a later one.
Repairing(p) ==
  pc[p] \in {"replay", "routes"} =>
    /\ local[p].mark <= faults
    /\ \A r \in ExpectedRoutes : Server(r[1] = "https") \in local[p].sel
    /\ \A op \in local[p].ops : Server(Tls[op.owner]) \in local[p].sel
    /\ faults = local[p].mark =>
         /\ local[p].unsure = {}
         /\ \A op \in local[p].kept : op.kind = "restore"
         /\ pc[p] = "routes" =>
              \A o \in Registered \ (local[p].dead \cup local[p].todo) : RoutesOf(o) \subseteq routes

RouteKnowledge(p) ==
  Announced(p) /\ Restorable(p) /\ TakenDown(p) /\ Accounted(p) /\ Repairing(p)

\* At every step a command's knowledge of the routes is right: what it took
\* down is gone or noted as failed, what it will bring back is on record, and
\* every route a reconciliation meets is accounted for (commit_prepared_runs,
\* set_alias_with, abandon_route, reconcile keep this across Caddy calls).
RouteInv ==
  /\ RoutesShaped
  /\ NoOrphanedRoute
  /\ \A p \in Procs : RouteKnowledge(p)

\* While a root runner has given up the operations lock for its rollback
\* (workspace.rs:636), nobody drops an owner that it is going to restore.
RollbackKeepsOwners ==
  \A p \in Procs : pc[p] = "rollback" => local[p].displaced \subseteq Registered
=============================================================================
