--------------------------- MODULE NookProperties ---------------------------
(***************************************************************************)
(* What the route ownership protocol of module Nook promises.              *)
(***************************************************************************)
EXTENDS Nook

\* The journal calls for the removal of this owner's routes.
Journaled(o) == \E op \in pending : op.kind \in RemovingKinds /\ op.owner = o

\* A hostname has at most one owner on record, however commands, crashes and
\* failed Caddy calls interleave (set_alias_with, commit_prepared_runs: the
\* owners noted under the lock are dropped in the write that adds the new one).
OneOwnerPerHostname ==
  \A a, b \in Registered : Host[a] = Host[b] => a = b

\* Two recorded LAN runs never announce the same mDNS name, not even for
\* different hostnames (prepare_run's LanHostnameConflict).
OneRunPerLanName ==
  \A a, b \in leases :
    Lan[a] /\ Lan[b] /\ LanName[Host[a]] = LanName[Host[b]] => a = b

\* Replaying the journal never takes down the route of a recorded owner: an
\* entry that removes a route leaves the journal in the very write that
\* records its owner (commit_prepared_runs, set_alias_with, retry_pending).
JournalSparesOwners ==
  \A op \in pending : op.kind \in RemovingKinds => op.owner \notin Registered

\* Every managed route in Caddy belongs to a recorded owner or is named by a
\* journal entry that will remove it, at every crash point
\* (docs/TRACEABILITY.md:22, no orphaned route after an impossible spawn or
\* supervisor death).
NoOrphanedRoute ==
  \A r \in routes : r[2] \in Registered \/ Journaled(r[2])

\* Where root runners are used, a route loses both its owner and its journal
\* entry in one way only: the rollback of a runner puts back a route whose
\* owner was dropped while it had let go of the operations lock
\* (workspace.rs:636).  No other step of any command makes an orphan, neither
\* before nor after that.
Orphaned(r) == r \in routes /\ r[2] \notin Registered /\ ~Journaled(r[2])
OrphanedOnlyByRollback ==
  [][\A r \in routes' :
       Orphaned(r)' /\ ~Orphaned(r) =>
         \E p \in Procs :
           /\ local[p].cmd = "runner" /\ pc[p] = "abandonRestore"
           /\ r[2] \in local[p].displaced \ Registered]_vars

\* An owner never leaves the registry silently: in the same write another
\* owner takes its hostname, or its removal is journaled because the user
\* asked for it, or it is a lease whose process is dead and, in a workspace,
\* whose supervisor is gone or is itself ending it.  So a command that fails
\* or crashes never costs an earlier owner its hostname.
NoOwnerLeavesSilently ==
  [][\A o \in Registered \ Registered' :
       \/ \E n \in Registered' \ Registered : Host[n] = Host[o]
       \/ o \in aliases /\ Op("remove", o) \in pending'
       \/ /\ o \in leases /\ child[o] = "dead"
          /\ o \in grouped => \A q \in Procs : o \in local[q].apps => pc[q] = "finishWrite"]_vars

\* Nook takes down the route of a recorded owner only while the journal names
\* a competitor for the hostname, whose recovery brings the route back, or
\* when its process is dead.  (A reload of Caddy moves no command.)
RouteTakenOnlyUnderJournal ==
  [][\A r \in routes \ routes' :
       \/ r[2] \notin Registered
       \/ UNCHANGED <<pc, local>>
       \/ \E op \in pending : /\ op.kind \in {"install", "start"}
                              /\ op.owner # r[2] /\ Host[op.owner] = Host[r[2]]
       \/ r[2] \in leases /\ child[r[2]] = "dead"]_vars

\* One reconciliation without a fault converges, whatever crash, failure or
\* reload came before it (docs/TRACEABILITY.md:23): Caddy serves exactly the
\* routes of the registry, and the journal holds no removal any more.
CleanReconcileConverges ==
  [][\A p \in Procs :
       /\ pc[p] = "routes" /\ local[p].todo = {} /\ pc'[p] = "idle"
       /\ faults' = local[p].mark
       => /\ routes' = ExpectedRoutes'
          /\ \A op \in pending' : op.kind = "restore"]_vars

-----------------------------------------------------------------------------
(* Liveness.  A command that has begun takes its next step when it can; the *)
(* lock is a blocking flock.  Nothing forces a user to start a command, a   *)
(* child to exit, or a fault to happen.                                     *)

Progress == \A p \in Procs : WF_vars(Continue(p))

\* The user keeps running nook: every command reconciles first.
RecoveryFairness == Progress /\ WF_vars(\E p \in Procs : Reconcile(p))

RecoverySpec == Spec /\ RecoveryFairness

\* The routes and the registry agree for good once faults stop, commands are
\* all done, and nook is still run now and then: nothing is left for an
\* operator to repair (the "pending" warnings say that a later command will).
EventuallyConverged == <>[](pending = {} /\ routes = ExpectedRoutes)

=============================================================================
