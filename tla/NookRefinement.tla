--------------------------- MODULE NookRefinement ---------------------------
(***************************************************************************)
(* Module Nook implements HostnameOwnership: the registry write that ends  *)
(* a command is the point where ownership changes hands.                   *)
(***************************************************************************)
EXTENDS Nook

\* The owner on record of each hostname.
RecordedOwner ==
  [h \in Hosts |-> IF OwnersOf(h) = {} THEN NoOwner ELSE CHOOSE o \in OwnersOf(h) : TRUE]

\* The ids that no command can record any more: all those generated, but the
\* ones of commands that have not come to their registry write yet.
BeforeWrite ==
  {"aliasEnsure", "aliasPublish", "aliasClean", "prepare", "ensure", "journal", "spawn", "clean"}
SpentIds == used \ UNION {local[p].apps : p \in {q \in Procs : pc[q] \in BeforeWrite}}

Ownership ==
  INSTANCE HostnameOwnership WITH owner <- RecordedOwner, spent <- SpentIds

\* Every step of concurrent, crashing commands is one atomic change of
\* ownership or none (set_alias_with, commit_prepared_runs, cleanup_run_route,
\* remove_alias and reconcile, under the operations lock).
OwnershipSpec == Ownership!Spec
=============================================================================
