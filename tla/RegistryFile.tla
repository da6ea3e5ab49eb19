---------------------------- MODULE RegistryFile ----------------------------
(***************************************************************************)
(* Store::mutate (src/src/state.rs) one file operation at a time: the      *)
(* store lock, the temporary file next to state.json, its sync, the        *)
(* rename, the sync of the directory.  Processes are killed and the power  *)
(* fails in between.  A registry is the set of updates it holds.           *)
(***************************************************************************)
EXTENDS Naturals, FiniteSets

CONSTANTS
  Procs,
  NoProc,
  Updates,    \* the changes that mutate is called with
  NoFile,
  MaxFaults   \* bound on failed operations, killed processes, power failures

ASSUME NoProcIsNoProcess == NoProc \notin Procs
ASSUME FaultsAreBounded == MaxFaults \in Nat

\* FORMAT_VERSION: 1 is migrated, 3 was written by a later Nook.
Versions == {1, 2, 3}
Files == [version : Versions, updates : SUBSET Updates, whole : BOOLEAN, synced : BOOLEAN]
ASSUME NoFileIsNoFile == NoFile \notin Files

VARIABLES
  file,       \* state.json, as every process sees it
  disk,       \* state.json, as a power failure would leave it
  temporary,  \* state.json.tmp
  lock,       \* the holder of the store lock
  pc,
  update,     \* what a running mutate has been called with
  draft,      \* the registry it is about to write
  acked,      \* updates whose mutate returned Ok
  faults

vars == <<file, disk, temporary, lock, pc, update, draft, acked, faults>>

Labels == {"idle", "clear", "read", "create", "write", "sync", "rename", "syncDirectory"}

\* decode: no file is an empty registry, else a whole file of a known version.
Readable(f) == f # NoFile => f.whole /\ f.version \in {1, 2}
Decoded(f) == IF f = NoFile THEN {} ELSE f.updates

Init ==
  /\ file \in {f \in Files : f.whole /\ f.synced} \cup {NoFile}
  /\ disk = file
  /\ temporary = NoFile
  /\ lock = NoProc
  /\ pc = [p \in Procs |-> "idle"]
  /\ update \in [Procs -> Updates]
  /\ draft = [p \in Procs |-> {}]
  /\ acked = Decoded(file)
  /\ faults = 0

-----------------------------------------------------------------------------

Goto(p, label) == pc' = [pc EXCEPT ![p] = label]
Spend == faults < MaxFaults /\ faults' = faults + 1

\* Mutation of Lock: the lock is only tried, and its failure ignored.
LockIgnored(p) == lock' = p

\* The store lock is a blocking flock on a file of its own.
Lock(p) == lock = NoProc /\ lock' = p

\* mutate returns an error, wherever it stands.
Fail(p) ==
  /\ lock' = NoProc
  /\ Goto(p, "idle")
  /\ UNCHANGED <<file, disk, update, draft, acked>>

Begin(p, u) ==
  /\ pc[p] = "idle"
  /\ Lock(p)
  /\ update' = [update EXCEPT ![p] = u]
  /\ Goto(p, "clear")
  /\ UNCHANGED <<file, disk, temporary, draft, acked, faults>>

\* Remove what a dead writer left.
ClearTemporary(p) ==
  /\ pc[p] = "clear"
  /\ temporary' = NoFile
  /\ Goto(p, "read")
  /\ UNCHANGED <<file, disk, lock, update, draft, acked, faults>>

\* Read and decode the registry, and apply the caller's operation to it.
Read(p) ==
  /\ pc[p] = "read"
  /\ Readable(file)
  /\ draft' = [draft EXCEPT ![p] = Decoded(file) \cup {update[p]}]
  /\ Goto(p, "create")
  /\ UNCHANGED <<file, disk, temporary, lock, update, acked, faults>>

\* The file cannot be decoded, or the caller's operation returns an error.
Refuse(p) ==
  /\ pc[p] = "read"
  /\ Fail(p)
  /\ UNCHANGED <<temporary, faults>>

\* create_new: fails if there is a temporary file.
Create(p) ==
  /\ pc[p] = "create"
  /\ IF temporary = NoFile
       THEN /\ temporary' = [version |-> 2, updates |-> {}, whole |-> FALSE, synced |-> FALSE]
            /\ Goto(p, "write")
            /\ UNCHANGED <<file, disk, lock, update, draft, acked>>
       ELSE Fail(p) /\ UNCHANGED temporary
  /\ UNCHANGED faults

Write(p) ==
  /\ pc[p] = "write"
  /\ temporary' = [version |-> 2, updates |-> draft[p], whole |-> TRUE, synced |-> FALSE]
  /\ Goto(p, "sync")
  /\ UNCHANGED <<file, disk, lock, update, draft, acked, faults>>

Sync(p) ==
  /\ pc[p] = "sync"
  /\ temporary' = [temporary EXCEPT !.synced = TRUE]
  /\ Goto(p, "rename")
  /\ UNCHANGED <<file, disk, lock, update, draft, acked, faults>>

\* platform::replace_file.
Rename(p) ==
  /\ pc[p] = "rename"
  /\ file' = temporary
  /\ temporary' = NoFile
  /\ Goto(p, "syncDirectory")
  /\ UNCHANGED <<disk, lock, update, draft, acked, faults>>

\* Mutation of SyncDirectory: the directory is not synced.
SyncDirectorySkipped(p) ==
  /\ pc[p] = "syncDirectory"
  /\ acked' = acked \cup {update[p]}
  /\ lock' = NoProc
  /\ Goto(p, "idle")
  /\ UNCHANGED <<file, disk, temporary, update, draft, faults>>

\* platform::sync_directory, and mutate returns Ok.
SyncDirectory(p) ==
  /\ pc[p] = "syncDirectory"
  /\ disk' = file
  /\ acked' = acked \cup {update[p]}
  /\ lock' = NoProc
  /\ Goto(p, "idle")
  /\ UNCHANGED <<file, temporary, update, draft, faults>>

\* Any operation can fail, and the process can be killed before it: what was
\* done stays, be it half a temporary file or a renamed one whose directory
\* is not synced.
OperationFails(p) ==
  /\ pc[p] # "idle"
  /\ Spend
  /\ Fail(p)
  /\ UNCHANGED temporary

\* The system writes the renamed directory entry back in its own time.
WriteBack ==
  /\ disk # file /\ disk' = file
  /\ UNCHANGED <<file, temporary, lock, pc, update, draft, acked, faults>>

-----------------------------------------------------------------------------

\* What a power failure leaves of a file: its content is only sure if synced.
Left(f) ==
  IF f = NoFile \/ f.synced THEN {f}
  ELSE {[f EXCEPT !.synced = TRUE], [f EXCEPT !.whole = FALSE, !.synced = TRUE]}

\* A rename whose directory entry was not written back may be undone.
PowerFails ==
  /\ Spend
  /\ file' \in Left(file) \cup Left(disk)
  /\ disk' = file'
  /\ temporary' \in Left(temporary) \cup (IF disk = file THEN {} ELSE Left(file)) \cup {NoFile}
  /\ lock' = NoProc
  /\ pc' = [p \in Procs |-> "idle"]
  /\ UNCHANGED <<update, draft, acked>>

Proceed(p) ==
  \/ ClearTemporary(p) \/ Read(p) \/ Refuse(p) \/ Create(p) \/ Write(p)
  \/ Sync(p) \/ Rename(p) \/ SyncDirectory(p)

Next ==
  \/ \E p \in Procs : Proceed(p) \/ OperationFails(p) \/ \E u \in Updates : Begin(p, u)
  \/ WriteBack \/ PowerFails

Spec == Init /\ [][Next]_vars

-----------------------------------------------------------------------------

TypeOK ==
  /\ file \in Files \cup {NoFile}
  /\ disk \in Files \cup {NoFile}
  /\ temporary \in Files \cup {NoFile}
  /\ lock \in Procs \cup {NoProc}
  /\ pc \in [Procs -> Labels]
  /\ update \in [Procs -> Updates]
  /\ draft \in [Procs -> SUBSET Updates]
  /\ acked \subseteq Updates
  /\ faults \in 0..MaxFaults

\* There is never half a registry, not even after a power failure at the
\* worst moment: no command would work any more (Store::mutate syncs the
\* temporary file before it is renamed).
NeverHalfWritten ==
  \A f \in {file, disk} : f # NoFile => f.whole

\* An update acknowledged to its caller is in the file and on the disk, so
\* neither another writer nor a power failure loses it.
AcknowledgedStays ==
  acked \subseteq Decoded(file) /\ acked \subseteq Decoded(disk)

\* The registry of a later Nook is never overwritten (Error::UnsupportedVersion).
LaterVersionKept ==
  [][file # NoFile /\ file.version = 3 => file' = file]_vars

\* What a dead writer left behind never stops the next one
\* (tests: atomic_mutations_recover_stale_temporary_file).
TemporaryIsFree ==
  \A p \in Procs : pc[p] \in {"read", "create"} => temporary = NoFile

\* Store::mutate is the atomic change of the registry that the commands rely
\* on: the rename applies it.
Atomic == INSTANCE AtomicRegistry WITH applied <- Decoded(file)
AtomicSpec == Atomic!Spec

-----------------------------------------------------------------------------
(* The inductive invariant behind these properties.                        *)

\* The holder of the lock works on what is in the file, and its temporary
\* file is what it drafted.
WriterInv(p) ==
  /\ pc[p] # "idle" => lock = p
  /\ pc[p] \in {"create", "write", "sync", "rename"} =>
       Readable(file) /\ draft[p] = Decoded(file) \cup {update[p]}
  /\ pc[p] \in {"sync", "rename"} =>
       /\ temporary # NoFile /\ temporary.whole
       /\ temporary.updates = draft[p] /\ temporary.version = 2
  /\ pc[p] = "rename" => temporary.synced
  /\ pc[p] = "syncDirectory" => update[p] \in Decoded(file)

\* The disk is behind the file, never ahead of it, and both survive a power
\* failure; nobody renames over the registry of a later Nook.
DiskInv ==
  /\ \A f \in {file, disk} : f # NoFile => f.synced
  /\ Decoded(disk) \subseteq Decoded(file)
  /\ file # NoFile /\ file.version = 3 => disk = file

\* Everything a writer relies on while it holds the store lock.
RegistryInv ==
  /\ TypeOK
  /\ DiskInv
  /\ \A p \in Procs : WriterInv(p)
  /\ NeverHalfWritten
  /\ AcknowledgedStays
  /\ TemporaryIsFree
=============================================================================
