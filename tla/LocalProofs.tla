----------------------------- MODULE LocalProofs ----------------------------
(***************************************************************************)
(* Machine-checked proofs about what Nook does with the files, settings    *)
(* and arguments of one machine: module RegistryFile, for any number of    *)
(* processes, updates, failures and power cuts; module UserFiles, for any  *)
(* number of commands and settings; module WorkspaceConfig, for any apps,  *)
(* layers and number of edits; and module FrameworkArguments, for commands *)
(* of any length.                                                          *)
(***************************************************************************)
EXTENDS RegistryFile, UserFiles, WorkspaceConfig, FrameworkArguments,
        SequenceTheorems, WellFoundedInduction, TLAPS

-----------------------------------------------------------------------------
(* Who holds the lock works alone.                                         *)

LEMMA WriterAlone ==
  ASSUME RegistryInv, NEW p \in Procs, pc[p] # "idle"
  PROVE  lock = p /\ p # NoProc /\ \A q \in Procs \ {p} : pc[q] = "idle"
  BY NoProcIsNoProcess DEF RegistryInv, WriterInv

LEMMA NobodyWrites ==
  ASSUME RegistryInv, lock = NoProc
  PROVE  \A q \in Procs : pc[q] = "idle"
  BY NoProcIsNoProcess DEF RegistryInv, WriterInv

LEMMA Moved ==
  ASSUME RegistryInv, NEW p \in Procs, NEW label \in Labels, Goto(p, label),
         \A q \in Procs \ {p} : pc[q] = "idle"
  PROVE  /\ pc' \in [Procs -> Labels]
         /\ pc'[p] = label
         /\ \A q \in Procs \ {p} : pc'[q] = "idle"
  BY DEF RegistryInv, TypeOK, Goto

\* What the state of the files alone says survives every step that leaves
\* them alone.
LEMMA FilesKept ==
  ASSUME RegistryInv, UNCHANGED <<file, disk, acked>>
  PROVE  DiskInv' /\ NeverHalfWritten' /\ AcknowledgedStays'
  BY DEF RegistryInv, DiskInv, NeverHalfWritten, AcknowledgedStays, Decoded

LEMMA FilesTyped ==
  ASSUME RegistryInv, UNCHANGED <<file, disk, acked>>
  PROVE  file' \in Files \cup {NoFile} /\ disk' \in Files \cup {NoFile} /\ acked' \subseteq Updates
  BY DEF RegistryInv, TypeOK

\* Writing again what a process that is idle has in memory is nothing.
LEMMA IdleHolds ==
  ASSUME NEW q \in Procs, pc'[q] = "idle"
  PROVE  WriterInv(q)'
  BY DEF WriterInv

-----------------------------------------------------------------------------
(* One lemma per step of mutate.                                           *)

LEMMA InitHolds ==
  ASSUME Init
  PROVE  RegistryInv
<1>1. TypeOK
  BY FaultsAreBounded DEF Init, TypeOK, Labels, Decoded, Files
<1>2. DiskInv /\ NeverHalfWritten
  BY NoFileIsNoFile DEF Init, DiskInv, NeverHalfWritten
<1>3. AcknowledgedStays /\ TemporaryIsFree
  BY DEF Init, AcknowledgedStays, TemporaryIsFree
<1>4. \A p \in Procs : WriterInv(p)
  BY DEF Init, WriterInv
<1> QED
  BY <1>1, <1>2, <1>3, <1>4 DEF RegistryInv

LEMMA FailHolds ==
  ASSUME RegistryInv, NEW p \in Procs, pc[p] # "idle", Fail(p),
         temporary' = temporary, faults' \in 0..MaxFaults
  PROVE  RegistryInv'
<1>1. \A q \in Procs \ {p} : pc[q] = "idle"
  BY WriterAlone
<1>2. pc' \in [Procs -> Labels] /\ \A q \in Procs : pc'[q] = "idle"
  BY <1>1, Moved DEF Fail, Labels
<1>3. TypeOK'
  BY <1>2, FilesTyped DEF Fail, RegistryInv, TypeOK
<1>4. DiskInv' /\ NeverHalfWritten' /\ AcknowledgedStays'
  BY FilesKept DEF Fail
<1>5. TemporaryIsFree'
  BY <1>2 DEF TemporaryIsFree
<1> QED
  BY <1>2, <1>3, <1>4, <1>5, IdleHolds DEF RegistryInv

LEMMA BeginHolds ==
  ASSUME RegistryInv, NEW p \in Procs, NEW u \in Updates, Begin(p, u)
  PROVE  RegistryInv'
<1>1. \A q \in Procs : pc[q] = "idle"
  BY NobodyWrites DEF Begin, Lock
<1>2. /\ pc' \in [Procs -> Labels] /\ pc'[p] = "clear"
      /\ \A q \in Procs \ {p} : pc'[q] = "idle"
  BY <1>1, Moved DEF Begin, Labels
<1>3. TypeOK'
  BY <1>2, FilesTyped DEF Begin, Lock, RegistryInv, TypeOK
<1>4. DiskInv' /\ NeverHalfWritten' /\ AcknowledgedStays'
  BY FilesKept DEF Begin
<1>5. TemporaryIsFree'
  BY <1>2 DEF TemporaryIsFree
<1>6. WriterInv(p)'
  BY <1>2 DEF WriterInv, Begin, Lock
<1> QED
  BY <1>2, <1>3, <1>4, <1>5, <1>6, IdleHolds DEF RegistryInv

LEMMA ClearHolds ==
  ASSUME RegistryInv, NEW p \in Procs, ClearTemporary(p)
  PROVE  RegistryInv'
<1>1. lock = p /\ \A q \in Procs \ {p} : pc[q] = "idle"
  BY WriterAlone DEF ClearTemporary
<1>2. /\ pc' \in [Procs -> Labels] /\ pc'[p] = "read"
      /\ \A q \in Procs \ {p} : pc'[q] = "idle"
  BY <1>1, Moved DEF ClearTemporary, Labels
<1>3. TypeOK'
  BY <1>2, FilesTyped DEF ClearTemporary, RegistryInv, TypeOK
<1>4. DiskInv' /\ NeverHalfWritten' /\ AcknowledgedStays'
  BY FilesKept DEF ClearTemporary
<1>5. TemporaryIsFree'
  BY DEF ClearTemporary, TemporaryIsFree
<1>6. WriterInv(p)'
  BY <1>1, <1>2 DEF WriterInv, ClearTemporary
<1> QED
  BY <1>2, <1>3, <1>4, <1>5, <1>6, IdleHolds DEF RegistryInv

LEMMA ReadHolds ==
  ASSUME RegistryInv, NEW p \in Procs, Read(p)
  PROVE  RegistryInv'
<1>1. lock = p /\ \A q \in Procs \ {p} : pc[q] = "idle"
  BY WriterAlone DEF Read
<1>2. /\ pc' \in [Procs -> Labels] /\ pc'[p] = "create"
      /\ \A q \in Procs \ {p} : pc'[q] = "idle"
  BY <1>1, Moved DEF Read, Labels
<1>3. draft' \in [Procs -> SUBSET Updates] /\ draft'[p] = Decoded(file) \cup {update[p]}
  BY DEF Read, RegistryInv, TypeOK, Decoded, Files
<1>4. TypeOK'
  BY <1>2, <1>3, FilesTyped DEF Read, RegistryInv, TypeOK
<1>5. DiskInv' /\ NeverHalfWritten' /\ AcknowledgedStays'
  BY FilesKept DEF Read
<1>6. TemporaryIsFree'
  BY <1>2 DEF Read, RegistryInv, TemporaryIsFree
<1>7. WriterInv(p)'
  BY <1>1, <1>2, <1>3 DEF WriterInv, Read, Readable, Decoded
<1> QED
  BY <1>2, <1>4, <1>5, <1>6, <1>7, IdleHolds DEF RegistryInv

LEMMA CreateHolds ==
  ASSUME RegistryInv, NEW p \in Procs, Create(p)
  PROVE  RegistryInv'
<1>1. lock = p /\ \A q \in Procs \ {p} : pc[q] = "idle"
  BY WriterAlone DEF Create
<1>2. temporary = NoFile
  BY DEF Create, RegistryInv, TemporaryIsFree
<1>3. /\ pc' \in [Procs -> Labels] /\ pc'[p] = "write"
      /\ \A q \in Procs \ {p} : pc'[q] = "idle"
  BY <1>1, <1>2, Moved DEF Create, Labels
<1>4. temporary' \in Files
  <2>1. temporary' = [version |-> 2, updates |-> {}, whole |-> FALSE, synced |-> FALSE]
    BY <1>2 DEF Create
  <2> QED
    BY <2>1 DEF Files, Versions
<1>5. TypeOK'
  BY <1>2, <1>3, <1>4, FilesTyped DEF Create, RegistryInv, TypeOK
<1>6. DiskInv' /\ NeverHalfWritten' /\ AcknowledgedStays'
  BY <1>2, FilesKept DEF Create
<1>7. TemporaryIsFree'
  BY <1>3 DEF TemporaryIsFree
<1>8. WriterInv(p)'
  BY <1>1, <1>2, <1>3 DEF WriterInv, Create, RegistryInv, Readable, Decoded
<1> QED
  BY <1>3, <1>5, <1>6, <1>7, <1>8, IdleHolds DEF RegistryInv

LEMMA WriteHolds ==
  ASSUME RegistryInv, NEW p \in Procs, Write(p)
  PROVE  RegistryInv'
<1>1. lock = p /\ \A q \in Procs \ {p} : pc[q] = "idle"
  BY WriterAlone DEF Write
<1>2. /\ pc' \in [Procs -> Labels] /\ pc'[p] = "sync"
      /\ \A q \in Procs \ {p} : pc'[q] = "idle"
  BY <1>1, Moved DEF Write, Labels
<1>3. temporary' \in Files
  BY DEF Write, Files, Versions, RegistryInv, TypeOK
<1>4. TypeOK'
  BY <1>2, <1>3, FilesTyped DEF Write, RegistryInv, TypeOK
<1>5. DiskInv' /\ NeverHalfWritten' /\ AcknowledgedStays'
  BY FilesKept DEF Write
<1>6. TemporaryIsFree'
  BY <1>2 DEF TemporaryIsFree
<1>7. WriterInv(p)'
  BY <1>1, <1>2, <1>3, NoFileIsNoFile DEF WriterInv, Write, RegistryInv, Readable, Decoded
<1> QED
  BY <1>2, <1>4, <1>5, <1>6, <1>7, IdleHolds DEF RegistryInv

LEMMA SyncHolds ==
  ASSUME RegistryInv, NEW p \in Procs, Sync(p)
  PROVE  RegistryInv'
<1>1. lock = p /\ \A q \in Procs \ {p} : pc[q] = "idle"
  BY WriterAlone DEF Sync
<1>2. /\ pc' \in [Procs -> Labels] /\ pc'[p] = "rename"
      /\ \A q \in Procs \ {p} : pc'[q] = "idle"
  BY <1>1, Moved DEF Sync, Labels
<1>3. temporary \in Files /\ temporary.whole /\ temporary.updates = draft[p] /\ temporary.version = 2
  BY DEF Sync, RegistryInv, WriterInv, TypeOK
<1>4. /\ temporary' \in Files /\ temporary'.synced /\ temporary'.whole
      /\ temporary'.updates = draft[p] /\ temporary'.version = 2
  BY <1>3 DEF Sync, Files
<1>5. TypeOK'
  BY <1>2, <1>4, FilesTyped DEF Sync, RegistryInv, TypeOK
<1>6. DiskInv' /\ NeverHalfWritten' /\ AcknowledgedStays'
  BY FilesKept DEF Sync
<1>7. TemporaryIsFree'
  BY <1>2 DEF TemporaryIsFree
<1>8. WriterInv(p)'
  BY <1>1, <1>2, <1>4, NoFileIsNoFile DEF WriterInv, Sync, RegistryInv, Readable, Decoded
<1> QED
  BY <1>2, <1>5, <1>6, <1>7, <1>8, IdleHolds DEF RegistryInv

\* What the rename puts in place of the registry.
LEMMA Renamed ==
  ASSUME RegistryInv, NEW p \in Procs, Rename(p)
  PROVE  /\ Readable(file)
         /\ file' \in Files /\ file'.whole /\ file'.synced /\ file'.version = 2
         /\ Decoded(file') = Decoded(file) \cup {update[p]}
<1>1. /\ temporary \in Files /\ temporary.whole /\ temporary.synced /\ temporary.version = 2
      /\ temporary.updates = draft[p] /\ draft[p] = Decoded(file) \cup {update[p]}
      /\ Readable(file)
  BY DEF Rename, RegistryInv, WriterInv, TypeOK
<1> QED
  BY <1>1, NoFileIsNoFile DEF Rename, Decoded

LEMMA RenameHolds ==
  ASSUME RegistryInv, NEW p \in Procs, Rename(p)
  PROVE  RegistryInv'
<1>1. lock = p /\ \A q \in Procs \ {p} : pc[q] = "idle"
  BY WriterAlone DEF Rename
<1>2. /\ pc' \in [Procs -> Labels] /\ pc'[p] = "syncDirectory"
      /\ \A q \in Procs \ {p} : pc'[q] = "idle"
  BY <1>1, Moved DEF Rename, Labels
<1>3. /\ file' \in Files /\ file'.whole /\ file'.synced /\ file'.version = 2
      /\ Decoded(file') = Decoded(file) \cup {update[p]}
  BY Renamed
<1>4. TypeOK'
  BY <1>2, <1>3 DEF Rename, RegistryInv, TypeOK
<1>5. DiskInv'
  BY <1>3 DEF Rename, RegistryInv, DiskInv, Decoded
<1>6. NeverHalfWritten' /\ AcknowledgedStays'
  BY <1>3 DEF Rename, RegistryInv, NeverHalfWritten, AcknowledgedStays, Decoded
<1>7. TemporaryIsFree'
  BY <1>2 DEF TemporaryIsFree
<1>8. WriterInv(p)'
  BY <1>1, <1>2, <1>3 DEF WriterInv, Rename, Decoded
<1> QED
  BY <1>2, <1>4, <1>5, <1>6, <1>7, <1>8, IdleHolds DEF RegistryInv

LEMMA SyncDirectoryHolds ==
  ASSUME RegistryInv, NEW p \in Procs, SyncDirectory(p)
  PROVE  RegistryInv'
<1>1. lock = p /\ \A q \in Procs \ {p} : pc[q] = "idle"
  BY WriterAlone DEF SyncDirectory
<1>2. pc' \in [Procs -> Labels] /\ \A q \in Procs : pc'[q] = "idle"
  BY <1>1, Moved DEF SyncDirectory, Labels
<1>3. update[p] \in Decoded(file)
  BY DEF SyncDirectory, RegistryInv, WriterInv
<1>4. TypeOK'
  BY <1>2 DEF SyncDirectory, RegistryInv, TypeOK
<1>5. DiskInv' /\ NeverHalfWritten'
  BY DEF SyncDirectory, RegistryInv, DiskInv, NeverHalfWritten, Decoded
<1>6. AcknowledgedStays'
  BY <1>3 DEF SyncDirectory, RegistryInv, AcknowledgedStays, Decoded
<1>7. TemporaryIsFree'
  BY <1>2 DEF TemporaryIsFree
<1> QED
  BY <1>2, <1>4, <1>5, <1>6, <1>7, IdleHolds DEF RegistryInv

LEMMA WriteBackHolds ==
  ASSUME RegistryInv, WriteBack
  PROVE  RegistryInv'
<1>1. TypeOK'
  BY DEF WriteBack, RegistryInv, TypeOK
<1>2. DiskInv' /\ NeverHalfWritten' /\ AcknowledgedStays'
  BY DEF WriteBack, RegistryInv, DiskInv, NeverHalfWritten, AcknowledgedStays, Decoded
<1>3. TemporaryIsFree' /\ \A q \in Procs : WriterInv(q)'
  BY DEF WriteBack, RegistryInv, TemporaryIsFree, WriterInv, Readable, Decoded
<1> QED
  BY <1>1, <1>2, <1>3 DEF RegistryInv

-----------------------------------------------------------------------------
(* Power failures.                                                         *)

LEMMA LeftTyped ==
  ASSUME NEW f \in Files \cup {NoFile}
  PROVE  Left(f) \subseteq Files \cup {NoFile}
  BY DEF Left, Files

\* A power failure leaves the registry of the file or that of the disk.
LEMMA PowerLeaves ==
  ASSUME RegistryInv, PowerFails
  PROVE  file' \in {file, disk} /\ disk' = file'
  BY DEF RegistryInv, DiskInv, PowerFails, Left

LEMMA PowerHolds ==
  ASSUME RegistryInv, PowerFails
  PROVE  RegistryInv'
<1>1. file' \in {file, disk} /\ disk' = file'
  BY PowerLeaves
<1>2. pc' \in [Procs -> Labels] /\ \A q \in Procs : pc'[q] = "idle"
  BY DEF PowerFails, Labels
<1>3. temporary' \in Files \cup {NoFile}
  BY LeftTyped DEF PowerFails, RegistryInv, TypeOK
<1>4. faults' \in 0..MaxFaults
  BY FaultsAreBounded DEF PowerFails, Spend, RegistryInv, TypeOK
<1>5. TypeOK'
  BY <1>1, <1>2, <1>3, <1>4 DEF PowerFails, RegistryInv, TypeOK
<1>6. DiskInv' /\ NeverHalfWritten' /\ AcknowledgedStays'
  BY <1>1 DEF PowerFails, RegistryInv, DiskInv, NeverHalfWritten, AcknowledgedStays, Decoded
<1>7. TemporaryIsFree'
  BY <1>2 DEF TemporaryIsFree
<1> QED
  BY <1>2, <1>5, <1>6, <1>7, IdleHolds DEF RegistryInv

-----------------------------------------------------------------------------
(* The invariant.                                                          *)

LEMMA StepHolds ==
  ASSUME RegistryInv, [Next]_vars
  PROVE  RegistryInv'
<1>1. CASE UNCHANGED vars
  BY <1>1 DEF vars, RegistryInv, TypeOK, DiskInv, WriterInv, NeverHalfWritten,
              AcknowledgedStays, TemporaryIsFree, Readable, Decoded
<1>2. ASSUME NEW p \in Procs, Proceed(p)
      PROVE  RegistryInv'
  <2>1. ASSUME Refuse(p)
        PROVE  RegistryInv'
    <3>1. faults' \in 0..MaxFaults
      BY <2>1 DEF Refuse, RegistryInv, TypeOK
    <3> QED
      BY <2>1, <3>1, FailHolds DEF Refuse
  <2> QED
    BY <1>2, <2>1, ClearHolds, ReadHolds, CreateHolds, WriteHolds, SyncHolds, RenameHolds,
       SyncDirectoryHolds DEF Proceed
<1>3. ASSUME NEW p \in Procs, OperationFails(p)
      PROVE  RegistryInv'
  <2>1. faults' \in 0..MaxFaults
    BY <1>3, FaultsAreBounded DEF OperationFails, Spend, RegistryInv, TypeOK
  <2> QED
    BY <1>3, <2>1, FailHolds DEF OperationFails
<1> QED
  BY <1>1, <1>2, <1>3, BeginHolds, WriteBackHolds, PowerHolds DEF Next

\* In every reachable state the file, the disk and the writer's memory agree
\* as RegistryInv says: what each step of Store::mutate relies on holds when
\* it runs, whoever was killed before.
THEOREM RegistryHolds == Spec => []RegistryInv
<1>1. Init => RegistryInv
  BY InitHolds
<1>2. RegistryInv /\ [Next]_vars => RegistryInv'
  BY StepHolds
<1> QED
  BY <1>1, <1>2, PTL DEF Spec

\* No failure, kill or power cut leaves half a registry under the name that
\* the commands read.
THEOREM RegistryIsWhole == Spec => []NeverHalfWritten
<1>1. RegistryInv => NeverHalfWritten
  BY DEF RegistryInv
<1> QED
  BY <1>1, RegistryHolds, PTL

\* What Store::mutate returned Ok for is never lost.
THEOREM AcknowledgedUpdatesStay == Spec => []AcknowledgedStays
<1>1. RegistryInv => AcknowledgedStays
  BY DEF RegistryInv
<1> QED
  BY <1>1, RegistryHolds, PTL

-----------------------------------------------------------------------------
(* Only Rename and a power failure change the registry.                    *)

LEMMA OnlyRenameWrites ==
  ASSUME RegistryInv, [Next]_vars
  PROVE  \/ file' = file
         \/ \E p \in Procs : Rename(p)
         \/ PowerFails
<1>1. CASE UNCHANGED vars
  BY <1>1 DEF vars
<1>2. ASSUME NEW p \in Procs, Proceed(p), ~Rename(p)
      PROVE  file' = file
  BY <1>2 DEF Proceed, ClearTemporary, Read, Refuse, Create, Write, Sync, SyncDirectory, Fail
<1>3. ASSUME NEW p \in Procs, OperationFails(p)
      PROVE  file' = file
  BY <1>3 DEF OperationFails, Fail
<1>4. ASSUME NEW p \in Procs, NEW u \in Updates, Begin(p, u)
      PROVE  file' = file
  BY <1>4 DEF Begin
<1>5. CASE WriteBack
  BY <1>5 DEF WriteBack
<1> QED
  BY <1>1, <1>2, <1>3, <1>4, <1>5 DEF Next

\* A Nook that meets the registry of a later version leaves it as it is.
THEOREM LaterVersionStays == Spec => LaterVersionKept
<1>1. RegistryInv /\ [Next]_vars => [file # NoFile /\ file.version = 3 => file' = file]_vars
  <2> SUFFICES ASSUME RegistryInv, [Next]_vars, file # NoFile, file.version = 3
               PROVE  file' = file
    OBVIOUS
  <2>1. CASE \E p \in Procs : Rename(p)
    BY <2>1, Renamed DEF Readable
  <2>2. CASE PowerFails
    BY <2>2, PowerLeaves DEF RegistryInv, DiskInv
  <2> QED
    BY <2>1, <2>2, OnlyRenameWrites
<1> QED
  BY <1>1, RegistryHolds, PTL DEF Spec, LaterVersionKept

-----------------------------------------------------------------------------
(* Refinement.                                                             *)

LEMMA RenameApplies ==
  ASSUME RegistryInv, NEW p \in Procs, Rename(p)
  PROVE  Atomic!Next
<1>1. Decoded(file)' = Decoded(file) \cup {update[p]}
  BY Renamed DEF Decoded
<1>2. update[p] \in Updates /\ acked' = acked
  BY DEF Rename, RegistryInv, TypeOK
<1> QED
  BY <1>1, <1>2 DEF Atomic!Next, Atomic!Apply

LEMMA SyncDirectoryAcknowledges ==
  ASSUME RegistryInv, NEW p \in Procs, SyncDirectory(p)
  PROVE  Atomic!Next
<1>1. update[p] \in Decoded(file) /\ update[p] \in Updates
  BY DEF SyncDirectory, RegistryInv, WriterInv, TypeOK
<1>2. acked' = acked \cup {update[p]} /\ Decoded(file)' = Decoded(file)
  BY DEF SyncDirectory, Decoded
<1> QED
  BY <1>1, <1>2 DEF Atomic!Next, Atomic!Acknowledge

LEMMA PowerUndoes ==
  ASSUME RegistryInv, PowerFails
  PROVE  Atomic!Next
<1>1. Decoded(file)' \subseteq Decoded(file)
  BY PowerLeaves DEF RegistryInv, DiskInv, Decoded
<1>2. acked \subseteq Decoded(file)' /\ acked' = acked
  BY PowerLeaves DEF PowerFails, RegistryInv, AcknowledgedStays, Decoded
<1> QED
  BY <1>1, <1>2 DEF Atomic!Next, Atomic!Undo

\* Everything but a rename, a power failure and the last sync goes unseen.
LEMMA OthersStutter ==
  ASSUME RegistryInv, [Next]_vars, ~PowerFails,
         \A p \in Procs : ~Rename(p) /\ ~SyncDirectory(p)
  PROVE  UNCHANGED <<file, acked>>
<1>1. CASE UNCHANGED vars
  BY <1>1 DEF vars
<1>2. ASSUME NEW p \in Procs, Proceed(p)
      PROVE  UNCHANGED <<file, acked>>
  BY <1>2 DEF Proceed, ClearTemporary, Read, Refuse, Create, Write, Sync, Fail
<1>3. ASSUME NEW p \in Procs, OperationFails(p)
      PROVE  UNCHANGED <<file, acked>>
  BY <1>3 DEF OperationFails, Fail
<1>4. ASSUME NEW p \in Procs, NEW u \in Updates, Begin(p, u)
      PROVE  UNCHANGED <<file, acked>>
  BY <1>4 DEF Begin
<1>5. CASE WriteBack
  BY <1>5 DEF WriteBack
<1> QED
  BY <1>1, <1>2, <1>3, <1>4, <1>5 DEF Next

\* The file protocol gives the commands the atomic registry that they, and
\* module Nook, take Store::mutate for.
THEOREM RegistryIsAtomic == Spec => AtomicSpec
<1>1. Init => Atomic!Init
  <2> SUFFICES ASSUME Init
               PROVE  Atomic!Init
    OBVIOUS
  <2>1. Decoded(file) \subseteq Updates
    BY DEF Init, Decoded, Files
  <2> QED
    BY <2>1 DEF Init, Atomic!Init
<1>2. RegistryInv /\ [Next]_vars => [Atomic!Next]_(Atomic!contents)
  <2> SUFFICES ASSUME RegistryInv, [Next]_vars
               PROVE  [Atomic!Next]_(Atomic!contents)
    OBVIOUS
  <2>1. CASE \E p \in Procs : Rename(p)
    BY <2>1, RenameApplies
  <2>2. CASE \E p \in Procs : SyncDirectory(p)
    BY <2>2, SyncDirectoryAcknowledges
  <2>3. CASE PowerFails
    BY <2>3, PowerUndoes
  <2>4. CASE UNCHANGED <<file, acked>>
    BY <2>4 DEF Atomic!contents, Decoded
  <2> QED
    BY <2>1, <2>2, <2>3, <2>4, OthersStutter
<1> QED
  BY <1>1, <1>2, RegistryHolds, PTL DEF Spec, AtomicSpec, Atomic!Spec

-----------------------------------------------------------------------------
(* Files that users write too.                                             *)

Commands ==
  [at : {"idle", "check", "create", "publish", "clean"}, force : BOOLEAN,
   draft : Configs, temporary : BOOLEAN]

LEMMA ConfigsTyped ==
  /\ NoCommand \in Commands
  /\ {Absent, Irregular, Broken} \subseteq Contents
  /\ \A c \in Configs : File(c) \in Contents
  /\ \A c \in Contents : c.values \in Configs
<1>1. Defaults \in Configs
  BY DEF Defaults, Configs
<1>2. NoCommand \in Commands
  BY <1>1 DEF NoCommand, Commands
<1>3. /\ {Absent, Irregular, Broken} \subseteq Contents
      /\ \A c \in Configs : File(c) \in Contents
  BY DEF Contents
<1>4. ASSUME NEW c \in Contents PROVE c.values \in Configs
  <2>1. CASE c \in {Absent, Irregular, Broken}
    <3>1. Absent.values = Defaults /\ Irregular.values = Defaults /\ Broken.values = Defaults
      BY DEF Absent, Irregular, Broken, Other
    <3> QED
      BY <1>1, <2>1, <3>1
  <2>2. CASE c \in {File(d) : d \in Configs}
    BY <2>2 DEF File
  <2> QED
    BY <2>1, <2>2 DEF Contents
<1> QED
  BY <1>2, <1>3, <1>4

LEMMA WriterTyped ==
  ASSUME writer \in [Writers -> Commands], NEW w \in Writers, NEW c \in Commands,
         writer' = [writer EXCEPT ![w] = c]
  PROVE  writer' \in [Writers -> Commands]
  OBVIOUS

LEMMA FilesStep ==
  ASSUME FilesTypeOK, [FilesNext]_fileVars
  PROVE  FilesTypeOK'
<1>0. content \in Contents /\ writer \in [Writers -> Commands] /\ litter \in BOOLEAN
  BY DEF FilesTypeOK, Commands
<1>1. \A w \in Writers :
        /\ \A step \in {"check", "create", "publish", "clean"} :
             /\ [writer[w] EXCEPT !.at = step] \in Commands
             /\ [writer[w] EXCEPT !.at = step, !.temporary = TRUE] \in Commands
        /\ writer[w].draft \in Configs /\ writer[w].temporary \in BOOLEAN
  BY <1>0 DEF Commands
<1>2. ASSUME NEW w \in Writers, NEW force \in BOOLEAN, BeginNew(w, force) PROVE FilesTypeOK'
  <2>1. [NoCommand EXCEPT !.at = "check", !.force = force] \in Commands
    BY ConfigsTyped DEF Commands
  <2> QED
    BY <1>0, <1>2, <2>1 DEF BeginNew, FilesTypeOK, Commands
<1>3. ASSUME NEW w \in Writers, NEW s \in Settings, BeginSet(w, s) PROVE FilesTypeOK'
  <2>1. PICK value \in 0..1 :
          writer' = [writer EXCEPT ![w] =
                       [NoCommand EXCEPT !.at = "check", !.force = TRUE,
                                         !.draft = [Loaded EXCEPT ![s] = value]]]
    BY <1>3 DEF BeginSet
  <2>2. Loaded \in Configs
    BY <1>0, ConfigsTyped DEF Loaded
  <2>3. [Loaded EXCEPT ![s] = value] \in Configs
    BY <2>2 DEF Configs
  <2>4. [NoCommand EXCEPT !.at = "check", !.force = TRUE,
                          !.draft = [Loaded EXCEPT ![s] = value]] \in Commands
    BY <2>3, ConfigsTyped DEF Commands
  <2> QED
    BY <1>0, <1>3, <2>1, <2>4 DEF BeginSet, FilesTypeOK, Commands
<1>4. ASSUME NEW w \in Writers, CheckPath(w) \/ CreateTemporary(w) PROVE FilesTypeOK'
  <2>1. UNCHANGED <<content, litter>>
    BY <1>4 DEF CheckPath, CreateTemporary
  <2>2. \E c \in Commands : writer' = [writer EXCEPT ![w] = c]
    <3>1. CASE CheckPath(w)
      BY <1>0, <1>1, <3>1, ConfigsTyped DEF CheckPath, Advance, EndWrite
    <3>2. CASE CreateTemporary(w)
      <4>1. CASE writer' = [writer EXCEPT ![w].at = "publish", ![w].temporary = TRUE]
        <5>1. writer' = [writer EXCEPT ![w] = [writer[w] EXCEPT !.at = "publish", !.temporary = TRUE]]
          BY <1>0, <4>1
        <5> QED
          BY <1>1, <5>1
      <4>2. CASE EndWrite(w)
        BY <4>2, ConfigsTyped DEF EndWrite
      <4> QED
        BY <3>2, <4>1, <4>2 DEF CreateTemporary
    <3> QED
      BY <1>4, <3>1, <3>2
  <2> QED
    BY <1>0, <2>1, <2>2, WriterTyped DEF FilesTypeOK, Commands
<1>5. ASSUME NEW w \in Writers, PublishFile(w) PROVE FilesTypeOK'
  <2>1. content' \in Contents /\ UNCHANGED litter
    BY <1>0, <1>1, <1>5, ConfigsTyped DEF PublishFile
  <2>2. \E c \in Commands : writer' = [writer EXCEPT ![w] = c]
    BY <1>0, <1>1, <1>5, ConfigsTyped DEF PublishFile, Advance, EndWrite
  <2> QED
    BY <1>0, <2>1, <2>2, WriterTyped DEF FilesTypeOK, Commands
<1>6. ASSUME NEW w \in Writers, CleanTemporary(w) \/ WriterDies(w) PROVE FilesTypeOK'
  <2>1. UNCHANGED content /\ litter' \in BOOLEAN
    BY <1>0, <1>1, <1>6 DEF CleanTemporary, WriterDies
  <2>2. writer' = [writer EXCEPT ![w] = NoCommand]
    BY <1>6 DEF CleanTemporary, WriterDies, EndWrite
  <2> QED
    BY <1>0, <2>1, <2>2, WriterTyped, ConfigsTyped DEF FilesTypeOK, Commands
<1>7. CASE UserEdits
  BY <1>0, <1>7 DEF UserEdits, FilesTypeOK, Commands
<1>8. CASE UNCHANGED fileVars
  BY <1>0, <1>8 DEF fileVars, FilesTypeOK, Commands
<1> QED
  BY <1>2, <1>3, <1>4, <1>5, <1>6, <1>7, <1>8 DEF FilesNext

THEOREM UserFilesTyped == FilesSpec => []FilesTypeOK
<1>1. FilesInit => FilesTypeOK
  BY ConfigsTyped DEF FilesInit, FilesTypeOK, Commands
<1> QED
  BY <1>1, FilesStep, PTL DEF FilesSpec

\* Only a user, or a command with --force, changes a file that exists: what
\* appears between the check of the path and the move into place stays
\* (move_new_file, platform.rs:13; config.rs:308).
THEOREM NothingIsClobbered == FilesSpec => NothingClobbered
<1> DEFINE A == content # Absent /\ content' # content
                  => \/ UNCHANGED writer
                     \/ \E w \in Writers : writer[w].force /\ writer'[w] # writer[w]
<1>1. ASSUME FilesTypeOK, [FilesNext]_fileVars PROVE A
  <2> SUFFICES ASSUME content # Absent, content' # content
               PROVE  \/ UNCHANGED writer
                      \/ \E w \in Writers : writer[w].force /\ writer'[w] # writer[w]
    OBVIOUS
  <2>1. CASE UserEdits
    BY <2>1 DEF UserEdits
  <2>2. ASSUME NEW w \in Writers, PublishFile(w)
        PROVE  writer[w].force /\ writer'[w] # writer[w]
    <3>1. writer[w].force /\ EndWrite(w) /\ writer[w].at = "publish"
      BY <2>2 DEF PublishFile
    <3>2. writer'[w] = NoCommand
      BY <1>1, <3>1 DEF EndWrite, FilesTypeOK
    <3>3. NoCommand.at = "idle"
      BY DEF NoCommand
    <3> QED
      BY <3>1, <3>2, <3>3
  <2>3. UserEdits \/ \E w \in Writers : PublishFile(w)
    BY <1>1 DEF FilesNext, fileVars, BeginNew, BeginSet, CheckPath, CreateTemporary,
                CleanTemporary, WriterDies
  <2> QED
    BY <2>1, <2>2, <2>3
<1>2. FilesSpec => [][A]_fileVars
  BY <1>1, UserFilesTyped, PTL DEF FilesSpec
<1> QED
  BY <1>2 DEF NothingClobbered

-----------------------------------------------------------------------------
(* Recursion on numbers.                                                   *)

LEMMA LessThanIsWellFounded == IsWellFoundedOn({x \in Nat \X Nat : x[1] < x[2]}, Nat)
  BY NatLessThanWellFounded DEF OpToRel

LEMMA NumbersByInduction ==
  ASSUME NEW G, 0 \in G, \A n \in Nat : n \in G => n + 1 \in G
  PROVE  Nat \subseteq G
<1> SUFFICES ASSUME ~(Nat \subseteq G) PROVE FALSE
  OBVIOUS
<1> DEFINE T == {n \in Nat : n \notin G}
           R == {x \in Nat \X Nat : x[1] < x[2]}
<1>1. T \subseteq Nat /\ T # {}
  OBVIOUS
<1>2. IsWellFoundedOn(R, Nat)
  BY LessThanIsWellFounded
<1> HIDE DEF R, T
<1>3. PICK n \in T : \A m \in T : ~(<<m, n>> \in R)
  BY <1>1, <1>2, WFMin
<1>4. n \in Nat /\ n # 0 /\ n - 1 \in Nat
  BY <1>1 DEF T
<1>5. n - 1 \in T
  <2>1. (n - 1) + 1 = n
    BY <1>4
  <2> QED
    BY <1>4, <2>1 DEF T
<1>6. <<n - 1, n>> \in R
  <2>1. <<n - 1, n>> \in Nat \X Nat /\ <<n - 1, n>>[1] < <<n - 1, n>>[2]
    BY <1>4
  <2> QED
    BY <2>1 DEF R
<1> QED
  BY <1>3, <1>5, <1>6

Steps(n, V) == [(1..n) \X V -> V]
Iterates(f, v, n, G) == f[0] = v /\ \A i \in 1..n : f[i] = G[i, f[i - 1]]

\* A function may be defined by recursion up to a number.
LEMMA Recursion ==
  ASSUME NEW V, NEW v \in V, NEW n \in Nat, NEW G \in Steps(n, V)
  PROVE  \E f \in [0..n -> V] : Iterates(f, v, n, G)
<1> USE DEF Steps
<1> DEFINE Follows(f, m) == \A i \in 0..m : f[i] = IF i = 0 THEN v ELSE G[i, f[i - 1]]
           P(m) == m <= n => \E f \in [0..m -> V] : Follows(f, m)
           N == {m \in Nat : P(m)}
<1>1. P(0)
  <2>1. [i \in 0..0 |-> v] \in [0..0 -> V]
    OBVIOUS
  <2>2. \A i \in 0..0 : [j \in 0..0 |-> v][i] = v /\ i = 0
    OBVIOUS
  <2> QED
    BY <2>1, <2>2
<1>2. ASSUME NEW m \in Nat, P(m) PROVE P(m + 1)
  <2> SUFFICES ASSUME m + 1 <= n
               PROVE  \E f \in [0..(m + 1) -> V] : Follows(f, m + 1)
    OBVIOUS
  <2>1. PICK f \in [0..m -> V] : Follows(f, m)
    <3>1. m <= n
      OBVIOUS
    <3> HIDE DEF Follows
    <3> QED
      BY <1>2, <3>1
  <2> DEFINE next == G[m + 1, f[m]]
             g == [i \in 0..(m + 1) |-> IF i = m + 1 THEN next ELSE f[i]]
  <2>2. next \in V
    <3>1. m + 1 \in 1..n /\ f[m] \in V
      OBVIOUS
    <3>2. <<m + 1, f[m]>> \in (1..n) \X V
      BY <3>1
    <3> QED
      BY <3>2
  <2> HIDE DEF next
  <2>3. g \in [0..(m + 1) -> V]
    <3>1. \A i \in 0..(m + 1) : i # m + 1 => f[i] \in V
      OBVIOUS
    <3> QED
      BY <2>2, <3>1
  <2>4. \A i \in 0..m : g[i] = f[i]
    OBVIOUS
  <2>5. g[m + 1] = next
    OBVIOUS
  <2> HIDE DEF g
  <2>6. ASSUME NEW i \in 0..(m + 1)
        PROVE  g[i] = IF i = 0 THEN v ELSE G[i, g[i - 1]]
    <3>1. CASE i = m + 1
      <4>1. i # 0 /\ i - 1 = m /\ m \in 0..m
        BY <3>1
      <4>2. g[i - 1] = f[m]
        BY <2>4, <4>1
      <4> QED
        BY <2>5, <3>1, <4>1, <4>2 DEF next
    <3>2. CASE i \in 0..m
      <4>1. i # 0 => i - 1 \in 0..m
        BY <3>2
      <4>2. i # 0 => g[i - 1] = f[i - 1]
        BY <2>4, <4>1
      <4>3. g[i] = f[i]
        BY <2>4, <3>2
      <4>4. f[i] = IF i = 0 THEN v ELSE G[i, f[i - 1]]
        BY <2>1, <3>2
      <4> QED
        BY <4>2, <4>3, <4>4
    <3>3. i = m + 1 \/ i \in 0..m
      OBVIOUS
    <3> QED
      BY <3>1, <3>2, <3>3
  <2>7. Follows(g, m + 1)
    BY <2>6
  <2> HIDE DEF Follows
  <2> QED
    BY <2>3, <2>7
<1>3. Nat \subseteq N
  <2>1. 0 \in N
    BY <1>1
  <2>2. \A m \in Nat : m \in N => m + 1 \in N
    <3> HIDE DEF P
    <3> QED
      BY <1>2
  <2> HIDE DEF N
  <2> QED
    BY <2>1, <2>2, NumbersByInduction
<1>4. PICK f \in [0..n -> V] : Follows(f, n)
  <2> HIDE DEF Follows
  <2> QED
    BY <1>3
<1>5. Iterates(f, v, n, G)
  <2>1. 0 \in 0..n /\ \A i \in 1..n : i \in 0..n /\ i # 0
    OBVIOUS
  <2> QED
    BY <1>4, <2>1 DEF Iterates
<1> QED
  BY <1>5

-----------------------------------------------------------------------------
(* Types.                                                                  *)

Writable == (UNION {Values[f] : f \in Fields}) \cup {Unset, "serve", {}, {"b"}, {"c"}}
Layers == [Fields -> Writable]
Overrides == [dir : Directories \cup {Unset}, layer : Layers]
Apps == [id : AppIds, dir : Directories \cup {Unset}, layer : Layers]

ConfigTyped ==
    /\ manifest \in Seq(Apps)
    /\ override \in [AppIds -> Overrides]
    /\ files \in [Directories -> [shared : Layers, local : Layers]]
    /\ flags.lan \in {"", "on", "off"}
    /\ flags.expose \in {"", "off", "serve", "funnel"}
    /\ {"lan", "expose"} \subseteq DOMAIN flags
    /\ flags = [x \in DOMAIN flags |-> flags[x]]

LEMMA WritableWords == {Unset, "serve", {}, {"b"}, {"c"}} \subseteq Writable
<1> DEFINE U == UNION {Values[f] : f \in Fields}
<1>1. \A W : W \subseteq U \cup W
  OBVIOUS
<1>2. {Unset, "serve", {}, {"b"}, {"c"}} \subseteq U \cup {Unset, "serve", {}, {"b"}, {"c"}}
  BY <1>1
<1> QED
  BY <1>2 DEF Writable

LEMMA WrittenValues ==
  ASSUME NEW f \in Fields, NEW x \in Values[f] \cup {Unset}
  PROVE  x \in Writable
<1>1. CASE x \in Values[f]
  <2>1. Values[f] \in {Values[g] : g \in Fields}
    OBVIOUS
  <2> QED
    BY <1>1, <2>1, Zenon DEF Writable
<1>2. Unset \in Writable
  BY WritableWords
<1> QED
  BY <1>1, <1>2

LEMMA NothingIsALayer == Nothing \in Layers
  BY WritableWords DEF Nothing, Layers

LEMMA LayersChange ==
  ASSUME NEW l \in Layers, NEW f \in Fields, NEW x \in Writable
  PROVE  [l EXCEPT ![f] = x] \in Layers
  BY DEF Layers

LEMMA AppsAreTyped ==
  ASSUME NEW id \in AppIds, NEW d \in Directories, NEW r \in {{}, {"b"}, {"c"}}
  PROVE  App(id, d, r) \in Apps
<1>1. [Nothing EXCEPT !["command"] = "serve"] \in Layers
  BY NothingIsALayer, LayersChange, ConfigAssumption, WritableWords
<1>3. r \in Writable
  BY WritableWords
<1>2. [Nothing EXCEPT !["command"] = "serve", !["env"] = r] \in Layers
  BY <1>1, LayersChange, ConfigAssumption, <1>3
<1> QED
  BY <1>2 DEF App, Apps

LEMMA DirectoriesListed ==
  /\ {Root, <<"r", "x">>, <<"r", "z">>, <<"r", "w">>} \subseteq Directories
  BY DEF Directories

LEMMA TypedAtStart == ConfigInit => ConfigTyped
<1> SUFFICES ASSUME ConfigInit PROVE ConfigTyped
  OBVIOUS
<1>1. manifest \in Seq(Apps)
  <2> DEFINE x == App("a", <<"r", "x">>, {"b"})
             y == App("b", <<"r", "z">>, {"c"})
             z == App("c", <<"r", "w">>, {})
  <2>1. x \in Apps /\ y \in Apps /\ z \in Apps
    BY AppsAreTyped, DirectoriesListed, ConfigAssumption
  <2>2. manifest = <<x, y, z>>
    BY DEF ConfigInit
  <2> HIDE DEF x, y, z
  <2> QED
    BY <2>1, <2>2
<1>2. override \in [AppIds -> Overrides]
  BY NothingIsALayer DEF ConfigInit, Overrides
<1>3. files \in [Directories -> [shared : Layers, local : Layers]]
  BY NothingIsALayer DEF ConfigInit
<1> QED
  BY <1>1, <1>2, <1>3 DEF ConfigInit, ConfigTyped, NoFlags

LEMMA TypedManifest ==
  ASSUME ConfigTyped, EditManifest
  PROVE  manifest' \in Seq(Apps)
<1>0. manifest \in Seq(Apps) /\ DOMAIN manifest = 1..Len(manifest) /\ Len(manifest) \in Nat
  BY LenProperties DEF ConfigTyped
<1>1. ASSUME NEW i \in DOMAIN manifest, NEW f \in Fields, NEW x \in Values[f] \cup {Unset},
             manifest' = [manifest EXCEPT ![i].layer[f] = x]
      PROVE  manifest' \in Seq(Apps)
  <2>1. manifest[i] \in Apps
    BY <1>0
  <2>2. [manifest[i].layer EXCEPT ![f] = x] \in Layers
    BY <2>1, WrittenValues, LayersChange DEF Apps
  <2>3. [manifest[i] EXCEPT !.layer = [manifest[i].layer EXCEPT ![f] = x]] \in Apps
    BY <2>1, <2>2 DEF Apps
  <2>4. manifest' = [manifest EXCEPT
                       ![i] = [manifest[i] EXCEPT !.layer = [manifest[i].layer EXCEPT ![f] = x]]]
    BY <1>1
  <2> QED
    BY <1>0, <2>3, <2>4, ExceptSeq
<1>2. ASSUME NEW i \in DOMAIN manifest, NEW d \in Directories \cup {Unset},
             manifest' = [manifest EXCEPT ![i].dir = d]
      PROVE  manifest' \in Seq(Apps)
  <2>1. manifest[i] \in Apps
    BY <1>0
  <2>2. [manifest[i] EXCEPT !.dir = d] \in Apps
    BY <2>1 DEF Apps
  <2> QED
    BY <1>0, <1>2, <2>2, ExceptSeq
<1>3. ASSUME NEW i \in DOMAIN manifest, NEW id \in AppIds,
             manifest' = [manifest EXCEPT ![i].id = id]
      PROVE  manifest' \in Seq(Apps)
  <2>1. manifest[i] \in Apps
    BY <1>0
  <2>2. [manifest[i] EXCEPT !.id = id] \in Apps
    BY <2>1 DEF Apps
  <2> QED
    BY <1>0, <1>3, <2>2, ExceptSeq
<1>4. ASSUME NEW id \in AppIds, NEW d \in Directories,
             manifest' = Append(manifest, App(id, d, {}))
      PROVE  manifest' \in Seq(Apps)
  BY <1>0, <1>4, AppsAreTyped
<1>5. ASSUME NEW i \in DOMAIN manifest, manifest' = RemoveAt(manifest, i)
      PROVE  manifest' \in Seq(Apps)
  <2>1. i \in 1..Len(manifest)
    BY <1>0
  <2>2. SubSeq(manifest, 1, i - 1) \in Seq(Apps)
    <3>1. \A j \in 1..(i - 1) : manifest[j] \in Apps
      BY <1>0, <2>1
    <3>2. 1 \in Int /\ i - 1 \in Int
      BY <1>0, <2>1
    <3> QED
      BY <3>1, <3>2, SubSeqProperties
  <2>3. SubSeq(manifest, i + 1, Len(manifest)) \in Seq(Apps)
    <3>1. \A j \in (i + 1)..Len(manifest) : manifest[j] \in Apps
      BY <1>0, <2>1
    <3>2. i + 1 \in Int /\ Len(manifest) \in Int
      BY <1>0, <2>1
    <3> QED
      BY <3>1, <3>2, SubSeqProperties
  <2> QED
    BY <1>5, <2>2, <2>3, ConcatProperties DEF RemoveAt
<1> QED
  BY <1>1, <1>2, <1>3, <1>4, <1>5 DEF EditManifest

LEMMA TypedOverride ==
  ASSUME ConfigTyped, EditOverride
  PROVE  override' \in [AppIds -> Overrides]
<1>0. override \in [AppIds -> Overrides]
  BY DEF ConfigTyped
<1>1. ASSUME NEW id \in AppIds, NEW f \in Fields, NEW x \in Values[f],
             override' = [override EXCEPT ![id].layer[f] = x]
      PROVE  override' \in [AppIds -> Overrides]
  <2>1. override[id] \in Overrides
    BY <1>0
  <2>2. [override[id].layer EXCEPT ![f] = x] \in Layers
    BY <2>1, WrittenValues, LayersChange DEF Overrides
  <2>3. [override[id] EXCEPT !.layer = [override[id].layer EXCEPT ![f] = x]] \in Overrides
    BY <2>1, <2>2 DEF Overrides
  <2> QED
    BY <1>0, <1>1, <2>3
<1>2. ASSUME NEW id \in AppIds, NEW d \in Directories,
             override' = [override EXCEPT ![id].dir = d]
      PROVE  override' \in [AppIds -> Overrides]
  BY <1>0, <1>2 DEF Overrides
<1> QED
  BY <1>1, <1>2 DEF EditOverride

LEMMA TypedFiles ==
  ASSUME ConfigTyped, EditFile
  PROVE  files' \in [Directories -> [shared : Layers, local : Layers]]
<1> DEFINE T == [Directories -> [shared : Layers, local : Layers]]
<1>0. files \in T
  BY DEF ConfigTyped
<1>1. ASSUME NEW d \in Directories, NEW f \in Fields, NEW x \in Values[f],
             \/ files' = [files EXCEPT ![d].shared[f] = x]
             \/ files' = [files EXCEPT ![d].local[f] = x]
      PROVE  files' \in T
  <2>1. files[d] \in [shared : Layers, local : Layers]
    BY <1>0
  <2>2. /\ [files[d].shared EXCEPT ![f] = x] \in Layers
        /\ [files[d].local EXCEPT ![f] = x] \in Layers
    BY <2>1, WrittenValues, LayersChange
  <2> QED
    BY <1>0, <1>1, <2>1, <2>2
<1> QED
  BY <1>1 DEF EditFile

LEMMA TypedFlags ==
  ASSUME ConfigTyped, ChooseFlags
  PROVE  /\ flags'.lan \in {"", "on", "off"}
         /\ flags'.expose \in {"", "off", "serve", "funnel"}
         /\ {"lan", "expose"} \subseteq DOMAIN flags'
         /\ flags' = [x \in DOMAIN flags' |-> flags'[x]]
  BY DEF ConfigTyped, ChooseFlags

LEMMA TypedStep == ConfigTyped /\ [ConfigNext]_configVars => ConfigTyped'
<1> SUFFICES ASSUME ConfigTyped, [ConfigNext]_configVars PROVE ConfigTyped'
  OBVIOUS
<1>1. CASE EditManifest
  BY <1>1, TypedManifest DEF EditManifest, ConfigTyped
<1>2. CASE EditOverride
  BY <1>2, TypedOverride DEF EditOverride, ConfigTyped
<1>3. CASE EditFile
  BY <1>3, TypedFiles DEF EditFile, ConfigTyped
<1>4. CASE ChooseFlags
  BY <1>4, TypedFlags DEF ChooseFlags, ConfigTyped
<1>5. CASE UNCHANGED configVars
  BY <1>5 DEF configVars, ConfigTyped
<1> QED
  BY <1>1, <1>2, <1>3, <1>4, <1>5 DEF ConfigNext

\* What users write is what the program can read: applications, entries and
\* layers of the right shape (config.rs, workspace_config.rs).
THEOREM ConfigurationTyped == ConfigSpec => []ConfigTyped
<1>1. ConfigInit => ConfigTyped
  BY TypedAtStart
<1>2. ConfigTyped /\ [ConfigNext]_configVars => ConfigTyped'
  BY TypedStep
<1> QED
  BY <1>1, <1>2, PTL DEF ConfigSpec

-----------------------------------------------------------------------------
(* The members of a workspace.                                             *)

\* The first k apps are accepted: each is a member made of its entry, inside
\* the root and separate from the others.
Accepted(members, k) ==
    /\ members = [j \in 1..k |-> Member(Overridden[j])]
    /\ \A j \in 1..k : Overridden[j].dir # Unset /\ IsPrefix(Root, Overridden[j].dir)
    /\ \A i, j \in 1..k : i # j =>
         /\ Lower(Overridden[i].id) # Lower(Overridden[j].id)
         /\ ~IsPrefix(Overridden[i].dir, Overridden[j].dir)
         /\ Member(Overridden[i]).hostname # Member(Overridden[j]).hostname

LEMMA MemberKeepsEntry ==
  ASSUME NEW app
  PROVE  Member(app).id = app.id /\ Member(app).dir = app.dir
  BY DEF Member

LEMMA AcceptedGrows ==
  ASSUME NEW k \in Nat, NEW members, Accepted(members, k),
         Accepts(members, Overridden[k + 1])
  PROVE  Accepted(Append(members, Member(Overridden[k + 1])), k + 1)
<1> DEFINE new == Overridden[k + 1]
           all == Append(members, Member(new))
<1>1. members = [j \in 1..k |-> Member(Overridden[j])] /\ DOMAIN members = 1..k
  BY DEF Accepted
<1>2. Len(members) = k
  BY <1>1
<1>3. all = [j \in 1..(k + 1) |-> Member(Overridden[j])]
  <2>1. all = [j \in 1..(k + 1) |-> IF j = k + 1 THEN Member(new) ELSE members[j]]
    BY <1>1, <1>2
  <2>2. ASSUME NEW j \in 1..(k + 1)
        PROVE  Member(Overridden[j]) = IF j = k + 1 THEN Member(new) ELSE members[j]
    BY <1>1
  <2> QED
    BY <2>1, <2>2
<1>4. new.dir # Unset /\ IsPrefix(Root, new.dir)
  BY DEF Accepts
<1>5. ASSUME NEW j \in 1..k
      PROVE  /\ Lower(Overridden[j].id) # Lower(new.id)
             /\ ~IsPrefix(Overridden[j].dir, new.dir) /\ ~IsPrefix(new.dir, Overridden[j].dir)
             /\ Member(Overridden[j]).hostname # Member(new).hostname
  <2>1. members[j] \in ToSet(members) /\ members[j] = Member(Overridden[j])
    BY <1>1 DEF ToSet
  <2>2. members[j].id = Overridden[j].id /\ members[j].dir = Overridden[j].dir
    BY <2>1, MemberKeepsEntry
  <2> QED
    BY <2>1, <2>2 DEF Accepts
<1>6. \A j \in 1..(k + 1) : j = k + 1 \/ j \in 1..k
  OBVIOUS
<1> HIDE DEF new, all
<1>7. \A j \in 1..(k + 1) : Overridden[j].dir # Unset /\ IsPrefix(Root, Overridden[j].dir)
  BY <1>4, <1>6 DEF Accepted, new
<1>8. ASSUME NEW i \in 1..(k + 1), NEW j \in 1..(k + 1), i # j
      PROVE  /\ Lower(Overridden[i].id) # Lower(Overridden[j].id)
             /\ ~IsPrefix(Overridden[i].dir, Overridden[j].dir)
             /\ Member(Overridden[i]).hostname # Member(Overridden[j]).hostname
  <2>1. CASE i \in 1..k /\ j \in 1..k
    BY <1>8, <2>1 DEF Accepted
  <2>2. CASE i \in 1..k /\ j = k + 1
    BY <1>5, <2>2 DEF new
  <2>3. CASE i = k + 1 /\ j \in 1..k
    BY <1>5, <2>3 DEF new
  <2> QED
    BY <1>6, <1>8, <2>1, <2>2, <2>3
<1>9. Accepted(all, k + 1)
  BY <1>3, <1>7, <1>8 DEF Accepted
<1> QED
  BY <1>9 DEF new, all

\* A workspace that loads has one member for every app of its file.
LEMMA LoadedIsAccepted ==
  ASSUME manifest \in Seq(Apps), LoadWorkspace # Rejected
  PROVE  Accepted(LoadWorkspace, Len(manifest))
<1> DEFINE n == Len(manifest)
           M == {Member(Overridden[i]) : i \in 1..n}
           V == Seq(M)
           G == [x \in (1..n) \X V |-> AcceptMember(x[2], Overridden[x[1]], x[1])]
           Follows(u) == u = [i \in 0..Len(manifest) |->
                                IF i = 0 THEN <<>>
                                ELSE AcceptMember(u[i - 1], Overridden[i], i)]
           upTo == CHOOSE u : Follows(u)
<1>1. n \in Nat
  BY LenProperties
<1>2. <<>> \in V
  OBVIOUS
<1>3. ASSUME NEW i \in 1..n, NEW s \in V PROVE AcceptMember(s, Overridden[i], i) \in V
  <2>1. Member(Overridden[i]) \in M
    OBVIOUS
  <2> HIDE DEF M
  <2> QED
    BY <2>1 DEF AcceptMember, Rejected
<1>4. G \in [(1..n) \X V -> V]
  <2> HIDE DEF n, V
  <2> QED
    BY <1>3
<1>5. PICK f \in [0..n -> V] : Iterates(f, <<>>, n, G)
  <2>1. G \in Steps(n, V)
    BY <1>4 DEF Steps
  <2> HIDE DEF n, V, G
  <2> QED
    BY <1>1, <1>2, <2>1, Recursion
<1>6. Follows(f)
  <2>1. ASSUME NEW i \in 1..n PROVE f[i] = AcceptMember(f[i - 1], Overridden[i], i)
    <3>1. f[i - 1] \in V
      BY <1>1
    <3> HIDE DEF V, n
    <3>2. <<i, f[i - 1]>> \in (1..n) \X V
      BY <3>1
    <3> QED
      BY <1>5, <3>2 DEF Iterates
  <2>2. \A i \in 0..n : i # 0 => i \in 1..n
    BY <1>1
  <2> HIDE DEF V
  <2>3. f = [i \in 0..n |-> f[i]]
    OBVIOUS
  <2>4. \A i \in 0..n :
          f[i] = IF i = 0 THEN <<>> ELSE AcceptMember(f[i - 1], Overridden[i], i)
    BY <1>5, <2>1, <2>2 DEF Iterates
  <2> QED
    BY <2>3, <2>4
<1>7. Follows(upTo)
  <2>1. \E u : Follows(u)
    BY <1>6
  <2> HIDE DEF Follows
  <2> QED
    BY <2>1
<1>8. LoadWorkspace = upTo[n]
  BY DEF LoadWorkspace, Rejected
<1> HIDE DEF upTo, M, G
<1> DEFINE P(i) == i <= n /\ (i > 0 => upTo[i] # <<>>) => Accepted(upTo[i], i)
           N == {i \in Nat : P(i)}
<1>9. 0 \in N
  <2>1. upTo[0] = <<>>
    BY <1>1, <1>7
  <2> QED
    BY <2>1 DEF Accepted
<1>10. ASSUME NEW i \in Nat, i \in N PROVE i + 1 \in N
  <2> SUFFICES ASSUME i + 1 <= n, upTo[i + 1] # <<>> PROVE Accepted(upTo[i + 1], i + 1)
    OBVIOUS
  <2>1. upTo[i + 1] = AcceptMember(upTo[i], Overridden[i + 1], i + 1)
    BY <1>1, <1>7
  <2>2. /\ i > 0 => upTo[i] # <<>>
        /\ Accepts(upTo[i], Overridden[i + 1])
        /\ upTo[i + 1] = Append(upTo[i], Member(Overridden[i + 1]))
    BY <2>1 DEF AcceptMember, Rejected
  <2>3. Accepted(upTo[i], i)
    BY <1>1, <1>10, <2>2
  <2> QED
    BY <2>2, <2>3, AcceptedGrows
<1>11. P(n)
  <2>1. Nat \subseteq N
    <3> HIDE DEF N
    <3> QED
      BY <1>9, <1>10, NumbersByInduction
  <2> QED
    BY <1>1, <2>1
<1>12. CASE n = 0
  <2>1. upTo[n] = <<>>
    BY <1>7, <1>12
  <2> QED
    BY <1>8, <2>1 DEF Rejected
<1>13. CASE n > 0
  BY <1>1, <1>8, <1>11, <1>13 DEF Rejected
<1> QED
  BY <1>1, <1>12, <1>13

-----------------------------------------------------------------------------
(* Merged settings.                                                        *)

LEMMA FirstIsChosen ==
  ASSUME NEW layers, NEW f, DOMAIN layers \subseteq Nat, NEW i \in DOMAIN layers,
         layers[i][f] # Unset, \A j \in DOMAIN layers : j < i => layers[j][f] = Unset
  PROVE  FirstSet(layers, f) = layers[i][f]
<1> DEFINE set == {j \in DOMAIN layers : layers[j][f] # Unset}
           first == CHOOSE j \in set : \A k \in set : j <= k
<1>1. i \in set /\ \A k \in set : i <= k
  OBVIOUS
<1>2. first \in set /\ \A k \in set : first <= k
  <2> HIDE DEF set
  <2> QED
    BY <1>1
<1>3. first = i
  BY <1>1, <1>2
<1>4. FirstSet(layers, f) = layers[first][f]
  <2>1. set # {}
    BY <1>1
  <2> QED
    BY <2>1 DEF FirstSet
<1> HIDE DEF first
<1> QED
  BY <1>3, <1>4

LEMMA NoneIsChosen ==
  ASSUME NEW layers, NEW f, \A j \in DOMAIN layers : layers[j][f] = Unset
  PROVE  FirstSet(layers, f) = Unset
  BY DEF FirstSet

LEMMA FirstOfTwo ==
  ASSUME NEW a, NEW b, NEW f
  PROVE  FirstSet(<<a, b>>, f) = IF a[f] # Unset THEN a[f] ELSE b[f]
<1> DEFINE layers == <<a, b>>
<1>1. DOMAIN layers = {1, 2} /\ layers[1] = a /\ layers[2] = b
  OBVIOUS
<1> HIDE DEF layers
<1>2. CASE a[f] # Unset
  <2>1. \A j \in DOMAIN layers : ~(j < 1)
    BY <1>1
  <2> QED
    BY <1>1, <1>2, <2>1, FirstIsChosen DEF layers
<1>3. CASE a[f] = Unset /\ b[f] # Unset
  <2>1. \A j \in DOMAIN layers : j < 2 => j = 1
    BY <1>1
  <2> QED
    BY <1>1, <1>3, <2>1, FirstIsChosen DEF layers
<1>4. CASE a[f] = Unset /\ b[f] = Unset
  BY <1>1, <1>4, NoneIsChosen DEF layers
<1> QED
  BY <1>2, <1>3, <1>4

LEMMA FirstOfFour ==
  ASSUME NEW a, NEW b, NEW c, NEW d, NEW f
  PROVE  FirstSet(<<a, b, c, d>>, f) = IF a[f] # Unset THEN a[f]
                                       ELSE IF b[f] # Unset THEN b[f]
                                       ELSE IF c[f] # Unset THEN c[f] ELSE d[f]
<1> DEFINE layers == <<a, b, c, d>>
<1>1. DOMAIN layers = 1..4 /\ layers[1] = a /\ layers[2] = b /\ layers[3] = c /\ layers[4] = d
  OBVIOUS
<1> HIDE DEF layers
<1>2. \A j \in 1..4 : j = 1 \/ j = 2 \/ j = 3 \/ j = 4
  OBVIOUS
<1>3. DOMAIN layers \subseteq Nat
  BY <1>1
<1>4. CASE a[f] # Unset
  <2>1. \A j \in DOMAIN layers : ~(j < 1)
    BY <1>1
  <2> QED
    BY <1>1, <1>3, <1>4, <2>1, FirstIsChosen DEF layers
<1>5. CASE a[f] = Unset /\ b[f] # Unset
  <2>1. \A j \in DOMAIN layers : j < 2 => layers[j][f] = Unset
    BY <1>1, <1>5
  <2>2. 2 \in DOMAIN layers
    BY <1>1
  <2> QED
    BY <1>1, <1>3, <1>5, <2>1, <2>2, FirstIsChosen DEF layers
<1>6. CASE a[f] = Unset /\ b[f] = Unset /\ c[f] # Unset
  <2>1. \A j \in DOMAIN layers : j < 3 => layers[j][f] = Unset
    BY <1>1, <1>2, <1>6
  <2>2. 3 \in DOMAIN layers
    BY <1>1
  <2> QED
    BY <1>1, <1>3, <1>6, <2>1, <2>2, FirstIsChosen DEF layers
<1>7. CASE a[f] = Unset /\ b[f] = Unset /\ c[f] = Unset /\ d[f] # Unset
  <2>1. \A j \in DOMAIN layers : j < 4 => layers[j][f] = Unset
    BY <1>1, <1>2, <1>7
  <2>2. 4 \in DOMAIN layers
    BY <1>1
  <2> QED
    BY <1>1, <1>3, <1>7, <2>1, <2>2, FirstIsChosen DEF layers
<1>8. CASE a[f] = Unset /\ b[f] = Unset /\ c[f] = Unset /\ d[f] = Unset
  BY <1>1, <1>2, <1>8, NoneIsChosen DEF layers
<1> QED
  BY <1>4, <1>5, <1>6, <1>7, <1>8

\* The options of the command line come before the merged files.
LEMMA MergedSettings ==
  ASSUME ConfigTyped, NEW layer, NEW layers,
         \A f \in {"port", "lan", "funnel", "tailscale"} : layer[f] = FirstSet(layers, f)
  PROVE  SettingsFollow(MergeRun(layer), layers)
<1>1. /\ layer["port"] = FirstSet(layers, "port") /\ layer["lan"] = FirstSet(layers, "lan")
      /\ layer["funnel"] = FirstSet(layers, "funnel")
      /\ layer["tailscale"] = FirstSet(layers, "tailscale")
  OBVIOUS
<1>2. /\ flags.lan \in {"", "on", "off"}
      /\ flags.expose \in {"", "off", "serve", "funnel"}
  BY DEF ConfigTyped
<1> DEFINE s == MergeRun(layer)
           funnel == /\ flags.expose \notin {"off", "serve"}
                     /\ flags.expose = "funnel" \/ layer["funnel"] = TRUE
           tailscale == /\ flags.expose # "off"
                        /\ funnel \/ flags.expose = "serve" \/ layer["tailscale"] = TRUE
<1>3. /\ s.port = IF flags.port # Unset THEN flags.port ELSE layer["port"]
      /\ s.lan = (flags.lan = "on" \/ (flags.lan # "off" /\ layer["lan"] = TRUE))
      /\ s.funnel = funnel
      /\ s.tailscale = tailscale
  BY DEF MergeRun
<1>4. DocumentedExposure(layers) = "funnel" <=> funnel
  BY <1>1, <1>2 DEF DocumentedExposure
<1>5. DocumentedExposure(layers) \in {"serve", "funnel"} <=> tailscale
  BY <1>1, <1>2 DEF DocumentedExposure
<1>6. s.lan <=> (flags.lan = "on" \/ (flags.lan = "" /\ FirstSet(layers, "lan") = TRUE))
  BY <1>1, <1>2, <1>3
<1>7. s.port = IF flags.port # Unset THEN flags.port ELSE FirstSet(layers, "port")
  BY <1>1, <1>3
<1> HIDE DEF s, funnel, tailscale
<1>8. s.tailscale <=> DocumentedExposure(layers) \in {"serve", "funnel"}
  BY <1>3, <1>5
<1>9. s.funnel <=> DocumentedExposure(layers) = "funnel"
  BY <1>3, <1>4
<1>10. SettingsFollow(s, layers)
  BY <1>6, <1>7, <1>8, <1>9 DEF SettingsFollow
<1> QED
  BY <1>10 DEF s

LEMMA NothingIsUnset == \A f \in Fields : Nothing[f] = Unset
  BY DEF Nothing

LEMMA SettingFields == {"port", "lan", "funnel", "tailscale", "name"} \subseteq Fields
  BY ConfigAssumption

\* One application: the command line, its local file, its file.
LEMMA SingleRunFollows ==
  ASSUME ConfigTyped, NEW d \in Directories
  PROVE  LET run == SingleRun(d)
             layers == <<Locals(files[d].local), files[d].shared>>
         IN /\ SettingsFollow(run.settings, layers)
            /\ run.hostname = Normalize(CASE flags.name # Unset -> flags.name
                                          [] flags.name = Unset /\ FirstSet(layers, "name") # Unset
                                               -> FirstSet(layers, "name")
                                          [] OTHER -> IF Head(d) = "r" THEN Root ELSE <<Last(d)>>)
<1> DEFINE layers == <<Locals(files[d].local), files[d].shared>>
           layer == LoadProject(d)
<1>1. ASSUME NEW f \in Fields PROVE layer[f] = FirstSet(layers, f)
  <2>1. FirstSet(layers, f) = IF Locals(files[d].local)[f] # Unset
                              THEN Locals(files[d].local)[f] ELSE files[d].shared[f]
    BY FirstOfTwo
  <2>2. CASE UseLocal
    <3>1. Locals(files[d].local) = files[d].local
      BY <2>2 DEF UseLocal, Locals
    <3>2. layer = Override(files[d].shared, files[d].local)
      BY <2>2 DEF LoadProject
    <3> QED
      BY <2>1, <3>1, <3>2 DEF Override
  <2>3. CASE ~UseLocal
    <3>1. Locals(files[d].local) = Nothing
      BY <2>3 DEF UseLocal, Locals
    <3>2. layer = files[d].shared
      BY <2>3 DEF LoadProject
    <3> QED
      BY <2>1, <3>1, <3>2, NothingIsUnset
  <2> QED
    BY <2>2, <2>3
<1> HIDE DEF layer, layers
<1>2. SettingsFollow(MergeRun(layer), layers)
  BY <1>1, SettingFields, MergedSettings
<1>3. layer["name"] = FirstSet(layers, "name")
  BY <1>1, SettingFields
<1>4. /\ SingleRun(d).settings = MergeRun(layer)
      /\ SingleRun(d).hostname = Normalize(ProjectName(d, layer))
  BY DEF SingleRun, layer
<1> DEFINE run == SingleRun(d)
<1>5. run.hostname = Normalize(CASE flags.name # Unset -> flags.name
                                 [] flags.name = Unset /\ FirstSet(layers, "name") # Unset
                                      -> FirstSet(layers, "name")
                                 [] OTHER -> IF Head(d) = "r" THEN Root ELSE <<Last(d)>>)
  BY <1>3, <1>4 DEF ProjectName
<1>6. SettingsFollow(run.settings, layers)
  BY <1>2, <1>4
<1> QED
  BY <1>5, <1>6 DEF layers

\* The entry of an app whose id no app before it has
LEMMA FirstEntry ==
  ASSUME ConfigTyped, NEW i \in DOMAIN manifest,
         \A j \in 1..i - 1 : manifest[j].id # manifest[i].id
  PROVE  /\ Overridden[i].id = manifest[i].id
         /\ Overridden[i].dir = AppDir(manifest[i])
         /\ Overridden[i].layer = IF UseLocal
                                  THEN Override(manifest[i].layer, override[manifest[i].id].layer)
                                  ELSE manifest[i].layer
<1> DEFINE app == manifest[i]
           dir == IF Entry(app.id).dir # Unset THEN Entry(app.id).dir ELSE app.dir
           layer == Override(app.layer, Entry(app.id).layer)
<1>1. app \in Apps
  <2>1. manifest \in Seq(Apps)
    BY DEF ConfigTyped
  <2>2. manifest \in [1..Len(manifest) -> Apps] /\ DOMAIN manifest = 1..Len(manifest)
    BY <2>1, LenProperties
  <2> HIDE DEF app
  <2> QED
    BY <2>2 DEF app
<1>2. Overridden[i] = IF UseLocal THEN [app EXCEPT !.dir = dir, !.layer = layer] ELSE app
  BY DEF Overridden
<1>3. CASE UseLocal
  <2>1. Overridden[i] = [app EXCEPT !.dir = dir, !.layer = layer]
    BY <1>2, <1>3
  <2> HIDE DEF dir, layer
  <2>2. Overridden[i].id = app.id /\ Overridden[i].dir = dir /\ Overridden[i].layer = layer
    BY <1>1, <2>1 DEF Apps
  <2> QED
    BY <1>3, <2>2 DEF dir, layer, Entry, AppDir
<1>4. CASE ~UseLocal
  BY <1>2, <1>4 DEF AppDir
<1> QED
  BY <1>3, <1>4

LEMMA EveryEntryKeepsItsId ==
  ASSUME ConfigTyped, NEW i \in DOMAIN manifest
  PROVE  Overridden[i].id = manifest[i].id
<1>1. manifest[i] \in Apps
  BY LenProperties DEF ConfigTyped
<1>2. CASE \A j \in 1..i - 1 : manifest[j].id # manifest[i].id
  BY <1>2, FirstEntry
<1>3. CASE ~(\A j \in 1..i - 1 : manifest[j].id # manifest[i].id)
  <2>1. Overridden[i] = manifest[i]
    BY <1>3 DEF Overridden
  <2> QED
    BY <2>1
<1> QED
  BY <1>2, <1>3

\* A member: the command line, its directory's files, the root's files.
LEMMA MemberFollows ==
  ASSUME ConfigTyped, Accepted(LoadWorkspace, Len(manifest)), NEW i \in 1..Len(manifest)
  PROVE  /\ Documented[i].id = Member(Overridden[i]).id
         /\ SettingsFollow(Member(Overridden[i]).settings, AppLayers(Documented[i]))
<1> DEFINE app == manifest[i]
           doc == Documented[i]
           entry == Overridden[i]
           L == Locals(override[app.id].layer)
           layers == AppLayers(doc)
           layer == MemberLayer(entry)
<1>1. i \in DOMAIN manifest /\ app \in Apps /\ DOMAIN manifest = 1..Len(manifest)
      /\ Len(manifest) \in Nat
  BY LenProperties DEF ConfigTyped
<1>2. \A j \in 1..i - 1 : manifest[j].id # app.id
  <2>1. ASSUME NEW j \in 1..i - 1 PROVE manifest[j].id # app.id
    <3>1. j \in 1..Len(manifest) /\ j # i
      BY <1>1
    <3>2. Lower(Overridden[j].id) # Lower(Overridden[i].id)
      BY <3>1 DEF Accepted
    <3> QED
      BY <1>1, <3>1, <3>2, EveryEntryKeepsItsId
  <2> QED
    BY <2>1
<1>3. /\ entry.id = app.id /\ entry.dir = AppDir(app)
      /\ entry.layer = IF UseLocal THEN Override(app.layer, override[app.id].layer) ELSE app.layer
  BY <1>1, <1>2, FirstEntry
<1>4. doc.id = app.id /\ doc.dir = AppDir(app) /\ doc.layer = app.layer
  <2>1. doc = [app EXCEPT !.dir = AppDir(app)]
    BY <1>1 DEF Documented
  <2> QED
    BY <1>1, <2>1 DEF Apps
<1>5. entry.dir # Unset
  BY DEF Accepted
<1>6. entry.dir \in Directories
  <2>1. app.dir \in Directories \cup {Unset} /\ override[app.id].dir \in Directories \cup {Unset}
    BY <1>1 DEF ConfigTyped, Apps, Overrides
  <2> QED
    BY <1>3, <1>5, <2>1 DEF AppDir
<1> HIDE DEF doc, entry
<1>7. L = IF UseLocal THEN override[app.id].layer ELSE Nothing
  BY DEF UseLocal, Locals
<1>8. \A f \in Fields : entry.layer[f] = IF L[f] # Unset THEN L[f] ELSE app.layer[f]
  <2>1. CASE UseLocal
    BY <1>3, <1>7, <2>1 DEF Override
  <2>2. CASE ~UseLocal
    BY <1>3, <1>7, <2>2, NothingIsUnset
  <2> QED
    BY <2>1, <2>2
<1>9. ASSUME NEW f \in Fields PROVE layer[f] = FirstSet(layers, f)
  <2> DEFINE shared == OwnFile(entry.dir)
             local == OwnLocal(entry.dir)
  <2>1. layers = <<Locals(local), shared, L, app.layer>>
    BY <1>3, <1>4 DEF AppLayers
  <2>2. layer = IF UseLocal THEN Override(Override(entry.layer, shared), local)
                            ELSE Override(entry.layer, shared)
    BY DEF MemberLayer
  <2>3. Locals(local) = IF UseLocal THEN local ELSE Nothing
    BY DEF UseLocal, Locals
  <2>4. Override(entry.layer, shared)[f] = IF shared[f] # Unset THEN shared[f]
                                           ELSE entry.layer[f]
    BY DEF Override
  <2>5. layer[f] = IF Locals(local)[f] # Unset THEN Locals(local)[f]
                   ELSE IF shared[f] # Unset THEN shared[f] ELSE entry.layer[f]
    <3>1. CASE UseLocal
      BY <2>2, <2>3, <2>4, <3>1 DEF Override
    <3>2. CASE ~UseLocal
      BY <2>2, <2>3, <2>4, <3>2, NothingIsUnset
    <3> QED
      BY <3>1, <3>2
  <2> HIDE DEF L, layers, layer, local, shared
  <2> QED
    BY <1>8, <2>1, <2>5, FirstOfFour
<1> HIDE DEF L, layers, layer
<1>10. SettingsFollow(MergeRun(layer), layers)
  BY <1>9, SettingFields, MergedSettings
<1>11. Member(entry).id = app.id /\ Member(entry).settings = MergeRun(layer)
  BY <1>3 DEF Member, layer
<1> QED
  BY <1>4, <1>10, <1>11 DEF doc, entry, layers

LEMMA StartedAreMembers ==
  ASSUME NEW m \in Started
  PROVE  LoadWorkspace # Rejected /\ ValidEnvironment(LoadWorkspace) /\ m \in ToSet(LoadWorkspace)
  BY DEF Started

LEMMA SettingsFollowDocumentation == ConfigTyped => SettingsAsDocumented
<1> SUFFICES ASSUME ConfigTyped PROVE SettingsAsDocumented
  OBVIOUS
<1>1. manifest \in Seq(Apps) /\ DOMAIN manifest = 1..Len(manifest)
  BY LenProperties DEF ConfigTyped
<1>2. ASSUME NEW m \in Started
      PROVE  \E i \in DOMAIN Documented :
               Documented[i].id = m.id /\ SettingsFollow(m.settings, AppLayers(Documented[i]))
  <2>1. Accepted(LoadWorkspace, Len(manifest)) /\ m \in ToSet(LoadWorkspace)
    BY <1>1, StartedAreMembers, LoadedIsAccepted
  <2>2. PICK i \in 1..Len(manifest) : m = Member(Overridden[i])
    BY <2>1 DEF Accepted, ToSet
  <2>3. DOMAIN Documented = 1..Len(manifest)
    BY <1>1 DEF Documented
  <2> QED
    BY <2>1, <2>2, <2>3, MemberFollows
<1> QED
  BY <1>2, SingleRunFollows DEF SettingsAsDocumented

\* Every setting of a run has the value of the most specific source that sets
\* it, whatever users write (merge_run, merge_project and load_inner).
THEOREM SettingsFollowSources == ConfigSpec => []SettingsAsDocumented
  BY ConfigurationTyped, SettingsFollowDocumentation, PTL

-----------------------------------------------------------------------------
(* The search for reference cycles.                                        *)

Ids(members) == {m.id : m \in ToSet(members)}
Graph(members) ==
    /\ Len(members) \in Nat /\ DOMAIN members = 1..Len(members)
    /\ \A id \in Ids(members) : References(members, id) \subseteq Ids(members)

\* Searched apps refer to searched apps, none of them on the active path, and
\* can be started one after the other.
Sure(members, done, active) ==
    /\ done \cap active = {}
    /\ \A id \in done : References(members, id) \subseteq done
    /\ \A S \in SUBSET done : S # {} => \E a \in S : References(members, a) \cap S = {}

\* What a search of "targets" comes to, if it finds no cycle
Searched(members, before, after, targets, active) ==
    after.ok => /\ before.ok /\ before.done \subseteq after.done
                /\ targets \subseteq after.done
                /\ Sure(members, after.done, active)

Searchers(members) ==
    [SUBSET Ids(members) ->
       [SUBSET Ids(members) -> [Searches(Ids(members)) -> Searches(Ids(members))]]]

Sound(members, deeper) ==
    \A targets \in SUBSET Ids(members), active \in SUBSET Ids(members),
       search \in Searches(Ids(members)) :
         (search.ok => Sure(members, search.done, active)) =>
           Searched(members, search, deeper[targets][active][search], targets, active)

LEMMA OneMoreIsSure ==
  ASSUME NEW members, NEW done, NEW active, NEW id,
         Sure(members, done, active \cup {id}), References(members, id) \subseteq done,
         id \notin active
  PROVE  Sure(members, done \cup {id}, active)
<1>1. id \notin done
  BY DEF Sure
<1>2. (done \cup {id}) \cap active = {}
  BY DEF Sure
<1>3. \A a \in done \cup {id} : References(members, a) \subseteq done
  BY DEF Sure
<1>4. ASSUME NEW S \in SUBSET (done \cup {id}), S # {}
      PROVE  \E a \in S : References(members, a) \cap S = {}
  <2>1. CASE S \cap done = {}
    <3>1. S = {id}
      BY <1>4, <2>1
    <3> QED
      BY <1>1, <3>1
  <2>2. CASE S \cap done # {}
    <3>1. PICK a \in S \cap done : References(members, a) \cap (S \cap done) = {}
      BY <2>2 DEF Sure
    <3>2. References(members, a) \subseteq done
      BY <1>3
    <3> QED
      BY <1>1, <3>1, <3>2
  <2> QED
    BY <2>1, <2>2
<1> QED
  BY <1>2, <1>3, <1>4 DEF Sure

LEMMA SearchesMake ==
  ASSUME NEW ids, NEW s \in Searches(ids)
  PROVE  /\ s.ok \in BOOLEAN /\ s.done \subseteq ids
         /\ [s EXCEPT !.ok = FALSE] \in Searches(ids) /\ [s EXCEPT !.ok = FALSE].ok = FALSE
         /\ \A id \in ids : /\ [s EXCEPT !.done = @ \cup {id}] \in Searches(ids)
                            /\ [s EXCEPT !.done = @ \cup {id}].ok = s.ok
                            /\ [s EXCEPT !.done = @ \cup {id}].done = s.done \cup {id}
  BY DEF Searches

LEMMA VisitTyped ==
  ASSUME NEW ids, NEW s \in Searches(ids), NEW id \in ids, NEW active,
         NEW below \in Searches(ids)
  PROVE  Visit(s, id, active, below) \in Searches(ids)
  BY SearchesMake DEF Visit

\* visit: one target
LEMMA VisitSound ==
  ASSUME NEW members, NEW s \in Searches(Ids(members)), NEW id \in Ids(members), NEW active,
         NEW below \in Searches(Ids(members)),
         s.ok => Sure(members, s.done, active),
         (s.ok => Sure(members, s.done, active \cup {id})) =>
           Searched(members, s, below, References(members, id), active \cup {id})
  PROVE  Searched(members, s, Visit(s, id, active, below), {id}, active)
<1> DEFINE r == Visit(s, id, active, below)
<1>1. CASE ~s.ok
  BY <1>1 DEF Visit, Searched
<1>2. CASE s.ok /\ id \in s.done
  BY <1>2 DEF Visit, Searched
<1>3. CASE s.ok /\ id \notin s.done /\ id \in active
  <2>1. r = [s EXCEPT !.ok = FALSE]
    BY <1>3 DEF Visit
  <2>2. ~r.ok
    BY <2>1, SearchesMake
  <2> QED
    BY <2>2 DEF Searched
<1>4. CASE s.ok /\ id \notin s.done /\ id \notin active
  <2>1. r = IF below.ok THEN [below EXCEPT !.done = @ \cup {id}] ELSE below
    BY <1>4 DEF Visit
  <2>2. CASE ~below.ok
    BY <2>1, <2>2 DEF Searched
  <2>3. CASE below.ok
    <3>1. Sure(members, s.done, active \cup {id})
      BY <1>4 DEF Sure
    <3>2. /\ s.done \subseteq below.done /\ References(members, id) \subseteq below.done
          /\ Sure(members, below.done, active \cup {id})
      BY <2>3, <3>1 DEF Searched
    <3>3. Sure(members, below.done \cup {id}, active)
      BY <1>4, <3>2, OneMoreIsSure
    <3>4. r.ok = below.ok /\ r.done = below.done \cup {id}
      BY <2>1, <2>3 DEF Searches
    <3> QED
      BY <1>4, <3>2, <3>3, <3>4 DEF Searched
  <2> QED
    BY <2>2, <2>3
<1> QED
  BY <1>1, <1>2, <1>3, <1>4

\* The turns of the loop over the members
Turn(members, deeper, targets, active, search, i) ==
    LET id == members[i].id
        below == deeper[References(members, id)][active \cup {id}][search]
    IN IF id \in targets THEN Visit(search, id, active, below) ELSE search

LEMMA TurnSound ==
  ASSUME NEW members, Graph(members), NEW deeper \in Searchers(members),
         NEW targets \in SUBSET Ids(members), NEW active \in SUBSET Ids(members),
         NEW s \in Searches(Ids(members)), NEW i \in 1..Len(members)
  PROVE  LET r == Turn(members, deeper, targets, active, s, i)
         IN /\ r \in Searches(Ids(members))
            /\ (s.ok => Sure(members, s.done, active)) /\ Sound(members, deeper) =>
                 Searched(members, s, r, targets \cap {members[i].id}, active)
<1> DEFINE id == members[i].id
           ids == Ids(members)
           r == Turn(members, deeper, targets, active, s, i)
           below == deeper[References(members, id)][active \cup {id}][s]
<1>1. id \in ids
  BY DEF Graph, Ids, ToSet
<1>2. References(members, id) \in SUBSET ids /\ active \cup {id} \in SUBSET ids
  BY <1>1 DEF Graph
<1>3. below \in Searches(ids)
  BY <1>2 DEF Searchers
<1>4. CASE id \in targets
  <2>1. r = Visit(s, id, active, below)
    BY <1>4 DEF Turn
  <2>2. r \in Searches(ids)
    BY <1>1, <1>3, <2>1, VisitTyped
  <2>3. targets \cap {id} = {id}
    BY <1>4
  <2>4. ASSUME s.ok => Sure(members, s.done, active), Sound(members, deeper)
        PROVE  Searched(members, s, r, {id}, active)
    <3>1. (s.ok => Sure(members, s.done, active \cup {id})) =>
            Searched(members, s, below, References(members, id), active \cup {id})
      BY <1>2, <2>4 DEF Sound
    <3> HIDE DEF below, id, r
    <3> QED
      BY <1>1, <1>3, <2>1, <2>4, <3>1, VisitSound
  <2> QED
    BY <2>2, <2>3, <2>4
<1>5. CASE id \notin targets
  <2>1. r = s
    BY <1>5 DEF Turn
  <2>2. targets \cap {id} = {}
    BY <1>5
  <2> QED
    BY <2>1, <2>2 DEF Searched
<1> QED
  BY <1>4, <1>5

\* The targets, one after the other: VisitAll
Called(members, deeper, targets, active, s) ==
    /\ Graph(members) /\ deeper \in Searchers(members)
    /\ targets \in SUBSET Ids(members) /\ active \in SUBSET Ids(members)
    /\ s \in Searches(Ids(members))

Turns(members, deeper, targets, active, s, after) ==
    /\ after[0] = s
    /\ \A i \in 1..Len(members) :
         after[i] = Turn(members, deeper, targets, active, after[i - 1], i)
    /\ VisitAll(members, deeper, targets, active, s) = after[Len(members)]

LEMMA VisitAllTurns ==
  ASSUME NEW members, NEW deeper, NEW targets, NEW active, NEW s,
         Called(members, deeper, targets, active, s)
  PROVE  \E after \in [0..Len(members) -> Searches(Ids(members))] :
           Turns(members, deeper, targets, active, s, after)
<1> USE DEF Called
<1> DEFINE n == Len(members)
           V == Searches(Ids(members))
           T(x, i) == Turn(members, deeper, targets, active, x, i)
           G == [x \in (1..n) \X V |-> T(x[2], x[1])]
           Follows(u) == u = [i \in 0..Len(members) |->
              IF i = 0 THEN s
              ELSE LET id == members[i].id
                       below == deeper[References(members, id)][active \cup {id}][u[i - 1]]
                   IN IF id \in targets THEN Visit(u[i - 1], id, active, below) ELSE u[i - 1]]
           after == CHOOSE u : Follows(u)
<1>1. n \in Nat
  BY DEF Graph
<1>2. \A u : Follows(u) <=> u = [i \in 0..n |-> IF i = 0 THEN s ELSE T(u[i - 1], i)]
  BY DEF Turn
<1>3. ASSUME NEW i \in 1..n, NEW x \in V PROVE T(x, i) \in V
  <2> HIDE DEF T, n, V
  <2> QED
    BY TurnSound DEF T, n, V
<1> HIDE DEF T, Follows
<1>4. G \in Steps(n, V)
  <2> HIDE DEF n, V
  <2> QED
    BY <1>3 DEF Steps
<1>5. PICK f \in [0..n -> V] : Iterates(f, s, n, G)
  <2> HIDE DEF n, G
  <2> QED
    BY <1>1, <1>4, Recursion
<1>6. /\ f[0] = s /\ \A i \in 1..n : f[i] = T(f[i - 1], i)
  <2>1. ASSUME NEW i \in 1..n PROVE f[i] = T(f[i - 1], i)
    <3>1. f[i - 1] \in V
      BY <1>1
    <3> HIDE DEF V, n
    <3>2. <<i, f[i - 1]>> \in (1..n) \X V
      BY <3>1
    <3> QED
      BY <1>5, <3>2 DEF Iterates
  <2> QED
    BY <1>5, <2>1 DEF Iterates
<1>7. Follows(f)
  <2>1. \A i \in 0..n : i # 0 => i \in 1..n
    BY <1>1
  <2> HIDE DEF V
  <2>2. f = [i \in 0..n |-> f[i]]
    OBVIOUS
  <2>3. \A i \in 0..n : f[i] = IF i = 0 THEN s ELSE T(f[i - 1], i)
    BY <1>6, <2>1
  <2>4. f = [i \in 0..n |-> IF i = 0 THEN s ELSE T(f[i - 1], i)]
    BY <2>2, <2>3
  <2> QED
    BY <1>2, <2>4
<1>8. Follows(after)
  BY <1>7
<1>9. VisitAll(members, deeper, targets, active, s) = after[n]
  BY DEF VisitAll, Follows
<1> HIDE DEF after
<1>10. after = [i \in 0..n |-> IF i = 0 THEN s ELSE T(after[i - 1], i)]
  BY <1>2, <1>8
<1>11. after[0] = s /\ \A i \in 1..n : after[i] = T(after[i - 1], i)
  <2>1. 0 \in 0..n /\ \A i \in 1..n : i \in 0..n /\ i # 0
    BY <1>1
  <2> HIDE DEF n
  <2> QED
    BY <1>10, <2>1
<1> DEFINE N == {i \in Nat : i <= n => after[i] \in V}
<1>12. 0 \in N
  BY <1>11
<1>13. ASSUME NEW i \in Nat, i \in N PROVE i + 1 \in N
  <2> SUFFICES ASSUME i + 1 <= n PROVE after[i + 1] \in V
    OBVIOUS
  <2>1. i + 1 \in 1..n /\ (i + 1) - 1 = i /\ after[i] \in V
    BY <1>1, <1>13
  <2> HIDE DEF V, n
  <2> QED
    BY <1>3, <1>11, <2>1
<1>14. Nat \subseteq N
  <2> HIDE DEF N
  <2> QED
    BY <1>12, <1>13, NumbersByInduction
<1>15. after \in [0..n -> V]
  <2>1. \A i \in 0..n : after[i] \in V
    BY <1>1, <1>14
  <2> HIDE DEF V
  <2> QED
    BY <1>10, <2>1
<1> QED
  BY <1>9, <1>11, <1>15 DEF T, Turns

LEMMA VisitAllSound ==
  ASSUME NEW members, Graph(members), NEW deeper \in Searchers(members),
         NEW targets \in SUBSET Ids(members), NEW active \in SUBSET Ids(members),
         NEW s \in Searches(Ids(members))
  PROVE  LET r == VisitAll(members, deeper, targets, active, s)
         IN /\ r \in Searches(Ids(members))
            /\ (s.ok => Sure(members, s.done, active)) /\ Sound(members, deeper) =>
                 Searched(members, s, r, targets, active)
<1> DEFINE n == Len(members)
           V == Searches(Ids(members))
           T(x, i) == Turn(members, deeper, targets, active, x, i)
           all == VisitAll(members, deeper, targets, active, s)
           before(i) == {members[j].id : j \in 1..i}
<1>1. n \in Nat /\ Ids(members) = before(n)
  BY DEF Graph, Ids, ToSet
<1>2. PICK after \in [0..n -> V] :
         after[0] = s /\ (\A i \in 1..n : after[i] = T(after[i - 1], i)) /\ all = after[n]
  <2>1. Called(members, deeper, targets, active, s)
    BY DEF Called
  <2>2. PICK after \in [0..Len(members) -> Searches(Ids(members))] :
          Turns(members, deeper, targets, active, s, after)
    BY <2>1, VisitAllTurns
  <2> QED
    BY <2>2 DEF Turns
<1>3. all \in V
  BY <1>1, <1>2
<1>4. ASSUME s.ok => Sure(members, s.done, active), Sound(members, deeper)
      PROVE  Searched(members, s, all, targets, active)
  <2> DEFINE P(i) == Searched(members, s, after[i], targets \cap before(i), active)
             N == {i \in Nat : i <= n => P(i)}
  <2>1. 0 \in N
    <3>1. before(0) = {}
      OBVIOUS
    <3> HIDE DEF before
    <3> QED
      BY <1>2, <1>4, <3>1 DEF Searched
  <2>2. ASSUME NEW i \in Nat, i \in N PROVE i + 1 \in N
    <3> SUFFICES ASSUME i + 1 <= n PROVE P(i + 1)
      OBVIOUS
    <3> DEFINE x == after[i]
               y == after[i + 1]
               id == members[i + 1].id
    <3>1. i + 1 \in 1..n /\ i \in 0..n /\ (i + 1) - 1 = i
      BY <1>1
    <3>2. x \in V /\ y = T(x, i + 1)
      BY <1>2, <3>1
    <3>3. Searched(members, s, x, targets \cap before(i), active)
      BY <1>1, <2>2
    <3>4. x.ok => Sure(members, x.done, active)
      BY <3>3 DEF Searched
    <3>5. Searched(members, x, y, targets \cap {id}, active)
      BY <1>4, <3>1, <3>2, <3>4, TurnSound
    <3>6. before(i + 1) = before(i) \cup {id}
      <4>1. \A j \in 1..(i + 1) : j \in 1..i \/ j = i + 1
        OBVIOUS
      <4>2. \A j \in 1..i : j \in 1..(i + 1)
        OBVIOUS
      <4>3. i + 1 \in 1..(i + 1)
        OBVIOUS
      <4> QED
        BY <4>1, <4>2, <4>3
    <3> HIDE DEF before, x, y, id
    <3>7. Searched(members, s, y, targets \cap before(i + 1), active)
      BY <3>3, <3>5, <3>6 DEF Searched
    <3> QED
      BY <3>7 DEF y
  <2>3. Nat \subseteq N
    <3> HIDE DEF N
    <3> QED
      BY <2>1, <2>2, NumbersByInduction
  <2>4. P(n)
    BY <1>1, <2>3
  <2>5. targets \cap before(n) = targets
    BY <1>1
  <2> HIDE DEF before
  <2> QED
    BY <1>2, <2>4, <2>5
<1> QED
  BY <1>3, <1>4

\* With no app left off the active path, and with one more
FirstDepth(members) ==
    [targets \in SUBSET Ids(members) |-> [active \in SUBSET Ids(members) |->
      [search \in Searches(Ids(members)) |->
         [search EXCEPT !.ok = @ /\ targets \subseteq search.done]]]]

NextDepth(members, deeper) ==
    [targets \in SUBSET Ids(members) |-> [active \in SUBSET Ids(members) |->
      [search \in Searches(Ids(members)) |->
         VisitAll(members, deeper, targets, active, search)]]]

LEMMA CurriedThrice ==
  ASSUME NEW A, NEW B, NEW C, NEW g,
         g = [a \in A |-> [b \in B |-> [c \in C |-> g[a][b][c]]]],
         \A a \in A, b \in B, c \in C : g[a][b][c] \in C
  PROVE  g \in [A -> [B -> [C -> C]]]
<1>1. ASSUME NEW a \in A PROVE g[a] \in [B -> [C -> C]]
  <2>1. g[a] = [b \in B |-> [c \in C |-> g[a][b][c]]]
    OBVIOUS
  <2>2. ASSUME NEW b \in B PROVE [c \in C |-> g[a][b][c]] \in [C -> C]
    OBVIOUS
  <2> QED
    BY <2>1, <2>2
<1> QED
  BY <1>1

LEMMA FirstDepthSound ==
  ASSUME NEW members
  PROVE  FirstDepth(members) \in Searchers(members) /\ Sound(members, FirstDepth(members))
<1> DEFINE ids == Ids(members)
           g == FirstDepth(members)
<1>1. ASSUME NEW targets \in SUBSET ids, NEW active \in SUBSET ids, NEW s \in Searches(ids)
      PROVE  /\ g[targets][active][s] \in Searches(ids)
             /\ g[targets][active][s].ok <=> s.ok /\ targets \subseteq s.done
             /\ g[targets][active][s].done = s.done
  <2>1. g[targets][active][s] = [s EXCEPT !.ok = s.ok /\ targets \subseteq s.done]
    BY DEF FirstDepth
  <2> HIDE DEF g, ids
  <2>2. s.ok \in BOOLEAN /\ (s.ok /\ targets \subseteq s.done) \in BOOLEAN
    BY DEF Searches
  <2> QED
    BY <2>1, <2>2 DEF Searches
<1>2. g \in Searchers(members)
  <2>1. g = [targets \in SUBSET ids |-> [active \in SUBSET ids |->
               [s \in Searches(ids) |-> g[targets][active][s]]]]
    BY DEF FirstDepth
  <2> HIDE DEF g
  <2> QED
    BY <1>1, <2>1, CurriedThrice DEF Searchers
<1>3. Sound(members, g)
  <2> HIDE DEF g
  <2> QED
    BY <1>1 DEF Sound, Searched
<1> QED
  BY <1>2, <1>3

LEMMA NextDepthSound ==
  ASSUME NEW members, Graph(members), NEW deeper \in Searchers(members)
  PROVE  /\ NextDepth(members, deeper) \in Searchers(members)
         /\ Sound(members, deeper) => Sound(members, NextDepth(members, deeper))
<1> DEFINE ids == Ids(members)
           g == NextDepth(members, deeper)
<1>1. ASSUME NEW targets \in SUBSET ids, NEW active \in SUBSET ids, NEW s \in Searches(ids)
      PROVE  /\ g[targets][active][s] \in Searches(ids)
             /\ (s.ok => Sure(members, s.done, active)) /\ Sound(members, deeper) =>
                  Searched(members, s, g[targets][active][s], targets, active)
  <2>1. g[targets][active][s] = VisitAll(members, deeper, targets, active, s)
    BY DEF NextDepth
  <2> HIDE DEF g
  <2> QED
    BY <2>1, VisitAllSound
<1>2. g \in Searchers(members)
  <2>1. g = [targets \in SUBSET ids |-> [active \in SUBSET ids |->
               [s \in Searches(ids) |-> g[targets][active][s]]]]
    BY DEF NextDepth
  <2> HIDE DEF g
  <2> QED
    BY <1>1, <2>1, CurriedThrice DEF Searchers
<1>3. Sound(members, deeper) => Sound(members, g)
  <2> HIDE DEF g
  <2> QED
    BY <1>1 DEF Sound
<1> QED
  BY <1>2, <1>3

\* A search that finds nothing wrong has put the apps in an order.
LEMMA SearchIsSound ==
  ASSUME NEW members, Graph(members), NEW left \in Nat
  PROVE  SearchFrom(members, left) \in Searchers(members)
           /\ Sound(members, SearchFrom(members, left))
<1> DEFINE V == Searchers(members)
           v == FirstDepth(members)
           G == [x \in (1..left) \X V |-> NextDepth(members, x[2])]
           Follows(u) == u = [n \in 0..left |->
             [targets \in SUBSET Ids(members) |-> [active \in SUBSET Ids(members) |->
               [search \in Searches(Ids(members)) |->
                  IF n = 0 THEN [search EXCEPT !.ok = @ /\ targets \subseteq search.done]
                  ELSE VisitAll(members, u[n - 1], targets, active, search)]]]]
           visit == CHOOSE u : Follows(u)
<1>1. \A u : Follows(u) <=> u = [n \in 0..left |-> IF n = 0 THEN v
                                                   ELSE NextDepth(members, u[n - 1])]
  <2> SUFFICES ASSUME NEW u
               PROVE  Follows(u) <=> u = [n \in 0..left |->
                                            IF n = 0 THEN v ELSE NextDepth(members, u[n - 1])]
    OBVIOUS
  <2>1. ASSUME NEW n \in 0..left
        PROVE  [targets \in SUBSET Ids(members) |-> [active \in SUBSET Ids(members) |->
                 [search \in Searches(Ids(members)) |->
                    IF n = 0 THEN [search EXCEPT !.ok = @ /\ targets \subseteq search.done]
                    ELSE VisitAll(members, u[n - 1], targets, active, search)]]]
               = IF n = 0 THEN v ELSE NextDepth(members, u[n - 1])
    <3>1. CASE n = 0
      BY <3>1 DEF FirstDepth
    <3>2. CASE n # 0
      BY <3>2 DEF NextDepth
    <3> QED
      BY <3>1, <3>2
  <2> QED
    BY <2>1
<1>2. v \in V /\ Sound(members, v)
  BY FirstDepthSound
<1>3. \A g \in V : NextDepth(members, g) \in V
                     /\ (Sound(members, g) => Sound(members, NextDepth(members, g)))
  BY NextDepthSound
<1> HIDE DEF Follows, V, v
<1>4. G \in Steps(left, V)
  BY <1>3 DEF Steps
<1>5. PICK f \in [0..left -> V] : Iterates(f, v, left, G)
  <2> HIDE DEF G
  <2> QED
    BY <1>2, <1>4, Recursion
<1>6. f[0] = v /\ \A i \in 1..left : f[i] = NextDepth(members, f[i - 1])
  <2>1. ASSUME NEW i \in 1..left PROVE f[i] = NextDepth(members, f[i - 1])
    <3>1. f[i - 1] \in V
      OBVIOUS
    <3>2. <<i, f[i - 1]>> \in (1..left) \X V
      BY <3>1
    <3> QED
      BY <1>5, <3>2 DEF Iterates
  <2> QED
    BY <1>5, <2>1 DEF Iterates
<1>7. Follows(f)
  <2>1. \A i \in 0..left : i # 0 => i \in 1..left
    OBVIOUS
  <2>2. f = [i \in 0..left |-> f[i]]
    OBVIOUS
  <2>3. \A i \in 0..left : f[i] = IF i = 0 THEN v ELSE NextDepth(members, f[i - 1])
    BY <1>6, <2>1
  <2>4. f = [i \in 0..left |-> IF i = 0 THEN v ELSE NextDepth(members, f[i - 1])]
    BY <2>2, <2>3
  <2> QED
    BY <1>1, <2>4
<1>8. Follows(visit)
  BY <1>7
<1>9. SearchFrom(members, left) = visit[left]
  BY DEF SearchFrom, Follows, Ids
<1> HIDE DEF visit
<1>10. visit[0] = v /\ \A i \in 1..left : visit[i] = NextDepth(members, visit[i - 1])
  <2>1. visit = [n \in 0..left |-> IF n = 0 THEN v ELSE NextDepth(members, visit[n - 1])]
    BY <1>1, <1>8
  <2>2. 0 \in 0..left /\ \A i \in 1..left : i \in 0..left /\ i # 0
    OBVIOUS
  <2> QED
    BY <2>1, <2>2
<1> DEFINE N == {i \in Nat : i <= left => visit[i] \in V /\ Sound(members, visit[i])}
<1>11. 0 \in N
  BY <1>2, <1>10
<1>12. ASSUME NEW i \in Nat, i \in N PROVE i + 1 \in N
  <2> SUFFICES ASSUME i + 1 <= left
               PROVE  visit[i + 1] \in V /\ Sound(members, visit[i + 1])
    OBVIOUS
  <2>1. i + 1 \in 1..left /\ (i + 1) - 1 = i /\ visit[i] \in V /\ Sound(members, visit[i])
    BY <1>12
  <2>2. visit[i + 1] = NextDepth(members, visit[i])
    BY <1>10, <2>1
  <2> QED
    BY <1>3, <2>1, <2>2
<1>13. Nat \subseteq N
  <2> HIDE DEF N
  <2> QED
    BY <1>11, <1>12, NumbersByInduction
<1> QED
  BY <1>9, <1>13 DEF V

\* The members of a workspace that loads, with its references checked
LEMMA MembersAreSeparate ==
  ASSUME ConfigTyped, LoadWorkspace # Rejected,
         NEW m \in ToSet(LoadWorkspace), NEW n \in ToSet(LoadWorkspace)
  PROVE  /\ IsPrefix(Root, m.dir)
         /\ m # n => /\ Lower(m.id) # Lower(n.id) /\ m.hostname # n.hostname
                     /\ ~IsPrefix(m.dir, n.dir)
<1>1. Accepted(LoadWorkspace, Len(manifest))
  BY LoadedIsAccepted DEF ConfigTyped
<1>2. PICK i \in 1..Len(manifest) : m = Member(Overridden[i])
  BY <1>1 DEF Accepted, ToSet
<1>3. PICK j \in 1..Len(manifest) : n = Member(Overridden[j])
  BY <1>1 DEF Accepted, ToSet
<1>4. /\ m.id = Overridden[i].id /\ m.dir = Overridden[i].dir
      /\ n.id = Overridden[j].id /\ n.dir = Overridden[j].dir
  BY <1>2, <1>3, MemberKeepsEntry
<1>5. IsPrefix(Root, m.dir)
  BY <1>1, <1>4 DEF Accepted
<1>6. m # n => i # j
  BY <1>2, <1>3
<1>7. i # j => /\ Lower(Overridden[i].id) # Lower(Overridden[j].id)
               /\ ~IsPrefix(Overridden[i].dir, Overridden[j].dir)
               /\ Member(Overridden[i]).hostname # Member(Overridden[j]).hostname
  BY <1>1 DEF Accepted
<1> QED
  BY <1>2, <1>3, <1>4, <1>5, <1>6, <1>7

LEMMA LoadedGraph ==
  ASSUME ConfigTyped, LoadWorkspace # Rejected, ReferencesKnown(LoadWorkspace)
  PROVE  /\ Graph(LoadWorkspace)
         /\ \A m \in ToSet(LoadWorkspace) : References(LoadWorkspace, m.id) = m.references
<1> DEFINE members == LoadWorkspace
<1>1. Accepted(members, Len(manifest)) /\ Len(manifest) \in Nat
  BY LoadedIsAccepted, LenProperties DEF ConfigTyped
<1>2. Len(members) \in Nat /\ DOMAIN members = 1..Len(members)
  BY <1>1 DEF Accepted
<1>3. \A m \in ToSet(members), n \in ToSet(members) : m.id = n.id => m = n
  BY MembersAreSeparate
<1>4. \A m \in ToSet(members) : m.references \subseteq Ids(members)
  BY DEF ReferencesKnown, Ids
<1> HIDE DEF members
<1>5. ASSUME NEW m \in ToSet(members)
      PROVE  References(members, m.id) = m.references
  <2> DEFINE chosen == CHOOSE n \in ToSet(members) : n.id = m.id
  <2>1. chosen \in ToSet(members) /\ chosen.id = m.id
    OBVIOUS
  <2>2. References(members, m.id) = chosen.references
    BY DEF References
  <2> HIDE DEF chosen
  <2> QED
    BY <1>3, <2>1, <2>2
<1>6. \A id \in Ids(members) : References(members, id) \subseteq Ids(members)
  BY <1>4, <1>5 DEF Ids
<1> QED
  BY <1>2, <1>5, <1>6 DEF Graph, members

LEMMA ValidHasNoCycle ==
  ASSUME ConfigTyped, LoadWorkspace # Rejected, ValidEnvironment(LoadWorkspace)
  PROVE  ~DependencyCycle(ToSet(LoadWorkspace))
<1> DEFINE members == LoadWorkspace
           ids == Ids(members)
           start == [ok |-> TRUE, done |-> {}]
           found == SearchFrom(members, Len(members))[ids][{}][start]
<1>1. ReferencesKnown(members) /\ found.ok
  BY DEF ValidEnvironment, ReferencesKnown, Ids
<1>2. /\ Graph(members)
      /\ \A m \in ToSet(members) : References(members, m.id) = m.references
  BY <1>1, LoadedGraph
<1>3. Sound(members, SearchFrom(members, Len(members)))
  BY <1>2, SearchIsSound DEF Graph
<1>4. start \in Searches(ids) /\ start.ok /\ start.done = {}
  BY DEF Searches
<1>5. Sure(members, {}, {})
  BY DEF Sure
<1>6. Searched(members, start, found, ids, {})
  <2>1. ids \in SUBSET ids /\ {} \in SUBSET ids
    OBVIOUS
  <2> HIDE DEF members, ids, start
  <2> QED
    BY <1>3, <1>4, <1>5, <2>1 DEF Sound, ids
<1> HIDE DEF found
<1>7. ids \subseteq found.done /\ Sure(members, found.done, {})
  BY <1>1, <1>6 DEF Searched
<1>8. ASSUME NEW S \in SUBSET ToSet(members), S # {},
             \A a \in S : \E b \in S : b.id \in a.references
      PROVE  FALSE
  <2> DEFINE T == {a.id : a \in S}
  <2>1. T \in SUBSET found.done /\ T # {}
    BY <1>7, <1>8 DEF Ids
  <2>2. PICK t \in T : References(members, t) \cap T = {}
    <3> HIDE DEF T
    <3> QED
      BY <1>7, <2>1 DEF Sure
  <2>3. PICK a \in S : a.id = t
    OBVIOUS
  <2>4. PICK b \in S : b.id \in a.references
    BY <1>8
  <2>5. b.id \in References(members, t) /\ b.id \in T
    BY <1>2, <2>3, <2>4
  <2> QED
    BY <2>2, <2>5
<1> QED
  BY <1>8 DEF DependencyCycle

LEMMA StartedUnambiguous == ConfigTyped => StartedIsUnambiguous
<1> SUFFICES ASSUME ConfigTyped PROVE StartedIsUnambiguous
  OBVIOUS
<1> DEFINE members == LoadWorkspace
<1>1. CASE Started = {}
  BY <1>1 DEF StartedIsUnambiguous, DependencyCycle
<1>2. CASE Started # {}
  <2>1. members # Rejected /\ ValidEnvironment(members) /\ Started \subseteq ToSet(members)
    BY <1>2, StartedAreMembers
  <2>2. ~DependencyCycle(Started)
    <3>1. ~DependencyCycle(ToSet(members))
      BY <2>1, ValidHasNoCycle
    <3> QED
      BY <2>1, <3>1 DEF DependencyCycle
  <2>3. ASSUME NEW m \in Started
        PROVE  m.references \subseteq {n.id : n \in Started}
    <3>1. CASE flags.only = Unset
      <4>1. Started = ToSet(members)
        BY <2>1, <3>1 DEF Started
      <4> QED
        BY <2>1, <4>1 DEF ValidEnvironment
    <3>2. CASE flags.only # Unset
      <4>1. m.references \subseteq {m.id}
        BY <2>1, <3>2 DEF Started
      <4> QED
        BY <4>1
    <3> QED
      BY <3>1, <3>2
  <2>4. ASSUME NEW m \in Started, NEW n \in Started
        PROVE  /\ IsPrefix(Root, m.dir)
               /\ m # n => /\ Lower(m.id) # Lower(n.id) /\ m.hostname # n.hostname
                           /\ ~IsPrefix(m.dir, n.dir)
    BY <2>1, MembersAreSeparate
  <2> QED
    BY <2>2, <2>3, <2>4 DEF StartedIsUnambiguous
<1> QED
  BY <1>1, <1>2

\* A workspace that starts is unambiguous, and its apps wait for one another
\* in no circle (load_inner and validate_environment).
THEOREM StartedStaysUnambiguous == ConfigSpec => []StartedIsUnambiguous
  BY ConfigurationTyped, StartedUnambiguous, PTL

-----------------------------------------------------------------------------
(* The arguments of a framework.                                           *)

IsSequence(s) == s \in Seq(ToSet(s))
ArgumentsTyped == IsSequence(prefix) /\ IsSequence(typed) /\ Len(typed) > 0

LEMMA SequencesAre ==
  ASSUME NEW S, NEW s \in Seq(S)
  PROVE  IsSequence(s)
<1>1. Len(s) \in Nat /\ DOMAIN s = 1..Len(s) /\ s \in [1..Len(s) -> S]
  BY LenProperties
<1>2. s \in [1..Len(s) -> ToSet(s)]
  BY <1>1 DEF ToSet
<1> QED
  BY <1>1, <1>2, SeqDef DEF IsSequence

LEMMA ArgumentsTypedAtStart == ArgumentsInit => ArgumentsTyped
<1> SUFFICES ASSUME ArgumentsInit PROVE ArgumentsTyped
  OBVIOUS
<1>1. PICK p \in Programs : typed = <<Word(p)>>
  BY DEF ArgumentsInit
<1> DEFINE word == Word(p)
<1>2. typed = <<word>>
  BY <1>1
<1> HIDE DEF word
<1>3. typed \in Seq({word}) /\ Len(typed) = 1
  BY <1>2
<1>4. IsSequence(typed)
  BY <1>3, SequencesAre
<1> QED
  BY <1>3, <1>4, WrapperAssumption DEF ArgumentsInit, ArgumentsTyped, IsSequence

LEMMA ArgumentsStayTyped ==
  ArgumentsTyped /\ [ArgumentsNext]_argumentVars => ArgumentsTyped'
<1> SUFFICES ASSUME ArgumentsTyped, [ArgumentsNext]_argumentVars PROVE ArgumentsTyped'
  OBVIOUS
<1>1. ASSUME NEW a \in Arguments, Type(a) PROVE ArgumentsTyped'
  <2> DEFINE S == ToSet(typed) \cup {a}
  <2>1. typed \in Seq(S) /\ a \in S
    <3>1. typed \in Seq(ToSet(typed)) /\ ToSet(typed) \subseteq S
      BY DEF ArgumentsTyped, IsSequence
    <3> QED
      BY <3>1, SeqMonotonic
  <2> HIDE DEF S
  <2>2. typed' \in Seq(S) /\ Len(typed') = Len(typed) + 1 /\ Len(typed) \in Nat
    BY <1>1, <2>1 DEF Type
  <2>3. IsSequence(typed')
    BY <2>2, SequencesAre
  <2> QED
    BY <1>1, <2>2, <2>3 DEF Type, ArgumentsTyped, IsSequence
<1>2. CASE UNCHANGED argumentVars
  BY <1>2 DEF argumentVars, ArgumentsTyped, IsSequence
<1> QED
  BY <1>1, <1>2 DEF ArgumentsNext

LEMMA LeastNumber ==
  ASSUME NEW S \in SUBSET Nat, S # {}
  PROVE  Min(S) \in S /\ \A y \in S : Min(S) <= y
<1> DEFINE R == {x \in Nat \X Nat : x[1] < x[2]}
<1>1. IsWellFoundedOn(R, Nat)
  BY LessThanIsWellFounded
<1> HIDE DEF R
<1>2. PICK n \in S : \A m \in S : ~(<<m, n>> \in R)
  BY <1>1, WFMin
<1>3. \A m \in S : n <= m
  <2>1. ASSUME NEW m \in S PROVE n <= m
    <3>1. ~(<<m, n>> \in R) /\ <<m, n>> \in Nat \X Nat
      BY <1>2
    <3>2. ~(<<m, n>>[1] < <<m, n>>[2])
      BY <3>1 DEF R
    <3> QED
      BY <3>2
  <2> QED
    BY <2>1
<1> QED
  BY <1>3 DEF Min

LEMMA FirstFound ==
  ASSUME NEW S, NEW args \in Seq(S), NEW found \in SUBSET (DOMAIN args)
  PROVE  /\ First(args, found) \in 1..Len(args) + 1
         /\ First(args, found) \in found \/ First(args, found) = Len(args) + 1
         /\ \A k \in found : First(args, found) <= k
<1>1. Len(args) \in Nat /\ DOMAIN args = 1..Len(args)
  BY LenProperties
<1>2. CASE found = {}
  BY <1>1, <1>2 DEF First
<1>3. CASE found # {}
  <2>1. found \in SUBSET Nat
    BY <1>1
  <2>2. Min(found) \in found /\ \A k \in found : Min(found) <= k
    BY <1>3, <2>1, LeastNumber
  <2> QED
    BY <1>1, <1>3, <2>2 DEF First
<1> QED
  BY <1>2, <1>3

LEMMA AfterIsASequence ==
  ASSUME NEW S, NEW argv \in Seq(S), NEW i \in 1..Len(argv)
  PROVE  /\ After(argv, i) \in Seq(S) /\ Len(After(argv, i)) = Len(argv) - i
         /\ \A k \in 1..Len(argv) - i : After(argv, i)[k] = argv[i + k]
<1>1. Len(argv) \in Nat
  BY LenProperties
<1>2. \A j \in (i + 1)..Len(argv) : argv[j] \in S
  BY <1>1
<1>3. /\ SubSeq(argv, i + 1, Len(argv)) \in Seq(S)
      /\ Len(SubSeq(argv, i + 1, Len(argv)))
           = IF i + 1 <= Len(argv) THEN Len(argv) - (i + 1) + 1 ELSE 0
      /\ \A k \in 1..Len(argv) - (i + 1) + 1 :
           SubSeq(argv, i + 1, Len(argv))[k] = argv[(i + 1) + k - 1]
  <2>1. i + 1 \in Int /\ Len(argv) \in Int
    BY <1>1
  <2> QED
    BY <1>2, <2>1, SubSeqProperties
<1> QED
  BY <1>1, <1>3 DEF After

LEMMA OperandIsAPosition ==
  ASSUME NEW program, NEW S, NEW args \in Seq(S)
  PROVE  Operand(program, args) \in 1..Len(args) + 1
<1> DEFINE skipped == Skipped(args, WrapperTakes(program))
           end == First(args, {i \in DOMAIN args : ~skipped[i] /\ args[i] = Separator})
           found == {i \in DOMAIN args : ~skipped[i] /\ (i > end \/ ~Dash(args[i]))}
<1>1. Operand(program, args) = First(args, found)
  BY DEF Operand, OperandAmong
<1>2. found \in SUBSET (DOMAIN args)
  OBVIOUS
<1> HIDE DEF found
<1> QED
  BY <1>1, <1>2, FirstFound

LEMMA ExecutableIsAPosition ==
  ASSUME NEW S, NEW argv \in Seq(S), Len(argv) > 0
  PROVE  Executable(argv) \in Nat /\ Executable(argv) > 0
<1> DEFINE program == argv[1].name
           first == 1 + Operand(program, Tail(argv))
<1>1. Len(argv) \in Nat /\ argv # <<>>
  BY LenProperties
<1>2. Tail(argv) \in Seq(S) /\ Len(Tail(argv)) \in Nat
  BY <1>1, HeadTailProperties, LenProperties
<1>3. first \in Nat /\ first > 0
  <2>1. Operand(program, Tail(argv)) \in 1..Len(Tail(argv)) + 1
    BY <1>2, OperandIsAPosition
  <2> QED
    BY <1>2, <2>1
<1> HIDE DEF first
<1>4. ASSUME first <= Len(argv)
      PROVE  Operand(program, After(argv, first)) \in Nat
  <2>1. After(argv, first) \in Seq(S) /\ Len(After(argv, first)) \in Nat
    BY <1>1, <1>3, <1>4, AfterIsASequence, LenProperties
  <2> QED
    BY <2>1, OperandIsAPosition
<1>5. Executable(argv) = ExecutableFrom(argv, program, first)
  BY DEF Executable, first
<1> HIDE DEF program
<1> QED
  BY <1>1, <1>3, <1>4, <1>5 DEF ExecutableFrom

-----------------------------------------------------------------------------
(* What is overwritten.                                                    *)

LEMMA OptionNames ==
  /\ \A x \in HostOptions : x \notin PortOptions /\ x \in Options /\ x \in Nookish /\ x # Nooks
  /\ \A x \in PortOptions : x \notin HostOptions /\ x \in Options /\ x \in Nookish /\ x # Nooks
  /\ Nooks \notin Options /\ Nooks \notin Nookish /\ Nooks \notin Strict /\ Nooks # ""
  /\ \A x \in Nookish : x \in Options /\ x \notin Strict
  /\ \A x \in Strict : x \in Options
  /\ "--" \notin Nookish /\ "--" \notin Strict
  BY DEF HostOptions, PortOptions, Options, Nookish, Strict, Nooks

LEMMA NooksWord ==
  /\ Word(Nooks).name = Nooks /\ Word(Nooks).value = "" /\ ~Dash(Word(Nooks))
  BY OptionNames DEF Word, Dash

LEMMA NooksValue ==
  \A w : With(w, Nooks).name = w /\ With(w, Nooks).value = Nooks
  BY DEF With

Valueless(args, i) == i = Len(args) \/ Dash(args[i + 1])
TakesValue(args, i, options) ==
    ~Dash(args[i]) /\ i > 1 /\ args[i - 1].name \in options /\ args[i - 1].value = ""

LEMMA OverwriteIsASequence ==
  ASSUME NEW S, NEW args \in Seq(S), NEW options
  PROVE  LET o == Overwrite(args, options)
         IN /\ DOMAIN o = 1..Len(args) /\ Len(o) = Len(args) /\ Len(args) \in Nat
            /\ o = [i \in 1..Len(args) |-> o[i]]
<1>1. Len(args) \in Nat /\ DOMAIN args = 1..Len(args)
  BY LenProperties
<1> QED
  BY <1>1 DEF Overwrite

LEMMA OverwriteArgument ==
  ASSUME NEW S, NEW args \in Seq(S), NEW options, options = HostOptions \/ options = PortOptions,
         NEW i \in 1..Len(args)
  PROVE  LET o == Overwrite(args, options)
         IN /\ args[i].name \in options =>
                 o[i] = IF args[i].value # "" \/ (options = HostOptions /\ Valueless(args, i))
                        THEN With(args[i].name, Nooks) ELSE args[i]
            /\ TakesValue(args, i, options) => o[i] = Word(Nooks)
            /\ args[i].name \notin options /\ ~TakesValue(args, i, options) => o[i] = args[i]
<1>1. Len(args) \in Nat /\ DOMAIN args = 1..Len(args)
  BY LenProperties
<1>2. Overwrite(args, options)[i] =
        LET valueless == i = Len(args) \/ Dash(args[i + 1])
        IN CASE args[i].name \in options ->
                  IF args[i].value # "" \/ (options = HostOptions /\ valueless)
                  THEN With(args[i].name, Nooks) ELSE args[i]
             [] /\ ~Dash(args[i]) /\ i > 1
                /\ args[i - 1].name \in options /\ args[i - 1].value = "" -> Word(Nooks)
             [] OTHER -> args[i]
  BY <1>1 DEF Overwrite
<1>3. args[i].name \in options => ~TakesValue(args, i, options)
  BY OptionNames DEF TakesValue, Dash
<1>4. CASE args[i].name \in options
  BY <1>2, <1>3, <1>4 DEF Valueless, TakesValue
<1>5. CASE args[i].name \notin options /\ TakesValue(args, i, options)
  BY <1>2, <1>5 DEF TakesValue
<1>6. CASE args[i].name \notin options /\ ~TakesValue(args, i, options)
  BY <1>2, <1>6 DEF TakesValue
<1> QED
  BY <1>3, <1>4, <1>5, <1>6

\* Both passes over the arguments, first the host, then the port
Passes(args) == Overwrite(Overwrite(args, HostOptions), PortOptions)

LEMMA HostPass ==
  ASSUME NEW S, NEW args \in Seq(S), NEW i \in 1..Len(args)
  PROVE  LET o == Overwrite(args, HostOptions)
         IN /\ Dash(o[i]) <=> Dash(args[i])
            /\ args[i].name \notin HostOptions =>
                 o[i] = IF TakesValue(args, i, HostOptions) THEN Word(Nooks) ELSE args[i]
            /\ args[i].name \in HostOptions =>
                 o[i] = IF args[i].value # "" \/ Valueless(args, i)
                        THEN With(args[i].name, Nooks) ELSE args[i]
<1> DEFINE o == Overwrite(args, HostOptions)
<1>1. /\ args[i].name \in HostOptions =>
           o[i] = IF args[i].value # "" \/ Valueless(args, i)
                  THEN With(args[i].name, Nooks) ELSE args[i]
      /\ TakesValue(args, i, HostOptions) => o[i] = Word(Nooks)
      /\ args[i].name \notin HostOptions /\ ~TakesValue(args, i, HostOptions) => o[i] = args[i]
  <2>1. /\ args[i].name \in HostOptions =>
             Overwrite(args, HostOptions)[i]
               = IF args[i].value # "" \/ (HostOptions = HostOptions /\ Valueless(args, i))
                 THEN With(args[i].name, Nooks) ELSE args[i]
        /\ TakesValue(args, i, HostOptions) => Overwrite(args, HostOptions)[i] = Word(Nooks)
        /\ args[i].name \notin HostOptions /\ ~TakesValue(args, i, HostOptions) =>
             Overwrite(args, HostOptions)[i] = args[i]
    BY OverwriteArgument
  <2> QED
    BY <2>1
<1> HIDE DEF o
<1>2. CASE args[i].name \in HostOptions
  <2>1. o[i] = With(args[i].name, Nooks) \/ o[i] = args[i]
    BY <1>1, <1>2
  <2>2. o[i].name = args[i].name
    BY <2>1, NooksValue
  <2> QED
    BY <1>1, <1>2, <2>2 DEF Dash, o
<1>3. CASE args[i].name \notin HostOptions /\ TakesValue(args, i, HostOptions)
  <2>1. o[i] = Word(Nooks)
    BY <1>1, <1>3
  <2>2. ~Dash(o[i])
    BY <2>1, NooksWord, OptionNames
  <2>3. ~Dash(args[i])
    BY <1>3 DEF TakesValue
  <2> QED
    BY <1>3, <2>1, <2>2, <2>3 DEF o
<1>4. CASE args[i].name \notin HostOptions /\ ~TakesValue(args, i, HostOptions)
  BY <1>1, <1>4 DEF o
<1> QED
  BY <1>2, <1>3, <1>4

LEMMA PassesAreASequence ==
  ASSUME NEW S, NEW args \in Seq(S)
  PROVE  LET p == Passes(args)
         IN Len(p) = Len(args) /\ p = [k \in 1..Len(args) |-> p[k]]
<1> DEFINE o == Overwrite(args, HostOptions)
           U == {o[k] : k \in 1..Len(args)}
<1>1. Len(o) = Len(args) /\ Len(args) \in Nat /\ o = [k \in 1..Len(args) |-> o[k]]
  BY OverwriteIsASequence
<1> HIDE DEF o
<1>2. o \in [1..Len(args) -> U]
  BY <1>1
<1>3. o \in Seq(U)
  BY <1>1, <1>2, SeqDef
<1> QED
  BY <1>1, <1>3, OverwriteIsASequence DEF o, Passes

LEMMA BothPasses ==
  ASSUME NEW S, NEW args \in Seq(S), NEW i \in 1..Len(args)
  PROVE  LET p == Passes(args)
         IN /\ args[i].name \in HostOptions =>
                 p[i] = IF args[i].value # "" \/ Valueless(args, i)
                        THEN With(args[i].name, Nooks) ELSE args[i]
            /\ args[i].name \in PortOptions =>
                 p[i] = IF args[i].value # "" THEN With(args[i].name, Nooks) ELSE args[i]
            /\ args[i].name \notin HostOptions \cup PortOptions =>
                 p[i] = IF TakesValue(args, i, HostOptions \cup PortOptions)
                        THEN Word(Nooks) ELSE args[i]
            /\ Dash(p[i]) <=> Dash(args[i])
            /\ Len(p) = Len(args) /\ p = [k \in 1..Len(args) |-> p[k]]
<1> DEFINE o == Overwrite(args, HostOptions)
           p == Overwrite(o, PortOptions)
           U == {o[k] : k \in 1..Len(args)}
<1>1. /\ DOMAIN o = 1..Len(args) /\ Len(o) = Len(args) /\ Len(args) \in Nat
      /\ o = [k \in 1..Len(args) |-> o[k]]
  BY OverwriteIsASequence
<1> HIDE DEF o
<1>2. o \in Seq(U)
  <2>1. o \in [1..Len(args) -> U]
    BY <1>1
  <2> HIDE DEF U
  <2> QED
    BY <1>1, <2>1, SeqDef
<1>3. Len(p) = Len(args) /\ p = [k \in 1..Len(args) |-> p[k]]
  BY <1>1, <1>2, OverwriteIsASequence
<1>4. /\ o[i].name \in PortOptions =>
           p[i] = IF o[i].value # "" THEN With(o[i].name, Nooks) ELSE o[i]
      /\ TakesValue(o, i, PortOptions) => p[i] = Word(Nooks)
      /\ o[i].name \notin PortOptions /\ ~TakesValue(o, i, PortOptions) => p[i] = o[i]
  <2>1. i \in 1..Len(o)
    BY <1>1
  <2>2. \A x \in PortOptions : PortOptions # HostOptions
    BY OptionNames
  <2> HIDE DEF U, p
  <2>3. /\ o[i].name \in PortOptions =>
             Overwrite(o, PortOptions)[i]
               = IF o[i].value # "" \/ (PortOptions = HostOptions /\ Valueless(o, i))
                 THEN With(o[i].name, Nooks) ELSE o[i]
        /\ TakesValue(o, i, PortOptions) => Overwrite(o, PortOptions)[i] = Word(Nooks)
        /\ o[i].name \notin PortOptions /\ ~TakesValue(o, i, PortOptions) =>
             Overwrite(o, PortOptions)[i] = o[i]
    BY <1>2, <2>1, OverwriteArgument
  <2> QED
    BY <2>2, <2>3 DEF p
<1> HIDE DEF p
<1>5. /\ Dash(o[i]) <=> Dash(args[i])
      /\ args[i].name \notin HostOptions =>
           o[i] = IF TakesValue(args, i, HostOptions) THEN Word(Nooks) ELSE args[i]
      /\ args[i].name \in HostOptions =>
           o[i] = IF args[i].value # "" \/ Valueless(args, i)
                  THEN With(args[i].name, Nooks) ELSE args[i]
  BY HostPass DEF o
<1>6. TakesValue(o, i, PortOptions) <=> TakesValue(args, i, PortOptions)
  <2>1. CASE i = 1
    BY <2>1 DEF TakesValue
  <2>2. CASE i > 1
    <3> DEFINE j == i - 1
    <3>1. j \in 1..Len(args)
      BY <1>1, <2>2
    <3> HIDE DEF j
    <3>2. /\ args[j].name \notin HostOptions =>
               o[j] = IF TakesValue(args, j, HostOptions) THEN Word(Nooks) ELSE args[j]
          /\ args[j].name \in HostOptions =>
               o[j] = With(args[j].name, Nooks) \/ o[j] = args[j]
      BY <3>1, HostPass DEF o
    <3>3. o[j].name \in PortOptions <=> args[j].name \in PortOptions
      <4>1. CASE args[j].name \in HostOptions
        BY <3>2, <4>1, OptionNames, NooksValue
      <4>2. CASE args[j].name \notin HostOptions /\ TakesValue(args, j, HostOptions)
        <5>1. o[j] = Word(Nooks) /\ ~Dash(args[j])
          BY <3>2, <4>2 DEF TakesValue
        <5> QED
          BY <5>1, NooksWord, OptionNames DEF Dash
      <4>3. CASE args[j].name \notin HostOptions /\ ~TakesValue(args, j, HostOptions)
        BY <3>2, <4>3
      <4> QED
        BY <4>1, <4>2, <4>3
    <3>4. args[j].name \in PortOptions => o[j] = args[j]
      <4>1. ASSUME args[j].name \in PortOptions PROVE ~TakesValue(args, j, HostOptions)
        BY <4>1, OptionNames DEF TakesValue, Dash
      <4> QED
        BY <3>2, <4>1, OptionNames
    <3> QED
      BY <1>5, <2>2, <3>3, <3>4 DEF TakesValue, j
  <2> QED
    BY <1>1, <2>1, <2>2
<1>7. CASE args[i].name \in HostOptions
  <2>1. ~TakesValue(args, i, PortOptions)
    BY <1>7, OptionNames DEF TakesValue, Dash
  <2>2. o[i] = With(args[i].name, Nooks) \/ o[i] = args[i]
    BY <1>5, <1>7
  <2>3. o[i].name = args[i].name
    BY <2>2, NooksValue
  <2>4. p[i] = o[i]
    BY <1>4, <1>6, <1>7, <2>1, <2>3, OptionNames
  <2> QED
    BY <1>3, <1>5, <1>7, <2>4, OptionNames DEF p, o, Passes
<1>8. CASE args[i].name \in PortOptions
  <2>1. ~TakesValue(args, i, HostOptions)
    BY <1>8, OptionNames DEF TakesValue, Dash
  <2>2. o[i] = args[i]
    BY <1>5, <1>8, <2>1, OptionNames
  <2>3. p[i] = IF args[i].value # "" THEN With(args[i].name, Nooks) ELSE args[i]
    BY <1>4, <1>8, <2>2
  <2>4. p[i].name = args[i].name
    <3>1. p[i] = With(args[i].name, Nooks) \/ p[i] = args[i]
      BY <2>3
    <3> QED
      BY <3>1, NooksValue
  <2>5. Dash(p[i]) <=> Dash(args[i])
    BY <2>4 DEF Dash
  <2> QED
    BY <1>3, <1>8, <2>3, <2>5, OptionNames DEF p, o, Passes
<1>9. CASE args[i].name \notin HostOptions \cup PortOptions
  <2>1. TakesValue(args, i, HostOptions \cup PortOptions)
          <=> TakesValue(args, i, HostOptions) \/ TakesValue(args, i, PortOptions)
    BY DEF TakesValue
  <2>2. o[i].name \notin PortOptions
    BY <1>5, <1>9, OptionNames, NooksWord
  <2>3. p[i] = IF TakesValue(args, i, HostOptions \cup PortOptions) THEN Word(Nooks) ELSE args[i]
    BY <1>4, <1>5, <1>6, <1>9, <2>1, <2>2
  <2>4. Dash(p[i]) <=> Dash(args[i])
    <3>1. CASE TakesValue(args, i, HostOptions \cup PortOptions)
      <4>1. p[i] = Word(Nooks) /\ ~Dash(args[i])
        BY <2>3, <3>1 DEF TakesValue
      <4> QED
        BY <4>1, NooksWord, OptionNames
    <3>2. CASE ~TakesValue(args, i, HostOptions \cup PortOptions)
      BY <2>3, <3>2
    <3> QED
      BY <3>1, <3>2
  <2> QED
    BY <1>3, <1>9, <2>3, <2>4 DEF p, o, Passes
<1> QED
  BY <1>7, <1>8, <1>9

-----------------------------------------------------------------------------
(* What is added.                                                          *)

Addition == {Word(w) : w \in Options \cup {Nooks}}

\* Options of Nook's, each with Nook's value after it, or strict ones
Added(app) ==
    /\ app \in Seq(Addition)
    /\ Len(app) > 0 => Dash(app[1])
    /\ \A k \in 1..Len(app) :
         \/ /\ app[k].name \in Nookish /\ app[k].value = ""
            /\ k < Len(app) /\ app[k + 1] = Word(Nooks)
         \/ app[k].name \in Strict
         \/ /\ app[k] = Word(Nooks) /\ k > 1
            /\ app[k - 1].name \in Nookish /\ app[k - 1].value = ""

LEMMA OptionWords ==
  \A w \in Options : Word(w) \in Addition /\ Dash(Word(w)) /\ Word(w).name = w /\ Word(w).value = ""
  BY DEF Addition, Dash, Word

LEMMA NothingAdded == Added(<<>>)
  BY DEF Added

LEMMA StrictAdded == Added(<<Word("--strictPort")>>)
<1> DEFINE w == Word("--strictPort")
           one == <<w>>
<1>1. w \in Addition /\ Dash(w) /\ w.name \in Strict
  BY OptionWords DEF Options, Strict
<1> HIDE DEF w
<1>2. one \in Seq(Addition) /\ Len(one) = 1 /\ one[1] = w
  BY <1>1
<1> HIDE DEF one
<1>3. \A k \in 1..Len(one) : k = 1
  BY <1>2
<1>4. Added(one)
  BY <1>1, <1>2, <1>3 DEF Added
<1> QED
  BY <1>4 DEF w, one

LEMMA PairAdded ==
  ASSUME NEW option \in Nookish
  PROVE  LET pair == <<Word(option), Word(Nooks)>>
         IN Added(pair) /\ pair[1].name = option /\ 1 \in DOMAIN pair
<1> DEFINE w == Word(option)
           n == Word(Nooks)
           pair == <<w, n>>
<1>1. w \in Addition /\ Dash(w) /\ w.name = option /\ w.value = "" /\ n \in Addition
  BY OptionWords, OptionNames DEF Addition
<1> HIDE DEF w, n
<1>2. pair \in Seq(Addition) /\ Len(pair) = 2 /\ pair[1] = w /\ pair[2] = n
  <2>1. w \in Addition /\ n \in Addition
    BY <1>1
  <2>2. pair \in Seq(Addition)
    BY <2>1
  <2> QED
    BY <2>2
<1> HIDE DEF pair
<1>3. \A k \in 1..2 : k = 1 \/ k = 2
  OBVIOUS
<1>4. /\ pair[1].name \in Nookish /\ pair[1].value = "" /\ 1 < Len(pair) /\ pair[1 + 1] = n
      /\ pair[2] = n /\ 2 > 1 /\ pair[2 - 1].name \in Nookish /\ pair[2 - 1].value = ""
  <2>1. 1 + 1 = 2 /\ 2 - 1 = 1 /\ 1 < 2 /\ 2 > 1
    OBVIOUS
  <2> QED
    BY <1>1, <1>2, <2>1
<1>5. ASSUME NEW k \in 1..Len(pair)
      PROVE  \/ /\ pair[k].name \in Nookish /\ pair[k].value = ""
                /\ k < Len(pair) /\ pair[k + 1] = n
             \/ pair[k].name \in Strict
             \/ /\ pair[k] = n /\ k > 1
                /\ pair[k - 1].name \in Nookish /\ pair[k - 1].value = ""
  BY <1>2, <1>3, <1>4
<1>6. Added(pair)
  BY <1>1, <1>2, <1>5 DEF Added, n
<1>7. pair[1].name = option /\ 1 \in DOMAIN pair
  <2>1. DOMAIN pair = 1..2
    BY <1>2, LenProperties
  <2>2. 1 \in 1..2
    OBVIOUS
  <2> QED
    BY <1>1, <1>2, <2>1, <2>2
<1> QED
  BY <1>6, <1>7 DEF pair, w, n

LEMMA MoreAdded ==
  ASSUME NEW a, NEW b, Added(a), Added(b)
  PROVE  /\ Added(a \o b)
         /\ \A options : HasOption(a, options) \/ HasOption(b, options) =>
              HasOption(a \o b, options)
<1> DEFINE c == a \o b
           m == Len(a)
           n == Len(b)
<1>1. /\ a \in Seq(Addition) /\ b \in Seq(Addition) /\ m \in Nat /\ n \in Nat
      /\ DOMAIN a = 1..m /\ DOMAIN b = 1..n
  BY LenProperties DEF Added
<1>2. /\ c \in Seq(Addition) /\ Len(c) = m + n
      /\ \A k \in 1..m + n : c[k] = IF k <= m THEN a[k] ELSE b[k - m]
  BY <1>1, ConcatProperties
<1>3. DOMAIN c = 1..m + n
  BY <1>2, LenProperties
<1> HIDE DEF c, m, n
<1>4. /\ \A k \in 1..m : k \in 1..m + n /\ c[k] = a[k]
      /\ \A k \in 1..n : m + k \in 1..m + n /\ c[m + k] = b[k]
  <2>1. ASSUME NEW k \in 1..n PROVE m + k \in 1..m + n /\ c[m + k] = b[k]
    <3>1. m + k \in 1..m + n /\ ~(m + k <= m) /\ (m + k) - m = k
      BY <1>1
    <3> QED
      BY <1>2, <3>1
  <2> QED
    BY <1>1, <1>2, <2>1
<1>5. \A options : HasOption(a, options) \/ HasOption(b, options) => HasOption(c, options)
  <2> SUFFICES ASSUME NEW options, HasOption(a, options) \/ HasOption(b, options)
               PROVE  HasOption(c, options)
    OBVIOUS
  <2>1. CASE HasOption(a, options)
    BY <1>1, <1>3, <1>4, <2>1 DEF HasOption
  <2>2. CASE HasOption(b, options)
    BY <1>1, <1>3, <1>4, <2>2 DEF HasOption
  <2> QED
    BY <2>1, <2>2
<1>6. Len(c) > 0 => Dash(c[1])
  <2> SUFFICES ASSUME Len(c) > 0 PROVE Dash(c[1])
    OBVIOUS
  <2>1. CASE m > 0
    <3>1. 1 \in 1..m
      BY <1>1, <2>1
    <3>2. Dash(a[1])
      BY <2>1 DEF Added, m
    <3> QED
      BY <1>4, <3>1, <3>2
  <2>2. CASE m = 0
    <3>1. n > 0 /\ 1 \in 1..n /\ m + 1 = 1
      BY <1>1, <1>2, <2>2
    <3> QED
      BY <1>4, <3>1 DEF Added, n
  <2> QED
    BY <1>1, <2>1, <2>2
<1>7. ASSUME NEW k \in 1..Len(c)
      PROVE  \/ /\ c[k].name \in Nookish /\ c[k].value = ""
                /\ k < Len(c) /\ c[k + 1] = Word(Nooks)
             \/ c[k].name \in Strict
             \/ /\ c[k] = Word(Nooks) /\ k > 1
                /\ c[k - 1].name \in Nookish /\ c[k - 1].value = ""
  <2>1. CASE k <= m
    <3>1. k \in 1..m
      BY <1>1, <2>1
    <3>2. \/ /\ a[k].name \in Nookish /\ a[k].value = ""
             /\ k < m /\ a[k + 1] = Word(Nooks)
          \/ a[k].name \in Strict
          \/ /\ a[k] = Word(Nooks) /\ k > 1
             /\ a[k - 1].name \in Nookish /\ a[k - 1].value = ""
      BY <3>1 DEF Added, m
    <3>3. c[k] = a[k]
      BY <1>4, <3>1
    <3>4. k < m => c[k + 1] = a[k + 1] /\ k < Len(c)
      <4> SUFFICES ASSUME k < m PROVE c[k + 1] = a[k + 1] /\ k < Len(c)
        OBVIOUS
      <4>1. k + 1 \in 1..m
        BY <1>1, <3>1
      <4> QED
        BY <1>1, <1>2, <1>4, <3>1, <4>1
    <3>5. k > 1 => c[k - 1] = a[k - 1]
      <4> SUFFICES ASSUME k > 1 PROVE c[k - 1] = a[k - 1]
        OBVIOUS
      <4>1. k - 1 \in 1..m
        BY <1>1, <3>1
      <4> QED
        BY <1>4, <4>1
    <3> QED
      BY <3>2, <3>3, <3>4, <3>5
  <2>2. CASE k > m
    <3> DEFINE j == k - m
    <3>1. j \in 1..n /\ k = m + j
      BY <1>1, <1>2, <2>2
    <3> HIDE DEF j
    <3>2. \/ /\ b[j].name \in Nookish /\ b[j].value = ""
             /\ j < n /\ b[j + 1] = Word(Nooks)
          \/ b[j].name \in Strict
          \/ /\ b[j] = Word(Nooks) /\ j > 1
             /\ b[j - 1].name \in Nookish /\ b[j - 1].value = ""
      BY <3>1 DEF Added, n
    <3>3. c[k] = b[j]
      BY <1>4, <3>1
    <3>4. j < n => c[k + 1] = b[j + 1] /\ k < Len(c)
      <4> SUFFICES ASSUME j < n PROVE c[k + 1] = b[j + 1] /\ k < Len(c)
        OBVIOUS
      <4>1. j + 1 \in 1..n /\ m + (j + 1) = k + 1 /\ k < m + n
        BY <1>1, <3>1
      <4>2. c[m + (j + 1)] = b[j + 1] /\ Len(c) = m + n
        BY <1>2, <1>4, <4>1
      <4> QED
        BY <4>1, <4>2
    <3>5. j > 1 => c[k - 1] = b[j - 1] /\ k > 1
      <4> SUFFICES ASSUME j > 1 PROVE c[k - 1] = b[j - 1] /\ k > 1
        OBVIOUS
      <4>1. j - 1 \in 1..n /\ m + (j - 1) = k - 1
        BY <1>1, <3>1
      <4> QED
        BY <1>1, <1>4, <3>1, <4>1
    <3> QED
      BY <3>2, <3>3, <3>4, <3>5
  <2>3. k <= m \/ k > m
    BY <1>1, <1>2
  <2> QED
    BY <2>1, <2>2, <2>3
<1>8. Added(c)
  BY <1>2, <1>6, <1>7 DEF Added
<1> QED
  BY <1>5, <1>8 DEF c

\* Aligned: what is overwritten, and what is added after it
LEMMA AlignedAdds ==
  ASSUME NEW S, NEW args \in Seq(S), NEW framework, NEW strict
  PROVE  \E app : /\ Added(app) /\ Aligned(framework, args, strict) = Passes(args) \o app
                  /\ \A options \in {PortOptions, HostOptions} :
                       Overwritten(args, options) \/ HasOption(app, options)
<1> DEFINE host == IF Overwritten(args, HostOptions) THEN <<>> ELSE <<Word("--host"), Word(Nooks)>>
           port == IF Overwritten(args, PortOptions) THEN <<>> ELSE <<Word("--port"), Word(Nooks)>>
           only == IF framework = "vite" /\ strict
                   THEN IF HasOption(args, {"--strictPort", "--strict-port"})
                        THEN <<>> ELSE <<Word("--strictPort")>>
                   ELSE <<>>
           allowed == IF framework = "astro"
                      THEN IF HasOption(args, {"--allowed-hosts"})
                           THEN <<>> ELSE <<Word("--allowed-hosts"), Word(Nooks)>>
                      ELSE <<>>
           p == Passes(args)
           T == {p[k] : k \in 1..Len(args)} \cup Addition
           app == ((host \o port) \o only) \o allowed
<1>1. "--host" \in Nookish /\ "--port" \in Nookish /\ "--allowed-hosts" \in Nookish
  BY DEF Nookish, HostOptions, PortOptions
<1>2. Added(host) /\ (Overwritten(args, HostOptions) \/ HasOption(host, HostOptions))
  <2>1. CASE Overwritten(args, HostOptions)
    BY <2>1, NothingAdded
  <2>2. CASE ~Overwritten(args, HostOptions)
    <3>1. host = <<Word("--host"), Word(Nooks)>>
      BY <2>2
    <3> HIDE DEF host
    <3>2. Added(host) /\ host[1].name = "--host" /\ 1 \in DOMAIN host
      BY <1>1, <3>1, PairAdded
    <3> QED
      BY <3>2 DEF HasOption, HostOptions
  <2> QED
    BY <2>1, <2>2
<1>3. Added(port) /\ (Overwritten(args, PortOptions) \/ HasOption(port, PortOptions))
  <2>1. CASE Overwritten(args, PortOptions)
    BY <2>1, NothingAdded
  <2>2. CASE ~Overwritten(args, PortOptions)
    <3>1. port = <<Word("--port"), Word(Nooks)>>
      BY <2>2
    <3> HIDE DEF port
    <3>2. Added(port) /\ port[1].name = "--port" /\ 1 \in DOMAIN port
      BY <1>1, <3>1, PairAdded
    <3> QED
      BY <3>2 DEF HasOption, PortOptions
  <2> QED
    BY <2>1, <2>2
<1>4. Added(only)
  BY NothingAdded, StrictAdded
<1>5. Added(allowed)
  BY <1>1, NothingAdded, PairAdded
<1>6. Aligned(framework, args, strict) = (((p \o host) \o port) \o only) \o allowed
  BY DEF Aligned, Passes
<1> HIDE DEF host, port, only, allowed
<1>7. p \in Seq(T)
  <2>1. Len(args) \in Nat
    BY LenProperties
  <2>2. p = [k \in 1..Len(args) |-> p[k]]
    BY PassesAreASequence
  <2> HIDE DEF p
  <2>3. p \in [1..Len(args) -> T]
    BY <2>2
  <2> HIDE DEF T
  <2> QED
    BY <2>1, <2>3, SeqDef
<1>8. host \in Seq(T) /\ port \in Seq(T) /\ only \in Seq(T) /\ allowed \in Seq(T)
  BY <1>2, <1>3, <1>4, <1>5, SeqMonotonic DEF Added
<1> HIDE DEF p, T
<1>9. (((p \o host) \o port) \o only) \o allowed = p \o app
  <2>0. \A s, t, u \in Seq(T) : (s \o t) \o u = s \o (t \o u)
    BY ConcatAssociative
  <2>1. (p \o host) \o port = p \o (host \o port)
    BY <1>7, <1>8, <2>0
  <2>2. host \o port \in Seq(T)
    BY <1>8, ConcatProperties
  <2>3. (p \o (host \o port)) \o only = p \o ((host \o port) \o only)
    BY <1>7, <1>8, <2>2, <2>0
  <2>4. (host \o port) \o only \in Seq(T)
    BY <1>8, <2>2, ConcatProperties
  <2>5. (p \o ((host \o port) \o only)) \o allowed = p \o app
    BY <1>7, <1>8, <2>4, <2>0
  <2> QED
    BY <2>1, <2>3, <2>5
<1>10. /\ Added(app)
       /\ \A options : HasOption(host, options) \/ HasOption(port, options) =>
            HasOption(app, options)
  <2>1. Added(host \o port) /\ \A options : HasOption(host, options) \/ HasOption(port, options)
                                 => HasOption(host \o port, options)
    BY <1>2, <1>3, MoreAdded
  <2> DEFINE x == host \o port
             y == x \o only
  <2> HIDE DEF x
  <2>2. Added(y) /\ \A options : HasOption(x, options) => HasOption(y, options)
    BY <1>4, <2>1, MoreAdded DEF x
  <2> HIDE DEF y
  <2>3. Added(y \o allowed) /\ \A options : HasOption(y, options) => HasOption(y \o allowed, options)
    BY <1>5, <2>2, MoreAdded
  <2> QED
    BY <2>1, <2>2, <2>3 DEF x, y
<1> HIDE DEF app
<1> QED
  BY <1>2, <1>3, <1>6, <1>9, <1>10 DEF p

-----------------------------------------------------------------------------
(* What the server reads.                                                  *)

\* The aligned arguments: the passes over those of the user, then Nook's own
Seen(args, app, seen) ==
    LET m == Len(args) n == Len(app) p == Passes(args)
    IN /\ m \in Nat /\ n \in Nat /\ DOMAIN args = 1..m /\ DOMAIN app = 1..n
       /\ Len(seen) = m + n /\ DOMAIN seen = 1..m + n
       /\ \A k \in 1..m : seen[k] = p[k]
       /\ \A k \in 1..n : seen[m + k] = app[k]

LEMMA AlignedIsSeen ==
  ASSUME NEW S, NEW args \in Seq(S), NEW app, Added(app)
  PROVE  /\ Seen(args, app, Passes(args) \o app)
         /\ \E T : Passes(args) \o app \in Seq(T)
<1> DEFINE m == Len(args)
           n == Len(app)
           p == Passes(args)
           T == {p[k] : k \in 1..m} \cup Addition
           seen == p \o app
<1>1. m \in Nat /\ DOMAIN args = 1..m
  BY LenProperties
<1>2. app \in Seq(T)
  BY SeqMonotonic DEF Added
<1>3. n \in Nat /\ DOMAIN app = 1..n
  BY LenProperties DEF Added
<1>4. Len(p) = m /\ p = [k \in 1..m |-> p[k]]
  BY PassesAreASequence
<1> HIDE DEF p, n
<1>5. p \in [1..m -> T]
  BY <1>4
<1>6. p \in Seq(T)
  BY <1>1, <1>5, SeqDef
<1> HIDE DEF T
<1>7. /\ seen \in Seq(T) /\ Len(seen) = Len(p) + Len(app)
      /\ \A k \in 1..Len(p) + Len(app) : seen[k] = IF k <= Len(p) THEN p[k] ELSE app[k - Len(p)]
  BY <1>2, <1>6, ConcatProperties
<1>8. /\ seen \in Seq(T) /\ Len(seen) = m + n
      /\ \A k \in 1..m + n : seen[k] = IF k <= m THEN p[k] ELSE app[k - m]
  BY <1>4, <1>7 DEF n
<1>9. DOMAIN seen = 1..m + n
  BY <1>8, LenProperties
<1> HIDE DEF seen, m
<1>10. \A k \in 1..m : seen[k] = p[k]
  <2>1. \A k \in 1..m : k \in 1..m + n /\ k <= m
    BY <1>1, <1>3
  <2> QED
    BY <1>8, <2>1
<1>11. \A k \in 1..n : seen[m + k] = app[k]
  <2>1. \A k \in 1..n : m + k \in 1..m + n /\ ~(m + k <= m) /\ (m + k) - m = k
    BY <1>1, <1>3
  <2> QED
    BY <1>8, <2>1
<1> QED
  BY <1>1, <1>3, <1>8, <1>9, <1>10, <1>11 DEF Seen, seen, m, n, p

LEMMA Positions ==
  ASSUME NEW m \in Nat, NEW n \in Nat, NEW k \in 1..m + n
  PROVE  k \in 1..m \/ \E j \in 1..n : k = m + j
<1>1. CASE k <= m
  BY <1>1
<1>2. CASE ~(k <= m)
  <2>1. k - m \in 1..n /\ k = m + (k - m)
    BY <1>2
  <2> QED
    BY <2>1
<1> QED
  BY <1>1, <1>2

LEMMA NoSeparatorSeen ==
  ASSUME NEW S, NEW args \in Seq(S), NEW app, Added(app), NEW seen, Seen(args, app, seen),
         \A k \in 1..Len(args) : args[k] # Separator,
         NEW k \in 1..Len(seen)
  PROVE  seen[k] # Separator
<1> DEFINE m == Len(args)
           n == Len(app)
<1>1. /\ m \in Nat /\ n \in Nat /\ Len(seen) = m + n
      /\ \A i \in 1..m : seen[i] = Passes(args)[i]
      /\ \A i \in 1..n : seen[m + i] = app[i]
  BY DEF Seen
<1>2. Separator.name = "--" /\ Separator.value = ""
  BY DEF Separator, Word
<1>3. CASE k \in 1..m
  <2> DEFINE p == Passes(args)
  <2>1. /\ args[k].name \in HostOptions =>
             p[k] = IF args[k].value # "" \/ Valueless(args, k)
                    THEN With(args[k].name, Nooks) ELSE args[k]
        /\ args[k].name \in PortOptions =>
             p[k] = IF args[k].value # "" THEN With(args[k].name, Nooks) ELSE args[k]
        /\ args[k].name \notin HostOptions \cup PortOptions =>
             p[k] = IF TakesValue(args, k, HostOptions \cup PortOptions)
                    THEN Word(Nooks) ELSE args[k]
    BY <1>3, BothPasses
  <2> HIDE DEF p
  <2>2. p[k] = With(args[k].name, Nooks) \/ p[k] = Word(Nooks) \/ p[k] = args[k]
    BY <2>1
  <2>3. p[k] = With(args[k].name, Nooks) => p[k].value # ""
    BY NooksValue, OptionNames
  <2>4. p[k] = Word(Nooks) => p[k].name # "--"
    BY NooksWord DEF Nooks
  <2>5. p[k] # Separator
    BY <1>2, <1>3, <2>2, <2>3, <2>4
  <2> QED
    BY <1>1, <1>3, <2>5 DEF p
<1>4. CASE \E j \in 1..n : k = m + j
  <2>1. PICK j \in 1..n : k = m + j
    BY <1>4
  <2>2. app[j].name \in Nookish \/ app[j].name \in Strict \/ app[j] = Word(Nooks)
    BY DEF Added
  <2>3. app[j].name # "--"
    BY <2>2, NooksWord, OptionNames DEF Nooks
  <2> QED
    BY <1>1, <1>2, <2>1, <2>3
<1>5. k \in 1..m \/ \E j \in 1..n : k = m + j
  <2> HIDE DEF m, n
  <2> QED
    BY <1>1, Positions
<1> QED
  BY <1>3, <1>4, <1>5

\* What the server reads at an occurrence of an option
ValueAt(args, i) ==
    CASE args[i].value # "" -> args[i].value
      [] args[i].value = "" /\ i < Len(args) /\ ~Dash(args[i + 1]) -> args[i + 1].name
      [] OTHER -> ""

LEMMA ReadsItsValues ==
  ASSUME NEW args, NEW options
  PROVE  Reads(args, options)
           = {ValueAt(args, i) : i \in {i \in DOMAIN args : args[i].name \in options}}
  BY DEF Reads, ValueAt

LEMMA ReadsHere ==
  ASSUME NEW args, NEW i, args[i].value = "", i < Len(args), args[i + 1] = Word(Nooks)
  PROVE  ValueAt(args, i) = Nooks
  BY NooksWord DEF ValueAt

Occurs(args, app, seen, options, k) ==
    /\ Added(app) /\ Seen(args, app, seen) /\ options \in {PortOptions, HostOptions}
    /\ k \in 1..Len(args) /\ args[k].name \in options

HasValue(args, options, k) ==
    \/ args[k].value # "" \/ options = HostOptions
    \/ k < Len(args) /\ ~Dash(args[k + 1])

LEMMA OccurrenceStays ==
  ASSUME NEW S, NEW args \in Seq(S), NEW app, NEW seen, NEW options, NEW k,
         Occurs(args, app, seen, options, k)
  PROVE  seen[k].name = args[k].name
<1> DEFINE p == Passes(args)
<1>1. k \in 1..Len(args) /\ args[k].name \in HostOptions \cup PortOptions
  BY DEF Occurs
<1>2. p[k] = With(args[k].name, Nooks) \/ p[k] = args[k]
  BY <1>1, BothPasses
<1>3. seen[k] = p[k]
  BY <1>1 DEF Occurs, Seen
<1> HIDE DEF p
<1> QED
  BY <1>2, <1>3, NooksValue

\* At the user's occurrences, overwritten
LEMMA ReadsOverwritten ==
  ASSUME NEW S, NEW args \in Seq(S), NEW app, NEW seen, NEW options, NEW k,
         Occurs(args, app, seen, options, k)
  PROVE  /\ ValueAt(seen, k) = Nooks \/ ValueAt(seen, k) = ""
         /\ HasValue(args, options, k) => ValueAt(seen, k) = Nooks
<1> USE DEF Occurs, HasValue
<1> DEFINE m == Len(args)
           n == Len(app)
           p == Passes(args)
<1>1. /\ m \in Nat /\ n \in Nat /\ Len(seen) = m + n
      /\ \A i \in 1..m : seen[i] = p[i]
      /\ \A i \in 1..n : seen[m + i] = app[i]
  BY DEF Seen
<1>2. args[k].name \in HostOptions \/ args[k].name \in PortOptions
  OBVIOUS
<1>3. /\ args[k].name \in HostOptions =>
           p[k] = IF args[k].value # "" \/ Valueless(args, k)
                  THEN With(args[k].name, Nooks) ELSE args[k]
      /\ args[k].name \in PortOptions =>
           p[k] = IF args[k].value # "" THEN With(args[k].name, Nooks) ELSE args[k]
  BY BothPasses
<1>4. \A i \in 1..m : Dash(p[i]) <=> Dash(args[i])
  BY BothPasses
<1>5. options = HostOptions <=> args[k].name \in HostOptions
  BY OptionNames
<1> HIDE DEF p
<1>6. p[k] = With(args[k].name, Nooks) \/ p[k] = args[k]
  BY <1>2, <1>3
<1>7. seen[k] = p[k] /\ seen[k].name = args[k].name
  BY <1>1, <1>6, NooksValue
<1>8. CASE p[k] = With(args[k].name, Nooks)
  <2>1. seen[k].value = Nooks
    BY <1>7, <1>8, NooksValue
  <2>2. ValueAt(seen, k) = Nooks
    BY <2>1, OptionNames DEF ValueAt
  <2> QED
    BY <1>7, <2>2
<1>9. CASE p[k] # With(args[k].name, Nooks)
  <2>1. /\ seen[k] = args[k] /\ args[k].value = ""
        /\ options = HostOptions => ~Valueless(args, k)
    BY <1>2, <1>3, <1>5, <1>6, <1>7, <1>9
  <2>2. CASE ~Valueless(args, k)
    <3>1. k < m /\ k + 1 \in 1..m /\ ~Dash(args[k + 1])
      BY <1>1, <2>2 DEF Valueless
    <3>2. TakesValue(args, k + 1, HostOptions \cup PortOptions)
      <4>1. k + 1 > 1 /\ (k + 1) - 1 = k
        BY <1>1
      <4> QED
        BY <1>2, <2>1, <3>1, <4>1 DEF TakesValue
    <3>3. args[k + 1].name \notin HostOptions \cup PortOptions
      BY <3>1, OptionNames DEF Dash
    <3>4. p[k + 1] = Word(Nooks)
      BY <3>1, <3>2, <3>3, BothPasses DEF p
    <3>5. seen[k + 1] = Word(Nooks) /\ k < Len(seen)
      BY <1>1, <3>1, <3>4
    <3>6. ValueAt(seen, k) = Nooks
      BY <2>1, <3>5, ReadsHere
    <3> QED
      BY <1>7, <3>6
  <2>3. CASE Valueless(args, k)
    <3>1. options # HostOptions /\ ~(k < m /\ ~Dash(args[k + 1]))
      <4>1. options # HostOptions
        BY <2>1, <2>3
      <4>2. k < m => Dash(args[k + 1])
        BY <1>1, <2>3 DEF Valueless
      <4> QED
        BY <4>1, <4>2
    <3>2. ~(k < Len(seen) /\ ~Dash(seen[k + 1]))
      <4>1. CASE k < m
        <5>1. Dash(args[k + 1]) /\ k + 1 \in 1..m
          BY <1>1, <3>1, <4>1
        <5> QED
          BY <1>1, <1>4, <5>1
      <4>2. CASE k = m
        <5>1. CASE n = 0
          BY <1>1, <4>2, <5>1
        <5>2. CASE n > 0
          <6>1. 1 \in 1..n
            BY <1>1, <5>2
          <6>2. Dash(app[1])
            BY <5>2 DEF Added
          <6> QED
            BY <1>1, <4>2, <6>1, <6>2
        <5> QED
          BY <1>1, <5>1, <5>2
      <4> QED
        BY <1>1, <4>1, <4>2
    <3>3. ValueAt(seen, k) = ""
      BY <2>1, <3>2 DEF ValueAt
    <3> QED
      BY <1>7, <2>1, <3>1, <3>3
  <2> QED
    BY <2>2, <2>3
<1> QED
  BY <1>8, <1>9

\* At the occurrences that Nook adds
LEMMA ReadsAdded ==
  ASSUME NEW args, NEW app, Added(app), NEW seen, Seen(args, app, seen),
         NEW j \in 1..Len(app), app[j].name \in Nookish
  PROVE  seen[Len(args) + j] = app[j] /\ ValueAt(seen, Len(args) + j) = Nooks
<1> DEFINE m == Len(args)
           n == Len(app)
<1>1. /\ m \in Nat /\ n \in Nat /\ Len(seen) = m + n
      /\ \A i \in 1..n : seen[m + i] = app[i]
  BY DEF Seen
<1>2. app[j].name \notin Strict /\ app[j] # Word(Nooks)
  BY OptionNames, NooksWord
<1>3. app[j].value = "" /\ j < n /\ app[j + 1] = Word(Nooks)
  BY <1>2 DEF Added
<1>4. j + 1 \in 1..n /\ m + (j + 1) = (m + j) + 1 /\ m + j < m + n
  <2>1. j < n
    BY <1>3
  <2> HIDE DEF m, n
  <2> QED
    BY <1>1, <2>1
<1>5. /\ seen[m + j] = app[j] /\ seen[(m + j) + 1] = Word(Nooks) /\ m + j < Len(seen)
      /\ seen[m + j].value = ""
  BY <1>1, <1>3, <1>4
<1>6. ValueAt(seen, m + j) = Nooks
  BY <1>5, ReadsHere
<1> QED
  BY <1>5, <1>6

\* Overwriting makes no argument an option that was none.
LEMMA NewOccurrence ==
  ASSUME NEW S, NEW args \in Seq(S), NEW app, NEW seen, Seen(args, app, seen),
         NEW options, options \subseteq Options, NEW k \in 1..Len(args),
         seen[k].name \in options
  PROVE  args[k].name \in options /\ seen[k].name = args[k].name
<1> DEFINE p == Passes(args)
<1>1. seen[k] = p[k]
  BY DEF Seen
<1>2. /\ args[k].name \in HostOptions =>
           p[k] = IF args[k].value # "" \/ Valueless(args, k)
                  THEN With(args[k].name, Nooks) ELSE args[k]
      /\ args[k].name \in PortOptions =>
           p[k] = IF args[k].value # "" THEN With(args[k].name, Nooks) ELSE args[k]
      /\ args[k].name \notin HostOptions \cup PortOptions =>
           p[k] = IF TakesValue(args, k, HostOptions \cup PortOptions)
                  THEN Word(Nooks) ELSE args[k]
  BY BothPasses
<1> HIDE DEF p
<1>3. p[k] = With(args[k].name, Nooks) \/ p[k] = Word(Nooks) \/ p[k] = args[k]
  BY <1>2
<1>4. p[k] # Word(Nooks)
  BY <1>1, NooksWord, OptionNames
<1>5. p[k].name = args[k].name
  BY <1>3, <1>4, NooksValue
<1> QED
  BY <1>1, <1>5

LEMMA ReadsNook ==
  ASSUME NEW S, NEW args \in Seq(S), NEW app, Added(app), NEW seen, Seen(args, app, seen),
         NEW options \in {PortOptions, HostOptions},
         Overwritten(args, options) \/ HasOption(app, options)
  PROVE  Nooks \in Reads(seen, options) /\ Reads(seen, options) \subseteq {Nooks, ""}
<1> DEFINE m == Len(args)
           n == Len(app)
<1>1. /\ m \in Nat /\ n \in Nat /\ DOMAIN seen = 1..m + n
      /\ DOMAIN args = 1..m /\ DOMAIN app = 1..n
      /\ \A i \in 1..n : seen[m + i] = app[i]
      /\ \A i \in 1..m : i \in 1..m + n
      /\ \A i \in 1..n : m + i \in 1..m + n
  BY DEF Seen
<1>2. \A x \in options : x \in Nookish
  BY OptionNames
<1>3. Nooks \in Reads(seen, options)
  <2>1. CASE Overwritten(args, options)
    <3>1. PICK i \in 1..Len(args) :
            args[i].name \in options /\ HasValue(args, options, i)
      BY <1>1, <2>1 DEF Overwritten, HasValue
    <3>2. Occurs(args, app, seen, options, i)
      BY <3>1 DEF Occurs
    <3>3. ASSUME NEW k, Occurs(args, app, seen, options, k), HasValue(args, options, k)
          PROVE  seen[k].name = args[k].name /\ ValueAt(seen, k) = Nooks
      <4>1. seen[k].name = args[k].name
        BY <3>3, OccurrenceStays
      <4>2. HasValue(args, options, k) => ValueAt(seen, k) = Nooks
        BY <3>3, ReadsOverwritten
      <4> QED
        BY <3>3, <4>1, <4>2
    <3>4. seen[i].name = args[i].name /\ ValueAt(seen, i) = Nooks
      BY <3>1, <3>2, <3>3
    <3> QED
      BY <1>1, <3>1, <3>4, ReadsItsValues
  <2>2. CASE HasOption(app, options)
    <3>1. PICK j \in DOMAIN app : app[j].name \in options
      BY <2>2 DEF HasOption
    <3>2. j \in 1..n
      BY <1>1
    <3>3. seen[m + j] = app[j] /\ ValueAt(seen, m + j) = Nooks
      BY <1>2, <3>1, <3>2, ReadsAdded
    <3>4. m + j \in DOMAIN seen /\ seen[m + j].name \in options
      BY <1>1, <3>1, <3>2, <3>3
    <3> QED
      BY <3>3, <3>4, ReadsItsValues
  <2> QED
    BY <2>1, <2>2
<1>4. ASSUME NEW i \in DOMAIN seen, seen[i].name \in options
      PROVE  ValueAt(seen, i) \in {Nooks, ""}
  <2>1. CASE i \in 1..m
    <3>1. CASE args[i].name \in options
      <4>1. Occurs(args, app, seen, options, i)
        BY <2>1, <3>1 DEF Occurs
      <4> QED
        BY <4>1, ReadsOverwritten
    <3>2. CASE args[i].name \notin options
      <4>1. options \subseteq Options
        BY OptionNames
      <4> QED
        BY <1>4, <2>1, <3>2, <4>1, NewOccurrence
    <3> QED
      BY <3>1, <3>2
  <2>2. CASE \E j \in 1..n : i = m + j
    <3>1. PICK j \in 1..n : i = m + j
      BY <2>2
    <3>2. app[j].name \in Nookish
      BY <1>1, <1>2, <1>4, <3>1
    <3>3. ValueAt(seen, m + j) = Nooks
      BY <3>2, ReadsAdded
    <3> QED
      BY <3>1, <3>3
  <2>3. i \in 1..m \/ \E j \in 1..n : i = m + j
    <3>1. i \in 1..m + n
      BY <1>1
    <3> HIDE DEF m, n
    <3> QED
      BY <1>1, <3>1, Positions
  <2> QED
    BY <2>1, <2>2, <2>3
<1>5. Reads(seen, options) \subseteq {Nooks, ""}
  BY <1>4, ReadsItsValues
<1> QED
  BY <1>3, <1>5

-----------------------------------------------------------------------------
(* What the server is not told anew.                                       *)

\* The value of an option that Nook answers for, in a place of its own
IsAnswer(args, k) ==
    k > 1 /\ ~Dash(args[k]) /\ args[k - 1].name \in Nookish /\ args[k - 1].value = ""

LEMMA OthersAre ==
  ASSUME NEW args, NEW k \in DOMAIN args
  PROVE  k \in Others(args) <=> args[k].name \notin Nookish \cup Strict /\ ~IsAnswer(args, k)
  BY DEF Others, IsAnswer

LEMMA NamesStay ==
  ASSUME NEW S, NEW args \in Seq(S), NEW app, NEW seen, Seen(args, app, seen),
         NEW k \in 1..Len(args)
  PROVE  /\ args[k].name \in Nookish \cup Strict <=> seen[k].name \in Nookish \cup Strict
         /\ args[k].name \in Nookish <=> seen[k].name \in Nookish
         /\ Dash(seen[k]) <=> Dash(args[k])
<1> DEFINE p == Passes(args)
<1>1. seen[k] = p[k]
  BY DEF Seen
<1>2. /\ args[k].name \in HostOptions =>
           p[k] = IF args[k].value # "" \/ Valueless(args, k)
                  THEN With(args[k].name, Nooks) ELSE args[k]
      /\ args[k].name \in PortOptions =>
           p[k] = IF args[k].value # "" THEN With(args[k].name, Nooks) ELSE args[k]
      /\ args[k].name \notin HostOptions \cup PortOptions =>
           p[k] = IF TakesValue(args, k, HostOptions \cup PortOptions)
                  THEN Word(Nooks) ELSE args[k]
      /\ Dash(p[k]) <=> Dash(args[k])
  BY BothPasses
<1> HIDE DEF p
<1>3. CASE p[k] = With(args[k].name, Nooks) \/ p[k] = args[k]
  <2>1. seen[k].name = args[k].name
    BY <1>1, <1>3, NooksValue
  <2> QED
    BY <1>1, <1>2, <2>1
<1>4. CASE p[k] = Word(Nooks) /\ TakesValue(args, k, HostOptions \cup PortOptions)
  <2>1. args[k].name \notin Nookish \cup Strict
    BY <1>4, OptionNames DEF TakesValue, Dash
  <2>2. seen[k].name \notin Nookish \cup Strict
    BY <1>1, <1>4, NooksWord, OptionNames
  <2> QED
    BY <1>1, <1>2, <2>1, <2>2
<1> QED
  BY <1>2, <1>3, <1>4

LEMMA AnswersStay ==
  ASSUME NEW S, NEW args \in Seq(S), NEW app, NEW seen, Seen(args, app, seen),
         NEW k \in 1..Len(args)
  PROVE  IsAnswer(seen, k) <=> IsAnswer(args, k)
<1>1. Len(args) \in Nat
  BY LenProperties
<1>2. CASE k = 1
  BY <1>2 DEF IsAnswer
<1>3. CASE k > 1
  <2> DEFINE j == k - 1
             p == Passes(args)
  <2>1. j \in 1..Len(args) /\ j + 1 = k /\ j # Len(args)
    BY <1>1, <1>3
  <2> HIDE DEF j
  <2>2. seen[j] = p[j]
    BY <2>1 DEF Seen
  <2>3. /\ args[j].name \in HostOptions =>
             p[j] = IF args[j].value # "" \/ Valueless(args, j)
                    THEN With(args[j].name, Nooks) ELSE args[j]
        /\ args[j].name \in PortOptions =>
             p[j] = IF args[j].value # "" THEN With(args[j].name, Nooks) ELSE args[j]
        /\ args[j].name \notin HostOptions \cup PortOptions =>
             p[j] = IF TakesValue(args, j, HostOptions \cup PortOptions)
                    THEN Word(Nooks) ELSE args[j]
    BY <2>1, BothPasses
  <2> HIDE DEF p
  <2>4. /\ args[j].name \in Nookish <=> seen[j].name \in Nookish
        /\ Dash(seen[k]) <=> Dash(args[k])
    BY <2>1, NamesStay
  <2>5. ASSUME ~Dash(args[k]), args[j].name \in Nookish
        PROVE  args[j].value = "" <=> seen[j].value = ""
    <3>1. ~TakesValue(args, j, HostOptions \cup PortOptions)
      BY <2>5, OptionNames DEF TakesValue, Dash
    <3>2. ~Valueless(args, j)
      BY <2>1, <2>5 DEF Valueless
    <3>3. CASE args[j].value # ""
      <4>1. p[j] = With(args[j].name, Nooks) \/ p[j] = args[j]
        BY <2>3, <3>1
      <4>2. p[j] = With(args[j].name, Nooks) => p[j].value # ""
        BY NooksValue, OptionNames
      <4> QED
        BY <2>2, <3>3, <4>1, <4>2
    <3>4. CASE args[j].value = ""
      <4>1. p[j] = args[j]
        BY <2>3, <3>1, <3>2, <3>4
      <4> QED
        BY <2>2, <3>4, <4>1
    <3> QED
      BY <3>3, <3>4
  <2>6. IsAnswer(args, k) <=> ~Dash(args[k]) /\ args[j].name \in Nookish /\ args[j].value = ""
    BY <1>3 DEF IsAnswer, j
  <2>7. IsAnswer(seen, k) <=> ~Dash(seen[k]) /\ seen[j].name \in Nookish /\ seen[j].value = ""
    BY <1>3 DEF IsAnswer, j
  <2> QED
    BY <2>4, <2>5, <2>6, <2>7
<1> QED
  BY <1>1, <1>2, <1>3

LEMMA OthersStay ==
  ASSUME NEW S, NEW args \in Seq(S), NEW app, Added(app), NEW seen, Seen(args, app, seen)
  PROVE  Others(seen) = Others(args) /\ \A k \in Others(seen) : seen[k] = args[k]
<1> DEFINE m == Len(args)
           n == Len(app)
<1>1. /\ m \in Nat /\ n \in Nat /\ DOMAIN seen = 1..m + n /\ DOMAIN args = 1..m
      /\ \A i \in 1..m : seen[i] = Passes(args)[i] /\ i \in DOMAIN seen
      /\ \A i \in 1..n : seen[m + i] = app[i]
  BY DEF Seen
<1>2. ASSUME NEW k \in 1..m PROVE k \in Others(seen) <=> k \in Others(args)
  <2>1. k \in DOMAIN args /\ k \in DOMAIN seen
    BY <1>1
  <2> QED
    BY <2>1, OthersAre, NamesStay, AnswersStay
<1>3. ASSUME NEW j \in 1..n, m + j \in Others(seen) PROVE FALSE
  <2>1. /\ app[j].name \notin Nookish \cup Strict /\ ~IsAnswer(seen, m + j)
    <3>1. m + j \in DOMAIN seen
      BY <1>1
    <3>2. seen[m + j].name \notin Nookish \cup Strict /\ ~IsAnswer(seen, m + j)
      BY <1>3, <3>1, OthersAre
    <3> QED
      BY <1>1, <3>2
  <2>2. app[j] = Word(Nooks) /\ j > 1 /\ app[j - 1].name \in Nookish /\ app[j - 1].value = ""
    BY <2>1 DEF Added
  <2>3. j - 1 \in 1..n /\ m + (j - 1) = (m + j) - 1 /\ m + j > 1
    <3>1. j > 1
      BY <2>2
    <3> HIDE DEF m, n
    <3> QED
      BY <1>1, <3>1
  <2>4. seen[(m + j) - 1] = app[j - 1] /\ seen[m + j] = Word(Nooks)
    BY <1>1, <2>2, <2>3
  <2> QED
    BY <2>1, <2>2, <2>3, <2>4, NooksWord DEF IsAnswer
<1>4. \A k \in DOMAIN seen : k \in 1..m \/ \E j \in 1..n : k = m + j
  <2> SUFFICES ASSUME NEW k \in DOMAIN seen
               PROVE  k \in 1..m \/ \E j \in 1..n : k = m + j
    OBVIOUS
  <2>1. k \in 1..m + n
    BY <1>1
  <2> HIDE DEF m, n
  <2> QED
    BY <1>1, <2>1, Positions
<1>5. Others(seen) \subseteq DOMAIN seen /\ Others(args) \subseteq DOMAIN args
  BY DEF Others
<1>6. Others(seen) = Others(args)
  <2> HIDE DEF m, n
  <2> QED
    BY <1>1, <1>2, <1>3, <1>4, <1>5
<1>7. ASSUME NEW k \in 1..m, k \in Others(args) PROVE seen[k] = args[k]
  <2>1. args[k].name \notin Nookish \cup Strict /\ ~IsAnswer(args, k)
    BY <1>1, <1>7, OthersAre
  <2>2. args[k].name \notin HostOptions \cup PortOptions
    BY <2>1, OptionNames
  <2>3. ~TakesValue(args, k, HostOptions \cup PortOptions)
    BY <2>1, OptionNames DEF TakesValue, IsAnswer
  <2>4. Passes(args)[k] = args[k]
    BY <2>2, <2>3, BothPasses
  <2> QED
    BY <1>1, <2>4
<1> QED
  BY <1>1, <1>5, <1>6, <1>7

-----------------------------------------------------------------------------
(* The whole command.                                                      *)

LEMMA Slice ==
  ASSUME NEW S, NEW s \in Seq(S), NEW a \in Nat, a > 0, NEW c \in Nat, c <= Len(s), a <= c + 1
  PROVE  /\ SubSeq(s, a, c) \in Seq(S) /\ Len(SubSeq(s, a, c)) = (c - a) + 1
         /\ \A k \in 1..(c - a) + 1 : SubSeq(s, a, c)[k] = s[(a + k) - 1]
<1>1. Len(s) \in Nat /\ a \in Int /\ c \in Int
  BY LenProperties
<1>2. \A j \in a..c : s[j] \in S
  BY <1>1
<1>3. /\ SubSeq(s, a, c) \in Seq(S)
      /\ Len(SubSeq(s, a, c)) = IF a <= c THEN c - a + 1 ELSE 0
      /\ \A k \in 1..c - a + 1 : SubSeq(s, a, c)[k] = s[a + k - 1]
  BY <1>1, <1>2, SubSeqProperties
<1> QED
  BY <1>1, <1>3

LEMMA Parts ==
  ASSUME NEW S, NEW x \in Seq(S), NEW y \in Seq(S)
  PROVE  /\ x \o y \in Seq(S) /\ Len(x \o y) = Len(x) + Len(y)
         /\ SubSeq(x \o y, 1, Len(x)) = x
         /\ SubSeq(x \o y, Len(x) + 1, Len(x \o y)) = y
<1> DEFINE z == x \o y
           m == Len(x)
           n == Len(y)
<1>1. m \in Nat /\ n \in Nat
  BY LenProperties
<1>2. /\ z \in Seq(S) /\ Len(z) = m + n
      /\ \A k \in 1..m + n : z[k] = IF k <= m THEN x[k] ELSE y[k - m]
  BY ConcatProperties
<1> HIDE DEF z
<1> DEFINE front == SubSeq(z, 1, m)
           back == SubSeq(z, m + 1, m + n)
<1>3. front = x
  <2>1. front \in Seq(S) /\ Len(front) = m /\ \A k \in 1..m : front[k] = z[(1 + k) - 1]
    <3>1. 1 \in Nat /\ 1 > 0 /\ m <= Len(z) /\ 1 <= m + 1 /\ (m - 1) + 1 = m
      BY <1>1, <1>2
    <3> QED
      BY <1>1, <1>2, <3>1, Slice
  <2> HIDE DEF front, m
  <2>2. ASSUME NEW k \in 1..m PROVE front[k] = x[k]
    <3>1. k \in 1..m + n /\ k <= m /\ (1 + k) - 1 = k
      BY <1>1
    <3> QED
      BY <1>2, <2>1, <3>1
  <2> QED
    BY <2>1, <2>2, SeqEqual DEF m
<1>4. back = y
  <2>1. back \in Seq(S) /\ Len(back) = n /\ \A k \in 1..n : back[k] = z[((m + 1) + k) - 1]
    <3>1. /\ m + 1 \in Nat /\ m + 1 > 0 /\ m + n \in Nat /\ m + n <= Len(z)
          /\ m + 1 <= (m + n) + 1 /\ ((m + n) - (m + 1)) + 1 = n
      BY <1>1, <1>2
    <3> HIDE DEF m, n
    <3> QED
      BY <1>2, <3>1, Slice
  <2> HIDE DEF back, m, n
  <2>2. ASSUME NEW k \in 1..n PROVE back[k] = y[k]
    <3>1. /\ m + k \in 1..m + n /\ ~(m + k <= m) /\ (m + k) - m = k
          /\ ((m + 1) + k) - 1 = m + k
      BY <1>1
    <3> QED
      BY <1>2, <2>1, <3>1
  <2> QED
    BY <2>1, <2>2, SeqEqual DEF n
<1> QED
  BY <1>2, <1>3, <1>4 DEF z

LEMMA FirstSeparatorIs ==
  ASSUME NEW S, NEW s \in Seq(S)
  PROVE  /\ FirstSeparator(s) \in 1..Len(s) + 1 /\ Len(s) \in Nat
         /\ \A k \in 1..FirstSeparator(s) - 1 : k \in 1..Len(s) /\ s[k] # Separator
         /\ FirstSeparator(s) <= Len(s) => s[FirstSeparator(s)] = Separator
<1> DEFINE found == {i \in DOMAIN s : s[i] = Separator}
           f == FirstSeparator(s)
<1>1. Len(s) \in Nat /\ DOMAIN s = 1..Len(s) /\ found \in SUBSET (DOMAIN s)
  BY LenProperties
<1>2. f = First(s, found)
  BY DEF FirstSeparator
<1> HIDE DEF found, f
<1>3. /\ f \in 1..Len(s) + 1 /\ (f \in found \/ f = Len(s) + 1) /\ \A k \in found : f <= k
  BY <1>1, <1>2, FirstFound
<1>4. ASSUME NEW k \in 1..f - 1 PROVE k \in 1..Len(s) /\ s[k] # Separator
  <2>1. k \in 1..Len(s) /\ ~(f <= k)
    BY <1>1, <1>3
  <2> QED
    BY <1>1, <1>3, <2>1 DEF found
<1>5. f <= Len(s) => s[f] = Separator
  BY <1>1, <1>3 DEF found
<1> QED
  BY <1>1, <1>3, <1>4, <1>5 DEF f

\* Arguments without a separator, followed by nothing or by one
LEMMA SeparatorAfter ==
  ASSUME NEW S, NEW x \in Seq(S), NEW y \in Seq(S),
         \A k \in 1..Len(x) : x[k] # Separator,
         Len(y) > 0 => y[1] = Separator
  PROVE  BeforeSeparator(x \o y) = x
<1> DEFINE z == x \o y
           m == Len(x)
           n == Len(y)
           f == FirstSeparator(z)
<1>1. m \in Nat /\ n \in Nat
  BY LenProperties
<1>2. /\ z \in Seq(S) /\ Len(z) = m + n
      /\ \A k \in 1..m + n : z[k] = IF k <= m THEN x[k] ELSE y[k - m]
  BY ConcatProperties
<1> HIDE DEF z
<1>3. /\ f \in 1..(m + n) + 1
      /\ \A k \in 1..f - 1 : k \in 1..m + n /\ z[k] # Separator
      /\ f <= m + n => z[f] = Separator
  BY <1>2, FirstSeparatorIs
<1> HIDE DEF f
<1>4. ~(f <= m)
  <2> SUFFICES ASSUME f <= m PROVE FALSE
    OBVIOUS
  <2>1. f \in 1..m /\ f \in 1..m + n /\ f <= m + n
    BY <1>1, <1>3
  <2> QED
    BY <1>2, <1>3, <2>1
<1>5. ~(f > m + 1)
  <2> SUFFICES ASSUME f > m + 1 PROVE FALSE
    OBVIOUS
  <2>1. m + 1 \in 1..f - 1 /\ m + 1 \in 1..m + n /\ n > 0 /\ ~(m + 1 <= m) /\ (m + 1) - m = 1
    BY <1>1, <1>3
  <2>2. z[m + 1] = y[1]
    BY <1>2, <2>1
  <2>3. y[1] = Separator
    BY <2>1
  <2> QED
    BY <1>3, <2>1, <2>2, <2>3
<1>6. f - 1 = m
  BY <1>1, <1>3, <1>4, <1>5
<1>7. SubSeq(z, 1, m) = x
  BY Parts DEF z
<1> QED
  BY <1>6, <1>7 DEF BeforeSeparator, f, z

LEMMA BeforeAndAfterSeparator ==
  ASSUME NEW S, NEW args \in Seq(S)
  PROVE  LET before == BeforeSeparator(args)
             rest == SubSeq(args, FirstSeparator(args), Len(args))
         IN /\ before \in Seq(S) /\ rest \in Seq(S)
            /\ \A k \in 1..Len(before) : before[k] = args[k] /\ before[k] # Separator
            /\ Len(rest) > 0 => rest[1] = Separator
            /\ FirstSeparator(args) = Len(before) + 1
<1> DEFINE f == FirstSeparator(args)
           n == Len(args)
           before == SubSeq(args, 1, f - 1)
           rest == SubSeq(args, f, n)
<1>1. /\ f \in 1..n + 1 /\ n \in Nat
      /\ \A k \in 1..f - 1 : k \in 1..n /\ args[k] # Separator
      /\ f <= n => args[f] = Separator
  BY FirstSeparatorIs
<1> HIDE DEF f
<1>2. /\ before \in Seq(S) /\ Len(before) = f - 1
      /\ \A k \in 1..f - 1 : before[k] = args[k]
  <2>1. 1 \in Nat /\ 1 > 0 /\ f - 1 \in Nat /\ f - 1 <= n /\ 1 <= (f - 1) + 1
    BY <1>1
  <2>2. /\ before \in Seq(S) /\ Len(before) = ((f - 1) - 1) + 1
        /\ \A k \in 1..((f - 1) - 1) + 1 : before[k] = args[(1 + k) - 1]
    BY <2>1, Slice
  <2> HIDE DEF before
  <2>3. ((f - 1) - 1) + 1 = f - 1 /\ \A k \in 1..f - 1 : (1 + k) - 1 = k
    BY <1>1
  <2> QED
    BY <2>2, <2>3
<1>3. rest \in Seq(S) /\ Len(rest) = (n - f) + 1 /\ \A k \in 1..(n - f) + 1 : rest[k] = args[(f + k) - 1]
  <2>1. f \in Nat /\ f > 0 /\ n <= n /\ f <= n + 1
    BY <1>1
  <2> QED
    BY <1>1, <2>1, Slice
<1> HIDE DEF before, rest, n
<1>4. Len(rest) > 0 => rest[1] = Separator
  <2> SUFFICES ASSUME Len(rest) > 0 PROVE rest[1] = Separator
    OBVIOUS
  <2>1. f <= n /\ 1 \in 1..(n - f) + 1 /\ (f + 1) - 1 = f
    BY <1>1, <1>3
  <2> QED
    BY <1>1, <1>3, <2>1
<1>5. f = Len(before) + 1
  BY <1>1, <1>2
<1> QED
  BY <1>1, <1>2, <1>3, <1>4, <1>5 DEF before, rest, f, n, BeforeSeparator

LEMMA InjectedIsAligned ==
  ASSUME NEW S, NEW argv \in Seq(S), NEW i \in 1..Len(argv), NEW framework, NEW strict
  PROVE  LET args == After(argv, i)
             seen == Aligned(framework, BeforeSeparator(args), strict)
             rest == SubSeq(args, FirstSeparator(args), Len(args))
             child == SubSeq(argv, 1, i) \o seen \o rest
         IN ListensAsTold(child, i, BeforeSeparator(After(child, i)), args)
<1> DEFINE args == After(argv, i)
           before == BeforeSeparator(args)
           seen == Aligned(framework, before, strict)
           rest == SubSeq(args, FirstSeparator(args), Len(args))
           first == SubSeq(argv, 1, i)
           child == first \o seen \o rest
<1>1. args \in Seq(S)
  BY AfterIsASequence
<1>2. first \in Seq(S) /\ Len(first) = i
  <2>1. Len(argv) \in Nat
    BY LenProperties
  <2>2. 1 \in Nat /\ 1 > 0 /\ i \in Nat /\ i <= Len(argv) /\ 1 <= i + 1 /\ (i - 1) + 1 = i
    BY <2>1
  <2> QED
    BY <2>2, Slice
<1> HIDE DEF args, first
<1>3. /\ before \in Seq(S) /\ rest \in Seq(S)
      /\ \A k \in 1..Len(before) : before[k] = args[k] /\ before[k] # Separator
      /\ Len(rest) > 0 => rest[1] = Separator
      /\ FirstSeparator(args) = Len(before) + 1
  BY <1>1, BeforeAndAfterSeparator
<1> HIDE DEF before
<1>4. PICK app : /\ Added(app) /\ seen = Passes(before) \o app
                 /\ \A options \in {PortOptions, HostOptions} :
                      Overwritten(before, options) \/ HasOption(app, options)
  <2>1. before \in Seq(S)
    BY <1>3
  <2> QED
    BY <2>1, AlignedAdds
<1> HIDE DEF seen
<1>5. Seen(before, app, seen) /\ \E T : seen \in Seq(T)
  BY <1>3, <1>4, AlignedIsSeen
<1>6. PICK T : seen \in Seq(T)
  BY <1>5
<1>7. ASSUME NEW k \in 1..Len(seen) PROVE seen[k] # Separator
  <2>1. /\ before \in Seq(S) /\ Added(app) /\ Seen(before, app, seen)
        /\ \A j \in 1..Len(before) : before[j] # Separator
    BY <1>3, <1>4, <1>5
  <2> QED
    BY <2>1, NoSeparatorSeen
<1>8. \A options \in {PortOptions, HostOptions} :
        Nooks \in Reads(seen, options) /\ Reads(seen, options) \subseteq {Nooks, ""}
  BY <1>3, <1>4, <1>5, ReadsNook
<1>9. Others(seen) = Others(before) /\ \A k \in Others(seen) : seen[k] = before[k]
  <2>1. before \in Seq(S) /\ Added(app) /\ Seen(before, app, seen)
    BY <1>3, <1>4, <1>5
  <2> QED
    BY <2>1, OthersStay
<1>10. \A k \in Others(seen) : seen[k] = args[k]
  <2>1. Others(before) \subseteq 1..Len(before)
    BY <1>3, LenProperties DEF Others
  <2> QED
    BY <1>3, <1>9, <2>1
<1> HIDE DEF rest
<1> DEFINE U == S \cup T
           tail == seen \o rest
<1>11. first \in Seq(U) /\ seen \in Seq(U) /\ rest \in Seq(U)
  BY <1>2, <1>3, <1>6, SeqMonotonic
<1> HIDE DEF U
<1>12. child = first \o tail
  <2>1. \A s, t, u \in Seq(U) : (s \o t) \o u = s \o (t \o u)
    BY ConcatAssociative
  <2> QED
    BY <1>11, <2>1
<1>13. /\ tail \in Seq(U) /\ Len(tail) = Len(seen) + Len(rest)
       /\ SubSeq(tail, Len(seen) + 1, Len(tail)) = rest
  BY <1>11, Parts
<1>14. BeforeSeparator(tail) = seen
  BY <1>3, <1>7, <1>11, SeparatorAfter
<1> HIDE DEF child, tail
<1>15. After(child, i) = tail /\ Len(child) = i + Len(tail)
  <2>1. /\ Len(first \o tail) = Len(first) + Len(tail)
        /\ SubSeq(first \o tail, Len(first) + 1, Len(first \o tail)) = tail
    <3>1. first \in Seq(U) /\ tail \in Seq(U)
      BY <1>11, <1>13
    <3> QED
      BY <3>1, Parts
  <2> QED
    BY <1>2, <1>12, <2>1 DEF After
<1>16. Len(child) - i = Len(tail)
  BY <1>13, <1>15, LenProperties
<1>17. SubSeq(After(child, i), Len(seen) + 1, Len(child) - i)
         = SubSeq(args, Len(before) + 1, Len(args))
  BY <1>3, <1>13, <1>15, <1>16 DEF rest
<1>18. ListensAsTold(child, i, seen, args)
  BY <1>8, <1>9, <1>10, <1>17 DEF ListensAsTold, before
<1> QED
  BY <1>14, <1>15, <1>18 DEF child, seen, rest, before, args, first

LEMMA AlignedFromAnyCommand ==
  ASSUME NEW S, NEW argv \in Seq(S), Len(argv) > 0, NEW framework, NEW strict
  PROVE  AlignedFor(argv, framework, strict)
<1> DEFINE i == Executable(argv)
           args == After(argv, i)
           aligned == /\ i <= Len(argv) /\ framework # "none"
                      /\ FrameworkOf(argv[i]) = framework /\ Serving(framework, args)
           child == ChildArgv(argv, framework, strict)
<1>1. i \in Nat /\ i > 0 /\ Len(argv) \in Nat
  BY ExecutableIsAPosition, LenProperties
<1>2. CASE aligned
  <2>1. i \in 1..Len(argv) /\ ~(i > Len(argv))
    BY <1>1, <1>2
  <2>2. child = SubSeq(argv, 1, i)
                  \o Aligned(framework, BeforeSeparator(args), strict)
                  \o SubSeq(args, FirstSeparator(args), Len(args))
    BY <1>2, <2>1 DEF ChildArgv, Inject, InjectAt
  <2> HIDE DEF i
  <2>3. ListensAsTold(child, i, BeforeSeparator(After(child, i)), args)
    BY <2>1, <2>2, InjectedIsAligned
  <2> QED
    BY <1>2, <2>3 DEF AlignedFor, AlignedOrUntouched, i
<1>3. CASE ~aligned
  <2>1. child = argv
    BY <1>1, <1>3 DEF ChildArgv, Inject, InjectAt
  <2> QED
    BY <1>3, <2>1 DEF AlignedFor, AlignedOrUntouched
<1> QED
  BY <1>2, <1>3

LEMMA ArgvIsASequence ==
  ASSUME ArgumentsTyped
  PROVE  Len(Argv) > 0 /\ \E S : Argv \in Seq(S)
<1> DEFINE T == ToSet(prefix) \cup ToSet(typed)
           argv == prefix \o typed
           S == {Argv[k] : k \in 1..Len(argv)}
<1>1. prefix \in Seq(T) /\ typed \in Seq(T)
  <2>1. prefix \in Seq(ToSet(prefix)) /\ typed \in Seq(ToSet(typed))
    BY DEF ArgumentsTyped, IsSequence
  <2> QED
    BY <2>1, SeqMonotonic
<1> HIDE DEF T
<1>2. argv \in Seq(T) /\ Len(argv) = Len(prefix) + Len(typed)
  BY <1>1, ConcatProperties
<1>3. Len(prefix) \in Nat /\ Len(typed) \in Nat /\ Len(typed) > 0
  BY <1>1, LenProperties DEF ArgumentsTyped
<1>4. Len(argv) \in Nat /\ Len(argv) > 0
  BY <1>2, <1>3
<1>5. DOMAIN argv = 1..Len(argv)
  BY <1>2, LenProperties
<1> HIDE DEF argv
<1>6. DOMAIN Argv = 1..Len(argv) /\ Argv = [k \in 1..Len(argv) |-> Argv[k]]
  BY <1>5 DEF Argv, SubstitutePort, argv
<1>7. Argv \in [1..Len(argv) -> S]
  BY <1>6
<1> HIDE DEF S
<1>8. Argv \in Seq(S)
  BY <1>4, <1>7, SeqDef
<1>9. Len(Argv) = Len(argv)
  <2>1. DOMAIN Argv = 1..Len(Argv) /\ Len(Argv) \in Nat
    BY <1>8, LenProperties
  <2> QED
    BY <1>4, <1>6, <2>1
<1> QED
  BY <1>4, <1>8, <1>9

\* Whatever a user types, of whatever length and in whatever order, and
\* whatever wrappers there are: what substitute_port, overwrite_option and
\* inject_argv make of it is a command whose server reads Nook's port and
\* Nook's host and no other, with everything else in its place, and a command
\* that is not aligned is untouched.
THEOREM ServersListenAsTold == ArgumentsSpec => []ArgumentsAligned
<1>1. ArgumentsTyped => ArgumentsAligned
  <2> SUFFICES ASSUME ArgumentsTyped,
                      NEW choice \in {"auto", "vite", "nuxt"}, NEW strict \in BOOLEAN
               PROVE  AlignedFor(Argv, Resolve(choice, Argv), strict)
    BY DEF ArgumentsAligned
  <2>1. PICK S : Argv \in Seq(S)
    BY ArgvIsASequence
  <2>2. Len(Argv) > 0
    BY ArgvIsASequence
  <2> QED
    BY <2>1, <2>2, AlignedFromAnyCommand
<1> QED
  BY <1>1, ArgumentsTypedAtStart, ArgumentsStayTyped, PTL DEF ArgumentsSpec
=============================================================================
