--------------------------- MODULE ProcessProofs ---------------------------
(***************************************************************************)
(* Machine-checked proofs about module ProcessGroups, for any number of    *)
(* processes and process numbers: no signal of Nook reaches a process that *)
(* is not of the run, and a recovery that reports a member as gone leaves  *)
(* none of its descendants alive but those it did not get to look at.      *)
(***************************************************************************)
EXTENDS ProcessGroups, TLAPS

Scans == [cursor : 0..MaxPid, seen : 0..MaxBirths, group : 0..MaxPid,
          pinned : 0..MaxBirths, found : BOOLEAN,
          moved : SUBSET (1..MaxBirths), closed : SUBSET (1..MaxBirths)]

-----------------------------------------------------------------------------
(* What any step does to the process table.                                *)

\* Entries are freed, or keep who they are
Shrunk ==
    /\ proc' \in [Pids -> Entries]
    /\ births' = births
    /\ \A p \in Pids :
         \/ proc'[p].birth = 0
         \/ /\ proc'[p].birth = proc[p].birth
            /\ proc'[p].group = proc[p].group
            /\ proc'[p].tree = proc[p].tree

\* What the other parts of the invariant need to know of it
Effects ==
    /\ proc' \in [Pids -> Entries]
    /\ births' \in 0..MaxBirths
    /\ births <= births'
    /\ \A p \in Pids :
         proc'[p].birth > 0 =>
           \/ proc'[p].birth = proc[p].birth /\ proc'[p].tree = proc[p].tree
           \/ proc'[p].birth > births
    /\ \A g \in Checked : InRun(g) => InRun(g)'
    /\ KernelInv'

LEMMA ShrunkHasEffects ==
  ASSUME GroupsTypeOK, KernelInv, Shrunk
  PROVE  Effects
<1>1. \A p \in Pids : Present(p)' => /\ Present(p)
                                      /\ proc'[p].birth = proc[p].birth
                                      /\ proc'[p].group = proc[p].group
                                      /\ proc'[p].tree = proc[p].tree
  BY DEF GroupsTypeOK, Shrunk, Present, Entries
<1>2. \A g : Members(g)' \subseteq Members(g)
  BY <1>1 DEF Members
<1>3. \A g : InRun(g) => InRun(g)'
  BY <1>1, <1>2 DEF InRun, Members
<1>4. KernelInv'
  BY <1>1, <1>2 DEF KernelInv, Shrunk
<1> QED
  BY <1>1, <1>3, <1>4, ProcessAssumption DEF Effects, Shrunk, Present, GroupsTypeOK, Entries

LEMMA NobodyIsAnEntry == Nobody \in Entries
  BY ProcessAssumption DEF Nobody, Entries

LEMMA DeadHaveShrunk ==
  ASSUME GroupsTypeOK, NEW dead, proc' = Die(dead), births' = births
  PROVE  Shrunk
<1>1. \A p \in Pids : proc'[p] \in {proc[p], [proc[p] EXCEPT !.zombie = TRUE], Nobody}
  BY DEF Die
<1>2. \A p \in Pids : [proc[p] EXCEPT !.zombie = TRUE] \in Entries
  BY DEF GroupsTypeOK, Entries
<1>3. proc' \in [Pids -> Entries]
  BY <1>1, <1>2, NobodyIsAnEntry DEF Die, GroupsTypeOK
<1> QED
  BY <1>1, <1>3 DEF Shrunk, GroupsTypeOK, Entries, Nobody

LEMMA BornHasEffects ==
  ASSUME GroupsTypeOK, KernelInv, NEW n \in Pids, NEW g \in Pids, NEW t \in BOOLEAN,
         births < MaxBirths, Free(n), births' = births + 1,
         proc' = [proc EXCEPT ![n] = Newborn(g, t)],
         \/ g = n
         \/ \E p \in Members(g) : proc[p].tree = t
  PROVE  Effects
<1>1. /\ births' \in 0..MaxBirths
      /\ births <= births'
      /\ births \in Nat
  BY ProcessAssumption DEF GroupsTypeOK
<1>2. Newborn(g, t) \in Entries
  BY <1>1, ProcessAssumption DEF Newborn, Entries, Pids
<1>3. proc' \in [Pids -> Entries]
  BY <1>2 DEF GroupsTypeOK
<1>4. /\ proc'[n].birth = births + 1 /\ proc'[n].group = g /\ proc'[n].tree = t
      /\ \A p \in Pids \ {n} : proc'[p] = proc[p]
  BY DEF GroupsTypeOK, Newborn
<1>5. \A h : Members(h)' = IF h = g THEN Members(h) \cup {n} ELSE Members(h)
  BY <1>1, <1>4 DEF Free, Present, Members
<1>6. Members(g) # {} => \A p \in Members(g) : proc[p].tree = t
  BY DEF KernelInv, Members, Free
<1>7. \A h \in Checked : InRun(h) => InRun(h)'
  <2> SUFFICES ASSUME NEW h \in Checked, InRun(h), NEW q \in Members(h)'
               PROVE  proc'[q].tree
    BY DEF InRun
  <2>1. CASE q # n
    BY <1>4, <1>5, <2>1 DEF InRun, Members
  <2>2. CASE q = n
    <3>1. h = g
      BY <1>4, <2>2 DEF Members
    <3>2. g # n
      BY <3>1 DEF Free
    <3> QED
      BY <1>4, <2>2, <3>1, <3>2 DEF InRun
  <2> QED
    BY <2>1, <2>2
<1>8. KernelInv'
  <2>1. ASSUME NEW p \in Pids, Present(p)'
        PROVE  /\ proc'[p].group \in Pids
               /\ proc'[p].birth <= births'
               /\ proc'[p].group # p => Members(p)' = {}
    <3>1. CASE p = n
      BY <1>1, <1>4, <1>5, <3>1 DEF Free
    <3>2. CASE p # n
      <4>1. Present(p) /\ proc'[p] = proc[p]
        BY <1>4, <2>1, <3>2 DEF Present
      <4>2. proc[p].birth \in Nat
        BY <4>1 DEF GroupsTypeOK, Entries
      <4>3. proc[p].group # p => p # g
        BY <3>2, <4>1 DEF KernelInv
      <4> QED
        BY <1>1, <1>5, <4>1, <4>2, <4>3 DEF KernelInv
    <3> QED
      BY <3>1, <3>2
  <2>2. ASSUME NEW p \in Pids, NEW q \in Pids, Present(p)', Present(q)'
        PROVE  /\ proc'[p].birth = proc'[q].birth => p = q
               /\ proc'[p].group = proc'[q].group => proc'[p].tree = proc'[q].tree
    <3>1. \A r \in Pids \ {n} : Present(r)' => /\ Present(r) /\ proc'[r] = proc[r]
                                                /\ proc[r].birth \in Nat
                                                /\ proc[r].birth <= births
      BY <1>4 DEF Present, KernelInv, GroupsTypeOK, Entries
    <3>2. \A r \in Pids \ {n} : Present(r)' /\ proc[r].group = g => proc[r].tree = t
      BY <3>1, <1>6 DEF Members, Free
    <3>3. CASE p # n /\ q # n
      BY <2>2, <3>1, <3>3 DEF KernelInv
    <3>4. CASE p = n /\ q # n
      BY <1>1, <1>4, <2>2, <3>1, <3>2, <3>4
    <3>5. CASE p # n /\ q = n
      BY <1>1, <1>4, <2>2, <3>1, <3>2, <3>5
    <3> QED
      BY <3>3, <3>4, <3>5
  <2> QED
    BY <2>1, <2>2 DEF KernelInv
<1> QED
  BY <1>1, <1>3, <1>4, <1>7, <1>8 DEF Effects

LEMMA SetsidHasEffects ==
  ASSUME GroupsTypeOK, KernelInv, NEW p \in Pids, Setsid(p)
  PROVE  Effects
<1>1. proc' \in [Pids -> Entries]
  <2>1. proc[p] \in Entries /\ p \in 0..MaxPid
    BY ProcessAssumption DEF GroupsTypeOK, Pids
  <2>2. [proc[p] EXCEPT !.group = p] \in Entries
    BY <2>1 DEF Entries
  <2> QED
    BY <2>2 DEF Setsid, GroupsTypeOK
<1>2. /\ births' = births /\ births \in 0..MaxBirths
      /\ Present(p) /\ proc[p].tree /\ proc[p].group # p
      /\ proc'[p].group = p
      /\ \A q \in Pids \ {p} : proc'[q] = proc[q]
      /\ \A q \in Pids : proc'[q].birth = proc[q].birth /\ proc'[q].tree = proc[q].tree
  BY DEF Setsid, Live, GroupsTypeOK, Entries
<1>3. Members(p) = {}
  BY <1>2 DEF KernelInv
<1>4. \A g : Members(g)' = IF g = p THEN {p} ELSE Members(g) \ {p}
  BY <1>2, <1>3 DEF Members, Present
<1>5. \A g \in Checked : InRun(g) => InRun(g)'
  <2> SUFFICES ASSUME NEW g \in Checked, InRun(g), NEW q \in Members(g)'
               PROVE  proc'[q].tree
    BY DEF InRun
  <2>1. q = p \/ q \in Members(g)
    BY <1>4
  <2> QED
    BY <1>2, <2>1 DEF InRun, Members
<1>6. KernelInv'
  <2>1. ASSUME NEW q \in Pids, Present(q)'
        PROVE  /\ proc'[q].group \in Pids
               /\ proc'[q].birth <= births'
               /\ proc'[q].group # q => Members(q)' = {}
    <3>1. Present(q)
      BY <1>2, <2>1 DEF Present
    <3>2. CASE q = p
      BY <1>2, <3>1, <3>2 DEF KernelInv
    <3>3. CASE q # p
      BY <1>2, <1>4, <3>1, <3>3 DEF KernelInv
    <3> QED
      BY <3>2, <3>3
  <2>2. ASSUME NEW q \in Pids, NEW r \in Pids, Present(q)', Present(r)'
        PROVE  /\ proc'[q].birth = proc'[r].birth => q = r
               /\ proc'[q].group = proc'[r].group => proc'[q].tree = proc'[r].tree
    <3>1. Present(q) /\ Present(r)
      BY <1>2, <2>2 DEF Present
    <3>2. proc[q].group # p /\ proc[r].group # p
      BY <1>3, <3>1 DEF Members
    <3> QED
      BY <1>2, <3>1, <3>2 DEF KernelInv
  <2> QED
    BY <2>1, <2>2 DEF KernelInv
<1> QED
  BY <1>1, <1>2, <1>5, <1>6 DEF Effects, GroupsTypeOK, Entries

-----------------------------------------------------------------------------
(* What keeps the other parts of the invariant.                            *)

\* Nobody but the dead leaves the number it was born with
LEMMA ChildHeld ==
  ASSUME GroupsTypeOK, ChildInv, HoldsChild, NEW dead, proc' = Die(dead), UNCHANGED <<nook, child>>
  PROVE  SameProcess(child)'
<1>1. /\ child # NoIdentity /\ child \in Identity
      /\ proc[child.pid].birth = child.birth
      /\ proc[child.pid].group = child.pid
  BY DEF ChildInv, SameProcess, GroupsTypeOK
<1>2. child.pid \in Pids
  BY <1>1 DEF Identity
<1>3. IsChild(child.pid)
  BY <1>1 DEF IsChild
<1>4. proc'[child.pid] \in {proc[child.pid], [proc[child.pid] EXCEPT !.zombie = TRUE]}
  BY <1>2, <1>3 DEF Die
<1>5. proc'[child.pid].birth = proc[child.pid].birth /\ proc'[child.pid].group = proc[child.pid].group
  BY <1>2, <1>4 DEF GroupsTypeOK, Entries
<1> QED
  BY <1>1, <1>5 DEF SameProcess

LEMMA ChildKept ==
  ASSUME GroupsTypeOK, ChildInv, Effects, UNCHANGED child,
         nook' \notin {"launching", "reaped"} \/ nook' = nook,
         HoldsChild' => SameProcess(child)'
  PROVE  ChildInv'
<1>1. ASSUME child # NoIdentity
      PROVE  /\ child.birth <= births'
             /\ proc'[child.pid].birth = child.birth => proc'[child.pid].tree
  <2>1. child.pid \in Pids /\ child.birth \in Nat \ {0} /\ child.birth <= births /\ births \in Nat
    BY <1>1 DEF GroupsTypeOK, Identity, ChildInv
  <2>2. proc'[child.pid].birth \in Nat
    BY <2>1 DEF Effects, Entries
  <2> QED
    BY <1>1, <2>1, <2>2 DEF Effects, ChildInv
<1>2. ASSUME nook' = "reaped"
      PROVE  child # NoIdentity /\ InRun(child.pid)'
  <2>1. nook = "reaped" /\ child.pid \in Checked
    BY <1>2 DEF Checked
  <2> QED
    BY <2>1 DEF Effects, ChildInv, Checked
<1> QED
  BY <1>1, <1>2 DEF ChildInv, InRun, Members, Present

\* A command that is at work goes on, or lets go of the number it checked
LEMMA LeaseKept ==
  ASSUME LeaseInv, Effects, UNCHANGED <<child, lease>>,
         op' = op \/ (op # "none" /\ op' \notin {"stop", "kill", "owned"}) \/ op' = "none",
         Launching' => Launching
  PROVE  LeaseInv'
<1>1. op' # "none" => op # "none" /\ ~Launching'
  BY DEF LeaseInv
<1>2. ASSUME op' \in {"stop", "kill", "owned"}
      PROVE  lease # NoIdentity /\ InRun(lease.pid)'
  <2>1. op = op' /\ lease.pid \in Checked
    BY <1>2 DEF Checked
  <2> QED
    BY <1>2, <2>1 DEF Effects, LeaseInv
<1> QED
  BY <1>1, <1>2 DEF LeaseInv, InRun, Members, Present

LEMMA ScanKept ==
  ASSUME GroupsTypeOK, ScanInv, Effects,
         \/ op' \notin {"pin", "aim", "fire"}
         \/ UNCHANGED <<op, scan.cursor, scan.seen, scan.pinned>>
  PROVE  ScanInv'
<1>1. CASE op' \notin {"pin", "aim", "fire"}
  BY <1>1 DEF ScanInv
<1>2. CASE UNCHANGED <<op, scan.cursor, scan.seen, scan.pinned>>
  <2>1. /\ op' \in {"pin", "aim", "fire"} => scan'.cursor \in Pids /\ scan'.seen \in 1..births'
        /\ op' \in {"aim", "fire"} => scan'.pinned \in 1..births'
    BY <1>2 DEF ScanInv, Effects, GroupsTypeOK
  <2>2. ASSUME op' = "aim", proc'[scan.cursor].birth = scan.seen
        PROVE  scan.pinned = scan.seen
    BY <1>2, <2>2 DEF ScanInv, Effects, GroupsTypeOK
  <2>3. ASSUME op' = "fire", NEW p \in Pids, proc'[p].birth = scan.pinned
        PROVE  proc'[p].tree
    BY <1>2, <2>3 DEF ScanInv, Effects, GroupsTypeOK
  <2> QED
    BY <1>2, <2>1, <2>2, <2>3 DEF ScanInv
<1> QED
  BY <1>1, <1>2

\* The group of the recorded process is of the run
LEMMA OwnGroup ==
  ASSUME GroupsTypeOK, KernelInv, ChildInv, child # NoIdentity, SameProcess(child)
  PROVE  InRun(child.pid)
<1>1. child.pid \in Pids /\ child.birth > 0
  BY DEF GroupsTypeOK, Identity
<1>2. Present(child.pid) /\ proc[child.pid].group = child.pid /\ proc[child.pid].tree
  BY <1>1 DEF SameProcess, Present, ChildInv
<1> QED
  BY <1>1, <1>2 DEF InRun, Members, KernelInv

LEMMA OwnStruck ==
  ASSUME SignalsStayInRun, NEW targets, \A p \in targets : proc[p].tree, Strike(targets)
  PROVE  SignalsStayInRun'
  BY DEF SignalsStayInRun, Strike

LEMMA SameTable ==
  ASSUME GroupsTypeOK, KernelInv, UNCHANGED <<proc, births>>
  PROVE  Effects
<1>1. Shrunk
  BY DEF Shrunk, GroupsTypeOK
<1> QED
  BY <1>1, ShrunkHasEffects

LEMMA SameChild ==
  ASSUME ChildInv, UNCHANGED proc, UNCHANGED child, HoldsChild
  PROVE  SameProcess(child)'
  BY DEF ChildInv, SameProcess

-----------------------------------------------------------------------------
(* Steps of processes, Nook's own left alone.                              *)

LEMMA TableSteps ==
  ASSUME GroupsInv, Effects, last' \in 0..MaxPid, scan' \in Scans,
         UNCHANGED <<owned, nook, child, lease, op, force, bystanders>>,
         UNCHANGED <<scan.cursor, scan.seen, scan.pinned>>,
         HoldsChild => SameProcess(child)'
  PROVE  GroupsInv'
<1> USE DEF GroupsInv
<1>1. GroupsTypeOK'
  BY DEF Effects, GroupsTypeOK, Scans
<1>2. ChildInv'
  BY ChildKept DEF HoldsChild
<1>3. LeaseInv'
  BY LeaseKept DEF Launching
<1>4. ScanInv'
  BY ScanKept
<1> QED
  BY <1>1, <1>2, <1>3, <1>4 DEF Effects, SignalsStayInRun

\* A child that is held is there, and nobody but it has its number
LEMMA ChildOutlivesBirth ==
  ASSUME GroupsInv, NEW n \in Pids, Free(n), NEW entry, proc' = [proc EXCEPT ![n] = entry],
         UNCHANGED child, HoldsChild
  PROVE  SameProcess(child)'
<1>1. /\ child # NoIdentity /\ child.pid \in Pids /\ child.birth > 0
      /\ proc[child.pid].birth = child.birth
      /\ proc[child.pid].group = child.pid
  BY DEF GroupsInv, ChildInv, SameProcess, GroupsTypeOK, Identity
<1>2. child.pid # n
  BY <1>1 DEF Free, Present
<1> QED
  BY <1>1, <1>2 DEF SameProcess, GroupsInv, GroupsTypeOK

LEMMA ForkHolds ==
  ASSUME GroupsInv, NEW p \in Pids, NEW n \in Pids, Fork(p, n)
  PROVE  GroupsInv'
<1>1. /\ Present(p) /\ p \in Members(proc[p].group)
      /\ proc[p].group \in Pids /\ proc[p].tree \in BOOLEAN
  BY DEF Fork, Live, Members, GroupsInv, KernelInv, GroupsTypeOK, Entries
<1>2. Effects
  BY <1>1, BornHasEffects DEF Fork, Allocate, GroupsInv
<1>3. HoldsChild => SameProcess(child)'
  BY ChildOutlivesBirth DEF Fork, Allocate
<1>4. last' \in 0..MaxPid
  BY DEF Fork, Allocate, Pids
<1>5. scan \in Scans /\ births + 1 \in 1..MaxBirths
  BY <1>1, ProcessAssumption DEF Fork, Allocate, GroupsInv, GroupsTypeOK, Scans
<1>6. \A left \in SUBSET (1..MaxBirths) : LeftWith(p, left) \in SUBSET (1..MaxBirths)
  BY <1>5 DEF LeftWith
<1>7. scan' = [scan EXCEPT !.moved = LeftWith(p, scan.moved), !.closed = LeftWith(p, scan.closed)]
  BY DEF Fork
<1>8. scan' \in Scans /\ UNCHANGED <<scan.cursor, scan.seen, scan.pinned>>
  BY <1>5, <1>6, <1>7 DEF Scans
<1> QED
  BY <1>2, <1>3, <1>4, <1>8, TableSteps DEF Fork

LEMMA OtherStartsHolds ==
  ASSUME GroupsInv, NEW n \in Pids, OtherStarts(n)
  PROVE  GroupsInv'
<1>1. Effects
  BY BornHasEffects DEF OtherStarts, Allocate, GroupsInv
<1>2. HoldsChild => SameProcess(child)'
  BY ChildOutlivesBirth DEF OtherStarts, Allocate
<1>3. last' \in 0..MaxPid
  BY DEF OtherStarts, Allocate, Pids
<1> QED
  BY <1>1, <1>2, <1>3, TableSteps DEF OtherStarts, GroupsInv, GroupsTypeOK, Scans

LEMMA SetsidHolds ==
  ASSUME GroupsInv, NEW p \in Pids, Setsid(p)
  PROVE  GroupsInv'
<1>1. Effects
  BY SetsidHasEffects DEF GroupsInv
<1>2. ASSUME HoldsChild
      PROVE  SameProcess(child)'
  <2>1. /\ child # NoIdentity /\ child.pid \in Pids
        /\ proc[child.pid].birth = child.birth
        /\ proc[child.pid].group = child.pid
    BY <1>2 DEF GroupsInv, ChildInv, SameProcess, GroupsTypeOK, Identity
  <2>2. child.pid # p
    BY <2>1 DEF Setsid
  <2> QED
    BY <2>1, <2>2 DEF SameProcess, Setsid, GroupsInv, GroupsTypeOK
<1>3. last' \in 0..MaxPid
  BY DEF Setsid, GroupsInv, GroupsTypeOK
<1> QED
  BY <1>1, <1>2, <1>3, TableSteps DEF Setsid, GroupsInv, GroupsTypeOK, Scans

LEMMA ExitHolds ==
  ASSUME GroupsInv, NEW p \in Pids, Exit(p)
  PROVE  GroupsInv'
<1>1. Effects
  BY DeadHaveShrunk, ShrunkHasEffects DEF Exit, GroupsInv
<1>2. HoldsChild => SameProcess(child)'
  BY ChildHeld DEF Exit, GroupsInv
<1>3. last' \in 0..MaxPid
  BY DEF Exit, GroupsInv, GroupsTypeOK
<1> QED
  BY <1>1, <1>2, <1>3, TableSteps DEF Exit, GroupsInv, GroupsTypeOK, Scans

-----------------------------------------------------------------------------
(* Steps of the nook that launched the run.                                *)

LEMMA InRunShrinks ==
  ASSUME GroupsTypeOK, Shrunk, NEW g, InRun(g)
  PROVE  InRun(g)'
  BY DEF GroupsTypeOK, Shrunk, InRun, Members, Present, Entries

LEMMA LaunchingIsFirst ==
  ASSUME GroupsInv, Launching
  PROVE  op = "none"
  BY DEF GroupsInv, LeaseInv

LEMMA SpawnChildHolds ==
  ASSUME GroupsInv, NEW n \in Pids, SpawnChild(n)
  PROVE  GroupsInv'
<1> USE DEF GroupsInv
<1>1. Effects
  BY BornHasEffects DEF SpawnChild, Allocate
<1>2. births \in Nat /\ births + 1 \in 1..MaxBirths /\ op = "none" /\ op' = "none"
  BY ProcessAssumption, LaunchingIsFirst DEF SpawnChild, Allocate, GroupsTypeOK, Launching
<1>3. child = NoIdentity /\ lease = NoIdentity
  BY DEF SpawnChild, ChildInv, LeaseInv
<1>4. child' \in Identity /\ child'.pid = n /\ child'.birth = births + 1
  BY <1>2 DEF SpawnChild, Identity
<1>5. proc'[n].birth = births + 1 /\ proc'[n].group = n /\ proc'[n].tree
  BY DEF SpawnChild, GroupsTypeOK, Newborn
<1>6. child' # NoIdentity
  BY <1>2, <1>4 DEF NoIdentity
<1>7. GroupsTypeOK'
  <2>1. proc' \in [Pids -> Entries] /\ births' \in 0..MaxBirths
    BY <1>1 DEF Effects
  <2>2. last' \in 0..MaxPid /\ nook' \in NookSteps
    BY DEF SpawnChild, Allocate, NookSteps, Pids
  <2> QED
    BY <1>4, <2>1, <2>2 DEF SpawnChild, GroupsTypeOK
<1>8. ChildInv'
  <2>1. births' = births + 1 /\ nook' = "spawned"
    BY DEF SpawnChild, Allocate
  <2>2. child'.birth <= births' /\ proc'[child'.pid].tree
    BY <1>2, <1>4, <1>5, <2>1
  <2>3. SameProcess(child)'
    BY <1>4, <1>5, <1>6 DEF SameProcess
  <2> QED
    BY <2>1, <2>2, <2>3 DEF ChildInv
<1>9. LeaseInv'
  BY <1>2, <1>3 DEF SpawnChild, LeaseInv
<1>10. ScanInv'
  BY <1>2 DEF ScanInv
<1> QED
  BY <1>1, <1>7, <1>8, <1>9, <1>10 DEF Effects, SpawnChild, SignalsStayInRun

LEMMA ReadIdentityHolds ==
  ASSUME GroupsInv, ReadIdentity
  PROVE  GroupsInv'
<1> USE DEF GroupsInv
<1>1. Effects
  BY SameTable DEF ReadIdentity
<1>2. GroupsTypeOK'
  BY DEF ReadIdentity, GroupsTypeOK, NookSteps
<1>3. ChildInv'
  BY <1>1, ChildKept, SameChild DEF ReadIdentity, HoldsChild
<1>4. LeaseInv'
  BY <1>1, LeaseKept DEF ReadIdentity, Launching
<1>5. ScanInv'
  BY <1>1, ScanKept DEF ReadIdentity
<1> QED
  BY <1>1, <1>2, <1>3, <1>4, <1>5 DEF Effects, ReadIdentity, SignalsStayInRun

LEMMA CommitLeaseHolds ==
  ASSUME GroupsInv, CommitLease
  PROVE  GroupsInv'
<1> USE DEF GroupsInv
<1>1. Effects
  BY SameTable DEF CommitLease
<1>2. op = "none" /\ op' = "none"
  BY LaunchingIsFirst DEF CommitLease, Launching
<1>3. GroupsTypeOK'
  BY DEF CommitLease, GroupsTypeOK, NookSteps
<1>4. ChildInv'
  BY <1>1, ChildKept, SameChild DEF CommitLease, HoldsChild
<1>5. LeaseInv'
  BY <1>2 DEF CommitLease, LeaseInv
<1>6. ScanInv'
  BY <1>2 DEF ScanInv
<1> QED
  BY <1>1, <1>3, <1>4, <1>5, <1>6 DEF Effects, CommitLease, SignalsStayInRun

\* The child's group is of the run as long as nook may signal it
LEMMA ChildGroupInRun ==
  ASSUME GroupsInv, HoldsChild \/ nook = "reaped"
  PROVE  child # NoIdentity /\ child.pid \in Pids /\ InRun(child.pid)
<1>1. child # NoIdentity
  BY DEF GroupsInv, ChildInv, SameProcess
<1>2. InRun(child.pid)
  BY <1>1, OwnGroup DEF GroupsInv, ChildInv
<1> QED
  BY <1>1, <1>2 DEF GroupsInv, GroupsTypeOK, Identity

LEMMA CleanupUnidentifiedChildHolds ==
  ASSUME GroupsInv, CleanupUnidentifiedChild
  PROVE  GroupsInv'
<1> USE DEF GroupsInv
<1>1. Shrunk
  BY NobodyIsAnEntry DEF CleanupUnidentifiedChild, Shrunk, GroupsTypeOK, Nobody
<1>2. Effects
  BY <1>1, ShrunkHasEffects
<1>3. SignalsStayInRun'
  BY ChildGroupInRun, OwnStruck DEF CleanupUnidentifiedChild, HoldsChild, InRun
<1>4. GroupsTypeOK'
  BY <1>2, <1>3 DEF CleanupUnidentifiedChild, GroupsTypeOK, NookSteps, Effects, SignalsStayInRun
<1>5. ChildInv'
  BY <1>2, ChildKept DEF CleanupUnidentifiedChild, HoldsChild
<1>6. LeaseInv'
  BY <1>2, LeaseKept DEF CleanupUnidentifiedChild, Launching
<1>7. ScanInv'
  BY <1>2, ScanKept DEF CleanupUnidentifiedChild
<1> QED
  BY <1>2, <1>3, <1>4, <1>5, <1>6, <1>7 DEF Effects

LEMMA ForwardSignalHolds ==
  ASSUME GroupsInv, ForwardSignal
  PROVE  GroupsInv'
<1> USE DEF GroupsInv
<1>1. Effects
  BY DeadHaveShrunk, ShrunkHasEffects DEF ForwardSignal, TerminateGroup
<1>2. SignalsStayInRun'
  BY ChildGroupInRun, OwnStruck DEF ForwardSignal, TerminateGroup, HoldsChild, InRun
<1>3. GroupsTypeOK'
  BY <1>1, <1>2 DEF ForwardSignal, GroupsTypeOK, Effects, SignalsStayInRun
<1>4. HoldsChild => SameProcess(child)'
  BY ChildHeld DEF ForwardSignal, TerminateGroup
<1>5. ChildInv'
  BY <1>1, <1>4, ChildKept DEF ForwardSignal, HoldsChild
<1>6. LeaseInv'
  BY <1>1, LeaseKept DEF ForwardSignal, Launching
<1>7. ScanInv'
  BY <1>1, ScanKept DEF ForwardSignal
<1> QED
  BY <1>1, <1>2, <1>3, <1>5, <1>6, <1>7 DEF Effects

LEMMA ReapHolds ==
  ASSUME GroupsInv, Reap
  PROVE  GroupsInv'
<1> USE DEF GroupsInv
<1>1. child # NoIdentity /\ InRun(child.pid)
  BY ChildGroupInRun DEF Reap, HoldsChild
<1>2. Shrunk
  BY NobodyIsAnEntry DEF Reap, Shrunk, GroupsTypeOK, Nobody
<1>3. Effects
  BY <1>2, ShrunkHasEffects
<1>4. GroupsTypeOK'
  BY <1>3 DEF Reap, GroupsTypeOK, NookSteps, Effects
<1>5. InRun(child.pid)'
  BY <1>1, <1>2, InRunShrinks DEF Reap
<1>6. child.birth <= births' /\ (proc'[child.pid].birth = child.birth => proc'[child.pid].tree)
  BY <1>1, <1>2 DEF Reap, Shrunk, ChildInv, GroupsTypeOK, Identity
<1>7. ChildInv'
  BY <1>1, <1>5, <1>6 DEF Reap, ChildInv, HoldsChild, InRun, Members, Present
<1>8. LeaseInv'
  BY <1>3, LeaseKept DEF Reap, Launching
<1>9. ScanInv'
  BY <1>3, ScanKept DEF Reap
<1> QED
  BY <1>3, <1>4, <1>7, <1>8, <1>9 DEF Effects, Reap, SignalsStayInRun

LEMMA FinishHolds ==
  ASSUME GroupsInv, Finish
  PROVE  GroupsInv'
<1> USE DEF GroupsInv
<1>1. Effects
  BY SameTable DEF Finish
<1>2. GroupsTypeOK'
  BY DEF Finish, GroupsTypeOK, NookSteps
<1>3. ChildInv'
  BY <1>1, ChildKept DEF Finish, HoldsChild
<1>4. LeaseInv' /\ ScanInv'
  BY DEF Finish, LockFree, LeaseInv, ScanInv
<1> QED
  BY <1>1, <1>2, <1>3, <1>4 DEF Effects, Finish, SignalsStayInRun

LEMMA NookDiesHolds ==
  ASSUME GroupsInv, NookDies
  PROVE  GroupsInv'
<1> USE DEF GroupsInv
<1>1. Shrunk
  <2>1. \A p \in Pids : proc'[p] \in {proc[p], Nobody}
    BY DEF NookDies
  <2>2. births' = births /\ proc' \in [Pids -> Entries]
    BY <2>1, NobodyIsAnEntry DEF NookDies, GroupsTypeOK
  <2> QED
    BY <2>1, <2>2 DEF Shrunk, Nobody
<1>2. Effects
  BY <1>1, ShrunkHasEffects
<1>3. GroupsTypeOK'
  BY <1>2 DEF NookDies, GroupsTypeOK, NookSteps, Effects
<1>4. ChildInv'
  BY <1>2, ChildKept DEF NookDies, HoldsChild
<1>5. LeaseInv'
  BY <1>2, LeaseKept DEF NookDies, Launching
<1>6. ScanInv'
  BY <1>2, ScanKept DEF NookDies
<1> QED
  BY <1>2, <1>3, <1>4, <1>5, <1>6 DEF Effects, NookDies, SignalsStayInRun

-----------------------------------------------------------------------------
(* Steps of the command that holds the operation lock.                     *)

\* The group of a lease that names a present process is of the run
LEMMA LeaseGroupInRun ==
  ASSUME GroupsInv, SameProcess(lease)
  PROVE  lease # NoIdentity /\ InRun(lease.pid)
<1>1. lease # NoIdentity /\ lease = child
  BY DEF SameProcess, GroupsInv, LeaseInv
<1> QED
  BY <1>1, OwnGroup DEF GroupsInv

\* A step that leaves all processes alone and the lock, or nobody, at work
LEMMA QuietSteps ==
  ASSUME GroupsInv, UNCHANGED <<proc, last, births, owned, nook, child, lease, bystanders>>,
         op' \in OpSteps, force' \in BOOLEAN,
         scan' \in Scans, LeaseInv', ScanInv'
  PROVE  GroupsInv'
<1> USE DEF GroupsInv
<1>1. Effects
  BY SameTable
<1>2. ChildInv'
  BY <1>1, ChildKept, SameChild DEF HoldsChild
<1>3. GroupsTypeOK'
  BY DEF GroupsTypeOK, Scans
<1> QED
  BY <1>1, <1>2, <1>3 DEF Effects, SignalsStayInRun

LEMMA LeaseStays ==
  ASSUME GroupsInv, UNCHANGED <<proc, births, nook, child, lease>>,
         op' = "none" \/ (op # "none" /\ op' \notin {"stop", "kill", "owned"})
  PROVE  LeaseInv'
<1>1. Effects
  BY SameTable DEF GroupsInv
<1> QED
  BY <1>1, LeaseKept DEF GroupsInv, Launching

\* A command checks the lease and is about to signal its group
LEMMA LeaseIsChecked ==
  ASSUME GroupsInv, UNCHANGED <<proc, nook, child, lease>>, SameProcess(lease), ~Launching
  PROVE  LeaseInv'
  BY LeaseGroupInRun DEF GroupsInv, LeaseInv, Launching, InRun, Members, Present

LEMMA StopCheckHolds ==
  ASSUME GroupsInv, StopCheck
  PROVE  GroupsInv'
<1>1. LeaseInv'
  BY LeaseIsChecked DEF StopCheck, LockFree, Alive
<1>2. ScanInv' /\ op' \in OpSteps
  BY DEF StopCheck, ScanInv, OpSteps
<1> QED
  BY <1>1, <1>2, QuietSteps DEF StopCheck, GroupsInv, GroupsTypeOK, Scans

LEMMA StopTimesOutHolds ==
  ASSUME GroupsInv, StopTimesOut
  PROVE  GroupsInv'
<1>1. LeaseInv'
  BY LeaseIsChecked DEF StopTimesOut, Alive, GroupsInv, LeaseInv
<1>2. ScanInv' /\ op' \in OpSteps
  BY DEF StopTimesOut, ScanInv, OpSteps
<1> QED
  BY <1>1, <1>2, QuietSteps DEF StopTimesOut, GroupsInv, GroupsTypeOK, Scans

LEMMA StopEndsHolds ==
  ASSUME GroupsInv, StopFails \/ StopSeesExit
  PROVE  GroupsInv'
<1>1. LeaseInv'
  BY LeaseStays DEF StopFails, StopSeesExit
<1>2. ScanInv' /\ op' \in OpSteps
  BY DEF StopFails, StopSeesExit, ScanInv, OpSteps
<1> QED
  BY <1>1, <1>2, QuietSteps DEF StopFails, StopSeesExit, GroupsInv, GroupsTypeOK, Scans

\* A signal to the group of the lease that was checked
LEMMA LeaseSignalled ==
  ASSUME GroupsInv, op \in {"stop", "kill", "owned"},
         UNCHANGED <<last, births, owned, nook, child, lease, force>>,
         NEW dead, proc' = Die(dead), Strike(Members(lease.pid)),
         op' \in {"none", "polling", "scan"}, scan' \in {scan, NoScan}
  PROVE  GroupsInv'
<1> USE DEF GroupsInv
<1>1. Effects
  BY DeadHaveShrunk, ShrunkHasEffects
<1>2. SignalsStayInRun'
  BY OwnStruck DEF LeaseInv, InRun
<1>3. NoScan \in Scans
  BY ProcessAssumption DEF NoScan, Scans
<1>4. GroupsTypeOK'
  BY <1>1, <1>2, <1>3 DEF GroupsTypeOK, Effects, SignalsStayInRun, OpSteps, Scans
<1>5. ChildInv'
  BY <1>1, ChildHeld, ChildKept DEF HoldsChild
<1>6. LeaseInv'
  BY <1>1, LeaseKept DEF Launching
<1>7. ScanInv'
  BY DEF ScanInv
<1> QED
  BY <1>1, <1>2, <1>4, <1>5, <1>6, <1>7 DEF Effects

LEMMA SignalsHold ==
  ASSUME GroupsInv, StopTerminate \/ StopKill \/ RecoverKill
  PROVE  GroupsInv'
<1>1. CASE StopTerminate
  BY <1>1, LeaseSignalled DEF StopTerminate, TerminateGroup
<1>2. CASE StopKill
  BY <1>2, LeaseSignalled DEF StopKill, KillGroup
<1>3. CASE RecoverKill
  BY <1>3, LeaseSignalled DEF RecoverKill, KillGroup, StartScan
<1> QED
  BY <1>1, <1>2, <1>3

-----------------------------------------------------------------------------
(* Steps of a recovery.                                                    *)

LEMMA ScansTyped ==
  ASSUME GroupsInv
  PROVE  /\ scan \in Scans /\ NoScan \in Scans
         /\ \A p \in 0..MaxPid :
              /\ NextEntry(p) \in Scans
              /\ NextEntry(p).cursor = p
              /\ NextEntry(p).found = scan.found
              /\ NextEntry(p).moved = scan.moved
              /\ NextEntry(p).closed = scan.closed
<1>1. scan \in Scans
  BY DEF GroupsInv, GroupsTypeOK, Scans
<1>2. NoScan \in Scans
  BY ProcessAssumption DEF NoScan, Scans
<1>3. ASSUME NEW p \in 0..MaxPid
      PROVE  /\ NextEntry(p) \in Scans
             /\ NextEntry(p).cursor = p
             /\ NextEntry(p).found = scan.found
             /\ NextEntry(p).moved = scan.moved
             /\ NextEntry(p).closed = scan.closed
  <2>1. 0 \in 0..MaxBirths /\ 0 \in 0..MaxPid
    BY ProcessAssumption
  <2>2. NextEntry(p) \in Scans
    BY <1>1, <2>1 DEF NextEntry, Scans
  <2>3. /\ NextEntry(p).cursor = p
        /\ NextEntry(p).found = scan.found
        /\ NextEntry(p).moved = scan.moved
        /\ NextEntry(p).closed = scan.closed
    BY <1>1 DEF NextEntry, Scans
  <2> QED
    BY <2>2, <2>3
<1> QED
  BY <1>1, <1>2, <1>3

LEMMA RecoverStartHolds ==
  ASSUME GroupsInv, RecoverStart
  PROVE  GroupsInv'
<1>1. LeaseInv'
  <2>1. CASE SameProcess(lease)
    BY <2>1, LeaseIsChecked DEF RecoverStart, LockFree
  <2>2. CASE ~SameProcess(lease)
    BY <2>2 DEF RecoverStart, LockFree, StartScan, GroupsInv, LeaseInv, Launching
  <2> QED
    BY <2>1, <2>2
<1>2. ScanInv' /\ op' \in OpSteps
  BY DEF RecoverStart, StartScan, ScanInv, OpSteps
<1>3. scan' \in Scans
  BY ScansTyped DEF RecoverStart, StartScan
<1> QED
  BY <1>1, <1>2, <1>3, QuietSteps DEF RecoverStart, GroupsInv, GroupsTypeOK, Scans

LEMMA ScanLookHolds ==
  ASSUME GroupsInv, ScanLook
  PROVE  GroupsInv'
<1>1. LeaseInv'
  BY LeaseStays DEF ScanLook, Inspect
<1>2. PICK p \in Pids :
        /\ Present(p)
        /\ \/ Inspect(p)
           \/ scan' = [NextEntry(p) EXCEPT !.closed = @ \cup {proc[p].birth}] /\ UNCHANGED op
           \/ scan' = NextEntry(p) /\ UNCHANGED op
  BY DEF ScanLook, Ahead
<1>3. /\ proc[p].birth \in 1..births /\ proc[p].birth \in 1..MaxBirths
      /\ proc[p].birth \in 0..MaxBirths
      /\ proc[p].group \in 0..MaxPid /\ p \in 0..MaxPid
  BY <1>2 DEF GroupsInv, GroupsTypeOK, KernelInv, Present, Entries, Pids
<1>4. scan' \in Scans
  <2>1. [NextEntry(p) EXCEPT !.closed = @ \cup {proc[p].birth}] \in Scans
    BY <1>3, ScansTyped DEF Scans
  <2>2. Inspect(p) => scan' \in Scans
    BY <1>3, ScansTyped DEF Inspect, Scans
  <2> QED
    BY <1>2, <1>3, <2>1, <2>2, ScansTyped
<1>5. ScanInv' /\ op' \in OpSteps
  <2>1. Inspect(p) => op' = "pin" /\ scan'.cursor = p /\ scan'.seen = proc[p].birth
    BY ScansTyped DEF Inspect, Scans
  <2>2. births' = births /\ (op' = "scan" \/ Inspect(p))
    BY <1>2 DEF ScanLook
  <2> QED
    BY <1>3, <2>1, <2>2 DEF ScanInv, OpSteps
<1> QED
  BY <1>1, <1>4, <1>5, QuietSteps DEF ScanLook, GroupsInv, GroupsTypeOK, Scans

LEMMA ScanPinHolds ==
  ASSUME GroupsInv, ScanPin
  PROVE  GroupsInv'
<1>1. LeaseInv'
  BY LeaseStays DEF ScanPin
<1>2. scan.cursor \in Pids /\ scan.seen \in 1..births /\ scan.cursor \in 0..MaxPid
  BY DEF GroupsInv, ScanInv, ScanPin, Pids
<1>3. CASE Present(scan.cursor)
  <2>1. proc[scan.cursor].birth \in 1..births /\ proc[scan.cursor].birth \in 0..MaxBirths
    BY <1>2, <1>3 DEF GroupsInv, GroupsTypeOK, KernelInv, Present, Entries
  <2>2. op' = "aim" /\ scan' = [scan EXCEPT !.pinned = proc[scan.cursor].birth]
    BY <1>3 DEF ScanPin
  <2>3. scan' \in Scans /\ ScanInv'
    BY <1>2, <2>1, <2>2, ScansTyped DEF ScanPin, ScanInv, Scans
  <2> QED
    BY <1>1, <2>2, <2>3, QuietSteps DEF ScanPin, GroupsInv, GroupsTypeOK, Scans, OpSteps
<1>4. CASE ~Present(scan.cursor)
  <2>1. op' = "scan" /\ scan' \in Scans /\ ScanInv'
    BY <1>2, <1>4, ScansTyped DEF ScanPin, ScanInv
  <2> QED
    BY <1>1, <2>1, QuietSteps DEF ScanPin, GroupsInv, GroupsTypeOK, Scans, OpSteps
<1> QED
  BY <1>3, <1>4

LEMMA ScanAimHolds ==
  ASSUME GroupsInv, ScanAim
  PROVE  GroupsInv'
<1>1. LeaseInv'
  BY LeaseStays DEF ScanAim
<1>2. scan' \in Scans /\ op' \in {"fire", "scan"}
  <2>1. scan.cursor \in 0..MaxPid /\ scan.seen \in 1..MaxBirths
    BY DEF ScanAim, GroupsInv, ScanInv, GroupsTypeOK, Pids
  <2>2. [NextEntry(scan.cursor) EXCEPT !.moved = @ \cup {scan.seen}] \in Scans
    BY <2>1, ScansTyped DEF Scans
  <2> QED
    BY <2>1, <2>2, ScansTyped DEF ScanAim
<1>3. ScanInv'
  <2>1. CASE op' = "fire"
    <3>1. /\ scan.cursor \in Pids /\ Live(scan.cursor) /\ proc[scan.cursor].tree
          /\ proc[scan.cursor].birth = scan.pinned /\ scan' = scan
      BY <2>1 DEF ScanAim, Marked, GroupsInv, ScanInv
    <3>2. \A p \in Pids : proc[p].birth = scan.pinned => p = scan.cursor
      BY <3>1 DEF GroupsInv, KernelInv, Live, Present
    <3> QED
      BY <2>1, <3>1, <3>2 DEF ScanAim, ScanInv, GroupsInv
  <2>2. CASE op' = "scan"
    BY <2>2 DEF ScanInv
  <2> QED
    BY <1>2, <2>1, <2>2
<1> QED
  BY <1>1, <1>2, <1>3, QuietSteps DEF ScanAim, GroupsInv, GroupsTypeOK, Scans, OpSteps

LEMMA ScanFireHolds ==
  ASSUME GroupsInv, ScanFire
  PROVE  GroupsInv'
<1> DEFINE target == {p \in Pids : Live(p) /\ proc[p].birth = scan.pinned}
<1> USE DEF GroupsInv
<1>1. proc' = Die(target) /\ Strike(target) /\ \A p \in target : proc[p].tree
  BY DEF ScanFire, ScanInv
<1>2. Effects
  BY <1>1, DeadHaveShrunk, ShrunkHasEffects DEF ScanFire
<1>3. SignalsStayInRun'
  BY <1>1, OwnStruck
<1>4. op' = "scan" /\ scan' \in Scans
  BY ScansTyped DEF ScanFire, ScanInv, Pids, Scans
<1>5. GroupsTypeOK'
  BY <1>2, <1>3, <1>4 DEF ScanFire, GroupsTypeOK, Effects, SignalsStayInRun, OpSteps, Scans
<1>6. ChildInv'
  BY <1>1, <1>2, ChildHeld, ChildKept DEF ScanFire, HoldsChild
<1>7. LeaseInv'
  BY <1>2, <1>4, LeaseKept DEF ScanFire, Launching
<1>8. ScanInv'
  BY <1>4 DEF ScanInv
<1> QED
  BY <1>2, <1>3, <1>5, <1>6, <1>7, <1>8 DEF Effects

LEMMA ScanEndsHolds ==
  ASSUME GroupsInv, ScanAgain \/ OperationDies
  PROVE  GroupsInv'
<1>1. LeaseInv'
  BY LeaseStays DEF ScanAgain, OperationDies, StartScan
<1>2. scan' \in Scans /\ op' \in {"scan", "none"}
  BY ScansTyped DEF ScanAgain, OperationDies, StartScan
<1>3. ScanInv' /\ op' \in OpSteps
  BY <1>2 DEF ScanInv, OpSteps
<1> QED
  BY <1>1, <1>2, <1>3, QuietSteps DEF ScanAgain, OperationDies, GroupsInv, GroupsTypeOK, Scans

LEMMA ScanCleanHolds ==
  ASSUME GroupsInv, ScanClean
  PROVE  GroupsInv'
<1> USE DEF GroupsInv
<1>1. Effects
  BY SameTable DEF ScanClean
<1>2. ChildInv'
  BY <1>1, ChildKept, SameChild DEF ScanClean, HoldsChild
<1>3. LeaseInv' /\ ScanInv'
  BY DEF ScanClean, LeaseInv, ScanInv
<1>4. GroupsTypeOK'
  BY ScansTyped DEF ScanClean, GroupsTypeOK, OpSteps, Scans
<1> QED
  BY <1>1, <1>2, <1>3, <1>4 DEF ScanClean, Effects, SignalsStayInRun

-----------------------------------------------------------------------------
(* The theorems.                                                           *)

LEMMA GroupsInitHolds ==
  ASSUME GroupsInit
  PROVE  GroupsInv
<1>1. GroupsTypeOK
  <2>1. MaxPid \in Nat /\ MaxBirths \in Nat
    BY ProcessAssumption
  <2>2. proc \in [Pids -> Entries]
    BY NobodyIsAnEntry DEF GroupsInit
  <2>3. scan \in Scans
    BY <2>1 DEF GroupsInit, NoScan, Scans
  <2>4. last \in 0..MaxPid /\ births \in 0..MaxBirths /\ bystanders \subseteq 1..MaxBirths
    BY <2>1 DEF GroupsInit
  <2>5. owned \in BOOLEAN /\ force \in BOOLEAN /\ nook \in NookSteps /\ op \in OpSteps
    BY DEF GroupsInit, NookSteps, OpSteps
  <2> QED
    BY <2>2, <2>3, <2>4, <2>5 DEF GroupsInit, GroupsTypeOK, Scans
<1>2. KernelInv
  BY DEF GroupsInit, KernelInv, Present, Nobody
<1>3. ChildInv /\ LeaseInv /\ ScanInv /\ SignalsStayInRun
  BY DEF GroupsInit, ChildInv, LeaseInv, ScanInv, SignalsStayInRun, HoldsChild
<1> QED
  BY <1>1, <1>2, <1>3 DEF GroupsInv

LEMMA GroupsNextHolds ==
  ASSUME GroupsInv, GroupsNext
  PROVE  GroupsInv'
<1>1. ASSUME NEW p \in Pids, NEW n \in Pids, Fork(p, n)
      PROVE  GroupsInv'
  BY <1>1, ForkHolds
<1>2. ASSUME NEW p \in Pids, Setsid(p) \/ Exit(p) \/ OtherStarts(p) \/ SpawnChild(p)
      PROVE  GroupsInv'
  BY <1>2, SetsidHolds, ExitHolds, OtherStartsHolds, SpawnChildHolds
<1>3. CASE ReadIdentity \/ CleanupUnidentifiedChild \/ CommitLease
           \/ ForwardSignal \/ Reap \/ Finish \/ NookDies
  BY <1>3, ReadIdentityHolds, CleanupUnidentifiedChildHolds, CommitLeaseHolds,
     ForwardSignalHolds, ReapHolds, FinishHolds, NookDiesHolds
<1>4. CASE StopCheck \/ StopTerminate \/ StopFails \/ StopSeesExit \/ StopTimesOut \/ StopKill
  BY <1>4, StopCheckHolds, SignalsHold, StopEndsHolds, StopTimesOutHolds
<1>5. CASE RecoverStart \/ RecoverKill \/ OperationDies
  BY <1>5, RecoverStartHolds, SignalsHold, ScanEndsHolds
<1>6. CASE ScanLook \/ ScanPin \/ ScanAim \/ ScanFire \/ ScanAgain \/ ScanClean
  BY <1>6, ScanLookHolds, ScanPinHolds, ScanAimHolds, ScanFireHolds, ScanEndsHolds, ScanCleanHolds
<1> QED
  BY <1>1, <1>2, <1>3, <1>4, <1>5, <1>6 DEF GroupsNext

LEMMA GroupsStutterHolds ==
  ASSUME GroupsInv, UNCHANGED groupVars
  PROVE  GroupsInv'
  BY DEF GroupsInv, groupVars, GroupsTypeOK, KernelInv, ChildInv, LeaseInv, ScanInv,
         SignalsStayInRun, Present, Members, InRun, HoldsChild, SameProcess, Launching

\* The inductive invariant: births and groups identify processes, whatever
\* numbers the kernel gives out again, and what was checked stays what it was.
THEOREM GroupsInvHolds == GroupsSpec => []GroupsInv
<1>1. GroupsInit => GroupsInv
  BY GroupsInitHolds
<1>2. GroupsInv /\ [GroupsNext]_groupVars => GroupsInv'
  BY GroupsNextHolds, GroupsStutterHolds
<1> QED
  BY <1>1, <1>2, PTL DEF GroupsSpec

\* No stop, forwarded signal or recovery ever signals a process outside the
\* run, for any number of processes, reused numbers and killed commands.
THEOREM SignalsAlwaysStay == GroupsSpec => []SignalsStayInRun
<1>1. GroupsInv => SignalsStayInRun
  BY DEF GroupsInv
<1> QED
  BY <1>1, GroupsInvHolds, PTL

-----------------------------------------------------------------------------
(* A recovery finds the whole tree.                                        *)

\* A step after which every live process of the run is one that was there.
TreeKept == \A p \in TreeLive' : p \in TreeLive /\ proc'[p].birth = proc[p].birth

LEMMA TreeShrinks ==
  ASSUME \A p \in Pids : proc'[p] = proc[p] \/ proc'[p] = Nobody \/ proc'[p].zombie
  PROVE  TreeKept
  BY DEF TreeKept, TreeLive, Marked, Live, Present, Nobody

LEMMA DeadShrink ==
  ASSUME GroupsTypeOK, NEW dead, proc' = Die(dead)
  PROVE  TreeKept
<1>1. \A p \in Pids : proc[p] \in Entries /\ proc'[p] \in {proc[p], [proc[p] EXCEPT !.zombie = TRUE], Nobody}
  BY DEF Die, GroupsTypeOK
<1>2. \A p \in Pids : proc'[p] = proc[p] \/ proc'[p] = Nobody \/ proc'[p].zombie
  BY <1>1 DEF Entries
<1> QED
  BY <1>2, TreeShrinks

\* The invariant is about the tree, the last number and the pass alone.
LEMMA SweepKept ==
  ASSUME GroupsTypeOK, SweepInv, TreeKept, owned' = owned, last' \in Nat,
         owned /\ TreeLive # {} => last <= last',
         UNCHANGED <<op, scan>> \/ op' \notin Scanning \cup {"owned"}
  PROVE  SweepInv'
<1>1. NumbersGrow'
  <2> SUFFICES ASSUME owned, NEW p \in TreeLive' PROVE p <= last'
    BY DEF NumbersGrow
  <2>1. p \in TreeLive /\ p \in Nat /\ last \in Nat
    BY ProcessAssumption DEF TreeKept, TreeLive, Pids, GroupsTypeOK
  <2> QED
    BY <2>1 DEF SweepInv, NumbersGrow
<1>2. NobodyBehind'
  BY DEF SweepInv, NobodyBehind, TreeKept, LeftAlone
<1> QED
  BY <1>1, <1>2 DEF SweepInv

\* What a live process of the run starts is numbered after the entry the pass
\* inspects, or was left alone with it.
LEMMA BornBehindNobody ==
  ASSUME GroupsTypeOK, SweepInv, NEW n \in Pids, NEW g, NEW inTree, Allocate(n),
         proc' = [proc EXCEPT ![n] = Newborn(g, inTree)],
         UNCHANGED <<owned, op, scan.cursor, scan.seen, scan.found>>,
         LeftAlone \subseteq LeftAlone',
         inTree /\ op \in Scanning =>
           \E p \in TreeLive : proc[p].birth \in LeftAlone => births + 1 \in LeftAlone'
  PROVE  SweepInv'
<1>1. /\ last' = n /\ n \in Nat /\ last \in Nat /\ n \notin TreeLive /\ scan.cursor \in Nat
      /\ proc'[n].birth = births + 1
  BY ProcessAssumption DEF Allocate, Free, TreeLive, Marked, Live, Pids, GroupsTypeOK, Newborn
<1>2. owned /\ TreeLive # {} => last < n
  BY <1>1 DEF Allocate, TreeAlive, TreeLive, Marked
<1>3. \A p \in TreeLive' : p # n => p \in TreeLive /\ proc'[p].birth = proc[p].birth
  BY DEF TreeLive, Marked, Live, Present, GroupsTypeOK
<1>4. n \in TreeLive' => inTree
  BY DEF TreeLive, Marked, Live, Newborn, GroupsTypeOK
<1>5. NumbersGrow'
  <2> SUFFICES ASSUME owned, NEW p \in TreeLive', p # n PROVE p <= n
    BY <1>1 DEF NumbersGrow
  <2>1. p \in TreeLive /\ p \in Nat
    BY <1>3, ProcessAssumption DEF TreeLive, Pids
  <2> QED
    BY <1>1, <1>2, <2>1 DEF SweepInv, NumbersGrow
<1>6. NobodyBehind'
  <2> SUFFICES ASSUME op \in Scanning, ~scan.found, n \in TreeLive'
               PROVE  n > scan.cursor \/ births + 1 \in LeftAlone'
    BY <1>1, <1>3 DEF SweepInv, NobodyBehind
  <2>1. owned
    BY DEF SweepInv
  <2>2. PICK p \in TreeLive : proc[p].birth \in LeftAlone => births + 1 \in LeftAlone'
    BY <1>4
  <2>3. p \in Nat /\ p <= last
    BY <1>1, <2>1, ProcessAssumption DEF SweepInv, NumbersGrow, TreeLive, Pids
  <2>4. p >= scan.cursor \/ proc[p].birth \in LeftAlone
    BY <1>1, <2>3 DEF SweepInv, NobodyBehind
  <2> QED
    BY <1>1, <1>2, <2>1, <2>2, <2>3, <2>4
<1> QED
  BY <1>5, <1>6 DEF SweepInv

LEMMA ForkSweeps ==
  ASSUME GroupsInv, SweepInv, NEW p \in Pids, NEW n \in Pids, Fork(p, n)
  PROVE  SweepInv'
<1>1. GroupsTypeOK /\ scan \in Scans
  BY DEF GroupsInv, GroupsTypeOK, Scans
<1>2. /\ Allocate(n) /\ UNCHANGED <<owned, op>>
      /\ proc' = [proc EXCEPT ![n] = Newborn(proc[p].group, proc[p].tree)]
  BY DEF Fork
<1>3. scan' = [scan EXCEPT !.moved = LeftWith(p, scan.moved), !.closed = LeftWith(p, scan.closed)]
  BY DEF Fork
<1>4. /\ UNCHANGED <<scan.cursor, scan.seen, scan.found>>
      /\ scan'.moved = LeftWith(p, scan.moved) /\ scan'.closed = LeftWith(p, scan.closed)
  BY <1>1, <1>3 DEF Scans
<1>5. /\ LeftAlone \subseteq LeftAlone'
      /\ proc[p].birth \in LeftAlone => births + 1 \in LeftAlone'
  BY <1>4 DEF LeftAlone, LeftWith
<1>6. proc[p].tree => p \in TreeLive
  BY DEF Fork, TreeLive, Marked
<1> QED
  BY <1>1, <1>2, <1>4, <1>5, <1>6, BornBehindNobody

LEMMA KernelSweeps ==
  ASSUME GroupsInv, SweepInv,
         \/ \E p, n \in Pids : Fork(p, n)
         \/ \E p \in Pids : Setsid(p) \/ Exit(p) \/ OtherStarts(p) \/ SpawnChild(p)
  PROVE  SweepInv'
<1>0. GroupsTypeOK /\ last \in Nat
  BY ProcessAssumption DEF GroupsInv, GroupsTypeOK
<1>1. ASSUME NEW p \in Pids, NEW n \in Pids, Fork(p, n) PROVE SweepInv'
  BY <1>1, ForkSweeps
<1>2. ASSUME NEW n \in Pids, OtherStarts(n) PROVE SweepInv'
  BY <1>0, <1>2, BornBehindNobody DEF OtherStarts, LeftAlone
<1>3. ASSUME NEW n \in Pids, SpawnChild(n) PROVE SweepInv'
  <2>1. op \notin Scanning
    BY <1>3 DEF SpawnChild, GroupsInv, LeaseInv, Launching, Scanning
  <2> QED
    BY <1>0, <1>3, <2>1, BornBehindNobody DEF SpawnChild, LeftAlone
<1>4. ASSUME NEW p \in Pids, Setsid(p) PROVE SweepInv'
  <2>1. \A q \in Pids : /\ proc'[q].birth = proc[q].birth
                         /\ proc'[q].tree = proc[q].tree
                         /\ proc'[q].zombie = proc[q].zombie
    BY <1>0, <1>4 DEF Setsid, GroupsTypeOK, Entries
  <2>2. TreeKept
    BY <2>1 DEF TreeKept, TreeLive, Marked, Live, Present
  <2> QED
    BY <1>0, <1>4, <2>2, SweepKept DEF Setsid
<1>5. ASSUME NEW p \in Pids, Exit(p) PROVE SweepInv'
  BY <1>0, <1>5, DeadShrink, SweepKept DEF Exit
<1> QED
  BY <1>1, <1>2, <1>3, <1>4, <1>5

LEMMA NookSweeps ==
  ASSUME GroupsInv, SweepInv,
         ReadIdentity \/ CleanupUnidentifiedChild \/ CommitLease
           \/ ForwardSignal \/ Reap \/ Finish \/ NookDies
  PROVE  SweepInv'
<1>0. GroupsTypeOK /\ last \in Nat
  BY ProcessAssumption DEF GroupsInv, GroupsTypeOK
<1>1. UNCHANGED <<owned, last, op, scan>>
  BY DEF ReadIdentity, CleanupUnidentifiedChild, CommitLease, ForwardSignal, Reap, Finish, NookDies
<1>2. TreeKept
  <2>1. CASE ForwardSignal
    BY <1>0, <2>1, DeadShrink DEF ForwardSignal, TerminateGroup
  <2>2. CASE ~ForwardSignal
    <3>1. \A p \in Pids : proc'[p] = proc[p] \/ proc'[p] = Nobody
      BY <1>0, <2>2 DEF ReadIdentity, CleanupUnidentifiedChild, CommitLease, Reap, Finish,
         NookDies, GroupsTypeOK
    <3> QED
      BY <3>1, TreeShrinks
  <2> QED
    BY <2>1, <2>2
<1> QED
  BY <1>0, <1>1, <1>2, SweepKept

LEMMA StopSweeps ==
  ASSUME GroupsInv, SweepInv,
         StopCheck \/ StopTerminate \/ StopFails \/ StopSeesExit \/ StopTimesOut \/ StopKill
           \/ OperationDies
  PROVE  SweepInv'
<1>0. GroupsTypeOK /\ last \in Nat
  BY ProcessAssumption DEF GroupsInv, GroupsTypeOK
<1>1. UNCHANGED <<owned, last>> /\ op' \notin Scanning \cup {"owned"}
  BY DEF StopCheck, StopTerminate, StopFails, StopSeesExit, StopTimesOut, StopKill,
     OperationDies, Scanning
<1>2. TreeKept
  <2>1. CASE StopTerminate \/ StopKill
    BY <1>0, <2>1, DeadShrink DEF StopTerminate, StopKill, TerminateGroup, KillGroup
  <2>2. CASE ~(StopTerminate \/ StopKill)
    BY <2>2, TreeShrinks DEF StopCheck, StopFails, StopSeesExit, StopTimesOut, OperationDies
  <2> QED
    BY <2>1, <2>2
<1> QED
  BY <1>0, <1>1, <1>2, SweepKept

\* A step of the pass leaves nobody behind but whom it records as left alone.
LEMMA PassLeavesNobody ==
  ASSUME GroupsInv, SweepInv, ScanLook \/ ScanPin \/ ScanAim, ~scan'.found, NEW p \in TreeLive
  PROVE  \/ p > scan'.cursor
         \/ proc[p].birth \in LeftAlone'
         \/ op' # "scan" /\ p = scan'.cursor /\ proc[p].birth = scan'.seen
<1>1. /\ scan \in Scans /\ scan.cursor \in 0..MaxPid /\ scan.cursor \in Nat
      /\ \A q \in Pids : q \in Nat /\ q \in 0..MaxPid
      /\ p \in Pids
  BY ProcessAssumption DEF GroupsInv, GroupsTypeOK, Scans, Pids, TreeLive
<1>2. CASE ScanLook
  <2>1. PICK q \in Ahead :
          /\ \A r \in Ahead : q <= r
          /\ \/ Marked(q) /\ Inspect(q)
             \/ /\ Marked(q)
                /\ scan' = [NextEntry(q) EXCEPT !.closed = @ \cup {proc[q].birth}]
             \/ ~Marked(q) /\ scan' = NextEntry(q)
    BY <1>2 DEF ScanLook
  <2>2. q \in Pids /\ q \in Nat
    BY <1>1 DEF Ahead
  <2>3. Inspect(q) => /\ scan'.cursor = q /\ scan'.seen = proc[q].birth /\ op' = "pin"
                      /\ scan'.found = scan.found /\ LeftAlone' = LeftAlone
    BY <1>1 DEF Inspect, Scans, LeftAlone
  <2>4. scan' = NextEntry(q) => /\ scan'.cursor = q /\ scan'.found = scan.found
                                /\ LeftAlone' = LeftAlone
    BY <1>1, <2>2, ScansTyped DEF LeftAlone
  <2>5. scan' = [NextEntry(q) EXCEPT !.closed = @ \cup {proc[q].birth}] =>
          /\ scan'.cursor = q /\ scan'.found = scan.found
          /\ LeftAlone' = LeftAlone \cup {proc[q].birth}
    BY <1>1, <2>2, ScansTyped DEF LeftAlone, Scans
  <2>6. p > scan.cursor \/ proc[p].birth \in LeftAlone
    BY <1>2, <2>1, <2>3, <2>4, <2>5 DEF ScanLook, SweepInv, NobodyBehind, Scanning
  <2>7. CASE p > scan.cursor
    <3>1. p \in Ahead /\ q <= p
      BY <1>1, <2>1, <2>7 DEF Ahead, TreeLive, Marked, Live
    <3>2. Marked(p)
      BY DEF TreeLive
    <3> QED
      BY <1>1, <2>1, <2>2, <2>3, <2>4, <2>5, <3>1, <3>2
  <2>8. CASE proc[p].birth \in LeftAlone
    BY <2>1, <2>3, <2>4, <2>5, <2>8
  <2> QED
    BY <2>6, <2>7, <2>8
<1>3. CASE ScanPin
  <2>1. scan' = [scan EXCEPT !.pinned = proc[scan.cursor].birth] \/ scan' = NextEntry(scan.cursor)
    BY <1>3 DEF ScanPin
  <2>2. /\ scan'.cursor = scan.cursor /\ scan'.found = scan.found /\ LeftAlone' = LeftAlone
        /\ op' = "aim" => scan'.seen = scan.seen
    BY <1>1, <1>3, <2>1, ScansTyped DEF ScanPin, Scans, LeftAlone
  <2>3. \/ p > scan.cursor
        \/ proc[p].birth \in LeftAlone
        \/ p = scan.cursor /\ proc[p].birth = scan.seen
    BY <1>3, <2>2 DEF ScanPin, SweepInv, NobodyBehind, Scanning
  <2>4. p = scan.cursor => op' = "aim"
    BY <1>3 DEF ScanPin, TreeLive, Marked, Live
  <2> QED
    BY <2>2, <2>3, <2>4
<1>4. CASE ScanAim
  <2>1. \/ op' = "fire" /\ scan' = scan
        \/ /\ op' = "scan"
           /\ scan' = [NextEntry(scan.cursor) EXCEPT !.moved = @ \cup {scan.seen}]
        \/ /\ op' = "scan" /\ scan' = NextEntry(scan.cursor)
           /\ ~(Marked(scan.cursor) /\ proc[scan.cursor].birth = scan.seen)
    BY <1>4 DEF ScanAim
  <2>2. scan'.cursor = scan.cursor /\ scan'.found = scan.found /\ LeftAlone \subseteq LeftAlone'
    BY <1>1, <2>1, ScansTyped DEF LeftAlone, Scans
  <2>3. scan' = [NextEntry(scan.cursor) EXCEPT !.moved = @ \cup {scan.seen}] =>
          scan.seen \in LeftAlone'
    BY <1>1, ScansTyped DEF LeftAlone, Scans
  <2>4. \/ p > scan.cursor
        \/ proc[p].birth \in LeftAlone
        \/ p = scan.cursor /\ proc[p].birth = scan.seen
    BY <1>4, <2>2 DEF ScanAim, SweepInv, NobodyBehind, Scanning
  <2>5. Marked(p)
    BY DEF TreeLive
  <2> QED
    BY <2>1, <2>2, <2>3, <2>4, <2>5
<1> QED
  BY <1>2, <1>3, <1>4

LEMMA PassSweeps ==
  ASSUME GroupsInv, SweepInv,
         RecoverStart \/ RecoverKill \/ ScanLook \/ ScanPin \/ ScanAim \/ ScanFire
           \/ ScanAgain \/ ScanClean
  PROVE  SweepInv'
<1>0. /\ GroupsTypeOK /\ last \in Nat /\ scan.cursor \in Nat
      /\ \A p \in Pids : p \in Nat /\ p > 0
  BY ProcessAssumption DEF GroupsInv, GroupsTypeOK, Pids
<1>1. UNCHANGED <<owned, last>>
  BY DEF RecoverStart, RecoverKill, ScanLook, ScanPin, ScanAim, ScanFire, ScanAgain, ScanClean
<1>2. op' \in Scanning \cup {"owned"} => owned
  BY DEF SweepInv, RecoverStart, RecoverKill, ScanLook, Inspect, ScanPin, ScanAim, ScanFire,
     ScanAgain, ScanClean, StartScan, Scanning
<1>3. TreeKept
  <2>1. CASE RecoverKill \/ ScanFire
    BY <1>0, <2>1, DeadShrink DEF RecoverKill, KillGroup, ScanFire
  <2>2. CASE ~(RecoverKill \/ ScanFire)
    BY <2>2, TreeShrinks DEF RecoverStart, ScanLook, ScanPin, ScanAim, ScanAgain, ScanClean
  <2> QED
    BY <2>1, <2>2
<1>4. NumbersGrow'
  BY <1>1, <1>3 DEF SweepInv, NumbersGrow, TreeKept
<1>5. NobodyBehind'
  <2> SUFFICES ASSUME op' \in Scanning, ~scan'.found, NEW p \in TreeLive'
               PROVE  \/ p > scan'.cursor
                      \/ proc'[p].birth \in LeftAlone'
                      \/ op' # "scan" /\ p = scan'.cursor /\ proc'[p].birth = scan'.seen
    BY DEF NobodyBehind
  <2>0. p \in TreeLive /\ p \in Pids /\ proc'[p].birth = proc[p].birth
    BY <1>3 DEF TreeKept, TreeLive
  <2>1. CASE RecoverStart \/ RecoverKill \/ ScanAgain
    <3>1. scan' = NoScan
      BY <2>1 DEF RecoverStart, RecoverKill, ScanAgain, StartScan, Scanning
    <3> QED
      BY <1>0, <2>0, <3>1 DEF NoScan
  <2>2. CASE ScanLook \/ ScanPin \/ ScanAim
    BY <2>0, <2>2, PassLeavesNobody
  <2>3. CASE ScanFire
    <3>1. scan.cursor \in 0..MaxPid
      BY <2>3 DEF ScanFire, GroupsInv, ScanInv, Pids
    <3>2. scan' = [NextEntry(scan.cursor) EXCEPT !.found = TRUE]
      BY <2>3 DEF ScanFire
    <3> QED
      BY <3>1, <3>2, ScansTyped DEF Scans
  <2>4. CASE ScanClean
    BY <2>4 DEF ScanClean, Scanning
  <2> QED
    BY <2>1, <2>2, <2>3, <2>4
<1> QED
  BY <1>1, <1>2, <1>4, <1>5 DEF SweepInv

LEMMA SweepHolds == GroupsSpec => []SweepInv
<1>1. GroupsInit => SweepInv
  BY DEF GroupsInit, SweepInv, NumbersGrow, NobodyBehind, TreeLive, Marked, Live, Present,
     Nobody, Scanning
<1>2. GroupsInv /\ SweepInv /\ [GroupsNext]_groupVars => SweepInv'
  <2> SUFFICES ASSUME GroupsInv, SweepInv, [GroupsNext]_groupVars PROVE SweepInv'
    OBVIOUS
  <2>1. CASE GroupsNext
    BY <2>1, KernelSweeps, NookSweeps, StopSweeps, PassSweeps DEF GroupsNext
  <2>2. CASE UNCHANGED groupVars
    BY <2>2 DEF groupVars, SweepInv, NumbersGrow, NobodyBehind, LeftAlone, TreeLive, Marked,
       Live, Present
  <2> QED
    BY <2>1, <2>2
<1> QED
  BY <1>1, <1>2, GroupsInvHolds, PTL DEF GroupsSpec

\* A recovery that reports a member as gone has left none of its descendants
\* alive, however they forked, exited, called setsid and were given each
\* other's numbers while it walked through /proc
\* (signal_marked_workspace_processes), but those its last pass left alone and
\* what they have started: whose environment it could not read, and who
\* changed their group between its two looks at them.
THEOREM RecoveryIsComplete == GroupsSpec => RecoveryFindsAll
<1>1. GroupsInv /\ SweepInv /\ [GroupsNext]_groupVars
        => [ScanClean => \A p \in Pids : Marked(p) => proc[p].birth \in LeftAlone]_groupVars
  <2> SUFFICES ASSUME GroupsInv, SweepInv, ScanClean, NEW p \in TreeLive
               PROVE  proc[p].birth \in LeftAlone
    BY DEF TreeLive
  <2>1. p > scan.cursor \/ proc[p].birth \in LeftAlone
    BY DEF ScanClean, SweepInv, NobodyBehind, Scanning
  <2>2. p > scan.cursor => p \in Ahead
    BY DEF Ahead, TreeLive, Marked, Live
  <2> QED
    BY <2>1, <2>2 DEF ScanClean
<1> QED
  BY <1>1, GroupsInvHolds, SweepHolds, PTL DEF GroupsSpec, RecoveryFindsAll
=============================================================================
