--------------------------- MODULE ProcessGroups ---------------------------
(***************************************************************************)
(* The processes of one managed run as the kernel numbers them, and every  *)
(* signal Nook sends them: the nook that launched the run and forwards     *)
(* signals to its group, `nook stop`, and the recovery of a session        *)
(* member whose nook died.  A run is a child leading a process group of    *)
(* its own; its descendants stay in that group or leave it with setsid.    *)
(* Numbers are reused: a process is the same one only if its number, its   *)
(* group and its start time (a unique birth here) agree.                   *)
(***************************************************************************)
EXTENDS Integers, FiniteSets

CONSTANTS
    MaxPid,     \* process numbers are 1..MaxPid
    MaxBirths   \* bound on the processes ever started

ASSUME ProcessAssumption ==
    /\ MaxPid \in Nat \ {0}
    /\ MaxBirths \in Nat

VARIABLES
    proc,        \* the process table
    last,        \* the number given out last
    births,      \* how many processes have been started
    owned,       \* a member of a workspace session: its tree carries a marker
    nook,        \* where the launching nook is
    child,       \* the identity that nook keeps of its child (ManagedChild)
    lease,       \* the identity the registry keeps of it (Lease)
    op,          \* the step of the command holding the operation lock
    force,       \* it is `nook stop --force`
    scan,        \* the pass over /proc of a recovery
    bystanders   \* births of processes outside the run that Nook signalled

groupVars == <<proc, last, births, owned, nook, child, lease, op, force, scan,
               bystanders>>

Pids == 1..MaxPid
Nobody == [birth |-> 0, group |-> 0, tree |-> FALSE, zombie |-> FALSE]
Entries == [birth : 0..MaxBirths, group : 0..MaxPid, tree : BOOLEAN, zombie : BOOLEAN]
Identity == [pid : Pids, birth : 1..MaxBirths]
NoIdentity == [pid |-> 0, birth |-> 0]

NookSteps == {"launching", "spawned", "launched", "running", "reaped", "gone"}
OpSteps == {"none", "stop", "polling", "kill", "owned", "scan", "pin", "aim", "fire"}
\* cursor: the entry of /proc inspected; seen: the identity read there;
\* pinned: the process its pidfd holds; found: this pass signalled a process.
\* History, of the descendants this pass left alone, by their births: moved
\* changed their group under its eyes, closed could not be read.
NoScan == [cursor |-> 0, seen |-> 0, group |-> 0, pinned |-> 0, found |-> FALSE,
           moved |-> {}, closed |-> {}]

-----------------------------------------------------------------------------
(* The kernel: numbers, groups, death.                                     *)

Present(p) == proc[p].birth > 0
Live(p) == Present(p) /\ ~proc[p].zombie
Members(g) == {p \in Pids : Present(p) /\ proc[p].group = g}
TreeAlive == \E p \in Pids : Live(p) /\ proc[p].tree

\* Mutation of SameProcess: a process of the recorded number will do.
SameNumber(id) == id # NoIdentity /\ Present(id.pid)

\* ProcIdentity as read from /proc/<pid>/stat: the same process, zombie or not
SameProcess(id) ==
    /\ id # NoIdentity
    /\ proc[id.pid].birth = id.birth
    /\ proc[id.pid].group = id.pid

\* lease_liveness: a zombie, a reused number and another group are all dead
Alive(id) == SameProcess(id) /\ Live(id.pid)

\* The nook holding the child unreaped: its death leaves a zombie
HoldsChild == nook \in {"spawned", "launched", "running"}
IsChild(p) == HoldsChild /\ p = child.pid /\ proc[p].birth = child.birth

Die(dead) ==
    [p \in Pids |-> CASE p \notin dead -> proc[p]
                      [] p \in dead /\ IsChild(p) -> [proc[p] EXCEPT !.zombie = TRUE]
                      [] OTHER -> Nobody]

\* Numbers some nook has just checked and is about to signal.  A number is
\* assumed not to be given out again inside such a window: that takes a full
\* turn of the number space between two system calls.
Checked ==
    (IF op \in {"stop", "kill", "owned"} THEN {lease.pid} ELSE {})
      \cup (IF nook = "reaped" THEN {child.pid} ELSE {})

\* The kernel gives out a number neither a process nor a group is using, and
\* goes upwards until it starts over.  A marked tree is assumed not to live
\* across the turn, so that its processes are numbered in the order of birth.
Free(n) == ~Present(n) /\ Members(n) = {} /\ n \notin Checked

Allocate(n) ==
    /\ births < MaxBirths
    /\ Free(n)
    /\ n > last \/ ~(owned /\ TreeAlive)
    /\ last' = n
    /\ births' = births + 1

Newborn(g, inTree) ==
    [birth |-> births + 1, group |-> g, tree |-> inTree, zombie |-> FALSE]

\* Every process a signal reaches that does not belong to the run
Strike(targets) ==
    bystanders' = bystanders \cup {proc[p].birth : p \in {q \in targets : ~proc[q].tree}}

\* kill(-pgid): SIGKILL ends every live member; of those that get SIGTERM or
\* SIGINT any may end at once and the others handle it.  It fails with ESRCH
\* when the group is empty.
KillGroup(g) ==
    /\ Strike(Members(g))
    /\ proc' = Die({p \in Members(g) : Live(p)})

TerminateGroup(g) ==
    /\ Strike(Members(g))
    /\ \E dead \in SUBSET {p \in Members(g) : Live(p)} : proc' = Die(dead)

-----------------------------------------------------------------------------
(* The processes themselves, and unrelated programs of the same user.      *)

\* History: what a process starts that the pass left alone is of its kind.
LeftWith(p, left) == IF proc[p].birth \in left THEN left \cup {births + 1} ELSE left

Fork(p, n) ==
    /\ Live(p)
    /\ Allocate(n)
    /\ proc' = [proc EXCEPT ![n] = Newborn(proc[p].group, proc[p].tree)]
    /\ scan' = [scan EXCEPT !.moved = LeftWith(p, @), !.closed = LeftWith(p, @)]
    /\ UNCHANGED <<owned, nook, child, lease, op, force, bystanders>>

\* A descendant starts a session, hence a group, of its own
Setsid(p) ==
    /\ Live(p)
    /\ proc[p].tree
    /\ proc[p].group # p
    /\ proc' = [proc EXCEPT ![p].group = p]
    /\ UNCHANGED <<last, births, owned, nook, child, lease, op, force, scan, bystanders>>

Exit(p) ==
    /\ Live(p)
    /\ proc' = Die({p})
    /\ UNCHANGED <<last, births, owned, nook, child, lease, op, force, scan, bystanders>>

OtherStarts(n) ==
    /\ Allocate(n)
    /\ proc' = [proc EXCEPT ![n] = Newborn(n, FALSE)]
    /\ UNCHANGED <<owned, nook, child, lease, op, force, scan, bystanders>>

-----------------------------------------------------------------------------
(* The nook that launches the run, under the operation lock until the      *)
(* lease is recorded, and waits for its child.                             *)

Launching == nook \in {"launching", "spawned", "launched"}
LockFree == op = "none" /\ ~Launching

SpawnChild(n) ==
    /\ nook = "launching"
    /\ Allocate(n)
    /\ proc' = [proc EXCEPT ![n] = Newborn(n, TRUE)]
    /\ child' = [pid |-> n, birth |-> births + 1]
    /\ nook' = "spawned"
    /\ UNCHANGED <<owned, lease, op, force, scan, bystanders>>

ReadIdentity ==
    /\ nook = "spawned"
    /\ nook' = "launched"
    /\ UNCHANGED <<proc, last, births, owned, child, lease, op, force, scan, bystanders>>

\* The identity cannot be read: the group the child leads is killed, then the
\* child is waited for.
CleanupUnidentifiedChild ==
    /\ nook = "spawned"
    /\ Strike(Members(child.pid))
    /\ proc' = [p \in Pids |-> IF p \in Members(child.pid) THEN Nobody ELSE proc[p]]
    /\ nook' = "gone"
    /\ UNCHANGED <<last, births, owned, child, lease, op, force, scan>>

CommitLease ==
    /\ nook = "launched"
    /\ lease' = child
    /\ nook' = "running"
    /\ UNCHANGED <<proc, last, births, owned, child, op, force, scan, bystanders>>

\* A signal nook receives while it waits goes to the group of its child.  A
\* session member first reads that the number is still its child's.
ForwardSignal ==
    /\ nook \in {"running", "reaped"}
    /\ owned => SameProcess(child)
    /\ TerminateGroup(child.pid)
    /\ UNCHANGED <<last, births, owned, nook, child, lease, op, force, scan>>

\* try_wait: the child's exit status is taken and its number becomes free
Reap ==
    /\ nook = "running"
    /\ proc[child.pid].zombie
    /\ proc' = [proc EXCEPT ![child.pid] = Nobody]
    /\ nook' = "reaped"
    /\ UNCHANGED <<last, births, owned, child, lease, op, force, scan, bystanders>>

\* cleanup_run_route drops the lease, under the operation lock
Finish ==
    /\ nook = "reaped"
    /\ LockFree
    /\ lease' = NoIdentity
    /\ nook' = "gone"
    /\ UNCHANGED <<proc, last, births, owned, child, op, force, scan, bystanders>>

\* The nook dies: an unreaped child is reaped by init, a live one is sent
\* SIGTERM (PR_SET_PDEATHSIG) and may end at once.
NookDies ==
    /\ nook \notin {"launching", "gone"}
    /\ nook' = "gone"
    /\ \E ends \in BOOLEAN :
         proc' = [p \in Pids |-> IF IsChild(p) /\ (proc[p].zombie \/ ends)
                                 THEN Nobody ELSE proc[p]]
    /\ UNCHANGED <<last, births, owned, child, lease, op, force, scan, bystanders>>

-----------------------------------------------------------------------------
(* `nook stop [--force]`.                                                  *)

\* The lease is found and its process is the recorded one, alive
StopCheck ==
    /\ LockFree
    /\ Alive(lease)
    /\ op' = "stop"
    /\ force' \in BOOLEAN
    /\ UNCHANGED <<proc, last, births, owned, nook, child, lease, scan, bystanders>>

StopTerminate ==
    /\ op = "stop"
    /\ Members(lease.pid) # {}
    /\ TerminateGroup(lease.pid)
    /\ op' = IF force THEN "polling" ELSE "none"
    /\ UNCHANGED <<last, births, owned, nook, child, lease, force, scan>>

\* The group is gone: SIGTERM fails, and so does the SIGKILL that --force adds
StopFails ==
    /\ op \in {"stop", "kill"}
    /\ Members(lease.pid) = {}
    /\ op' = "none"
    /\ UNCHANGED <<proc, last, births, owned, nook, child, lease, force, scan, bystanders>>

StopSeesExit ==
    /\ op = "polling"
    /\ ~Alive(lease)
    /\ op' = "none"
    /\ UNCHANGED <<proc, last, births, owned, nook, child, lease, force, scan, bystanders>>

\* Two seconds of polls later the leader is still the recorded process
StopTimesOut ==
    /\ op = "polling"
    /\ Alive(lease)
    /\ op' = "kill"
    /\ UNCHANGED <<proc, last, births, owned, nook, child, lease, force, scan, bystanders>>

StopKill ==
    /\ op = "kill"
    /\ Members(lease.pid) # {}
    /\ KillGroup(lease.pid)
    /\ op' = "none"
    /\ UNCHANGED <<last, births, owned, nook, child, lease, force, scan>>

-----------------------------------------------------------------------------
(* Recovery of a member whose nook died: its recorded group, then every    *)
(* process that inherited its marker, entry by entry of /proc.             *)

StartScan == op' = "scan" /\ scan' = NoScan

RecoverStart ==
    /\ owned
    /\ nook = "gone"
    /\ LockFree
    /\ IF SameProcess(lease)
       THEN op' = "owned" /\ UNCHANGED scan
       ELSE StartScan
    /\ UNCHANGED <<proc, last, births, owned, nook, child, lease, force, bystanders>>

\* kill_owned_lease; an empty group (ESRCH) is no error
RecoverKill ==
    /\ op = "owned"
    /\ KillGroup(lease.pid)
    /\ StartScan
    /\ UNCHANGED <<last, births, owned, nook, child, lease, force>>

\* The scan is done with the entry p
NextEntry(p) == [scan EXCEPT !.cursor = p, !.seen = 0, !.group = 0, !.pinned = 0]

Ahead == {p \in Pids : p > scan.cursor /\ Present(p)}

Marked(p) == Live(p) /\ proc[p].tree

Inspect(p) ==
    /\ scan' = [scan EXCEPT !.cursor = p, !.seen = proc[p].birth, !.group = proc[p].group]
    /\ op' = "pin"

\* Mutation of ScanLook: only the recorded group is looked at.
ScanLookInGroup ==
    /\ op = "scan"
    /\ \E p \in Ahead :
         /\ \A q \in Ahead : p <= q
         /\ IF Marked(p) /\ proc[p].group = lease.pid THEN Inspect(p)
            ELSE scan' = NextEntry(p) /\ UNCHANGED op
    /\ UNCHANGED <<proc, last, births, owned, nook, child, lease, force, bystanders>>

\* The next entry: its marker is read, then the identity of that number. An
\* environment that cannot be read is nobody's, whoever the process is.
ScanLook ==
    /\ op = "scan"
    /\ \E p \in Ahead :
         /\ \A q \in Ahead : p <= q
         /\ \/ Marked(p) /\ Inspect(p)
            \/ /\ Marked(p)
               /\ scan' = [NextEntry(p) EXCEPT !.closed = @ \cup {proc[p].birth}]
               /\ UNCHANGED op
            \/ ~Marked(p) /\ scan' = NextEntry(p) /\ UNCHANGED op
    /\ UNCHANGED <<proc, last, births, owned, nook, child, lease, force, bystanders>>

\* pidfd_open
ScanPin ==
    /\ op = "pin"
    /\ IF Present(scan.cursor)
       THEN op' = "aim" /\ scan' = [scan EXCEPT !.pinned = proc[scan.cursor].birth]
       ELSE op' = "scan" /\ scan' = NextEntry(scan.cursor)
    /\ UNCHANGED <<proc, last, births, owned, nook, child, lease, force, bystanders>>

\* The identity and the marker are read again, now that the process is pinned;
\* one that changed its group meanwhile counts as another process.
ScanAim ==
    /\ op = "aim"
    /\ LET p == scan.cursor
           same == Marked(p) /\ proc[p].birth = scan.seen
       IN \/ same /\ proc[p].group = scan.group /\ op' = "fire" /\ UNCHANGED scan
          \/ /\ same /\ proc[p].group # scan.group
             /\ op' = "scan"
             /\ scan' = [NextEntry(p) EXCEPT !.moved = @ \cup {scan.seen}]
          \/ ~same /\ op' = "scan" /\ scan' = NextEntry(p)
    /\ UNCHANGED <<proc, last, births, owned, nook, child, lease, force, bystanders>>

\* pidfd_send_signal reaches the pinned process or nobody
ScanFire ==
    /\ op = "fire"
    /\ LET target == {p \in Pids : Live(p) /\ proc[p].birth = scan.pinned}
       IN Strike(target) /\ proc' = Die(target)
    /\ op' = "scan"
    /\ scan' = [NextEntry(scan.cursor) EXCEPT !.found = TRUE]
    /\ UNCHANGED <<last, births, owned, nook, child, lease, force>>

\* A pass that signalled a process is followed by another, for two seconds;
\* then the recovery fails and stays to be retried.
ScanAgain ==
    /\ op = "scan"
    /\ Ahead = {}
    /\ scan.found
    /\ StartScan \/ (op' = "none" /\ scan' = NoScan)
    /\ UNCHANGED <<proc, last, births, owned, nook, child, lease, force, bystanders>>

\* A pass found nothing: the member counts as recovered
ScanClean ==
    /\ op = "scan"
    /\ Ahead = {}
    /\ ~scan.found
    /\ op' = "none"
    /\ scan' = NoScan
    /\ lease' = NoIdentity
    /\ UNCHANGED <<proc, last, births, owned, nook, child, force, bystanders>>

\* The command holding the lock is killed
OperationDies ==
    /\ op # "none"
    /\ op' = "none"
    /\ scan' = NoScan
    /\ UNCHANGED <<proc, last, births, owned, nook, child, lease, force, bystanders>>

-----------------------------------------------------------------------------
GroupsInit ==
    /\ proc = [p \in Pids |-> Nobody]
    /\ last = 0
    /\ births = 0
    /\ owned \in BOOLEAN
    /\ nook = "launching"
    /\ child = NoIdentity
    /\ lease = NoIdentity
    /\ op = "none"
    /\ force = FALSE
    /\ scan = NoScan
    /\ bystanders = {}

GroupsNext ==
    \/ \E p, n \in Pids : Fork(p, n)
    \/ \E p \in Pids : Setsid(p) \/ Exit(p) \/ OtherStarts(p) \/ SpawnChild(p)
    \/ ReadIdentity \/ CleanupUnidentifiedChild \/ CommitLease
    \/ ForwardSignal \/ Reap \/ Finish \/ NookDies
    \/ StopCheck \/ StopTerminate \/ StopFails \/ StopSeesExit \/ StopTimesOut \/ StopKill
    \/ RecoverStart \/ RecoverKill
    \/ ScanLook \/ ScanPin \/ ScanAim \/ ScanFire \/ ScanAgain \/ ScanClean
    \/ OperationDies

GroupsSpec == GroupsInit /\ [][GroupsNext]_groupVars

-----------------------------------------------------------------------------
GroupsTypeOK ==
    /\ proc \in [Pids -> Entries]
    /\ last \in 0..MaxPid
    /\ births \in 0..MaxBirths
    /\ owned \in BOOLEAN
    /\ nook \in NookSteps
    /\ child \in Identity \cup {NoIdentity}
    /\ lease \in Identity \cup {NoIdentity}
    /\ op \in OpSteps
    /\ force \in BOOLEAN
    /\ scan \in [cursor : 0..MaxPid, seen : 0..MaxBirths, group : 0..MaxPid,
                 pinned : 0..MaxBirths, found : BOOLEAN,
                 moved : SUBSET (1..MaxBirths), closed : SUBSET (1..MaxBirths)]
    /\ bystanders \subseteq 1..MaxBirths

\* No signal Nook sends reaches a process outside the run it means: not a stop
\* through a lease whose number was given to another program, not a recovery
\* of a tree whose numbers were, not a forwarded signal after the child ended.
SignalsStayInRun == bystanders = {}

LeftAlone == scan.moved \cup scan.closed

\* When a recovery reports that a member is gone, none of its descendants is
\* alive, however they forked while it looked and wherever they had moved,
\* with two exceptions, and what these have started. One is a descendant
\* whose environment it could not read (process.rs:2378). The other is one
\* that calls setsid between the two looks of the last pass at it, which takes
\* it for another process (process.rs:2619); process.rs:2403 says that setsid
\* descendants are covered, which is so once they have left their group.
RecoveryFindsAll ==
    [][ScanClean => \A p \in Pids : Marked(p) => proc[p].birth \in LeftAlone]_groupVars

\* README.md:406 of `stop --force`: it "waits up to two seconds, then forcibly
\* terminates the same process tree if it is still alive".  When the command
\* succeeds, nothing of the tree in the group it stops is alive.
ForcedStopEndsTree ==
    [][StopSeesExit \/ StopKill =>
         ~\E p \in Members(lease.pid)' : Live(p)']_groupVars

-----------------------------------------------------------------------------
(* Why SignalsStayInRun holds: the parts of an inductive invariant.        *)

\* A birth is given once; a group is all in the run or all outside it, and
\* a process that is not in the group of its own number left none in it.
KernelInv ==
    /\ \A p \in Pids :
         Present(p) => /\ proc[p].group \in Pids
                       /\ proc[p].birth <= births
                       /\ proc[p].group # p => Members(p) = {}
    /\ \A p, q \in Pids :
         Present(p) /\ Present(q) =>
           /\ proc[p].birth = proc[q].birth => p = q
           /\ proc[p].group = proc[q].group => proc[p].tree = proc[q].tree

InRun(g) == \A p \in Members(g) : proc[p].tree

\* Who still is what was launched is of the run; a child that is not yet
\* reaped is there; a number that was checked is not used by others.
ChildInv ==
    /\ child # NoIdentity =>
         /\ child.birth <= births
         /\ proc[child.pid].birth = child.birth => proc[child.pid].tree
    /\ nook = "launching" => child = NoIdentity
    /\ HoldsChild => SameProcess(child)
    /\ nook = "reaped" => child # NoIdentity /\ InRun(child.pid)

LeaseInv ==
    /\ lease \in {NoIdentity, child}
    /\ op # "none" => ~Launching
    /\ op \in {"stop", "kill", "owned"} => lease # NoIdentity /\ InRun(lease.pid)

\* A process pinned and aimed at is the one whose marker was read
ScanInv ==
    /\ op \in {"pin", "aim", "fire"} => scan.cursor \in Pids /\ scan.seen \in 1..births
    /\ op \in {"aim", "fire"} => scan.pinned \in 1..births
    /\ op = "aim" /\ proc[scan.cursor].birth = scan.seen => scan.pinned = scan.seen
    /\ op = "fire" => \A p \in Pids : proc[p].birth = scan.pinned => proc[p].tree

GroupsInv ==
    GroupsTypeOK /\ KernelInv /\ ChildInv /\ LeaseInv /\ ScanInv /\ SignalsStayInRun

-----------------------------------------------------------------------------
(* Why RecoveryFindsAll holds.                                             *)

Scanning == {"scan", "pin", "aim", "fire"}

\* The processes of the run that a recovery has to find.
TreeLive == {p \in Pids : Marked(p)}

\* A marked tree is numbered upwards, so that what it forks comes after the
\* number given out last.
NumbersGrow == owned => \A p \in TreeLive : p <= last

\* As long as a pass has signalled nobody, nothing of the tree is alive behind
\* it but what it left alone, and the entry it inspects is still who it read
\* there.
NobodyBehind ==
    op \in Scanning /\ ~scan.found =>
      \A p \in TreeLive :
        \/ p > scan.cursor
        \/ proc[p].birth \in LeftAlone
        \/ op # "scan" /\ p = scan.cursor /\ proc[p].birth = scan.seen

SweepInv ==
    /\ op \in Scanning \cup {"owned"} => owned
    /\ NumbersGrow
    /\ NobodyBehind
=============================================================================
