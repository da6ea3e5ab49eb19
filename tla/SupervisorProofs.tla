-------------------------- MODULE SupervisorProofs --------------------------
(***************************************************************************)
(* Proofs about RunSupervisor: what nook does with the terminal, and when  *)
(* it records a run as ready, in every behaviour.  Each part of the        *)
(* invariant is shown for the steps of one phase at a time.                *)
(***************************************************************************)
EXTENDS RunSupervisor, TLAPS

\* Nook listens on the port only while it has it reserved, and a run never
\* becomes ready without an answer from somebody else.
PortInv ==
    /\ port = "nook" => nook = "reserved"
    /\ lease = "ready" => answered \in {"child", "other"}

\* The child, or a group of its own making, has the terminal only while nook
\* holds the guard that takes it back; the guard is gone when the run ends.
GuardInv ==
    /\ tty \in {"child", "descendant"} => held
    /\ nook \in {"start", "reserved", "released", "cleanup", "done"} => ~held
    /\ nook = "acquired" /\ jobControl /\ tty = "job" => held

\* While nook holds the guard, its job runs in the foreground.
ForegroundInv ==
    /\ held => jobControl /\ ~suspended /\ tty # "shell"
    /\ nook \in {"r_suspend", "w_suspend"} => ~held

-----------------------------------------------------------------------------
LEMMA InitHolds ==
  ASSUME SupervisorInit
  PROVE  SupervisorTypeOK /\ PortInv /\ GuardInv /\ ForegroundInv
<1>1. SupervisorTypeOK
  BY DEF SupervisorInit, SupervisorTypeOK, NookSteps
<1>2. PortInv
  BY DEF SupervisorInit, PortInv
<1>3. GuardInv /\ ForegroundInv
  BY DEF SupervisorInit, GuardInv, ForegroundInv
<1> QED BY <1>1, <1>2, <1>3

\* A step is one of these, or none
LEMMA StepKinds ==
  ASSUME [SupervisorNext]_supervisorVars
  PROVE  \/ UNCHANGED supervisorVars
         \/ ReservePort \/ ReleasePort \/ AcquireTerminal
         \/ Spawn \/ SpawnFails \/ Launch
         \/ CommitRun \/ CommitFails \/ Cleanup
         \/ LanPoll \/ LanSkip
         \/ ProbeAccepted \/ ProbeRefused \/ ReadinessSeesExit
         \/ WaitSeesExit \/ StillRunning \/ NothingToFollow
         \/ SyncTerminal \/ FollowStoppedChild
         \/ SuspendJob \/ ResumeChild
         \/ ChildBinds \/ OtherBinds \/ ChildExits
         \/ ChildStops \/ ChildMovesTerminal \/ Displace
         \/ ShellNoticesStop \/ Foreground \/ Background \/ StopJob
BY DEF SupervisorNext, NookRuns

\* Every variable keeps its type.
LEMMA TypesKept ==
  ASSUME SupervisorTypeOK,
         [SupervisorNext]_supervisorVars
  PROVE  SupervisorTypeOK'
<1> USE DEF SupervisorTypeOK, NookSteps, Step, Claim, MayAcquire, MayReassign, Restore
<1>0. CASE UNCHANGED supervisorVars
  BY <1>0 DEF supervisorVars
<1>1. CASE ReservePort \/ ReleasePort \/ AcquireTerminal
  BY <1>1 DEF ReservePort, ReleasePort, AcquireTerminal
<1>2. CASE Spawn \/ SpawnFails \/ Launch
  BY <1>2 DEF Spawn, SpawnFails, Launch
<1>3. CASE CommitRun \/ CommitFails \/ Cleanup
  BY <1>3 DEF CommitRun, CommitFails, Cleanup
<1>4. CASE LanPoll \/ LanSkip
  BY <1>4 DEF LanPoll, LanSkip
<1>5. CASE ProbeAccepted \/ ProbeRefused \/ ReadinessSeesExit
  BY <1>5 DEF ProbeAccepted, ProbeRefused, ReadinessSeesExit
<1>6. CASE WaitSeesExit \/ StillRunning \/ NothingToFollow
  BY <1>6 DEF WaitSeesExit, StillRunning, NothingToFollow
<1>7. CASE SyncTerminal \/ FollowStoppedChild
  BY <1>7 DEF SyncTerminal, FollowStoppedChild
<1>8. CASE SuspendJob \/ ResumeChild
  BY <1>8 DEF SuspendJob, ResumeChild
<1>9. CASE ChildBinds \/ OtherBinds \/ ChildExits
  BY <1>9 DEF ChildBinds, OtherBinds, ChildExits
<1>10. CASE ChildStops \/ ChildMovesTerminal \/ Displace
  BY <1>10 DEF ChildStops, ChildMovesTerminal, Displace
<1>11. CASE ShellNoticesStop \/ Foreground \/ Background \/ StopJob
  BY <1>11 DEF ShellNoticesStop, Foreground, Background, StopJob
<1> QED
  BY StepKinds,
     <1>0, <1>1, <1>2, <1>3, <1>4, <1>5, <1>6,
     <1>7, <1>8, <1>9, <1>10, <1>11

\* Only an answer to the probe makes a run ready, and nook no longer listens then.
LEMMA PortKept ==
  ASSUME SupervisorTypeOK, PortInv,
         [SupervisorNext]_supervisorVars
  PROVE  PortInv'
<1> USE DEF SupervisorTypeOK, NookSteps, Step, Claim, MayAcquire, MayReassign, Restore,
        PortInv
<1>0. CASE UNCHANGED supervisorVars
  BY <1>0 DEF supervisorVars
<1>1. CASE ReservePort \/ ReleasePort \/ AcquireTerminal
  BY <1>1 DEF ReservePort, ReleasePort, AcquireTerminal
<1>2. CASE Spawn \/ SpawnFails \/ Launch
  BY <1>2 DEF Spawn, SpawnFails, Launch
<1>3. CASE CommitRun \/ CommitFails \/ Cleanup
  BY <1>3 DEF CommitRun, CommitFails, Cleanup
<1>4. CASE LanPoll \/ LanSkip
  BY <1>4 DEF LanPoll, LanSkip
<1>5. CASE ProbeAccepted \/ ProbeRefused \/ ReadinessSeesExit
  BY <1>5 DEF ProbeAccepted, ProbeRefused, ReadinessSeesExit
<1>6. CASE WaitSeesExit \/ StillRunning \/ NothingToFollow
  BY <1>6 DEF WaitSeesExit, StillRunning, NothingToFollow
<1>7. CASE SyncTerminal \/ FollowStoppedChild
  BY <1>7 DEF SyncTerminal, FollowStoppedChild
<1>8. CASE SuspendJob \/ ResumeChild
  BY <1>8 DEF SuspendJob, ResumeChild
<1>9. CASE ChildBinds \/ OtherBinds \/ ChildExits
  BY <1>9 DEF ChildBinds, OtherBinds, ChildExits
<1>10. CASE ChildStops \/ ChildMovesTerminal \/ Displace
  BY <1>10 DEF ChildStops, ChildMovesTerminal, Displace
<1>11. CASE ShellNoticesStop \/ Foreground \/ Background \/ StopJob
  BY <1>11 DEF ShellNoticesStop, Foreground, Background, StopJob
<1> QED
  BY StepKinds,
     <1>0, <1>1, <1>2, <1>3, <1>4, <1>5, <1>6,
     <1>7, <1>8, <1>9, <1>10, <1>11

\* The terminal goes to the child only under the guard, and the guard's end takes
\* it back.  A shell that foregrounds the job between nook's look at the terminal
\* and the child's would break this.
LEMMA GuardKept ==
  ASSUME SupervisorTypeOK, ~ShellDuringSpawn, GuardInv,
         [SupervisorNext]_supervisorVars
  PROVE  GuardInv'
<1> USE DEF SupervisorTypeOK, NookSteps, Step, Claim, MayAcquire, MayReassign, Restore,
        GuardInv
<1>0. CASE UNCHANGED supervisorVars
  BY <1>0 DEF supervisorVars
<1>1. CASE ReservePort \/ ReleasePort \/ AcquireTerminal
  BY <1>1 DEF ReservePort, ReleasePort, AcquireTerminal
<1>2. CASE Spawn \/ SpawnFails \/ Launch
  BY <1>2 DEF Spawn, SpawnFails, Launch
<1>3. CASE CommitRun \/ CommitFails \/ Cleanup
  BY <1>3 DEF CommitRun, CommitFails, Cleanup
<1>4. CASE LanPoll \/ LanSkip
  BY <1>4 DEF LanPoll, LanSkip
<1>5. CASE ProbeAccepted \/ ProbeRefused \/ ReadinessSeesExit
  BY <1>5 DEF ProbeAccepted, ProbeRefused, ReadinessSeesExit
<1>6. CASE WaitSeesExit \/ StillRunning \/ NothingToFollow
  BY <1>6 DEF WaitSeesExit, StillRunning, NothingToFollow
<1>7. CASE SyncTerminal \/ FollowStoppedChild
  BY <1>7 DEF SyncTerminal, FollowStoppedChild
<1>8. CASE SuspendJob \/ ResumeChild
  BY <1>8 DEF SuspendJob, ResumeChild
<1>9. CASE ChildBinds \/ OtherBinds \/ ChildExits
  BY <1>9 DEF ChildBinds, OtherBinds, ChildExits
<1>10. CASE ChildStops \/ ChildMovesTerminal \/ Displace
  BY <1>10 DEF ChildStops, ChildMovesTerminal, Displace
<1>11. CASE ShellNoticesStop \/ Foreground \/ Background \/ StopJob
  BY <1>11 DEF ShellNoticesStop, Foreground, Background, StopJob
<1> QED
  BY StepKinds,
     <1>0, <1>1, <1>2, <1>3, <1>4, <1>5, <1>6,
     <1>7, <1>8, <1>9, <1>10, <1>11

\* The shell gets the terminal only when nook's job is stopped, and nook gives the
\* guard up before it stops its job.
LEMMA ForegroundKept ==
  ASSUME SupervisorTypeOK, ~NookStoppedAlone, GuardInv, ForegroundInv,
         [SupervisorNext]_supervisorVars
  PROVE  ForegroundInv'
<1> USE DEF SupervisorTypeOK, NookSteps, Step, Claim, MayAcquire, MayReassign, Restore,
        GuardInv, ForegroundInv
<1>0. CASE UNCHANGED supervisorVars
  BY <1>0 DEF supervisorVars
<1>1. CASE ReservePort \/ ReleasePort \/ AcquireTerminal
  BY <1>1 DEF ReservePort, ReleasePort, AcquireTerminal
<1>2. CASE Spawn \/ SpawnFails \/ Launch
  BY <1>2 DEF Spawn, SpawnFails, Launch
<1>3. CASE CommitRun \/ CommitFails \/ Cleanup
  BY <1>3 DEF CommitRun, CommitFails, Cleanup
<1>4. CASE LanPoll \/ LanSkip
  BY <1>4 DEF LanPoll, LanSkip
<1>5. CASE ProbeAccepted \/ ProbeRefused \/ ReadinessSeesExit
  BY <1>5 DEF ProbeAccepted, ProbeRefused, ReadinessSeesExit
<1>6. CASE WaitSeesExit \/ StillRunning \/ NothingToFollow
  BY <1>6 DEF WaitSeesExit, StillRunning, NothingToFollow
<1>7. CASE SyncTerminal \/ FollowStoppedChild
  BY <1>7 DEF SyncTerminal, FollowStoppedChild
<1>8. CASE SuspendJob \/ ResumeChild
  BY <1>8 DEF SuspendJob, ResumeChild
<1>9. CASE ChildBinds \/ OtherBinds \/ ChildExits
  BY <1>9 DEF ChildBinds, OtherBinds, ChildExits
<1>10. CASE ChildStops \/ ChildMovesTerminal \/ Displace
  BY <1>10 DEF ChildStops, ChildMovesTerminal, Displace
<1>11. CASE ShellNoticesStop \/ Foreground \/ Background \/ StopJob
  BY <1>11 DEF ShellNoticesStop, Foreground, Background, StopJob
<1> QED
  BY StepKinds,
     <1>0, <1>1, <1>2, <1>3, <1>4, <1>5, <1>6,
     <1>7, <1>8, <1>9, <1>10, <1>11

-----------------------------------------------------------------------------
\* Every variable of a run's supervisor keeps its type.
THEOREM SupervisorTypes == SupervisorSpec => []SupervisorTypeOK
<1>1. SupervisorInit => SupervisorTypeOK
  BY InitHolds
<1>2. SupervisorTypeOK /\ [SupervisorNext]_supervisorVars => SupervisorTypeOK'
  BY TypesKept
<1> QED
  BY <1>1, <1>2, PTL DEF SupervisorSpec

\* A run recorded as ready was answered for by a server that is not nook's own
\* reservation, whoever else was on the port and whatever happened to the lease.
THEOREM ReadyIsServed == SupervisorSpec => []ReadyMeansServed
<1>1. SupervisorInit => PortInv
  BY InitHolds
<1>2. SupervisorTypeOK /\ PortInv /\ [SupervisorNext]_supervisorVars => PortInv'
  BY PortKept
<1>3. PortInv => ReadyMeansServed
  BY DEF PortInv, ReadyMeansServed
<1> QED
  BY <1>1, <1>2, <1>3, SupervisorTypes, PTL DEF SupervisorSpec

\* If the shell leaves the terminal alone during the spawn, the child does not
\* keep it when nook ends.
THEOREM TerminalIsReturned ==
  ASSUME ~ShellDuringSpawn
  PROVE  SupervisorSpec => []TerminalReturned
<1>1. SupervisorInit => GuardInv
  BY InitHolds
<1>2. SupervisorTypeOK /\ GuardInv /\ [SupervisorNext]_supervisorVars => GuardInv'
  BY GuardKept
<1>3. GuardInv => TerminalReturned
  BY DEF GuardInv, TerminalReturned
<1> QED
  BY <1>1, <1>2, <1>3, SupervisorTypes, PTL DEF SupervisorSpec

\* If, besides, nook's job is not stopped behind the child's back, nook takes the
\* terminal from nobody but its own job and its child.
THEOREM TerminalStaysWithOthers ==
  ASSUME ~ShellDuringSpawn, ~NookStoppedAlone
  PROVE  SupervisorSpec => TerminalTakenOnlyFromJob
<1>1. SupervisorInit => GuardInv /\ ForegroundInv
  BY InitHolds
<1>2. SupervisorTypeOK /\ GuardInv /\ ForegroundInv /\ [SupervisorNext]_supervisorVars
        => GuardInv' /\ ForegroundInv'
  BY GuardKept, ForegroundKept
<1>3. SupervisorTypeOK /\ ForegroundInv /\ [SupervisorNext]_supervisorVars
        => [NookRuns /\ tty' # tty
              => jobControl /\ tty \in {"job", "child", "descendant"}]_supervisorVars
  <2> SUFFICES ASSUME SupervisorTypeOK, ForegroundInv, NookRuns, tty' # tty
               PROVE  jobControl /\ tty \in {"job", "child", "descendant"}
    OBVIOUS
  <2>1. CASE Spawn \/ Launch
    BY <2>1 DEF Spawn, Launch, MayAcquire, MayReassign, ForegroundInv
  <2>2. CASE SpawnFails \/ WaitSeesExit \/ FollowStoppedChild
    BY <2>2 DEF SpawnFails, WaitSeesExit, FollowStoppedChild, Restore, ForegroundInv,
       SupervisorTypeOK
  <2>3. CASE SyncTerminal \/ ResumeChild
    BY <2>3 DEF SyncTerminal, ResumeChild, Claim, MayAcquire
  <2>4. ~(Spawn \/ Launch \/ SpawnFails \/ WaitSeesExit \/ FollowStoppedChild
            \/ SyncTerminal \/ ResumeChild) => tty' = tty
    BY DEF NookRuns, ReservePort, ReleasePort, AcquireTerminal, CommitRun, CommitFails,
       LanPoll, LanSkip, ProbeAccepted, ProbeRefused, ReadinessSeesExit, StillRunning,
       NothingToFollow, SuspendJob, Cleanup
  <2> QED
    BY <2>1, <2>2, <2>3, <2>4
<1> QED
  BY <1>1, <1>2, <1>3, SupervisorTypes, PTL DEF SupervisorSpec, TerminalTakenOnlyFromJob
=============================================================================
