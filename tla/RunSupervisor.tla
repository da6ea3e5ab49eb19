--------------------------- MODULE RunSupervisor ---------------------------
(***************************************************************************)
(* One `nook run` from the reservation of a port to the exit of its child: *)
(* the port handed over between reservation and child, the readiness       *)
(* probe, the LAN announcement withdrawn when another run takes the name,  *)
(* and the terminal passed between the shell, nook's job and the child,    *)
(* which leads a process group of its own.  Processes and signals are in   *)
(* ProcessGroups, the registry in Nook.                                    *)
(***************************************************************************)
EXTENDS Naturals

CONSTANTS
    ShellDuringSpawn,   \* may the user run `fg` while the child is being spawned?
    NookStoppedAlone    \* may nook's job be stopped while the child has the terminal?

ASSUME SupervisorAssumption ==
    /\ ShellDuringSpawn \in BOOLEAN
    /\ NookStoppedAlone \in BOOLEAN

VARIABLES
    nook,         \* the step nook is at
    jobControl,   \* a run of its own: a session member leaves the terminal alone
    suspended,    \* nook's job is stopped
    held,         \* nook holds a TerminalForeground: it gives the terminal back
    tty,          \* the group in the foreground of the terminal
    app,          \* the child
    port,         \* who listens on the run's port
    lease,        \* the run's entry in the registry
    answered,     \* who accepted the probe that made the run ready
    lan           \* the LAN name is announced

supervisorVars ==
    <<nook, jobControl, suspended, held, tty, app, port, lease, answered, lan>>

\* r_... is the loop of wait_for_readiness, w_... that of wait_with_signals
NookSteps ==
    {"start", "reserved", "released", "acquired", "forked", "launched",
     "r_lan", "r_probe", "r_exit", "r_claim", "r_follow", "r_suspend", "r_resume",
     "w_lan", "w_try", "w_claim", "w_follow", "w_suspend", "w_resume",
     "cleanup", "done"}

SupervisorTypeOK ==
    /\ nook \in NookSteps
    /\ jobControl \in BOOLEAN /\ suspended \in BOOLEAN /\ held \in BOOLEAN
    /\ lan \in BOOLEAN
    /\ tty \in {"shell", "job", "child", "descendant"}
    /\ app \in {"none", "running", "stopped", "exited", "reaped"}
    /\ port \in {"free", "nook", "child", "other"}
    /\ lease \in {"none", "starting", "ready", "displaced"}
    /\ answered \in {"nobody", "nook", "child", "other"}

\* Nook's steps of one kind, taken only while its job is not stopped
Step(from, to) == /\ nook = from
                  /\ ~suspended
                  /\ nook' = to

-----------------------------------------------------------------------------
(* The terminal, as seen from nook's process group "job".                  *)

\* Mutation of MayAcquire: whoever is in the foreground loses it.
MayAcquireAnyway == jobControl

\* TerminalForeground::acquire: only from the foreground
MayAcquire == jobControl /\ tty = "job"

\* parent_may_reassign_foreground: the group seen before, or the child's
MayReassign == tty \in {"job", "child"}

\* TerminalForeground::claim, acquire and handoff
Claim ==
    IF MayAcquire THEN held' = TRUE /\ tty' = "child" ELSE UNCHANGED <<held, tty>>

\* Mutation of Restore: the terminal is only set back by its owner.
RestoreIfReturned ==
    /\ held' = FALSE
    /\ tty' = IF held /\ tty # "child" THEN "job" ELSE tty

\* Dropping the guard sets the foreground back whoever has it
Restore ==
    /\ held' = FALSE
    /\ tty' = IF held THEN "job" ELSE tty

-----------------------------------------------------------------------------
(* Starting the run.                                                       *)

\* The preferred port, or a free one in its place; refused if strict
ReservePort ==
    /\ \/ Step("start", "reserved") /\ port' = "nook"
       \/ Step("start", "done") /\ UNCHANGED port
    /\ UNCHANGED <<jobControl, suspended, held, tty, app, lease, answered, lan>>

\* Mutation of ReleasePort: the reservation lives as long as the run.
ReleasePortLate ==
    /\ Step("reserved", "released") \/ Step("reserved", "done")
    /\ UNCHANGED <<jobControl, suspended, held, tty, app, port, lease, answered, lan>>

\* spawn_prepared_run closes the reservation right before the spawn; a run
\* whose preparation fails drops it too.
ReleasePort ==
    /\ Step("reserved", "released") \/ Step("reserved", "done")
    /\ port' = "free"
    /\ UNCHANGED <<jobControl, suspended, held, tty, app, lease, answered, lan>>

AcquireTerminal ==
    /\ Step("released", "acquired")
    /\ held' = MayAcquire
    /\ UNCHANGED <<jobControl, suspended, tty, app, port, lease, answered, lan>>

\* The child puts itself in its own group and takes the terminal before exec
Spawn ==
    /\ Step("acquired", "forked")
    /\ app' = "running"
    /\ tty' = IF MayAcquire THEN "child" ELSE tty
    /\ UNCHANGED <<jobControl, suspended, held, port, lease, answered, lan>>

\* The program cannot be started, or the child cannot be identified and is killed
SpawnFails ==
    /\ Step("acquired", "done") \/ Step("forked", "done")
    /\ app' = IF nook = "forked" THEN "reaped" ELSE app
    /\ port' = IF nook = "forked" /\ port = "child" THEN "free" ELSE port
    /\ Restore
    /\ UNCHANGED <<jobControl, suspended, lease, answered, lan>>

\* Spawned and identified: the terminal is handed over, the name announced
\* (which may fail, with a warning)
Launch ==
    /\ Step("forked", "launched")
    /\ tty' = IF held /\ MayReassign THEN "child" ELSE tty
    /\ lan' \in BOOLEAN
    /\ UNCHANGED <<jobControl, suspended, held, app, port, lease, answered>>

CommitRun ==
    /\ Step("launched", "r_lan")
    /\ lease' = "starting"
    /\ UNCHANGED <<jobControl, suspended, held, tty, app, port, answered, lan>>

\* The lease cannot be recorded: the child is killed and waited for
CommitFails ==
    /\ Step("launched", "w_lan")
    /\ app' = "exited"
    /\ port' = IF port = "child" THEN "free" ELSE port
    /\ UNCHANGED <<jobControl, suspended, held, tty, lease, answered, lan>>

-----------------------------------------------------------------------------
(* Waiting: every tick looks at the announcement, the child, the terminal. *)

\* Mutation of LanPoll: the registry is not looked at once the run is ready.
LanPollBeforeReady ==
    /\ Step("r_lan", "r_probe") \/ Step("w_lan", "w_try")
    /\ lan' = (lan /\ (nook = "w_lan" \/ lease \in {"starting", "ready"}))
    /\ UNCHANGED <<jobControl, suspended, held, tty, app, port, lease, answered>>

\* is_displaced reads the registry at most every 250 ms
LanPoll ==
    /\ Step("r_lan", "r_probe") \/ Step("w_lan", "w_try")
    /\ lan' = (lan /\ lease \in {"starting", "ready"})
    /\ UNCHANGED <<jobControl, suspended, held, tty, app, port, lease, answered>>

\* Polled too recently, or the registry could not be read
LanSkip ==
    /\ Step("r_lan", "r_probe") \/ Step("w_lan", "w_try")
    /\ UNCHANGED <<jobControl, suspended, held, tty, app, port, lease, answered, lan>>

\* Any listener that accepts makes the run ready, if it still has its lease
ProbeAccepted ==
    /\ Step("r_probe", "w_lan")
    /\ port # "free"
    /\ IF lease = "starting"
       THEN lease' = "ready" /\ answered' = port
       ELSE UNCHANGED <<lease, answered>>
    /\ UNCHANGED <<jobControl, suspended, held, tty, app, port, lan>>

ProbeRefused ==
    /\ Step("r_probe", "r_exit")
    /\ port = "free"
    /\ UNCHANGED <<jobControl, suspended, held, tty, app, port, lease, answered, lan>>

\* has_exited takes the exit status and leaves the terminal to the next wait
ReadinessSeesExit ==
    /\ app = "exited"
    /\ Step("r_exit", "w_lan")
    /\ app' = "reaped"
    /\ UNCHANGED <<jobControl, suspended, held, tty, port, lease, answered, lan>>

WaitSeesExit ==
    /\ app \in {"exited", "reaped"}
    /\ Step("w_try", "cleanup")
    /\ app' = "reaped"
    /\ Restore
    /\ UNCHANGED <<jobControl, suspended, port, lease, answered, lan>>

StillRunning ==
    /\ app \notin {"exited", "reaped"}
    /\ Step("r_exit", "r_claim") \/ Step("w_try", "w_claim")
    /\ UNCHANGED <<jobControl, suspended, held, tty, app, port, lease, answered, lan>>

\* Mutation of SyncTerminal: the terminal is passed on when the child starts.
SyncTerminalAtStart ==
    /\ \/ Step("r_claim", IF jobControl THEN "r_follow" ELSE "r_lan")
       \/ Step("w_claim", IF jobControl THEN "w_follow" ELSE "w_lan")
    /\ UNCHANGED <<jobControl, suspended, held, tty, app, port, lease, answered, lan>>

\* sync_terminal: a run brought to the foreground passes the terminal on
SyncTerminal ==
    /\ \/ Step("r_claim", IF jobControl THEN "r_follow" ELSE "r_lan")
       \/ Step("w_claim", IF jobControl THEN "w_follow" ELSE "w_lan")
    /\ IF ~held /\ app # "stopped" THEN Claim ELSE UNCHANGED <<held, tty>>
    /\ UNCHANGED <<jobControl, suspended, app, port, lease, answered, lan>>

\* Mutation of FollowStoppedChild: a child that stops before it is ready is
\* not followed.
FollowWhenReady ==
    /\ app = "stopped"
    /\ \/ Step("r_follow", "r_lan") /\ UNCHANGED <<held, tty>>
       \/ Step("w_follow", "w_suspend") /\ Restore
    /\ UNCHANGED <<jobControl, suspended, app, port, lease, answered, lan>>

\* follow_stopped_child: the terminal is given back ...
FollowStoppedChild ==
    /\ app = "stopped"
    /\ Step("r_follow", "r_suspend") \/ Step("w_follow", "w_suspend")
    /\ Restore
    /\ UNCHANGED <<jobControl, suspended, app, port, lease, answered, lan>>

NothingToFollow ==
    /\ app # "stopped"
    /\ Step("r_follow", "r_lan") \/ Step("w_follow", "w_lan")
    /\ UNCHANGED <<jobControl, suspended, held, tty, app, port, lease, answered, lan>>

\* ... nook stops its own group ...
SuspendJob ==
    /\ Step("r_suspend", "r_resume") \/ Step("w_suspend", "w_resume")
    /\ suspended' = TRUE
    /\ UNCHANGED <<jobControl, held, tty, app, port, lease, answered, lan>>

\* ... and, once continued, claims the terminal and continues the child.
ResumeChild ==
    /\ Step("r_resume", "r_lan") \/ Step("w_resume", "w_lan")
    /\ app' = IF app = "stopped" THEN "running" ELSE app
    /\ Claim
    /\ UNCHANGED <<jobControl, suspended, port, lease, answered, lan>>

\* The announcement ends, then the lease, unless another run removed it
Cleanup ==
    /\ Step("cleanup", "done")
    /\ lan' = FALSE
    /\ lease' = IF lease = "displaced" THEN lease ELSE "none"
    /\ UNCHANGED <<jobControl, suspended, held, tty, app, port, answered>>

-----------------------------------------------------------------------------
(* The child, other programs, other runs, and the user's shell.            *)

ChildBinds ==
    /\ app = "running"
    /\ port = "free"
    /\ port' = "child"
    /\ UNCHANGED <<nook, jobControl, suspended, held, tty, app, lease, answered, lan>>

OtherBinds ==
    /\ port = "free"
    /\ port' = "other"
    /\ UNCHANGED <<nook, jobControl, suspended, held, tty, app, lease, answered, lan>>

ChildExits ==
    /\ app \in {"running", "stopped"}
    /\ app' = "exited"
    /\ port' = IF port = "child" THEN "free" ELSE port
    /\ UNCHANGED <<nook, jobControl, suspended, held, tty, lease, answered, lan>>

\* Ctrl-Z reaches the child in the foreground; one in the background that
\* reads the terminal is stopped by the kernel.  (A child that moved the
\* foreground to a group of its own, as `bash -m` does, is not stopped.)
ChildStops ==
    /\ app = "running"
    /\ tty # "descendant"
    /\ app' = "stopped"
    /\ UNCHANGED <<nook, jobControl, suspended, held, tty, port, lease, answered, lan>>

ChildMovesTerminal ==
    /\ app = "running"
    /\ \/ tty = "child" /\ tty' = "descendant"
       \/ tty = "descendant" /\ tty' = "child"
    /\ UNCHANGED <<nook, jobControl, suspended, held, app, port, lease, answered, lan>>

\* Another run takes the hostname over
Displace ==
    /\ lease \in {"starting", "ready"}
    /\ lease' = "displaced"
    /\ UNCHANGED <<nook, jobControl, suspended, held, tty, app, port, answered, lan>>

\* The shell takes the terminal when the job it waits for stops
ShellNoticesStop ==
    /\ suspended
    /\ tty # "shell"
    /\ tty' = "shell"
    /\ UNCHANGED <<nook, jobControl, suspended, held, app, port, lease, answered, lan>>

Foreground ==
    /\ tty = "shell"
    /\ nook # "done"
    /\ ShellDuringSpawn \/ nook # "acquired"
    /\ tty' = "job"
    /\ suspended' = FALSE
    /\ UNCHANGED <<nook, jobControl, held, app, port, lease, answered, lan>>

Background ==
    /\ suspended
    /\ tty = "shell"
    /\ suspended' = FALSE
    /\ UNCHANGED <<nook, jobControl, held, tty, app, port, lease, answered, lan>>

\* Ctrl-Z while nook's own group has the terminal; a stop of nook's job by any
\* other means while it holds a guard is left to NookStoppedAlone.
StopJob ==
    /\ NookStoppedAlone \/ (tty = "job" /\ ~held)
    /\ ~suspended
    /\ nook # "done"
    /\ suspended' = TRUE
    /\ UNCHANGED <<nook, jobControl, held, tty, app, port, lease, answered, lan>>

-----------------------------------------------------------------------------
SupervisorInit ==
    /\ nook = "start"
    /\ jobControl \in BOOLEAN
    /\ suspended = FALSE
    /\ held = FALSE
    /\ tty \in {"shell", "job"}
    /\ app = "none"
    /\ port = "free"
    /\ lease = "none"
    /\ answered = "nobody"
    /\ lan = FALSE

\* What nook itself does, in program order
NookRuns ==
    \/ ReservePort \/ ReleasePort \/ AcquireTerminal \/ Spawn \/ SpawnFails
    \/ Launch \/ CommitRun \/ CommitFails
    \/ LanPoll \/ LanSkip \/ ProbeAccepted \/ ProbeRefused
    \/ ReadinessSeesExit \/ WaitSeesExit \/ StillRunning
    \/ SyncTerminal \/ FollowStoppedChild \/ NothingToFollow
    \/ SuspendJob \/ ResumeChild \/ Cleanup

SupervisorNext ==
    \/ NookRuns
    \/ ChildBinds \/ OtherBinds \/ ChildExits \/ ChildStops \/ ChildMovesTerminal
    \/ Displace \/ ShellNoticesStop \/ Foreground \/ Background \/ StopJob

\* Nook's loop keeps turning while its job runs, and its 250 ms pass
SupervisorFairness ==
    WF_supervisorVars(NookRuns) /\ SF_supervisorVars(LanPoll)

SupervisorSpec ==
    SupervisorInit /\ [][SupervisorNext]_supervisorVars /\ SupervisorFairness

-----------------------------------------------------------------------------
\* Nook takes the terminal from nobody but its own group and its child: never
\* from the shell, after `bg` or `&`, and not at all as a session member
\* (WORKSPACES.md:116-119).
TerminalTakenOnlyFromJob ==
    [][NookRuns /\ tty' # tty => jobControl /\ tty \in {"job", "child", "descendant"}]_supervisorVars

\* When nook ends, whichever way the run went, the terminal is not left with
\* the group of the child, where the next program of the job would be stopped.
TerminalReturned ==
    nook = "done" => tty # "child"

\* A child that stops suspends the whole job, so that the shell gets control;
\* only a session member's child may stop alone.
JobControlFollows ==
    (jobControl /\ app = "stopped") ~> (suspended \/ app # "stopped")

\* After `fg` the child gets the terminal.
ForegroundReachesChild ==
    (jobControl /\ tty = "job" /\ app \in {"running", "stopped"} /\ ~suspended)
      ~> (tty # "job" \/ suspended \/ nook = "done")

\* A run that lost its name stops announcing it (unless its job is stopped:
\* nothing then polls the registry).
DisplacedNameWithdrawn ==
    (lan /\ lease = "displaced") ~> (~lan \/ suspended)

\* A run is only recorded as ready once a server answers on its port after
\* nook gave it up: never through nook's own reservation, and never for a
\* lease another run removed.
ReadyMeansServed ==
    lease = "ready" => answered \in {"child", "other"}
=============================================================================
