--------------------------- MODULE SessionProofs ---------------------------
(***************************************************************************)
(* Proofs about WorkspaceSession.  First, for each part of the state, all  *)
(* that any step does to it: the processes, the context, the members, the  *)
(* leases, the owner.  From these, that every step keeps each part of the  *)
(* invariant of SessionInvariant; and what it implies.                     *)
(***************************************************************************)
EXTENDS SessionInvariant, TLAPS

-----------------------------------------------------------------------------
Trees == [Wrappers -> [server : Statuses, detached : Statuses]]
Sessions ==
  [dir : {"absent", "empty", "context"}, closing : BOOLEAN, claims : [Apps -> Claims]]

\* Processes end, and nothing else happens to them.
OnlyEnd ==
  /\ tree' \in Trees
  /\ \A w \in Wrappers : /\ tree'[w].server \in {tree[w].server, "gone"}
                         /\ tree'[w].detached \in {tree[w].detached, "gone"}

\* Killing a marked process ends it.
LEMMA MarkedEnds ==
  ASSUME TypeOK, NEW w \in Wrappers, KillMarked(w)
  PROVE  OnlyEnd
<1>1. PICK k \in {"server", "detached"} : tree' = [tree EXCEPT ![w][k] = "gone"]
  BY DEF KillMarked
<1>2. tree \in Trees
  BY DEF TypeOK, Trees
<1>3. CASE k = "server"
  BY <1>1, <1>2, <1>3 DEF OnlyEnd, Trees, Statuses, Running
<1>4. CASE k = "detached"
  BY <1>1, <1>2, <1>4 DEF OnlyEnd, Trees, Statuses, Running
<1> QED
  BY <1>1, <1>3, <1>4

\* Killing the servers of a set of members ends them.
LEMMA ServersEnd ==
  ASSUME TypeOK, NEW S,
         tree' = [w \in Wrappers |-> IF w \in S
                    THEN [tree[w] EXCEPT !.server = Killed(@)] ELSE tree[w]]
  PROVE  OnlyEnd
<1>2. tree \in Trees
  BY DEF TypeOK, Trees
<1> QED
  BY <1>2 DEF OnlyEnd, Trees, Statuses, Running, Killed

\* Killing the server of one member ends it.
LEMMA ServerEnds ==
  ASSUME TypeOK, NEW v \in Wrappers, tree' = [tree EXCEPT ![v].server = Killed(@)]
  PROVE  OnlyEnd
<1>2. tree \in Trees
  BY DEF TypeOK, Trees
<1> QED
  BY <1>2 DEF OnlyEnd, Trees, Statuses, Running, Killed

\* Writing a claim changes one entry of the context.
LEMMA ClaimSet ==
  ASSUME TypeOK, NEW w \in Wrappers, NEW c \in Claims, SetClaim(w, c)
  PROVE  /\ session' \in Sessions
         /\ session'.dir = session.dir /\ session'.closing = session.closing
         /\ session'.claims[AppOf[w]] = c
         /\ \A a \in Apps \ {AppOf[w]} : session'.claims[a] = session.claims[a]
<1>1. session \in Sessions /\ AppOf[w] \in Apps
  BY WrapperAssumption DEF TypeOK, Sessions
<1> QED
  BY <1>1 DEF SetClaim, Sessions

\* A process that is asked to end twice was asked before.
LEMMA AskedTyped ==
  \A s \in Statuses : /\ Asked[s] \in Statuses
                      /\ Asked[s] = "none" <=> s = "none"
                      /\ Asked[s] = "again" => s \in {"asked", "again"}
  BY DEF Asked, Statuses, Running

\* Every process of the session is asked to end.
LEMMA AskedTree ==
  ASSUME TypeOK,
         tree' = [w \in Wrappers |-> [k \in {"server", "detached"} |-> Asked[tree[w][k]]]]
  PROVE  /\ tree' \in Trees
         /\ \A w \in Wrappers : /\ tree'[w].server = Asked[tree[w].server]
                                /\ tree'[w].detached = Asked[tree[w].detached]
<1>1. \A w \in Wrappers : tree[w].server \in Statuses /\ tree[w].detached \in Statuses
  BY DEF TypeOK
<1>2. \A w \in Wrappers :
        tree'[w] = [server |-> Asked[tree[w].server], detached |-> Asked[tree[w].detached]]
  OBVIOUS
<1> QED
  BY <1>1, <1>2, AskedTyped DEF Trees

\* Killing any marked process: the runner, a wrapper with its lock, or a
\* server.
LEMMA AnyEnds ==
  ASSUME TypeOK, KillAny
  PROVE  /\ runner' \in {runner, "gone"}
         /\ tree' = tree \/ OnlyEnd
         /\ member' \in [Wrappers -> MemberSteps]
         /\ \A w \in Wrappers : \/ member'[w] = member[w]
                                \/ WrapperAlive(w) /\ member'[w] = "killed"
         /\ \/ sessionLock' = sessionLock
            \/ /\ sessionLock' = Nobody
               /\ \E w \in Wrappers : sessionLock = w /\ member'[w] = "killed"
         /\ \A w \in Wrappers : sessionLock' = w => member'[w] = member[w]
<1>1. CASE runner' = "gone" /\ UNCHANGED <<tree, member, sessionLock>>
  BY <1>1 DEF TypeOK
<1>2. CASE \E w \in Wrappers : WrapperAlive(w) /\ Die(w) /\ UNCHANGED processes
  BY <1>2, WrapperAssumption DEF Die, processes, TypeOK, MemberSteps
<1>3. CASE \E w \in Wrappers : KillMarked(w) /\ UNCHANGED <<runner, member, sessionLock>>
  BY <1>3, MarkedEnds DEF TypeOK
<1> QED
  BY <1>1, <1>2, <1>3 DEF KillAny

-----------------------------------------------------------------------------
\* The owner.

OwnerType ==
  [step : OwnerSteps, graceful : BOOLEAN, known : SUBSET Wrappers, warned : BOOLEAN]

\* The owner takes another step and is otherwise unchanged.
LEMMA OwnerGoes ==
  ASSUME TypeOK, NEW s \in OwnerSteps, OwnerStep(s)
  PROVE  /\ owner' \in OwnerType
         /\ owner'.step = s /\ owner'.graceful = owner.graceful
         /\ owner'.known = owner.known /\ owner'.warned = owner.warned
  BY DEF TypeOK, OwnerStep, OwnerType

\* Collecting leases extends the children the owner knows.
LEMMA Collected ==
  ASSUME TypeOK, CollectLeases
  PROVE  /\ owner' \in OwnerType
         /\ owner'.step \in {"signal", "kill"} /\ owner'.warned = owner.warned
<1> DEFINE s == IF owner.graceful THEN "signal" ELSE "kill"
           K == owner.known \cup {w \in Wrappers : lease[AppOf[w]] = w}
<1>1. s \in {"signal", "kill"} /\ K \subseteq Wrappers
  BY DEF TypeOK
<1>2. owner' = [owner EXCEPT !.step = s, !.known = K]
  BY DEF CollectLeases
<1> HIDE DEF s, K
<1> QED
  BY <1>1, <1>2 DEF TypeOK, OwnerType, OwnerSteps

\* Releasing the members that wait changes no token and no child.
LEMMA Joined ==
  ASSUME TypeOK, PollJoins
  PROVE  /\ session' \in Sessions
         /\ session'.dir = session.dir /\ session'.closing = session.closing
         /\ \A a \in Apps : /\ session'.claims[a].token = session.claims[a].token
                            /\ session'.claims[a].child = session.claims[a].child
  <1> DEFINE C == [a \in Apps |-> IF Joinable(a)
                    THEN [session.claims[a] EXCEPT !.released = TRUE] ELSE session.claims[a]]
  <1>1. C \in [Apps -> Claims] /\ \A a \in Apps : C[a].token = session.claims[a].token
                            /\ C[a].child = session.claims[a].child
    <2>1. \A a \in Apps : session.claims[a] \in Claims
      BY DEF TypeOK
    <2> QED
      BY <2>1 DEF Claims
  <1>2. session' = session \/ session' = [session EXCEPT !.claims = C]
    BY DEF PollJoins
  <1> HIDE DEF C
  <1> QED
    BY <1>1, <1>2 DEF TypeOK, Sessions

-----------------------------------------------------------------------------
\* All that happens to the processes of the members.

TreeStep ==
  \/ OnlyEnd
  \/ SignalTree
  \/ \E w \in Wrappers : Spawn(w) \/ Shutdown(w) \/ Detach(w)

\* No change is the simplest way of ending nothing.
LEMMA TreeStays == ASSUME TypeOK, tree' = tree PROVE OnlyEnd
  BY DEF TypeOK, OnlyEnd, Trees

\* Of the root nook, only a graceful stop asks processes to end; all else
\* kills.
LEMMA TreeStepsOwner ==
  ASSUME TypeOK, OwnerWorks \/ OwnerFails \/ Interrupted
  PROVE  TreeStep
<1>1. CASE KillChildren
  BY <1>1, ServersEnd DEF KillChildren, TreeStep
<1>2. CASE ScanKills
  BY <1>2, AnyEnds, TreeStays DEF ScanKills, TreeStep
<1>3. ~(SignalTree \/ KillChildren \/ ScanKills) => tree' = tree
  BY DEF OwnerWorks, OwnerFails, Interrupted, Start, JournalGroup, CreateDirectory,
     WriteContext, SpawnRunner, RecordRunner, Commit, PollJoins, Close, CollectLeases,
     ScanFindsNothing, RemoveSession, ForgetGroup, CleanRoute, OwnerEnds, StartFails,
     PollFails, CloseFails, StopWarns, CleanupFails, CleanRouteFails, OwnerKilled,
     processes
<1> QED
  BY <1>1, <1>2, <1>3, TreeStays DEF TreeStep

\* A member starts its server, asks its processes to end, or kills.
LEMMA TreeStepsMember ==
  ASSUME TypeOK, NEW w \in Wrappers, MemberWorks(w) \/ MemberFails(w)
  PROVE  TreeStep
<1>1. CASE Evict(w)
  BY <1>1, MarkedEnds DEF Evict, TreeStep
<1>2. CASE Undo(w) \/ CleanTree(w)
  BY <1>2, MarkedEnds, TreeStays DEF Undo, CleanTree, TreeStep
<1>3. CASE KillServer(w)
  BY <1>3, ServerEnds DEF KillServer, TreeStep
<1>4. ~(Evict(w) \/ Undo(w) \/ CleanTree(w) \/ KillServer(w) \/ Spawn(w) \/ Shutdown(w))
        => tree' = tree
  BY DEF MemberWorks, MemberFails, ClaimRefused, BeginClaim, TakeClaim, Released,
     GiveUp, SpawnRefused, Associate, Register, LeaderExits, SessionLost, LeaseLost,
     Finish, BeginFinish, Leave, Drop, ClaimFails, SpawnFails, AssociateFails,
     RegisterFails, UndoFails, ShutdownFails, FinishFails, CleanFails, LookFails, WrapperKilled,
     processes
<1> QED
  BY <1>1, <1>2, <1>3, <1>4, TreeStays DEF TreeStep

\* A reconciliation only kills; a server may leave a detached process.
LEMMA TreeStepsElse ==
  ASSUME TypeOK, Reconciles \/ ReconcileFails \/ RunnerEnds \/ (\E a \in Apps : Displace(a))
     \/ (\E w \in Wrappers : StartWrapper(w) \/ Signalled(w) \/ ProcessEnds(w) \/ Detach(w))
  PROVE  TreeStep
<1>1. CASE JudgeLeases
  <2> DEFINE S == {w \in Wrappers : lease[AppOf[w]] = w}
  <2>1. tree' = [w \in Wrappers |-> IF w \in S
                   THEN [tree[w] EXCEPT !.server = Killed(@)] ELSE tree[w]]
    BY <1>1 DEF JudgeLeases
  <2> HIDE DEF S
  <2> QED
  BY <2>1, ServersEnd DEF TreeStep
<1>2. CASE ReconcileKills
  BY <1>2, AnyEnds, TreeStays DEF ReconcileKills, TreeStep
<1>3. CASE KillMembers
  BY <1>3, ServersEnd DEF KillMembers, TreeStep
<1>4. CASE \E w \in Wrappers : ProcessEnds(w)
  BY <1>4, MarkedEnds DEF ProcessEnds, TreeStep
<1>5. CASE \E w \in Wrappers : Detach(w)
  BY <1>5 DEF TreeStep
<1>6. CASE \E w \in Wrappers : StartWrapper(w) \/ Signalled(w)
  BY <1>6, TreeStays DEF StartWrapper, Signalled, processes, TreeStep
<1>7. CASE ReconcileFails \/ RunnerEnds \/ (\E a \in Apps : Displace(a))
  BY <1>7, TreeStays DEF ReconcileFails, RunnerEnds, Displace, processes, TreeStep
<1>8. Reconciles => JudgeLeases \/ ReconcileKills \/ KillMembers \/ tree' = tree
  BY DEF Reconciles, Reconcile, ReconcileFindsNothing, LockStale, RemoveStale,
     WriteReconciled, processes
<1> QED
  BY <1>1, <1>2, <1>3, <1>4, <1>5, <1>6, <1>7, <1>8, TreeStays DEF TreeStep

\* All that can happen to the servers and their detached processes.
LEMMA TreeSteps ==
  ASSUME TypeOK, [Next]_vars
  PROVE  TreeStep
<1>1. CASE UNCHANGED vars
  BY <1>1, TreeStays DEF vars, TreeStep
<1> QED
  BY <1>1, TreeStepsOwner, TreeStepsMember, TreeStepsElse DEF Next

\* A spawn starts one server.
LEMMA SpawnTree ==
  ASSUME TypeOK, NEW w \in Wrappers, Spawn(w)
  PROVE  /\ tree' \in Trees
         /\ tree'[w].server = "running"
         /\ tree'[w].detached = tree[w].detached
         /\ \A v \in Wrappers \ {w} : tree'[v] = tree[v]
  BY DEF TypeOK, Spawn, Trees, Statuses, Running

\* A server leaves one detached process.
LEMMA DetachTree ==
  ASSUME TypeOK, NEW w \in Wrappers, Detach(w)
  PROVE  /\ tree' \in Trees
         /\ tree'[w].server = tree[w].server
         /\ tree'[w].detached = "running"
         /\ \A v \in Wrappers \ {w} : tree'[v] = tree[v]
  BY DEF TypeOK, Detach, Trees, Statuses, Running

\* A shutdown asks at most its own processes to end.
LEMMA ShutdownTree ==
  ASSUME TypeOK, NEW w \in Wrappers, Shutdown(w)
  PROVE  /\ tree' \in Trees
         /\ tree'[w].server \in {tree[w].server, Asked[tree[w].server]}
         /\ tree'[w].detached \in {tree[w].detached, Asked[tree[w].detached]}
         /\ \A v \in Wrappers \ {w} : tree'[v] = tree[v]
<1>1. tree \in Trees /\ tree[w].server \in Statuses /\ tree[w].detached \in Statuses
  BY DEF TypeOK, Trees
<1>3. CASE session.closing /\ ~OwnerDead
  BY <1>1, <1>3 DEF Shutdown
<1>4. CASE ~(session.closing /\ ~OwnerDead)
  <2> DEFINE s == IF member[w] = "signalled" THEN Asked[tree[w].server] ELSE tree[w].server
       d == Asked[tree[w].detached]
  <2>1. s \in Statuses /\ s \in {tree[w].server, Asked[tree[w].server]} /\ d \in Statuses
    BY <1>1, AskedTyped
  <2>2. tree' = [tree EXCEPT ![w] = [detached |-> d, server |-> s]]
    BY <1>4 DEF Shutdown
  <2> HIDE DEF s
  <2> QED
  BY <1>1, <2>1, <2>2 DEF Trees
<1> QED BY <1>3, <1>4

-----------------------------------------------------------------------------
\* All that happens to the context.

\* One claim is written, by the member whose turn it is.
ClaimStep(w) ==
  \/ member[w] = "evict" /\ SetClaim(w, Claim(w))
       /\ (ClaimOf(w).token \in Wrappers => ~Left(ClaimOf(w).token))
  \/ member[w] = "register" /\ SetClaim(w, [ClaimOf(w) EXCEPT !.child = TRUE])
  \/ member[w] \in {"finish", "release"} /\ ~Left(w) /\ SetClaim(w, NoClaim)

\* Nobody takes or gives up a claim, or publishes a child.
ClaimsStay ==
  /\ session' \in Sessions
  /\ session.closing => session'.closing
  /\ \A a \in Apps : /\ session'.claims[a].token = session.claims[a].token
                     /\ session'.claims[a].child = session.claims[a].child
                     /\ \/ owner.step = "poll"
                        \/ session'.claims[a].released = session.claims[a].released

SessionStep == ClaimsStay \/ \E w \in Wrappers : ClaimStep(w)

\* A context that is not written keeps its claims.
LEMMA SessionStays ==
  ASSUME TypeOK, session' = session
  PROVE  ClaimsStay
  BY DEF TypeOK, ClaimsStay, Sessions

\* The owner closes the context and releases members; claims are not its
\* own.
LEMMA SessionStepsOwner ==
  ASSUME TypeOK, OwnerWorks \/ OwnerFails \/ Interrupted
  PROVE  ClaimsStay
<1>1. CASE PollJoins
  BY <1>1, Joined DEF PollJoins, ClaimsStay
<1>2. CASE CreateDirectory \/ WriteContext \/ RemoveSession
  BY <1>2 DEF CreateDirectory, WriteContext, RemoveSession, TypeOK, Sessions, ClaimsStay
<1>3. CASE Close \/ (CloseFails /\ session' # session)
  BY <1>3 DEF Close, CloseFails, TypeOK, Sessions, ClaimsStay
<1>4. ~(PollJoins \/ CreateDirectory \/ WriteContext \/ RemoveSession \/ Close \/ CloseFails)
        => session' = session
  BY DEF OwnerWorks, OwnerFails, Interrupted, Start, JournalGroup, SpawnRunner,
     RecordRunner, Commit, CollectLeases, SignalTree, KillChildren, ScanKills,
     ScanFindsNothing, ForgetGroup, CleanRoute, OwnerEnds, StartFails, PollFails,
     StopWarns, CleanupFails, CleanRouteFails, OwnerKilled
<1> QED
  BY <1>1, <1>2, <1>3, <1>4, SessionStays

\* A member writes at most its own claim, at the steps of ClaimStep.
LEMMA SessionStepsMember ==
  ASSUME TypeOK, NEW w \in Wrappers, MemberWorks(w) \/ MemberFails(w)
  PROVE  ClaimsStay \/ ClaimStep(w)
<1>1. CASE TakeClaim(w) \/ ClaimFails(w)
  BY <1>1, SessionStays DEF TakeClaim, ClaimFails, MaybeSetClaim, ClaimStep
<1>2. CASE Register(w) \/ RegisterFails(w)
  BY <1>2, SessionStays DEF Register, RegisterFails, MaybeSetClaim, ClaimStep
<1>3. CASE Finish(w) \/ FinishFails(w)
  BY <1>3, SessionStays DEF Finish, FinishFails, MaybeSetClaim, ClaimStep
<1>4. ~(TakeClaim(w) \/ ClaimFails(w) \/ Register(w) \/ RegisterFails(w) \/ Finish(w)
          \/ FinishFails(w)) => session' = session
  BY DEF MemberWorks, MemberFails, ClaimRefused, BeginClaim, Evict, Released, GiveUp,
     Spawn, SpawnRefused, Associate, Undo, LeaderExits, SessionLost, LeaseLost,
     Shutdown, KillServer, CleanTree, BeginFinish, Leave, Drop, SpawnFails,
     AssociateFails, UndoFails, ShutdownFails, CleanFails, LookFails, WrapperKilled
<1> QED
  BY <1>1, <1>2, <1>3, <1>4, SessionStays

Elsewhere ==
  \/ \E w \in Wrappers : StartWrapper(w) \/ Signalled(w) \/ Detach(w) \/ ProcessEnds(w)
  \/ Reconciles \/ ReconcileFails
  \/ RunnerEnds \/ \E a \in Apps : Displace(a)

\* A reconciliation removes the directory and writes no claim.
LEMMA SessionStepsElse ==
  ASSUME TypeOK, Elsewhere
  PROVE  ClaimsStay
<1>1. CASE RemoveStale
  BY <1>1 DEF RemoveStale, TypeOK, Sessions, ClaimsStay
<1>2. ~RemoveStale => session' = session
  BY DEF Elsewhere, StartWrapper, Signalled, Detach, ProcessEnds, Reconciles, Reconcile,
     JudgeLeases, ReconcileKills, ReconcileFindsNothing, LockStale, KillMembers,
     WriteReconciled, ReconcileFails, RunnerEnds, Displace
<1> QED
  BY <1>1, <1>2, SessionStays

\* All that can happen to the context.
LEMMA SessionSteps ==
  ASSUME TypeOK, [Next]_vars
  PROVE  SessionStep
<1>1. CASE UNCHANGED vars
  BY <1>1, SessionStays DEF vars, SessionStep
<1> QED
  BY <1>1, SessionStepsOwner, SessionStepsMember, SessionStepsElse DEF Next, Elsewhere,
     SessionStep

\* What a claim becomes, for each step at which it is written.
LEMMA ClaimStepIs ==
  ASSUME TypeOK, NEW w \in Wrappers, ClaimStep(w)
  PROVE  /\ session' \in Sessions
         /\ session'.dir = session.dir /\ session'.closing = session.closing
         /\ \A a \in Apps \ {AppOf[w]} : session'.claims[a] = session.claims[a]
         /\ member[w] = "evict" => session'.claims[AppOf[w]] = Claim(w)
         /\ member[w] = "register" =>
              /\ session'.claims[AppOf[w]].token = ClaimOf(w).token
              /\ session'.claims[AppOf[w]].released = ClaimOf(w).released
              /\ session'.claims[AppOf[w]].child
         /\ member[w] \in {"finish", "release"} => session'.claims[AppOf[w]] = NoClaim
         /\ member[w] \in {"evict", "register", "finish", "release"}
<1>1. ClaimOf(w) \in Claims
  BY WrapperAssumption DEF TypeOK, ClaimOf
<1>2. CASE member[w] = "evict"
  <2>1. Claim(w) \in Claims
    BY DEF Claim, Claims
  <2> QED BY <1>2, <2>1, ClaimSet DEF ClaimStep
<1>3. CASE member[w] = "register"
  <2> DEFINE c == [ClaimOf(w) EXCEPT !.child = TRUE]
  <2>1. /\ c \in Claims /\ c.token = ClaimOf(w).token
        /\ c.released = ClaimOf(w).released /\ c.child
    BY <1>1 DEF Claims
  <2>2. SetClaim(w, c)
    BY <1>3 DEF ClaimStep
  <2> HIDE DEF c
  <2> QED BY <1>3, <2>1, <2>2, ClaimSet
<1>4. CASE member[w] \in {"finish", "release"}
  <2>1. NoClaim \in Claims
    BY DEF NoClaim, Claims
  <2> QED BY <1>4, <2>1, ClaimSet DEF ClaimStep
<1> QED BY <1>2, <1>3, <1>4 DEF ClaimStep

-----------------------------------------------------------------------------
\* All that happens to the members.

MembersStay ==
  /\ member' \in [Wrappers -> MemberSteps]
  /\ \A w \in Wrappers : member'[w] = member[w] \/ (WrapperAlive(w) /\ member'[w] = "killed")

OnlyMember(w) ==
  /\ member' \in [Wrappers -> MemberSteps]
  /\ \A v \in Wrappers \ {w} : member'[v] = member[v]

\* A member takes another step.
LEMMA MemberGoes ==
  ASSUME TypeOK, NEW w \in Wrappers, NEW s \in MemberSteps, Goes(w, s)
  PROVE  OnlyMember(w) /\ member'[w] = s
  BY DEF TypeOK, Goes, OnlyMember

\* No change keeps every member where it is.
LEMMA MembersUnchanged ==
  ASSUME TypeOK, member' = member
  PROVE  MembersStay
  BY DEF TypeOK, MembersStay

\* A member that works changes no other member.
LEMMA MemberStepsWorks ==
  ASSUME TypeOK, NEW w \in Wrappers, MemberWorks(w)
  PROVE  OnlyMember(w)
  BY SMTT(60) DEF TypeOK, OnlyMember, MemberWorks, ClaimRefused, BeginClaim, Evict,
     TakeClaim, Released, GiveUp, Spawn, SpawnRefused, Associate, Register, Undo,
     LeaderExits, SessionLost, LeaseLost, Shutdown, KillServer, CleanTree, Finish,
     BeginFinish, Leave, Drop, Goes, MemberSteps

\* A member that fails changes no other member.
LEMMA MemberStepsFails ==
  ASSUME TypeOK, NEW w \in Wrappers, MemberFails(w)
  PROVE  OnlyMember(w)
  BY SMTT(60) DEF TypeOK, OnlyMember, MemberFails, ClaimFails, SpawnFails,
     AssociateFails, RegisterFails, UndoFails, ShutdownFails, FinishFails, CleanFails, LookFails,
     WrapperKilled, Goes, Die, MemberSteps

\* Nobody else changes a member, but by killing, starting or signalling it.
LEMMA MemberStepsElse ==
  ASSUME TypeOK, OwnerWorks \/ OwnerFails \/ Interrupted \/ Elsewhere
  PROVE  MembersStay \/ \E w \in Wrappers : StartWrapper(w) \/ Signalled(w)
<1>1. CASE ScanKills \/ ReconcileKills
  BY <1>1, AnyEnds DEF ScanKills, ReconcileKills, MembersStay
<1>2. OwnerWorks \/ OwnerFails \/ Interrupted => ScanKills \/ member' = member
  BY DEF OwnerWorks, OwnerFails, Interrupted, Start, JournalGroup, CreateDirectory,
     WriteContext, SpawnRunner, RecordRunner, Commit, PollJoins, Close, CollectLeases,
     SignalTree, KillChildren, ScanFindsNothing, RemoveSession, ForgetGroup, CleanRoute,
     OwnerEnds, StartFails, PollFails, CloseFails, StopWarns, CleanupFails,
     CleanRouteFails, OwnerKilled
<1>3. Elsewhere => \/ ReconcileKills \/ member' = member
                   \/ \E w \in Wrappers : StartWrapper(w) \/ Signalled(w)
  BY DEF Elsewhere, Detach, ProcessEnds, Reconciles, Reconcile, JudgeLeases,
     ReconcileFindsNothing, LockStale, KillMembers, RemoveStale, WriteReconciled,
     ReconcileFails, RunnerEnds, Displace
<1> QED
  BY <1>1, <1>2, <1>3, MembersUnchanged

-----------------------------------------------------------------------------
\* All that happens to the leases.

\* Leases are only taken away.
Leases == [Apps -> Wrappers \cup {Root, Nobody}]
LeasesOnlyGo ==
  /\ lease' \in Leases
  /\ \A a \in Apps : lease'[a] \in {lease[a], Nobody}

\* Leases that are not written stay.
LEMMA LeaseStays == ASSUME TypeOK, lease' = lease PROVE LeasesOnlyGo
  BY DEF TypeOK, LeasesOnlyGo, Leases

\* The owner gives leases out once, when it commits, and then takes them
\* away.
LEMMA LeaseStepsOwner ==
  ASSUME TypeOK, OwnerWorks \/ OwnerFails \/ Interrupted
  PROVE  LeasesOnlyGo \/ Commit
<1>1. CASE CleanRoute
  BY <1>1 DEF CleanRoute, TypeOK, Leases, LeasesOnlyGo
<1>2. ~(CleanRoute \/ Commit) => lease' = lease
  BY DEF OwnerWorks, OwnerFails, Interrupted, Start, JournalGroup, CreateDirectory,
     WriteContext, SpawnRunner, RecordRunner, PollJoins, Close, CollectLeases,
     SignalTree, KillChildren, ScanKills, ScanFindsNothing, RemoveSession, ForgetGroup,
     OwnerEnds, StartFails, PollFails, CloseFails, StopWarns, CleanupFails,
     CleanRouteFails, OwnerKilled, registry
<1> QED
  BY <1>1, <1>2, LeaseStays

\* A member associates only its own app.
LEMMA LeaseStepsMember ==
  ASSUME TypeOK, NEW w \in Wrappers, MemberWorks(w) \/ MemberFails(w)
  PROVE  \/ lease' = lease
         \/ member[w] = "associate" /\ lease' = [lease EXCEPT ![AppOf[w]] = w]
<1>1. CASE Associate(w) \/ AssociateFails(w)
  BY <1>1 DEF Associate, AssociateFails
<1>2. ~(Associate(w) \/ AssociateFails(w)) => lease' = lease
  BY DEF MemberWorks, MemberFails, ClaimRefused, BeginClaim, Evict, Released, GiveUp,
     Spawn, SpawnRefused, Undo, LeaderExits, SessionLost, LeaseLost, Shutdown,
     KillServer, TakeClaim, ClaimFails, Register, RegisterFails, Finish, FinishFails,
     CleanTree, BeginFinish, Leave, Drop, SpawnFails, UndoFails, ShutdownFails,
     CleanFails, LookFails, WrapperKilled, registry
<1> QED
  BY <1>1, <1>2

\* A reconciliation and other runs only take leases away.
LEMMA LeaseStepsElse ==
  ASSUME TypeOK, Elsewhere
  PROVE  LeasesOnlyGo
<1>1. CASE WriteReconciled \/ \E a \in Apps : Displace(a)
  BY <1>1 DEF WriteReconciled, Displace, TypeOK, Leases, LeasesOnlyGo
<1>2. ~(WriteReconciled \/ \E a \in Apps : Displace(a)) => lease' = lease
  BY DEF Elsewhere, StartWrapper, Signalled, Detach, ProcessEnds, Reconciles, Reconcile,
     JudgeLeases, ReconcileKills, ReconcileFindsNothing, LockStale, KillMembers,
     RemoveStale, ReconcileFails, RunnerEnds, registry
<1> QED
  BY <1>1, <1>2, LeaseStays

-----------------------------------------------------------------------------
\* All that happens to the owner.

LEMMA Closed ==
  ASSUME TypeOK, Close \/ CloseFails
  PROVE  /\ owner' \in OwnerType
         /\ owner.step = "close" /\ owner'.step = "collect"
         /\ owner.warned => owner'.warned
         /\ CloseFails => owner'.warned
<1> DEFINE C == Children
<1>1. C \subseteq Wrappers
  BY DEF Children
<1>2. owner \in OwnerType
  BY DEF TypeOK, OwnerType
<1>3. CASE Close
  <2>1. owner.step = "close" /\ owner' = [owner EXCEPT !.step = "collect", !.known = C]
    BY <1>3 DEF Close
  <2>2. ~CloseFails \/ owner'.warned
    BY <1>2 DEF CloseFails, OwnerType
  <2> HIDE DEF C
  <2> QED
    BY <1>1, <1>2, <2>1, <2>2 DEF OwnerType, OwnerSteps
<1>4. CASE CloseFails
  <2>1. PICK known \in {{}, C} :
          owner' = [owner EXCEPT !.step = "collect", !.known = known, !.warned = TRUE]
    BY <1>4 DEF CloseFails
  <2>2. known \subseteq Wrappers
    BY <1>1
  <2> QED
    BY <1>2, <1>4, <2>1, <2>2 DEF CloseFails, OwnerType, OwnerSteps
<1> QED
  BY <1>3, <1>4

\* A stop that fails goes on, in order and warned.
LEMMA StopWarned ==
  ASSUME TypeOK, StopWarns
  PROVE  /\ owner' \in OwnerType
         /\ owner.step \in {"collect", "signal", "kill"}
         /\ owner'.step \in {"signal", "kill", "scan"}
         /\ owner'.step = "signal" => owner.step = "collect"
         /\ owner'.warned
<1> DEFINE s == CASE owner.step = "collect" -> (IF owner.graceful THEN "signal" ELSE "kill")
                  [] owner.step = "signal" -> "kill"
                  [] owner.step = "kill" -> "scan"
<1>1. /\ owner.step \in {"collect", "signal", "kill"} /\ s \in {"signal", "kill", "scan"}
      /\ s = "signal" => owner.step = "collect"
  BY DEF StopWarns
<1>2. owner' = [owner EXCEPT !.warned = TRUE, !.step = s]
  BY DEF StopWarns
<1> HIDE DEF s
<1> QED
  BY <1>1, <1>2 DEF TypeOK, OwnerType, OwnerSteps

Early == Starting \cup {"idle"}
\* How the owner goes on.
OwnerMoves ==
  /\ owner' \in OwnerType
  /\ owner.warned => owner'.warned
  /\ ~OwnerDead
  /\ owner.step \in Early =>
       owner'.step \in Starting \cup {"poll", "scan", "close", "ended", "killed"}
  /\ owner.step \notin Early => owner'.step \notin Early

\* The owner never starts again, and never forgets a warning.
LEMMA OwnerMovesOn ==
  ASSUME TypeOK, OwnerWorks \/ OwnerFails \/ Interrupted
  PROVE  OwnerMoves
<1> USE DEF OwnerMoves, OwnerDead, Early, Starting
<1>1. CASE Close \/ CloseFails
  BY <1>1, Closed
<1>2. CASE CollectLeases
  BY <1>2, Collected DEF CollectLeases
<1>3. CASE StopWarns
  BY <1>3, StopWarned
<1>4. CASE PollJoins \/ CleanRoute \/ ScanKills \/ Interrupted
  BY <1>4 DEF PollJoins, CleanRoute, ScanKills, Interrupted, OwnerStep, TypeOK,
     OwnerType, OwnerSteps
<1> USE DEF OwnerSteps
<1>5. CASE PollFails \/ CleanupFails \/ CleanRouteFails \/ OwnerKilled \/ StartFails
  BY <1>5, OwnerGoes DEF PollFails, CleanupFails, CleanRouteFails, OwnerKilled,
     StartFails
<1>6. CASE \/ Start \/ JournalGroup \/ CreateDirectory \/ WriteContext
           \/ SpawnRunner \/ RecordRunner \/ Commit
  BY <1>6, OwnerGoes DEF Start, JournalGroup, CreateDirectory, WriteContext,
     SpawnRunner, RecordRunner, Commit
<1>7. CASE \/ SignalTree \/ KillChildren \/ ScanFindsNothing
           \/ RemoveSession \/ ForgetGroup \/ OwnerEnds
  BY <1>7, OwnerGoes DEF SignalTree, KillChildren, ScanFindsNothing, RemoveSession,
     ForgetGroup, OwnerEnds
<1> QED
  BY <1>1, <1>2, <1>3, <1>4, <1>5, <1>6, <1>7 DEF OwnerWorks, OwnerFails

\* Only the owner's own steps change it.
LEMMA OwnerRuns ==
  ASSUME TypeOK, [Next]_vars
  PROVE  owner' = owner \/ OwnerWorks \/ OwnerFails \/ Interrupted
<1>1. ASSUME NEW w \in Wrappers, MemberWorks(w) PROVE owner' = owner
  BY <1>1 DEF MemberWorks, ClaimRefused, BeginClaim, Evict, TakeClaim, Released, GiveUp,
     Spawn, SpawnRefused, Associate, Register, Undo, LeaderExits, SessionLost,
     LeaseLost, Shutdown, KillServer, CleanTree, Finish, BeginFinish, Leave, Drop
<1>2. ASSUME NEW w \in Wrappers, MemberFails(w) PROVE owner' = owner
  BY <1>2 DEF MemberFails, ClaimFails, SpawnFails, AssociateFails, RegisterFails,
     UndoFails, ShutdownFails, FinishFails, CleanFails, LookFails, WrapperKilled
<1>3. Elsewhere => owner' = owner
  BY DEF Elsewhere, StartWrapper, Signalled, Detach, ProcessEnds, Reconciles, Reconcile,
     JudgeLeases, ReconcileKills, ReconcileFindsNothing, LockStale, KillMembers,
     RemoveStale, WriteReconciled, ReconcileFails, RunnerEnds, Displace
<1> QED
  BY <1>1, <1>2, <1>3 DEF Next, vars, Elsewhere

-----------------------------------------------------------------------------
\* The locks.

\* The owner takes and leaves the operations lock with its start.
LEMMA LocksOwner ==
  ASSUME TypeOK, LockInv, OwnerWorks \/ OwnerFails \/ Interrupted
  PROVE  LockInv'
<1> USE WrapperAssumption
    DEF TypeOK, LockInv, Critical, Starting, OwnerDead, registry, locks, processes, OwnerStep
<1>1. CASE ScanKills
  BY <1>1, AnyEnds DEF ScanKills
<1>2. OwnerWorks \/ OwnerFails \/ Interrupted
        => ScanKills \/ UNCHANGED <<member, sessionLock, recon>>
  BY DEF OwnerWorks, Start, JournalGroup, CreateDirectory, WriteContext, SpawnRunner,
     RecordRunner, Commit, PollJoins, Close, CollectLeases, SignalTree, KillChildren,
     ScanFindsNothing, RemoveSession, ForgetGroup, CleanRoute, OwnerEnds, OwnerFails,
     StartFails, PollFails, CloseFails, StopWarns, CleanupFails, CleanRouteFails,
     OwnerKilled, Interrupted
<1>3. CASE Start \/ Commit \/ StartFails \/ OwnerKilled
  BY <1>2, <1>3 DEF Start, Commit, StartFails, OwnerKilled, ScanKills
<1>4. CASE JournalGroup \/ CreateDirectory \/ WriteContext \/ SpawnRunner \/ RecordRunner
  BY <1>2, <1>4 DEF JournalGroup, CreateDirectory, WriteContext, SpawnRunner,
     RecordRunner, ScanKills
<1>5. ~(Start \/ Commit \/ StartFails \/ OwnerKilled \/ JournalGroup \/ CreateDirectory
          \/ WriteContext \/ SpawnRunner \/ RecordRunner)
        => operationsLock' = operationsLock /\ owner.step \notin Early
  BY DEF Early, OwnerWorks, PollJoins, Close, CollectLeases, SignalTree, KillChildren,
     ScanKills, ScanFindsNothing, RemoveSession, ForgetGroup, CleanRoute, OwnerEnds,
     OwnerFails, PollFails, CloseFails, StopWarns, CleanupFails, CleanRouteFails,
     Interrupted
<1> QED
  BY <1>1, <1>2, <1>3, <1>4, <1>5, OwnerMovesOn DEF OwnerMoves, Early

\* A member takes and leaves the session lock with its critical sections.
LEMMA LocksMember ==
  ASSUME TypeOK, LockInv, NEW w \in Wrappers, MemberWorks(w) \/ MemberFails(w)
  PROVE  LockInv'
<1> USE WrapperAssumption
    DEF LockInv, Critical, registry, locks, processes, Goes, Locks, Unlocks
<1>1. UNCHANGED <<owner, operationsLock, recon>>
  BY DEF MemberWorks, ClaimRefused, BeginClaim, Evict, TakeClaim, Released, GiveUp,
     Spawn, SpawnRefused, Associate, Register, Undo, LeaderExits, SessionLost,
     LeaseLost, Shutdown, KillServer, CleanTree, Finish, BeginFinish, Leave, Drop,
     MemberFails, ClaimFails, SpawnFails, AssociateFails, RegisterFails, UndoFails,
     ShutdownFails, FinishFails, CleanFails, LookFails, WrapperKilled
<1>2. OnlyMember(w)
  BY MemberStepsWorks, MemberStepsFails
<1>3. \/ sessionLock' = sessionLock /\ (member'[w] \in Critical <=> member[w] \in Critical)
      \/ sessionLock = Nobody /\ sessionLock' = w /\ member'[w] \in Critical
      \/ sessionLock' = Nobody /\ sessionLock = w /\ member'[w] \notin Critical
  <2>1. CASE MemberWorks(w)
    BY <2>1, SMTT(60) DEF TypeOK, MemberSteps, MemberWorks, ClaimRefused, BeginClaim,
       Evict, TakeClaim, Released, GiveUp, Spawn, SpawnRefused, Associate, Register,
       Undo, LeaderExits, SessionLost, LeaseLost, Shutdown, KillServer, CleanTree,
       Finish, BeginFinish, Leave, Drop
  <2>2. CASE MemberFails(w)
    BY <2>2, SMTT(60) DEF TypeOK, MemberSteps, Die, MemberFails, ClaimFails,
       SpawnFails, AssociateFails, RegisterFails, UndoFails, ShutdownFails,
       FinishFails, CleanFails, LookFails, WrapperKilled
  <2> QED BY <2>1, <2>2
<1> QED BY <1>1, <1>2, <1>3 DEF TypeOK, OnlyMember, OwnerDead

\* A reconciliation takes both locks, and leaves them when it ends or fails.
LEMMA LocksElse ==
  ASSUME TypeOK, LockInv, Elsewhere
  PROVE  LockInv'
<1> USE WrapperAssumption
    DEF TypeOK, LockInv, Critical, Starting, OwnerDead, registry, locks, processes, Goes
<1>1. CASE Reconciles
  BY <1>1, SMTT(60) DEF Reconciles, Reconcile, JudgeLeases, ReconcileKills,
     ReconcileFindsNothing, LockStale, KillMembers, RemoveStale, WriteReconciled,
     ReconGoes, KillAny, Die
<1>2. CASE \E w \in Wrappers : StartWrapper(w) \/ Signalled(w) \/ Detach(w) \/ ProcessEnds(w)
  BY <1>2 DEF StartWrapper, Signalled, Detach, ProcessEnds
<1>3. CASE ReconcileFails \/ RunnerEnds \/ \E a \in Apps : Displace(a)
  BY <1>3 DEF ReconcileFails, RunnerEnds, Displace, ReconGoes
<1> QED BY <1>1, <1>2, <1>3 DEF Elsewhere

-----------------------------------------------------------------------------
\* Types.

\* The types of the variables that are no records or functions.
LEMMA SmallTypes ==
  ASSUME TypeOK, [Next]_vars
  PROVE  /\ group' \in {"none", "journaled", "recorded"}
         /\ sessionLock' \in Wrappers \cup {Prune, Nobody}
         /\ operationsLock' \in {Root, Prune, Nobody}
         /\ runner' \in {"none", "running", "gone"}
         /\ recon' \in {"idle", "judge", "scan", "stale", "members", "remove", "write"}
         /\ faults' \in 0..MaxFaults
<1>1. CASE OwnerWorks \/ OwnerFails \/ Interrupted
  <2>1. CASE ScanKills
    BY <2>1, AnyEnds DEF ScanKills, TypeOK, registry
  <2>2. CASE ~ScanKills
    BY <1>1, <2>2, BoundAssumption DEF TypeOK, Fault, Killed, Running, OwnerWorks,
       Start, JournalGroup, CreateDirectory, WriteContext, SpawnRunner, RecordRunner,
       Commit, PollJoins, Close, CollectLeases, SignalTree, KillChildren,
       ScanFindsNothing, RemoveSession, ForgetGroup, CleanRoute, OwnerEnds,
       OwnerFails, StartFails, PollFails, CloseFails, StopWarns, CleanupFails,
       CleanRouteFails, OwnerKilled, Interrupted, registry, locks, processes
  <2> QED BY <2>1, <2>2
<1>2. ASSUME NEW w \in Wrappers, MemberWorks(w)
      PROVE  /\ UNCHANGED <<group, operationsLock, runner, recon, faults>>
             /\ sessionLock' \in {sessionLock, w, Nobody}
  BY <1>2 DEF Locks, Unlocks, MemberWorks, ClaimRefused, BeginClaim, Evict, TakeClaim,
     Released, GiveUp, Spawn, SpawnRefused, Associate, Register, Undo, LeaderExits,
     SessionLost, LeaseLost, Shutdown, KillServer, CleanTree, Finish, BeginFinish,
     Leave, Drop, registry, locks, processes
<1>3. ASSUME NEW w \in Wrappers, MemberFails(w)
      PROVE  /\ UNCHANGED <<group, operationsLock, runner, recon>> /\ Fault
             /\ sessionLock' \in {sessionLock, w, Nobody}
  BY <1>3 DEF Locks, Unlocks, Die, MemberFails, ClaimFails, SpawnFails, AssociateFails,
     RegisterFails, UndoFails, ShutdownFails, FinishFails, CleanFails, LookFails, WrapperKilled,
     registry, locks, processes
<1>4. CASE Elsewhere
  <2>1. CASE ReconcileKills
    BY <2>1, AnyEnds DEF ReconcileKills, TypeOK, registry
  <2>2. CASE ~ReconcileKills
    BY <1>4, <2>2, BoundAssumption DEF TypeOK, Fault, Killed, Running, ReconGoes,
       Elsewhere, StartWrapper, Signalled, Detach, ProcessEnds, Reconciles, Reconcile,
       JudgeLeases, ReconcileFindsNothing, LockStale, KillMembers, RemoveStale,
       WriteReconciled, ReconcileFails, RunnerEnds, Displace, registry, locks,
       processes
  <2> QED BY <2>1, <2>2
<1>5. Fault => faults' \in 0..MaxFaults
  BY BoundAssumption DEF Fault, TypeOK
<1>6. CASE UNCHANGED vars
  BY <1>6 DEF TypeOK, vars
<1> QED
  BY <1>1, <1>2, <1>3, <1>4, <1>5, <1>6 DEF Next, Elsewhere, TypeOK

\* Every variable keeps its type.
LEMMA TypesKept ==
  ASSUME TypeOK, [Next]_vars
  PROVE  TypeOK'
<1>1. owner' \in OwnerType
  BY OwnerRuns, OwnerMovesOn DEF OwnerMoves, TypeOK, OwnerType
<1>2. tree' \in Trees
  BY TreeSteps, AskedTree, SpawnTree, DetachTree, ShutdownTree DEF TreeStep, OnlyEnd,
     SignalTree
<1>3. session' \in Sessions
  BY SessionSteps, ClaimStepIs DEF SessionStep, ClaimsStay
<1>4. member' \in [Wrappers -> MemberSteps]
  <2>1. ASSUME NEW w \in Wrappers, StartWrapper(w) \/ Signalled(w)
        PROVE  member' \in [Wrappers -> MemberSteps]
    BY <2>1 DEF StartWrapper, Signalled, TypeOK, Goes, MemberSteps
  <2> QED
    BY <2>1, MemberStepsWorks, MemberStepsFails, MemberStepsElse DEF OnlyMember,
       MembersStay, Next, Elsewhere, vars, TypeOK
<1>5. lease' \in Leases
  <2>1. CASE Commit
    BY <2>1 DEF Commit, Leases
  <2>2. ASSUME NEW w \in Wrappers, MemberWorks(w) \/ MemberFails(w)
        PROVE  lease' \in Leases
    BY <2>2, LeaseStepsMember, WrapperAssumption DEF TypeOK, Leases
  <2>3. UNCHANGED vars => lease' \in Leases
    BY DEF vars, TypeOK, Leases
  <2> QED
    BY <2>1, <2>2, <2>3, LeaseStepsOwner, LeaseStepsElse DEF LeasesOnlyGo, Next,
       Elsewhere
<1> QED
  BY <1>1, <1>2, <1>3, <1>4, <1>5, SmallTypes DEF TypeOK, OwnerType, Trees, Sessions,
     Leases

-----------------------------------------------------------------------------
\* What is left of a member, its claim and its lease.

\* A process that is asked to end still runs.
LEMMA StillRunning ==
  \A s \in Statuses : (Asked[s] \in Running <=> s \in Running)
  BY DEF Asked, Running, Statuses

\* Only Spawn leaves something of a member that nothing was left of.
LEMMA LeftComes ==
  ASSUME TypeOK, [Next]_vars, NEW w \in Wrappers, Left(w)'
  PROVE  Left(w) \/ Spawn(w)
<1>1. tree[w].server \in Statuses /\ tree[w].detached \in Statuses
  BY DEF TypeOK
<1>2. CASE OnlyEnd
  BY <1>2 DEF OnlyEnd, Left, Running
<1>3. CASE SignalTree
  BY <1>1, <1>3, AskedTree, StillRunning DEF SignalTree, Left
<1>4. ASSUME NEW v \in Wrappers, Spawn(v)
      PROVE  Left(w) \/ Spawn(w)
  BY <1>4, SpawnTree DEF Left
<1>5. ASSUME NEW v \in Wrappers, Shutdown(v)
      PROVE  Left(w)
  BY <1>1, <1>5, ShutdownTree, StillRunning DEF Left
<1>6. ASSUME NEW v \in Wrappers, Detach(v)
      PROVE  Left(w)
  BY <1>6, DetachTree DEF Left, Detach
<1> QED
  BY <1>2, <1>3, <1>4, <1>5, <1>6, TreeSteps DEF TreeStep

\* What is left of a member keeps its claim: only its member, which ends it
\* first, or a claim that kills it first, replaces it.
LEMMA LeftKept ==
  ASSUME SessionInv, [Next]_vars
  PROVE  LeftIsClaimed'
<1> SUFFICES ASSUME NEW w \in Wrappers, Left(w)'
             PROVE  session'.claims[AppOf[w]].token = w
  BY DEF LeftIsClaimed, ClaimOf
<1> USE DEF SessionInv
<1>1. CASE Spawn(w)
  BY <1>1 DEF Spawn, Claimed, ClaimOf
<1>2. CASE Left(w) /\ ClaimsStay
  BY <1>2, WrapperAssumption DEF ClaimsStay, LeftIsClaimed, ClaimOf
<1>3. ASSUME NEW v \in Wrappers, ClaimStep(v), Left(w)
      PROVE  session'.claims[AppOf[w]].token = w
  <2>1. ClaimOf(w).token = w
    BY <1>3 DEF LeftIsClaimed
  <2>2. CASE AppOf[v] # AppOf[w]
    BY <1>3, <2>1, <2>2, ClaimStepIs, WrapperAssumption DEF ClaimOf
  <2>3. CASE AppOf[v] = AppOf[w]
    <3>1. ClaimOf(v) = ClaimOf(w)
      BY <2>3 DEF ClaimOf
    <3>2. member[v] = "register"
      BY <1>3, <2>1, <3>1 DEF ClaimStep, ClaimInv, Critical
    <3> QED
      BY <1>3, <2>1, <2>3, <3>1, <3>2, ClaimStepIs
  <2> QED
    BY <2>2, <2>3
<1> QED
  BY <1>1, <1>2, <1>3, LeftComes, SessionSteps DEF SessionStep

\* A member that goes on has the lock for all it writes.
LEMMA MemberWrites ==
  ASSUME SessionInv, NEW w \in Wrappers, MemberWorks(w) \/ MemberFails(w)
  PROVE  \A v \in Wrappers \ {w} : member[v] \in Critical => ClaimsStay /\ lease' = lease
  BY SessionStepsMember, LeaseStepsMember, ClaimStepIs DEF SessionInv, LockInv, Critical

\* A critical section keeps its claim, whatever its own or another member
\* does.
LEMMA ClaimsKeptMember ==
  ASSUME SessionInv, NEW w \in Wrappers, MemberWorks(w) \/ MemberFails(w)
  PROVE  ClaimInv'
<1> USE DEF SessionInv
<1>1. ASSUME NEW v \in Wrappers \ {w}
      PROVE  /\ member'[v] \in Critical \ {"evict"} => ClaimOf(v)'.token = v
             /\ member'[v] = "associate" => ~ClaimOf(v)'.child
             /\ member'[v] = "register" => lease'[AppOf[v]] \in {v, Nobody}
  <2>1. member'[v] = member[v]
    BY MemberStepsWorks, MemberStepsFails DEF OnlyMember
  <2> QED
    BY <2>1, MemberWrites, WrapperAssumption DEF ClaimsStay, ClaimInv, ClaimOf,
       Critical
<1>2. /\ member'[w] \in Critical \ {"evict"} => ClaimOf(w)'.token = w
      /\ member'[w] = "associate" => ~ClaimOf(w)'.child
      /\ member'[w] = "register" => lease'[AppOf[w]] \in {w, Nobody}
  <2> USE DEF Critical, Goes
  <2>1. CASE Spawn(w) \/ Shutdown(w) \/ BeginFinish(w) \/ Drop(w)
    BY <2>1 DEF TypeOK, Spawn, Shutdown, BeginFinish, Drop, Claimed, ClaimOf
  <2>2. CASE Associate(w) \/ AssociateFails(w)
    BY <2>2, WrapperAssumption DEF TypeOK, Associate, AssociateFails, ClaimInv,
       ClaimOf
  <2>3. CASE RegisterFails(w)
    <3>1. ClaimOf(w)'.token = ClaimOf(w).token
      BY <2>3, SessionStepsMember, ClaimStepIs, WrapperAssumption DEF RegisterFails,
         ClaimsStay, ClaimOf, MemberFails
    <3> QED
      BY <2>3, <3>1 DEF TypeOK, RegisterFails, ClaimInv
  <2>4. CASE KillServer(w) \/ CleanTree(w) \/ Undo(w) \/ Evict(w)
    BY <2>4 DEF TypeOK, KillServer, CleanTree, Undo, Evict, ClaimInv, ClaimOf,
       registry
  <2>5. ~(Spawn(w) \/ Shutdown(w) \/ BeginFinish(w) \/ Drop(w) \/ Associate(w)
          \/ AssociateFails(w) \/ RegisterFails(w) \/ KillServer(w) \/ CleanTree(w) \/ Undo(w) \/ Evict(w))
        => member'[w] \notin Critical \ {"evict"}
    BY DEF TypeOK, MemberWorks, MemberFails, ClaimRefused, BeginClaim, TakeClaim,
       Released, GiveUp, SpawnRefused, Register, LeaderExits, SessionLost, LeaseLost,
       Finish, Leave, ClaimFails, SpawnFails, UndoFails, ShutdownFails, FinishFails,
       CleanFails, LookFails, WrapperKilled, Die
  <2> QED
    BY <2>1, <2>2, <2>3, <2>4, <2>5
<1> QED
  BY <1>1, <1>2 DEF ClaimInv

\* A critical section keeps its claim, whatever the owner or a
\* reconciliation does.
LEMMA ClaimsKeptElse ==
  ASSUME SessionInv, OwnerWorks \/ OwnerFails \/ Interrupted \/ Elsewhere
  PROVE  ClaimInv'
<1> USE DEF SessionInv, Critical
<1> SUFFICES ASSUME NEW w \in Wrappers, member'[w] \in Critical
             PROVE  /\ member'[w] # "evict" => ClaimOf(w)'.token = w
                    /\ member'[w] = "associate" => ~ClaimOf(w)'.child
                    /\ member'[w] = "register" => lease'[AppOf[w]] \in {w, Nobody}
  BY DEF ClaimInv
<1>1. member'[w] = member[w]
  BY MemberStepsElse DEF MembersStay, StartWrapper, Signalled, Goes, TypeOK
<1>2. ClaimsStay
  BY SessionStepsOwner, SessionStepsElse
<1>3. member[w] = "register" => LeasesOnlyGo
  BY LeaseStepsOwner, LeaseStepsElse DEF Commit, StartInv, Unstarted, Starting
<1> QED
  BY <1>1, <1>2, <1>3, WrapperAssumption DEF ClaimsStay, LeasesOnlyGo, ClaimInv, ClaimOf

\* A published child is in the lease of its app, or the lease is gone.
LEMMA ChildKept ==
  ASSUME SessionInv, [Next]_vars
  PROVE  ChildInv'
<1> USE DEF SessionInv
<1> SUFFICES ASSUME NEW w \in Wrappers, ClaimOf(w)'.token = w, ClaimOf(w)'.child
             PROVE  lease'[AppOf[w]] \in {w, Nobody}
  BY DEF ChildInv
<1> DEFINE a == AppOf[w]
<1>0. a \in Apps
  BY WrapperAssumption
<1>1. CASE OwnerWorks \/ OwnerFails \/ Interrupted \/ Elsewhere
  <2>1. ClaimsStay
    BY <1>1, SessionStepsOwner, SessionStepsElse
  <2>2. ClaimOf(w).token = w /\ ClaimOf(w).child
    BY <1>0, <2>1 DEF ClaimsStay, ClaimOf
  <2>3. ~Commit
    BY <1>0, <2>2 DEF Commit, StartInv, Starting, ClaimOf
  <2> QED
    BY <1>0, <1>1, <2>2, <2>3, LeaseStepsOwner, LeaseStepsElse DEF LeasesOnlyGo,
       ChildInv
<1>2. ASSUME NEW v \in Wrappers, MemberWorks(v) \/ MemberFails(v)
      PROVE  lease'[AppOf[w]] \in {w, Nobody}
  <2>1. CASE ClaimStep(v)
    <3>1. lease' = lease
      BY <1>2, <2>1, LeaseStepsMember, ClaimStepIs
    <3>2. CASE AppOf[v] # a
      BY <1>0, <2>1, <3>1, <3>2, ClaimStepIs DEF ChildInv, ClaimOf
    <3>3. CASE AppOf[v] = a
      <4>1. member[v] = "register"
        <5>1. ~Claim(v).child /\ ~NoClaim.child
          BY DEF Claim, NoClaim
        <5>2. session'.claims[AppOf[v]] \notin {Claim(v), NoClaim}
          BY <3>3, <5>1 DEF ClaimOf
        <5> QED
          BY <2>1, <5>2, ClaimStepIs
      <4>2. v = w
        BY <2>1, <3>3, <4>1, ClaimStepIs DEF ClaimInv, Critical, ClaimOf
      <4> QED
        BY <3>1, <4>1, <4>2 DEF ClaimInv
    <3> QED
      BY <3>2, <3>3
  <2>2. CASE ClaimsStay
    <3>1. ClaimOf(w).token = w /\ ClaimOf(w).child
      BY <1>0, <2>2 DEF ClaimsStay, ClaimOf
    <3>2. lease[a] \in {w, Nobody}
      BY <3>1 DEF ChildInv
    <3>3. CASE member[v] = "associate" /\ lease' = [lease EXCEPT ![AppOf[v]] = v]
      <4>1. AppOf[v] # a
        BY <3>1, <3>3 DEF ClaimInv, Critical, ClaimOf
      <4> QED
        BY <1>0, <3>2, <3>3, <4>1 DEF TypeOK
    <3> QED
      BY <1>2, <3>2, <3>3, LeaseStepsMember
  <2> QED
    BY <1>2, <2>1, <2>2, SessionStepsMember
<1>3. CASE UNCHANGED vars
  BY <1>3 DEF vars, ChildInv, ClaimOf
<1> QED
  BY <1>1, <1>2, <1>3 DEF Next, Elsewhere

-----------------------------------------------------------------------------
\* Who starts.

\* Nobody comes to life but by StartWrapper.
LEMMA AliveComes ==
  ASSUME TypeOK, [Next]_vars, NEW w \in Wrappers, WrapperAlive(w)'
  PROVE  WrapperAlive(w) \/ StartWrapper(w)
<1> USE DEF WrapperAlive, TypeOK
<1>1. ASSUME MemberWorks(w) PROVE WrapperAlive(w)
  BY <1>1 DEF MemberWorks, ClaimRefused, BeginClaim, Evict, TakeClaim, Released, GiveUp,
     Spawn, SpawnRefused, Associate, Register, Undo, LeaderExits, SessionLost,
     LeaseLost, Shutdown, KillServer, CleanTree, Finish, BeginFinish, Leave, Drop
<1>2. ASSUME MemberFails(w) PROVE WrapperAlive(w)
  BY <1>2 DEF MemberFails, ClaimFails, SpawnFails, AssociateFails, RegisterFails,
     UndoFails, ShutdownFails, FinishFails, CleanFails, LookFails, WrapperKilled
<1>3. ASSUME NEW v \in Wrappers, MemberWorks(v) \/ MemberFails(v), v # w PROVE WrapperAlive(w)
  BY <1>3, MemberStepsWorks, MemberStepsFails DEF OnlyMember
<1>4. CASE OwnerWorks \/ OwnerFails \/ Interrupted \/ Elsewhere
  BY <1>4, MemberStepsElse DEF MembersStay, StartWrapper, Signalled, Goes
<1> QED
  BY <1>1, <1>2, <1>3, <1>4 DEF Next, Elsewhere, vars

\* The runner is started once.
LEMMA RunnerComes ==
  ASSUME TypeOK, [Next]_vars
  PROVE  runner' = runner \/ SpawnRunner \/ (runner \in Running /\ runner' = "gone")
<1>1. CASE OwnerWorks \/ OwnerFails \/ Interrupted
  <2>1. CASE ScanKills
    BY <2>1 DEF ScanKills, KillAny, processes
  <2>2. CASE ~ScanKills
    BY <1>1, <2>2 DEF Killed, OwnerWorks, Start, JournalGroup, CreateDirectory,
       WriteContext, RecordRunner, Commit, PollJoins, Close, CollectLeases,
       SignalTree, KillChildren, ScanFindsNothing, RemoveSession, ForgetGroup,
       CleanRoute, OwnerEnds, OwnerFails, StartFails, PollFails, CloseFails,
       StopWarns, CleanupFails, CleanRouteFails, OwnerKilled, Interrupted, processes
  <2> QED
    BY <2>1, <2>2
<1>2. ASSUME NEW w \in Wrappers, MemberWorks(w) PROVE runner' = runner
  BY <1>2 DEF MemberWorks, ClaimRefused, BeginClaim, Evict, TakeClaim, Released, GiveUp,
     Spawn, SpawnRefused, Associate, Register, Undo, LeaderExits, SessionLost,
     LeaseLost, Shutdown, KillServer, CleanTree, Finish, BeginFinish, Leave, Drop,
     processes
<1>3. ASSUME NEW w \in Wrappers, MemberFails(w) PROVE runner' = runner
  BY <1>3 DEF MemberFails, ClaimFails, SpawnFails, AssociateFails, RegisterFails,
     UndoFails, ShutdownFails, FinishFails, CleanFails, LookFails, WrapperKilled, processes
<1>4. CASE Elsewhere
  <2>1. CASE ReconcileKills
    BY <2>1 DEF ReconcileKills, KillAny, processes
  <2>2. CASE ~ReconcileKills
    BY <1>4, <2>2 DEF Killed, Elsewhere, StartWrapper, Signalled, Detach, ProcessEnds,
       Reconciles, Reconcile, JudgeLeases, ReconcileFindsNothing, LockStale,
       KillMembers, RemoveStale, WriteReconciled, ReconcileFails, RunnerEnds,
       Displace, processes
  <2> QED
    BY <2>1, <2>2
<1> QED
  BY <1>1, <1>2, <1>3, <1>4 DEF Next, Elsewhere, vars

\* Once nothing is left of a session, nothing comes back.
LEMMA NobodyComesBack ==
  ASSUME TypeOK, [Next]_vars, ~AnyLeft, owner.step # "spawn"
  PROVE  ~AnyLeft'
<1>1. runner' \notin Running
  BY RunnerComes DEF AnyLeft, SpawnRunner, Running
<1>2. ASSUME NEW w \in Wrappers PROVE ~WrapperAlive(w)'
  BY AliveComes DEF AnyLeft, StartWrapper
<1>3. ASSUME NEW w \in Wrappers PROVE ~Left(w)'
  BY LeftComes DEF AnyLeft, Spawn, WrapperAlive
<1> QED
  BY <1>1, <1>2, <1>3 DEF AnyLeft

\* Until the runner runs nobody claims, and until the commit nobody has a
\* server.
LEMMA StartKept ==
  ASSUME SessionInv, [Next]_vars
  PROVE  StartInv'
<1> USE DEF SessionInv
<1>1. ASSUME runner' = "none"
      PROVE  \A w \in Wrappers : member'[w] = "none"
  <2>1. runner = "none" /\ \A w \in Wrappers : member[w] = "none"
    BY <1>1, RunnerComes DEF StartInv, SpawnRunner
  <2> SUFFICES ASSUME NEW w \in Wrappers
               PROVE  member'[w] = "none"
    OBVIOUS
  <2>2. ASSUME NEW v \in Wrappers
        PROVE  ~(MemberWorks(v) \/ MemberFails(v) \/ StartWrapper(v) \/ Signalled(v))
    <3>1. member[v] = "none"
      BY <2>1
    <3>2. ~MemberWorks(v)
      BY <3>1 DEF MemberWorks, ClaimRefused, BeginClaim, Evict, TakeClaim, Released,
         GiveUp, Spawn, SpawnRefused, Associate, Register, Undo, LeaderExits,
         SessionLost, LeaseLost, Shutdown, KillServer, CleanTree, Finish,
         BeginFinish, Leave, Drop
    <3>3. ~MemberFails(v)
      BY <3>1 DEF MemberFails, ClaimFails, SpawnFails, AssociateFails,
         RegisterFails, UndoFails, ShutdownFails, FinishFails, CleanFails, LookFails,
         WrapperKilled, WrapperAlive
    <3> QED
      BY <2>1, <3>1, <3>2, <3>3 DEF StartWrapper, Signalled, Running
  <2>3. MembersStay
    BY <2>2, MemberStepsElse, MembersUnchanged DEF Next, Elsewhere, vars
  <2> QED
    BY <2>1, <2>3 DEF MembersStay, WrapperAlive
<1>2. ASSUME owner'.step \in {"idle", "journal", "create", "write", "spawn"}
      PROVE  runner' = "none"
  <2>1. ~SpawnRunner
    BY <1>2, OwnerGoes DEF SpawnRunner, OwnerStep, TypeOK
  <2>2. owner.step \in {"idle", "journal", "create", "write", "spawn"}
    <3>1. owner.step \in {"record", "commit"}
            => owner'.step \notin {"idle", "journal", "create", "write", "spawn"}
      <4> SUFFICES ASSUME owner.step \in {"record", "commit"}, owner' # owner
                   PROVE  owner'.step \notin {"idle", "journal", "create", "write", "spawn"}
        BY <1>2
      <4>1. RecordRunner \/ Commit \/ StartFails \/ OwnerKilled
        BY OwnerRuns DEF OwnerWorks, Start, JournalGroup, CreateDirectory,
           WriteContext, SpawnRunner, PollJoins, Close, CollectLeases, SignalTree,
           KillChildren, ScanKills, ScanFindsNothing, RemoveSession, ForgetGroup,
           CleanRoute, OwnerEnds, OwnerFails, PollFails, CloseFails, StopWarns,
           CleanupFails, CleanRouteFails, Interrupted
      <4> QED
        BY <4>1 DEF RecordRunner, Commit, StartFails, OwnerKilled, OwnerStep,
           TypeOK
    <3> QED
      BY <1>2, <3>1, OwnerRuns, OwnerMovesOn DEF OwnerMoves, Early, Starting
  <2> QED
    BY <2>1, <2>2, RunnerComes DEF StartInv, Running
<1>3. ASSUME owner'.step \in Early
      PROVE  /\ \A a \in Apps : ~session'.claims[a].released /\ ~session'.claims[a].child
             /\ \A w \in Wrappers : member'[w] \in Unstarted
  <2>1. owner.step \in Early
    BY <1>3, OwnerRuns, OwnerMovesOn DEF OwnerMoves
  <2>2. /\ \A a \in Apps : ~session.claims[a].released /\ ~session.claims[a].child
        /\ \A w \in Wrappers : member[w] \in Unstarted
    BY <2>1 DEF StartInv, Early
  <2>3. ASSUME NEW a \in Apps
        PROVE  ~session'.claims[a].released /\ ~session'.claims[a].child
    <3>1. CASE ClaimsStay
      BY <2>1, <2>2, <3>1 DEF ClaimsStay, Early, Starting
    <3>2. ASSUME NEW w \in Wrappers, ClaimStep(w)
          PROVE  ~session'.claims[a].released /\ ~session'.claims[a].child
      <4>1. member[w] # "register"
        BY <2>2 DEF Unstarted
      <4>2. session'.claims[a] \in {session.claims[a], Claim(w), NoClaim}
        BY <3>2, <4>1, ClaimStepIs
      <4> QED
        BY <2>2, <4>2 DEF Claim, NoClaim
    <3> QED
      BY <3>1, <3>2, SessionSteps DEF SessionStep
  <2>4. ASSUME NEW w \in Wrappers
        PROVE  member'[w] \in Unstarted
    <3> USE DEF Unstarted, Goes, TypeOK
    <3>1. member[w] \in Unstarted /\ ~ClaimOf(w).released
      BY <2>2, WrapperAssumption DEF ClaimOf
    <3>2. MemberWorks(w) => member'[w] \in Unstarted
      BY <3>1 DEF MemberWorks, ClaimRefused, BeginClaim, Evict, TakeClaim, Released,
         GiveUp, Spawn, SpawnRefused, Associate, Register, Undo, LeaderExits,
         SessionLost, LeaseLost, Shutdown, KillServer, CleanTree, Finish,
         BeginFinish, Leave, Drop
    <3>3. MemberFails(w) => member'[w] \in Unstarted
      BY <3>1 DEF MemberFails, ClaimFails, SpawnFails, AssociateFails,
         RegisterFails, UndoFails, ShutdownFails, FinishFails, CleanFails, LookFails,
         WrapperKilled, Die
    <3>4. ASSUME NEW v \in Wrappers, v # w, MemberWorks(v) \/ MemberFails(v)
          PROVE  member'[w] \in Unstarted
      BY <3>1, <3>4, MemberStepsWorks, MemberStepsFails DEF OnlyMember
    <3>5. CASE OwnerWorks \/ OwnerFails \/ Interrupted \/ Elsewhere
      BY <2>2, <3>1, <3>5, MemberStepsElse DEF MembersStay, StartWrapper, Signalled
    <3> QED
      BY <3>1, <3>2, <3>3, <3>4, <3>5 DEF Next, Elsewhere, vars
  <2> QED
    BY <2>3, <2>4
<1> QED
  BY <1>1, <1>2, <1>3 DEF StartInv, Early

-----------------------------------------------------------------------------
\* The journal.

\* The directory is created and filled by a start only.
LEMMA DirSteps ==
  ASSUME TypeOK, [Next]_vars
  PROVE  session'.dir \in {session.dir, "absent"} \/ CreateDirectory \/ WriteContext
<1>1. CASE OwnerWorks \/ OwnerFails \/ Interrupted
  <2>1. CASE PollJoins
    BY <2>1, Joined
  <2>2. CASE Close \/ CloseFails \/ RemoveSession
    BY <2>2 DEF Close, CloseFails, RemoveSession, TypeOK
  <2>3. ~(PollJoins \/ Close \/ CloseFails \/ RemoveSession \/ CreateDirectory \/ WriteContext)
          => session' = session
    BY <1>1 DEF OwnerWorks, OwnerFails, Interrupted, Start, JournalGroup, SpawnRunner,
       RecordRunner, Commit, CollectLeases, SignalTree, KillChildren, ScanKills,
       ScanFindsNothing, ForgetGroup, CleanRoute, OwnerEnds, StartFails, PollFails,
       StopWarns, CleanupFails, CleanRouteFails, OwnerKilled
  <2> QED
    BY <2>1, <2>2, <2>3
<1>2. ASSUME NEW w \in Wrappers, MemberWorks(w) \/ MemberFails(w)
      PROVE  session'.dir = session.dir
  <2>1. CASE ClaimStep(w)
    BY <2>1, ClaimStepIs
  <2>2. CASE ~ClaimStep(w)
    BY <1>2, <2>2 DEF MemberWorks, MemberFails, ClaimRefused, BeginClaim, Evict,
       Released, GiveUp, Spawn, SpawnRefused, Associate, Undo, LeaderExits,
       SessionLost, LeaseLost, Shutdown, KillServer, CleanTree, BeginFinish, Leave,
       Drop, SpawnFails, AssociateFails, UndoFails, ShutdownFails, CleanFails, LookFails,
       WrapperKilled, TakeClaim, ClaimFails, Register, RegisterFails, Finish,
       FinishFails, MaybeSetClaim, ClaimStep
  <2> QED
    BY <2>1, <2>2
<1>3. CASE Elsewhere
  <2>1. CASE RemoveStale
    BY <2>1 DEF RemoveStale, TypeOK
  <2>2. ~RemoveStale => session' = session
    BY <1>3 DEF Elsewhere, StartWrapper, Signalled, Detach, ProcessEnds, Reconciles,
       Reconcile, JudgeLeases, ReconcileKills, ReconcileFindsNothing, LockStale,
       KillMembers, WriteReconciled, ReconcileFails, RunnerEnds, Displace
  <2> QED
    BY <2>1, <2>2
<1> QED
  BY <1>1, <1>2, <1>3 DEF Next, Elsewhere, vars

\* The journal entry goes only after a stop or a reconciliation.
LEMMA GroupSteps ==
  ASSUME TypeOK, [Next]_vars
  PROVE  group' = group \/ group' # "none" \/ ForgetGroup \/ WriteReconciled
<1>1. OwnerWorks \/ OwnerFails \/ Interrupted
        => group' = group \/ group' # "none" \/ ForgetGroup
  BY DEF OwnerWorks, OwnerFails, Interrupted, Start, JournalGroup, CreateDirectory,
     WriteContext, SpawnRunner, RecordRunner, Commit, PollJoins, Close, CollectLeases,
     SignalTree, KillChildren, ScanKills, ScanFindsNothing, RemoveSession, CleanRoute,
     OwnerEnds, StartFails, PollFails, CloseFails, StopWarns, CleanupFails,
     CleanRouteFails, OwnerKilled, registry
<1>2. ASSUME NEW w \in Wrappers, MemberWorks(w) PROVE group' = group
  BY <1>2 DEF MemberWorks, ClaimRefused, BeginClaim, Evict, TakeClaim, Released, GiveUp,
     Spawn, SpawnRefused, Associate, Register, Undo, LeaderExits, SessionLost,
     LeaseLost, Shutdown, KillServer, CleanTree, Finish, BeginFinish, Leave, Drop,
     registry
<1>3. ASSUME NEW w \in Wrappers, MemberFails(w) PROVE group' = group
  BY <1>3 DEF MemberFails, ClaimFails, SpawnFails, AssociateFails, RegisterFails,
     UndoFails, ShutdownFails, FinishFails, CleanFails, LookFails, WrapperKilled, registry
<1>4. Elsewhere => group' = group \/ WriteReconciled
  BY DEF Elsewhere, StartWrapper, Signalled, Detach, ProcessEnds, Reconciles, Reconcile,
     JudgeLeases, ReconcileKills, ReconcileFindsNothing, LockStale, KillMembers,
     RemoveStale, ReconcileFails, RunnerEnds, Displace, registry
<1> QED
  BY <1>1, <1>2, <1>3, <1>4 DEF Next, Elsewhere, vars

\* A reconciliation goes on by its own steps, or fails.
LEMMA ReconSteps ==
  ASSUME TypeOK, [Next]_vars
  PROVE  recon' = recon \/ Reconciles \/ recon' = "idle"
<1>1. OwnerWorks \/ OwnerFails \/ Interrupted => recon' = recon
  BY DEF OwnerWorks, OwnerFails, Interrupted, Start, JournalGroup, CreateDirectory,
     WriteContext, SpawnRunner, RecordRunner, Commit, PollJoins, Close, CollectLeases,
     SignalTree, KillChildren, ScanKills, ScanFindsNothing, RemoveSession, ForgetGroup,
     CleanRoute, OwnerEnds, StartFails, PollFails, CloseFails, StopWarns, CleanupFails,
     CleanRouteFails, OwnerKilled
<1>2. ASSUME NEW w \in Wrappers, MemberWorks(w) PROVE recon' = recon
  BY <1>2 DEF MemberWorks, ClaimRefused, BeginClaim, Evict, TakeClaim, Released, GiveUp,
     Spawn, SpawnRefused, Associate, Register, Undo, LeaderExits, SessionLost,
     LeaseLost, Shutdown, KillServer, CleanTree, Finish, BeginFinish, Leave, Drop
<1>3. ASSUME NEW w \in Wrappers, MemberFails(w) PROVE recon' = recon
  BY <1>3 DEF MemberFails, ClaimFails, SpawnFails, AssociateFails, RegisterFails,
     UndoFails, ShutdownFails, FinishFails, CleanFails, LookFails, WrapperKilled
<1>4. Elsewhere => recon' = recon \/ Reconciles \/ recon' = "idle"
  BY DEF Elsewhere, StartWrapper, Signalled, Detach, ProcessEnds, ReconcileFails,
     RunnerEnds, Displace, ReconGoes
<1> QED
  BY <1>1, <1>2, <1>3, <1>4 DEF Next, Elsewhere, vars

\* The journal covers the session at every step of its removal.
LEMMA JournalKept ==
  ASSUME SessionInv, [Next]_vars
  PROVE  JournalInv'
<1> USE DEF SessionInv
<1>1. group = "none" => /\ owner.step \notin {"create", "write", "spawn"}
                        /\ session.dir = "absent" /\ ~AnyLeft
  BY DEF JournalInv, JournalCoversSession
<1>2. ASSUME \/ owner.step \in {"remove", "forget"}
             \/ recon \in {"stale", "members", "remove", "write"}
      PROVE  ~AnyLeft /\ owner.step \notin {"create", "write", "spawn"}
  BY <1>2 DEF JournalInv, LockInv, OwnerDead
<1>3. JournalCoversSession'
  <2>1. CASE group = "none"
    BY <1>1, <2>1, NobodyComesBack, DirSteps DEF JournalCoversSession,
       CreateDirectory, WriteContext
  <2>2. CASE ForgetGroup
    BY <1>2, <2>2, NobodyComesBack DEF ForgetGroup, JournalInv, JournalCoversSession
  <2>3. CASE WriteReconciled
    BY <1>2, <2>3, NobodyComesBack DEF WriteReconciled, JournalInv,
       JournalCoversSession
  <2> QED
    BY <2>1, <2>2, <2>3, GroupSteps DEF JournalCoversSession
<1>4. group' = "none" => owner'.step \in {"idle", "journal", "routes", "ended", "killed"}
  <2>1. CASE ForgetGroup
    BY <2>1, OwnerGoes DEF ForgetGroup, OwnerSteps
  <2>2. CASE WriteReconciled
    BY <2>2 DEF WriteReconciled, LockInv, OwnerDead
  <2>3. CASE group = "none" /\ group' = "none" /\ owner' # owner
    <3>1. owner.step \in {"idle", "journal", "routes"}
      BY <2>3, OwnerRuns, OwnerMovesOn DEF JournalInv, OwnerMoves, OwnerDead
    <3>2. Start \/ StartFails \/ CleanRouteFails \/ OwnerEnds \/ OwnerKilled
      BY <2>3, <3>1, OwnerRuns DEF OwnerWorks, OwnerFails, JournalGroup,
         CreateDirectory, WriteContext, SpawnRunner, RecordRunner, Commit,
         PollJoins, Close, CollectLeases, SignalTree, KillChildren, ScanKills,
         ScanFindsNothing, RemoveSession, ForgetGroup, CleanRoute, PollFails,
         CloseFails, StopWarns, CleanupFails, Interrupted
    <3> QED
      BY <3>1, <3>2, OwnerGoes DEF Start, StartFails, CleanRouteFails, OwnerEnds,
         OwnerKilled, OwnerSteps
  <2> QED
    BY <2>1, <2>2, <2>3, GroupSteps DEF JournalInv
<1>5. owner'.step \in {"remove", "forget"} =>
        ~AnyLeft /\ owner.step # "spawn" /\ (owner'.step = "forget" => session'.dir = "absent")
  <2>1. CASE owner' = owner
    BY <1>2, <2>1, DirSteps DEF JournalInv, CreateDirectory, WriteContext
  <2>2. CASE ScanFindsNothing \/ RemoveSession
    BY <1>2, <2>2, OwnerGoes DEF ScanFindsNothing, RemoveSession, OwnerSteps, TypeOK
  <2>3. ASSUME owner' # owner, ~(ScanFindsNothing \/ RemoveSession)
        PROVE  owner'.step \notin {"remove", "forget"}
    <3>1. CASE Close \/ CloseFails \/ CollectLeases \/ StopWarns \/ Interrupted \/ PollJoins
      BY <2>3, <3>1, Closed, Collected, StopWarned, OwnerGoes DEF Interrupted,
         PollJoins, OwnerSteps, TypeOK
    <3>2. CASE \/ Start \/ JournalGroup \/ CreateDirectory \/ WriteContext
               \/ SpawnRunner \/ RecordRunner \/ Commit
      BY <3>2, OwnerGoes DEF Start, JournalGroup, CreateDirectory, WriteContext,
         SpawnRunner, RecordRunner, Commit, OwnerSteps
    <3>3. CASE SignalTree \/ KillChildren \/ ForgetGroup \/ OwnerEnds
      BY <3>3, OwnerGoes DEF SignalTree, KillChildren, ForgetGroup, OwnerEnds,
         OwnerSteps
    <3>4. CASE StartFails \/ PollFails \/ CleanupFails \/ CleanRouteFails \/ OwnerKilled
      BY <3>4, OwnerGoes DEF StartFails, PollFails, CleanupFails, CleanRouteFails,
         OwnerKilled, OwnerSteps
    <3>5. ~ScanKills /\ ~CleanRoute
      BY <2>3 DEF ScanKills, CleanRoute
    <3> QED
      BY <2>3, <3>1, <3>2, <3>3, <3>4, <3>5, OwnerRuns DEF OwnerWorks, OwnerFails
  <2> QED
    BY <2>1, <2>2, <2>3
<1>6. recon' \in {"stale", "members", "remove", "write"} =>
        ~AnyLeft /\ owner.step # "spawn" /\ (recon' = "write" => session'.dir = "absent")
  <2>1. CASE recon' = recon
    BY <1>2, <2>1, DirSteps DEF JournalInv, CreateDirectory, WriteContext
  <2>2. CASE Reconciles
    <3>1. CASE ReconcileFindsNothing
      BY <3>1 DEF ReconcileFindsNothing, ReconGoes, LockInv, OwnerDead
    <3>2. CASE RemoveStale
      BY <1>2, <3>2 DEF RemoveStale, ReconGoes, TypeOK
    <3>3. CASE LockStale \/ KillMembers
      BY <1>2, <3>3 DEF LockStale, KillMembers, ReconGoes
    <3>4. ~(ReconcileFindsNothing \/ RemoveStale \/ LockStale \/ KillMembers)
            => recon' \notin {"stale", "members", "remove", "write"}
      BY <2>2 DEF Reconciles, Reconcile, JudgeLeases, ReconcileKills,
         WriteReconciled, ReconGoes
    <3> QED
      BY <3>1, <3>2, <3>3, <3>4
  <2> QED
    BY <2>1, <2>2, ReconSteps
<1> QED
  BY <1>3, <1>4, <1>5, <1>6, NobodyComesBack DEF JournalInv

-----------------------------------------------------------------------------
\* The end of a session.

Stopping == {"collect", "signal"} \cup AfterSignal

\* A context that is closing is never opened again.
LEMMA ClosingStays ==
  ASSUME TypeOK, [Next]_vars, session.closing
  PROVE  session'.closing
  BY SessionSteps, ClaimStepIs DEF SessionStep, ClaimsStay

\* In which order the owner stops.
LEMMA OwnerStops ==
  ASSUME TypeOK, [Next]_vars
  PROVE  /\ owner.step \in AfterSignal => owner'.step \in AfterSignal \cup {"ended", "killed"}
         /\ owner.step \in BeforeClose /\ ~(Close \/ CloseFails) =>
              owner'.step \in BeforeClose \cup AfterSignal \cup {"ended", "killed"}
         /\ owner'.step \in Stopping =>
              \/ owner.step \in Stopping
              \/ Close \/ CloseFails
              \/ owner.step = "spawn" /\ runner' = runner
         /\ OwnerDead => owner' = owner
         /\ owner.warned => owner'.warned
<1> USE DEF AfterSignal, BeforeClose, Starting, Stopping, OwnerSteps, TypeOK
<1>1. CASE owner' = owner
  BY <1>1
<1>2. CASE Close \/ CloseFails
  BY <1>2, Closed DEF OwnerDead
<1>3. CASE CollectLeases
  BY <1>3, Collected DEF CollectLeases, OwnerDead
<1>4. CASE StopWarns
  BY <1>4, StopWarned DEF OwnerDead
<1>5. CASE Interrupted
  BY <1>5 DEF Interrupted, OwnerDead
<1>6. CASE PollJoins /\ owner' # owner
  BY <1>6, OwnerGoes DEF PollJoins, OwnerDead
<1>7. CASE \/ Start \/ JournalGroup \/ CreateDirectory \/ WriteContext
           \/ SpawnRunner \/ RecordRunner \/ Commit
  BY <1>7, OwnerGoes DEF Start, JournalGroup, CreateDirectory, WriteContext,
     SpawnRunner, RecordRunner, Commit, OwnerDead
<1>8. CASE \/ SignalTree \/ KillChildren \/ ScanFindsNothing
           \/ RemoveSession \/ ForgetGroup \/ OwnerEnds
  BY <1>8, OwnerGoes DEF SignalTree, KillChildren, ScanFindsNothing, RemoveSession,
     ForgetGroup, OwnerEnds, OwnerDead
<1>9. CASE PollFails \/ CleanupFails \/ CleanRouteFails \/ OwnerKilled \/ StartFails
  BY <1>9, OwnerGoes DEF PollFails, CleanupFails, CleanRouteFails, OwnerKilled,
     StartFails, OwnerDead, processes
<1>10. ScanKills \/ CleanRoute => owner' = owner
  BY DEF ScanKills, CleanRoute
<1> QED
  BY <1>1, <1>2, <1>3, <1>4, <1>5, <1>6, <1>7, <1>8, <1>9, <1>10, OwnerRuns DEF
     OwnerWorks, OwnerFails

\* A stop goes on with a closed context, or warned.
LEMMA CloseKept ==
  ASSUME SessionInv, [Next]_vars
  PROVE  CloseInv'
<1> USE DEF SessionInv
<1> SUFFICES ASSUME owner'.step \in Stopping, ~owner'.warned
             PROVE  session'.closing \/ runner' = "none"
  BY DEF CloseInv, Stopping
<1>1. CASE owner.step \in Stopping
  BY <1>1, OwnerStops, ClosingStays, RunnerComes DEF CloseInv, Stopping, AfterSignal,
     SpawnRunner, Running
<1>2. CASE Close
  BY <1>2 DEF Close, TypeOK
<1>3. CASE CloseFails
  BY <1>3, Closed
<1>4. CASE owner.step = "spawn" /\ runner' = runner
  BY <1>4 DEF StartInv
<1> QED
  BY <1>1, <1>2, <1>3, <1>4, OwnerStops

\* A member that shuts down goes on with it, or fails.
LEMMA ShuttingDown ==
  ASSUME TypeOK, [Next]_vars, NEW w \in Wrappers
  PROVE  /\ member[w] \in Excused => member'[w] \in Excused
         /\ member[w] \in {"grace", "finish"} => member'[w] \in {"grace", "finish"} \cup Excused
<1> USE DEF Excused, Goes, TypeOK
<1>1. ASSUME MemberWorks(w), member[w] \in Excused \cup {"grace", "finish"}
      PROVE  /\ member[w] \in Excused => member'[w] \in Excused
             /\ member'[w] \in {"grace", "finish"} \cup Excused
  BY <1>1 DEF MemberWorks, ClaimRefused, BeginClaim, Evict, TakeClaim, Released, GiveUp,
     Spawn, SpawnRefused, Associate, Register, Undo, LeaderExits, SessionLost,
     LeaseLost, Shutdown, KillServer, CleanTree, Finish, BeginFinish, Leave, Drop
<1>2. ASSUME MemberFails(w), member[w] \in Excused \cup {"grace", "finish"}
      PROVE  member'[w] \in Excused
  BY <1>2 DEF MemberFails, ClaimFails, SpawnFails, AssociateFails, RegisterFails,
     UndoFails, ShutdownFails, FinishFails, CleanFails, LookFails, WrapperKilled, Die
<1>3. ASSUME NEW v \in Wrappers, v # w, MemberWorks(v) \/ MemberFails(v)
      PROVE  member'[w] = member[w]
  BY <1>3, MemberStepsWorks, MemberStepsFails DEF OnlyMember
<1>4. ASSUME NEW v \in Wrappers, StartWrapper(v) \/ Signalled(v),
             member[w] \in Excused \cup {"grace", "finish"}
      PROVE  member'[w] = member[w]
  BY <1>4 DEF StartWrapper, Signalled
<1>5. CASE MembersStay
  BY <1>5 DEF MembersStay
<1>6. CASE OwnerWorks \/ OwnerFails \/ Interrupted \/ Elsewhere
  BY <1>4, <1>5, <1>6, MemberStepsElse
<1> QED
  BY <1>1, <1>2, <1>3, <1>6, MembersUnchanged, <1>5 DEF Next, Elsewhere, vars

\* Why a process of w may have been asked to end.
AskedFor(w) ==
  \/ OwnerDead \/ owner.warned \/ member[w] \in Excused
  \/ member[w] \in {"grace", "finish"} /\ owner.step \in BeforeClose
  \/ owner.step \in AfterSignal

\* A reason for having asked a process lasts while the process does.
LEMMA AskedStays ==
  ASSUME SessionInv, [Next]_vars, NEW w \in Wrappers, AskedFor(w)
  PROVE  AskedFor(w)'
<1> USE DEF SessionInv
<1>1. CASE member[w] \in {"grace", "finish"} /\ owner.step \in BeforeClose
  <2>1. ~(Close \/ CloseFails)
    BY <1>1, WrapperAssumption DEF LockInv, Critical, Close, CloseFails
  <2> QED
    BY <1>1, <2>1, OwnerStops, ShuttingDown DEF AskedFor, OwnerDead
<1>2. CASE ~(member[w] \in {"grace", "finish"} /\ owner.step \in BeforeClose)
  BY <1>2, OwnerStops, ShuttingDown DEF AskedFor, OwnerDead
<1> QED
  BY <1>1, <1>2

\* An excuse for asking a process again lasts.
LEMMA ExcuseStays ==
  ASSUME SessionInv, [Next]_vars, NEW w \in Wrappers,
         OwnerDead \/ owner.warned \/ member[w] \in Excused
  PROVE  (OwnerDead \/ owner.warned \/ member[w] \in Excused)'
  BY OwnerStops, ShuttingDown DEF OwnerDead, SessionInv

\* A process is asked again only for an excuse.
LEMMA AskedKept ==
  ASSUME SessionInv, [Next]_vars
  PROVE  AskedInv'
<1> USE DEF SessionInv
<1> SUFFICES ASSUME NEW w \in Wrappers
             PROVE  /\ Shows(w, "again")' => (OwnerDead \/ owner.warned \/ member[w] \in Excused)'
                    /\ Shows(w, "asked")' => AskedFor(w)'
  BY DEF AskedInv, AskedFor
<1>0. /\ Shows(w, "again") => OwnerDead \/ owner.warned \/ member[w] \in Excused
      /\ Shows(w, "asked") => AskedFor(w)
      /\ tree[w].server \in Statuses /\ tree[w].detached \in Statuses
  BY DEF AskedInv, AskedFor, TypeOK
<1>1. CASE /\ Shows(w, "again")' => Shows(w, "again")
           /\ Shows(w, "asked")' => Shows(w, "asked")
  BY <1>0, <1>1, AskedStays, ExcuseStays
<1>2. CASE OnlyEnd
  BY <1>1, <1>2 DEF OnlyEnd, Shows
<1>3. CASE \E v \in Wrappers : Spawn(v) \/ Detach(v)
  BY <1>1, <1>3, SpawnTree, DetachTree DEF Shows
<1>4. CASE SignalTree
  <2>1. owner.step = "signal" /\ owner'.step = "kill"
    BY <1>4, OwnerGoes DEF SignalTree, OwnerSteps
  <2>2. Shows(w, "again")' => Shows(w, "asked") \/ Shows(w, "again")
    BY <1>0, <1>4, AskedTree, AskedTyped DEF SignalTree, Shows
  <2>3. AskedFor(w) => OwnerDead \/ owner.warned \/ member[w] \in Excused
    BY <2>1 DEF AskedFor, BeforeClose, Starting, AfterSignal
  <2> QED
    BY <1>0, <2>1, <2>2, <2>3, ExcuseStays DEF AskedFor, AfterSignal
<1>5. ASSUME NEW v \in Wrappers, Shutdown(v)
      PROVE  /\ Shows(w, "again")' => (OwnerDead \/ owner.warned \/ member[w] \in Excused)'
             /\ Shows(w, "asked")' => AskedFor(w)'
  <2>1. CASE v # w \/ (session.closing /\ ~OwnerDead)
    BY <1>1, <1>5, <2>1, ShutdownTree DEF Shows, Shutdown
  <2>2. CASE v = w /\ (session.closing => OwnerDead)
    <3>1. member[w] \in {"reaped", "signalled"} /\ member'[w] = "grace" /\ owner' = owner
      BY <1>5, <2>2 DEF Shutdown, Goes, TypeOK
    <3>2. Shows(w, "again")' => Shows(w, "asked") \/ Shows(w, "again")
      BY <1>0, <1>5, <2>2, ShutdownTree, AskedTyped DEF Shows
    <3>3. owner.step \in Stopping => OwnerDead \/ owner.warned
      BY <2>2, <3>1 DEF CloseInv, Stopping, StartInv
    <3>4. AskedFor(w) => OwnerDead \/ owner.warned \/ member[w] \in Excused
      BY <3>1, <3>3 DEF AskedFor, Stopping
    <3>5. owner.step \in BeforeClose \cup Stopping \/ OwnerDead
      BY DEF TypeOK, OwnerSteps, BeforeClose, Starting, Stopping, AfterSignal,
         OwnerDead
    <3> QED
      BY <1>0, <3>1, <3>2, <3>3, <3>4, <3>5, ExcuseStays DEF AskedFor, OwnerDead
  <2> QED
    BY <2>1, <2>2
<1> QED
  BY <1>2, <1>3, <1>4, <1>5, TreeSteps DEF TreeStep

-----------------------------------------------------------------------------
\* The invariant, and what follows.

\* The initial states satisfy the invariant.
LEMMA SessionStarts ==
  Init => SessionInv
<1> SUFFICES ASSUME Init PROVE SessionInv
  OBVIOUS
<1> USE WrapperAssumption, BoundAssumption
<1>1. TypeOK
  BY DEF Init, TypeOK, Claims, NoClaim, Statuses, OwnerSteps, MemberSteps
<1>2. \A w \in Wrappers :
        ~Left(w) /\ ~WrapperAlive(w) /\ ~Shows(w, "asked") /\ ~Shows(w, "again")
  BY DEF Init, Left, WrapperAlive, Running, Shows
<1>3. \A a \in Apps : session.claims[a] = NoClaim
  BY DEF Init
<1>4. LockInv /\ ClaimInv
  BY DEF Init, LockInv, ClaimInv, Critical, Starting
<1>5. LeftIsClaimed /\ ChildInv /\ AskedInv
  BY <1>2, <1>3 DEF LeftIsClaimed, ChildInv, AskedInv, NoClaim, ClaimOf
<1>6. StartInv
  BY <1>3 DEF Init, StartInv, NoClaim, Unstarted
<1>7. JournalInv /\ CloseInv
  BY <1>2 DEF Init, JournalInv, JournalCoversSession, CloseInv, AfterSignal, AnyLeft,
     Running
<1> QED
  BY <1>1, <1>4, <1>5, <1>6, <1>7 DEF SessionInv

\* Every step keeps the invariant.
LEMMA SessionKept ==
  SessionInv /\ [Next]_vars => SessionInv'
<1> SUFFICES ASSUME SessionInv, [Next]_vars PROVE SessionInv'
  OBVIOUS
<1>1. TypeOK /\ LockInv /\ ClaimInv
  BY DEF SessionInv
<1>2. LockInv' /\ ClaimInv'
  <2>1. CASE OwnerWorks \/ OwnerFails \/ Interrupted
    BY <1>1, <2>1, LocksOwner, ClaimsKeptElse
  <2>2. CASE Elsewhere
    BY <1>1, <2>2, LocksElse, ClaimsKeptElse
  <2>3. ASSUME NEW w \in Wrappers, MemberWorks(w) \/ MemberFails(w)
        PROVE  LockInv' /\ ClaimInv'
    BY <1>1, <2>3, LocksMember, ClaimsKeptMember
  <2>4. CASE UNCHANGED vars
    BY <1>1, <2>4 DEF vars, LockInv, ClaimInv, ClaimOf, OwnerDead
  <2> QED
    BY <2>1, <2>2, <2>3, <2>4 DEF Next, Elsewhere
<1> QED
  BY <1>1, <1>2, TypesKept, LeftKept, ChildKept, StartKept, JournalKept, CloseKept,
     AskedKept DEF SessionInv

\* The invariant holds in every state of every behaviour.
THEOREM SessionInvariantHolds == Spec => []SessionInv
  BY SessionStarts, SessionKept, PTL DEF Spec

\* Every variable keeps its type; the owner knows only wrappers as children
\* (workspace.rs:374).
THEOREM SessionTypes == Spec => []TypeOK
<1>1. SessionInv => TypeOK
  BY DEF SessionInv
<1> QED
  BY <1>1, SessionInvariantHolds, PTL

\* At most one member's processes serve an app (workspace_session.rs:973).
THEOREM OneServer == Spec => []OneServerPerApp
<1>1. SessionInv => OneServerPerApp
  BY DEF SessionInv, LeftIsClaimed, OneServerPerApp, ClaimOf
<1> QED
  BY <1>1, SessionInvariantHolds, PTL

\* While anything of a session exists, so does its journal entry
\* (workspace_session.rs:302).
THEOREM SessionIsJournaled == Spec => []JournalCoversSession
<1>1. SessionInv => JournalCoversSession
  BY DEF SessionInv, JournalInv
<1> QED
  BY <1>1, SessionInvariantHolds, PTL

\* A published child is the one its lease names (workspace_session.rs:947).
THEOREM LeaseFollows == Spec => []LeaseFollowsClaim
<1>1. SessionInv => LeaseFollowsClaim
  BY DEF SessionInv, ChildInv, LeaseFollowsClaim, Children
<1> QED
  BY <1>1, SessionInvariantHolds, PTL

\* No process gets a graceful signal twice
\* (tests/workspace_sessions.rs:758).
THEOREM SignalledOnce == Spec => []OneGracefulSignal
<1>1. SessionInv => OneGracefulSignal
  BY DEF SessionInv, AskedInv, OneGracefulSignal, Shows, Excused
<1> QED
  BY <1>1, SessionInvariantHolds, PTL

\* No server starts once the owner has noted the children
\* (workspace_session.rs:370).
THEOREM CloseIsFinal == Spec => NoServerAfterClose
<1> DEFINE A == \A w \in Wrappers :
       tree[w].server = "none" /\ tree'[w].server = "running"
         => owner.step \notin {"collect", "signal", "kill", "scan", "remove", "forget"}
              \/ owner.warned
<1>1. ASSUME SessionInv, [Next]_vars PROVE A
  <2>0. TypeOK /\ CloseInv /\ StartInv
    BY <1>1 DEF SessionInv
  <2> SUFFICES ASSUME NEW w \in Wrappers, tree[w].server = "none", tree'[w].server = "running",
                      owner.step \in {"collect", "signal", "kill", "scan", "remove", "forget"}
               PROVE  owner.warned
    OBVIOUS
  <2>1. ~SignalTree /\ ~OnlyEnd
    BY <2>0, AskedTree, AskedTyped DEF SignalTree, OnlyEnd, Statuses
  <2>2. ASSUME NEW v \in Wrappers, Shutdown(v)
        PROVE  FALSE
    BY <2>0, <2>2, ShutdownTree, AskedTyped DEF Statuses
  <2>3. ASSUME NEW v \in Wrappers, Detach(v)
        PROVE  FALSE
    BY <2>0, <2>3, DetachTree
  <2>4. TreeStep
    BY <1>1, <2>0, TreeSteps
  <2>5. PICK v \in Wrappers : Spawn(v)
    BY <2>1, <2>2, <2>3, <2>4 DEF TreeStep
  <2>6. ~session.closing /\ member[v] # "none"
    BY <2>5 DEF Spawn, Live
  <2> QED
    BY <2>0, <2>6 DEF CloseInv, AfterSignal, StartInv
<1>2. Spec => [][A]_vars
  BY <1>1, SessionInvariantHolds, PTL DEF Spec
<1> QED
  BY <1>2 DEF NoServerAfterClose
=============================================================================
