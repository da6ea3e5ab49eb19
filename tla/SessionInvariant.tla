-------------------------- MODULE SessionInvariant --------------------------
(***************************************************************************)
(* The inductive invariant of module WorkspaceSession: who holds which     *)
(* lock at which step, and what the owner, a member and a reconciliation   *)
(* know of the session, its processes and the registry.                    *)
(***************************************************************************)
EXTENDS WorkspaceSession

\* The root nook is still starting, under the operations lock.
Starting == {"journal", "create", "write", "spawn", "record", "commit"}
BeforeClose == {"idle", "poll", "close"} \cup Starting
AfterSignal == {"kill", "scan", "remove", "forget", "routes"}

\* The critical sections of a member.
Critical == {"evict", "associate", "register", "undo", "grace", "finish", "release"}

\* Steps of a member before its server can be started.
Unstarted == {"none", "claim", "evict", "wait", "drop", "release", "ended", "killed"}

\* A member at one of these steps has failed to shut down, or is gone.
Excused == {"killed", "fallback", "leave", "ended"}

\* Whoever is in a critical section holds its lock, and nobody else does.
LockInv ==
  /\ \A w \in Wrappers : sessionLock = w <=> member[w] \in Critical
  /\ sessionLock = Prune <=> recon = "members"
  /\ operationsLock = Root <=> owner.step \in Starting
  /\ operationsLock = Prune <=> recon # "idle"
  /\ recon # "idle" => OwnerDead

\* A member in a critical section after its claim still has the claim.
ClaimInv ==
  \A w \in Wrappers :
    /\ member[w] \in Critical \ {"evict"} => ClaimOf(w).token = w
    /\ member[w] = "associate" => ~ClaimOf(w).child
    /\ member[w] = "register" => lease[AppOf[w]] \in {w, Nobody}

\* All that is left of a member can be found from the claim of its app.
LeftIsClaimed == \A w \in Wrappers : Left(w) => ClaimOf(w).token = w

\* The registry and the context agree on the child of an app.
ChildInv ==
  \A w \in Wrappers :
    ClaimOf(w).token = w /\ ClaimOf(w).child => lease[AppOf[w]] \in {w, Nobody}

\* Nobody starts before the runner does, and no server before the leases are
\* written.
StartInv ==
  /\ runner = "none" => \A w \in Wrappers : member[w] = "none"
  /\ owner.step \in {"idle", "journal", "create", "write", "spawn"} => runner = "none"
  /\ owner.step \in {"idle"} \cup Starting =>
       /\ \A a \in Apps : ~session.claims[a].released /\ ~session.claims[a].child
       /\ \A w \in Wrappers : member[w] \in Unstarted

\* What the journal covers, and when it no longer needs to.
JournalInv ==
  /\ JournalCoversSession
  /\ group = "none" => owner.step \in {"idle", "journal", "routes", "ended", "killed"}
  /\ owner.step \in {"remove", "forget"} => ~AnyLeft
  /\ recon \in {"stale", "members", "remove", "write"} => ~AnyLeft
  /\ owner.step = "forget" \/ recon = "write" => session.dir = "absent"

\* An owner that stops has closed the session, unless closing it failed or
\* there was never anything to close.
CloseInv ==
  owner.step \in {"collect", "signal"} \cup AfterSignal /\ ~owner.warned
    => session.closing \/ runner = "none"

Shows(w, status) == tree[w].server = status \/ tree[w].detached = status

\* A process that has been asked to end was asked by its wrapper, which is
\* not done with it, or by the owner, which does not ask again.
AskedInv ==
  \A w \in Wrappers :
    /\ Shows(w, "again") => OwnerDead \/ owner.warned \/ member[w] \in Excused
    /\ Shows(w, "asked") => \/ OwnerDead \/ owner.warned \/ member[w] \in Excused
                            \/ member[w] \in {"grace", "finish"} /\ owner.step \in BeforeClose
                            \/ owner.step \in AfterSignal

SessionInv ==
  /\ TypeOK
  /\ LockInv
  /\ ClaimInv
  /\ LeftIsClaimed
  /\ ChildInv
  /\ StartInv
  /\ JournalInv
  /\ CloseInv
  /\ AskedInv
=============================================================================
