---------------------------- MODULE RouteProofs ----------------------------
(***************************************************************************)
(* Proofs about the routes of module Nook, for every value of its          *)
(* constants.  Two recorded LAN runs never announce one mDNS name, under   *)
(* no hypothesis.  As long as nobody drops an owner that a root runner has *)
(* set aside for its rollback (RollbackKeepsOwners: the gap of             *)
(* workspace.rs:636, where the hypothesis really fails), no route is ever  *)
(* orphaned, the route of a recorded owner is taken down for a reason only *)
(* and one reconciliation without a fault repairs everything; where nobody *)
(* uses root runners, this holds without a hypothesis.                     *)
(*                                                                         *)
(* One lemma per command shows that its step keeps RouteInv (RouteStep);   *)
(* the lock makes the others wait, and what they know stays true           *)
(* (KnowledgeKept).                                                        *)
(***************************************************************************)
EXTENDS NookProofs, RouteInvariant

-----------------------------------------------------------------------------
(* What a call can do to the routes, and to whose.                         *)

LEMMA TransactionOutcome ==
  ASSUME NEW R, NEW S, NEW r \in Transaction(R, S)
  PROVE  /\ r.routes \in {R, S} /\ r.ok \in BOOLEAN
         /\ r.ok => r.routes = S
         /\ ~r.fault => r.ok
<1>1. \/ r = Outcome(TRUE, S, FALSE)
      \/ r = Outcome(FALSE, R, TRUE)
      \/ r = Outcome(FALSE, S, TRUE)
  BY DEF Transaction
<1>2. CASE r = Outcome(TRUE, S, FALSE)
  BY <1>2 DEF Outcome
<1>3. CASE r = Outcome(FALSE, R, TRUE)
  BY <1>3 DEF Outcome
<1>4. CASE r = Outcome(FALSE, S, TRUE)
  BY <1>4 DEF Outcome
<1> QED
  BY <1>1, <1>2, <1>3, <1>4

LEMMA RouteShape ==
  ASSUME NEW o \in Owners, NEW r \in RoutesOf(o)
  PROVE  /\ r[2] = o /\ r \in Routes /\ r = <<r[1], o>>
         /\ r[1] = "lan" => Lan[o]
         /\ r[1] # "lan" => r[1] = Container(Tls[o])
  BY OwnersAreTyped DEF RoutesOf, Routes, Containers, Container

LEMMA EnsureProxyOutcome ==
  ASSUME NEW R \in SUBSET Routes, NEW c \in Containers, NEW o \in Owners,
         NEW replace \in BOOLEAN, NEW sel, NEW r \in EnsureProxy(R, c, o, replace, sel)
  PROVE  /\ r.routes \subseteq R \cup {<<c, o>>}
         /\ \A d \in R \ r.routes :
              replace /\ d[2] # o /\ d[1] = c /\ Claim(c, d[2]) = Claim(c, o)
         /\ r.ok \in BOOLEAN
         /\ r.ok => <<c, o>> \in r.routes
         /\ Server(c = "https") \in sel /\ ~ClaimedByOther(R, c, o) /\ ~r.fault => r.ok
<1>1. /\ PutRoute(R, c, o) \subseteq R \cup {<<c, o>>} /\ <<c, o>> \in PutRoute(R, c, o)
      /\ \A d \in R \ PutRoute(R, c, o) : d[2] # o /\ d[1] = c /\ Claim(c, d[2]) = Claim(c, o)
  BY DEF PutRoute, Routes
<1>2. CASE Server(c = "https") \notin sel \/ (ClaimedByOther(R, c, o) /\ ~replace)
  <2>1. r = Outcome(FALSE, R, FALSE)
    BY <1>2 DEF EnsureProxy
  <2>2. r.ok = FALSE /\ r.routes = R
    BY <2>1 DEF Outcome
  <2>3. ~(Server(c = "https") \in sel /\ ~ClaimedByOther(R, c, o))
    BY <1>2
  <2> QED
    BY <2>2, <2>3
<1>3. CASE ~(Server(c = "https") \notin sel \/ (ClaimedByOther(R, c, o) /\ ~replace))
  <2>1. r \in Transaction(R, PutRoute(R, c, o))
    <3> DEFINE S == Transaction(R, PutRoute(R, c, o))
               refused == Server(c = "https") \notin sel \/ (ClaimedByOther(R, c, o) /\ ~replace)
    <3>1. EnsureProxy(R, c, o, replace, sel)
            = IF refused THEN {Outcome(FALSE, R, FALSE)} ELSE S
      BY Zenon DEF EnsureProxy
    <3>2. ~refused
      BY <1>3
    <3> HIDE DEF S, refused
    <3>3. r \in S
      BY <3>1, <3>2
    <3> QED
      BY <3>3 DEF S
  <2>2. /\ r.routes \in {R, PutRoute(R, c, o)} /\ r.ok \in BOOLEAN /\ (~r.fault => r.ok)
        /\ r.ok => r.routes = PutRoute(R, c, o)
    BY <2>1, TransactionOutcome
  <2>3. ASSUME NEW d \in R \ r.routes
        PROVE  replace /\ d[2] # o /\ d[1] = c /\ Claim(c, d[2]) = Claim(c, o)
    <3>1. d[2] # o /\ d[1] = c /\ Claim(c, d[2]) = Claim(c, o) /\ d \in R
      BY <1>1, <2>2
    <3>2. ClaimedByOther(R, c, o)
      <4>1. d[2] \in Owners /\ d = <<c, d[2]>>
        BY <3>1 DEF Routes
      <4> QED
        BY <3>1, <4>1 DEF ClaimedByOther
    <3> QED
      BY <1>3, <3>1, <3>2
  <2> QED
    BY <1>1, <2>2, <2>3
<1> QED
  BY <1>2, <1>3

\* `ensure` adds the owner's routes at most, and only with --force takes down
\* others: those that claim the same name in the same container.
LEMMA EnsureOutcome ==
  ASSUME NEW R \in SUBSET Routes, NEW o \in Owners, NEW replace \in BOOLEAN, NEW sel,
         NEW r \in Ensure(R, o, replace, sel)
  PROVE  /\ r.routes \subseteq R \cup RoutesOf(o)
         /\ \A d \in R \ r.routes :
              /\ replace /\ d[2] # o
              /\ <<d[1], o>> \in RoutesOf(o) /\ Claim(d[1], d[2]) = Claim(d[1], o)
         /\ r.ok => RoutesOf(o) \subseteq r.routes
         /\ (/\ ~r.fault
             /\ \A q \in RoutesOf(o) : /\ Server(q[1] = "https") \in sel
                                       /\ ~ClaimedByOther(R, q[1], o)) => r.ok
<1> DEFINE main == Container(Tls[o])
<1>1. main \in {"https", "http"} /\ main \in Containers /\ "lan" \in Containers
  BY OwnersAreTyped DEF Container, Containers
<1>2. CASE ~Lan[o]
  <2>1. r \in EnsureProxy(R, main, o, replace, sel) /\ RoutesOf(o) = {<<main, o>>}
    BY <1>2 DEF Ensure, RoutesOf
  <2> HIDE DEF main
  <2> QED
    BY <1>1, <2>1, EnsureProxyOutcome
<1>3. CASE Lan[o]
  <2>1. PICK first \in EnsureProxy(R, "lan", o, replace, sel) :
          r \in IF first.ok THEN EnsureProxy(first.routes, main, o, replace, sel) ELSE {first}
    BY <1>3 DEF Ensure
  <2>2. RoutesOf(o) = {<<main, o>>, <<"lan", o>>}
    BY <1>3 DEF RoutesOf
  <2> HIDE DEF main
  <2>3. /\ first.routes \in SUBSET Routes
        /\ first.routes \subseteq R \cup {<<"lan", o>>}
        /\ \A d \in R \ first.routes :
             replace /\ d[2] # o /\ d[1] = "lan" /\ Claim("lan", d[2]) = Claim("lan", o)
        /\ first.ok \in BOOLEAN
        /\ first.ok => <<"lan", o>> \in first.routes
        /\ Server("lan" = "https") \in sel /\ ~ClaimedByOther(R, "lan", o) /\ ~first.fault
             => first.ok
    BY <1>1, EnsureProxyOutcome, EnsureProxyTyped DEF Outcomes
  <2>4. CASE ~first.ok
    <3>1. r = first
      BY <2>1, <2>4
    <3> QED
      BY <2>2, <2>3, <2>4, <3>1
  <2>5. CASE first.ok
    <3>1. r \in EnsureProxy(first.routes, main, o, replace, sel)
      BY <2>1, <2>5
    <3>2. /\ r.routes \subseteq first.routes \cup {<<main, o>>}
          /\ \A d \in first.routes \ r.routes :
               replace /\ d[2] # o /\ d[1] = main /\ Claim(main, d[2]) = Claim(main, o)
          /\ r.ok => <<main, o>> \in r.routes
          /\ Server(main = "https") \in sel /\ ~ClaimedByOther(first.routes, main, o) /\ ~r.fault
               => r.ok
      BY <1>1, <2>3, <3>1, EnsureProxyOutcome
    <3>3. ClaimedByOther(first.routes, main, o) => ClaimedByOther(R, main, o)
      BY <1>1, <2>3 DEF ClaimedByOther
    <3>4. <<"lan", o>> \in r.routes
      BY <1>1, <2>3, <2>5, <3>2
    <3>5. \A d \in R \ r.routes :
              /\ replace /\ d[2] # o
              /\ <<d[1], o>> \in RoutesOf(o) /\ Claim(d[1], d[2]) = Claim(d[1], o)
      BY <2>2, <2>3, <3>2
    <3>6. r.routes \subseteq R \cup RoutesOf(o)
      BY <2>2, <2>3, <3>2
    <3>7. (/\ ~r.fault
             /\ \A q \in RoutesOf(o) : /\ Server(q[1] = "https") \in sel
                                       /\ ~ClaimedByOther(R, q[1], o)) => r.ok
      BY <2>2, <3>2, <3>3
    <3>8. r.ok => RoutesOf(o) \subseteq r.routes
      BY <2>2, <3>2, <3>4
    <3> QED
      BY <3>5, <3>6, <3>7, <3>8
  <2> QED
    BY <2>3, <2>4, <2>5
<1> QED
  BY <1>2, <1>3

\* `remove_if_owned` takes down the owner's routes only, and all of them when
\* it is done, if it is told the owner's protocol.
LEMMA RemoveOutcome ==
  ASSUME NEW R \in SUBSET Routes, NEW o \in Owners, NEW tls \in BOOLEAN, NEW sel,
         NEW r \in RemoveIfOwned(R, o, tls, sel)
  PROVE  /\ r.routes \subseteq R
         /\ \A d \in R \ r.routes : d[2] = o
         /\ r.ok /\ tls = Tls[o] /\ (\A d \in R : d[2] = o => d \in RoutesOf(o)) =>
              \A d \in r.routes : d[2] # o
         /\ Server(tls) \in sel /\ ~r.fault => r.ok
<1>1. \A cs, T : /\ DropRoutes(T, cs, o) \subseteq T
                 /\ \A d \in T \ DropRoutes(T, cs, o) : d[2] = o
                 /\ \A d \in DropRoutes(T, cs, o) : d[1] \notin cs \/ d[2] # o
  BY DEF DropRoutes
<1>2. \A d \in RoutesOf(o) : d[1] = "lan" \/ d[1] = (IF Tls[o] THEN "https" ELSE "http")
  BY DEF RoutesOf, Container
<1>3. CASE Server(tls) \notin sel
  <2>1. r = Outcome(FALSE, R, FALSE)
    BY <1>3 DEF RemoveIfOwned
  <2>2. r.ok = FALSE /\ r.routes = R
    BY <2>1 DEF Outcome
  <2> QED
    BY <1>3, <2>2
<1>4. CASE Server(tls) \in sel /\ ~tls
  <2> DEFINE S == DropRoutes(R, {"http", "lan"}, o)
  <2>1. r \in Transaction(R, S)
    BY <1>4 DEF RemoveIfOwned
  <2> HIDE DEF S
  <2>2. /\ r.routes \in {R, S} /\ r.ok \in BOOLEAN /\ (~r.fault => r.ok)
        /\ r.ok => r.routes = S
    BY <2>1, TransactionOutcome
  <2>3. /\ S \subseteq R /\ \A d \in R \ S : d[2] = o
        /\ \A d \in S : d[1] \notin {"http", "lan"} \/ d[2] # o
    BY <1>1 DEF S
  <2> QED
    BY <1>2, <1>4, <2>2, <2>3
<1>5. CASE Server(tls) \in sel /\ tls
  <2> DEFINE S == DropRoutes(R, {"https"}, o)
  <2>1. PICK first \in Transaction(R, S) :
          r \in IF first.ok THEN RemoveCompanion(first.routes, o, sel) ELSE {first}
    BY <1>5 DEF RemoveIfOwned
  <2>2. /\ S \subseteq R /\ \A d \in R \ S : d[2] = o
        /\ \A d \in S : d[1] # "https" \/ d[2] # o
    BY <1>1
  <2> HIDE DEF S
  <2>3. /\ first.routes \in {R, S} /\ first.ok \in BOOLEAN /\ (~first.fault => first.ok)
        /\ first.ok => first.routes = S
    BY <2>1, TransactionOutcome
  <2>4. CASE ~first.ok
    <3>1. r = first
      BY <2>1, <2>4
    <3> QED
      BY <2>2, <2>3, <2>4, <3>1
  <2>5. CASE first.ok
    <3> DEFINE T == DropRoutes(S, {"lan"}, o)
    <3>1. r \in RemoveCompanion(S, o, sel)
      BY <2>1, <2>3, <2>5
    <3>2. /\ T \subseteq S /\ \A d \in S \ T : d[2] = o
          /\ \A d \in T : d[1] # "lan" \/ d[2] # o
      BY <1>1
    <3>3. CASE "HTTP" \in sel \/ <<"lan", o>> \in S
      <4>1. r \in Transaction(S, T)
        BY <3>1, <3>3 DEF RemoveCompanion
      <4> HIDE DEF T
      <4>2. /\ r.routes \in {S, T} /\ r.ok \in BOOLEAN /\ (~r.fault => r.ok)
            /\ r.ok => r.routes = T
        BY <4>1, TransactionOutcome
      <4> QED
        BY <1>2, <1>5, <2>2, <3>2, <4>2
    <3>4. CASE ~("HTTP" \in sel \/ <<"lan", o>> \in S)
      <4>1. r \in {Outcome(TRUE, S, FALSE), Outcome(FALSE, S, TRUE)}
        BY <3>1, <3>4 DEF RemoveCompanion
      <4>2. r.routes = S /\ r.ok \in BOOLEAN /\ (~r.fault => r.ok)
        <5>1. r = Outcome(TRUE, S, FALSE) \/ r = Outcome(FALSE, S, TRUE)
          BY <4>1
        <5>2. CASE r = Outcome(TRUE, S, FALSE)
          BY <5>2 DEF Outcome
        <5>3. CASE r = Outcome(FALSE, S, TRUE)
          BY <5>3 DEF Outcome
        <5> QED
          BY <5>1, <5>2, <5>3
      <4>3. \A d \in S : d[2] = o => d[1] # "lan"
        BY <2>2, <3>4 DEF Routes
      <4>4. Tls[o] => \A d \in RoutesOf(o) : d[1] \in {"lan", "https"}
        BY <1>2
      <4>5. (tls = Tls[o] /\ \A d \in R : d[2] = o => d \in RoutesOf(o)) => \A d \in S : d[2] # o
        BY <1>5, <2>2, <4>3, <4>4
      <4> QED
        BY <2>2, <4>2, <4>5
    <3> QED
      BY <3>3, <3>4
  <2> QED
    BY <2>3, <2>4, <2>5
<1> QED
  BY <1>3, <1>4, <1>5

-----------------------------------------------------------------------------
(* The holder of the operations lock and the others.                       *)

\* While one command holds the lock, no other calls Caddy or writes the
\* registry.
LEMMA OthersWait ==
  ASSUME OwnershipInv, NEW p \in Procs, NEW q \in Procs, q # p, pc[q] \in LockedLabels,
         Begin(p) \/ Continue(p) \/ RunEnds(p) \/ Crash(p)
  PROVE  UNCHANGED <<registry, routes>> /\ faults <= faults'
<1>1. faults \in Nat
  BY FaultsAreBounded DEF OwnershipInv, TypeOK
<1>2. operations = q /\ ~Lock(p)
  BY NoProcIsNoProcess DEF OwnershipInv, CommandInv, LockHeld, Lock
<1>3. pc[p] \notin LockedLabels
  BY <1>2 DEF OwnershipInv, CommandInv, LockHeld
<1>4. ~Begin(p)
  BY <1>2 DEF Begin, SetAlias, RemoveAlias, StartRun, Reconcile, Prune
<1>5. ~Continue(p)
  <2>1. ~(\/ AliasEnsure(p) \/ AliasPublish(p) \/ AliasUndo(p) \/ AliasRestore(p)
          \/ AliasDrop(p) \/ AliasClean(p) \/ AliasCommit(p)
          \/ UnaliasRemove(p) \/ UnaliasDone(p))
    BY <1>3 DEF AliasEnsure, AliasPublish, AliasUndo, AliasRestore, AliasDrop, AliasClean,
       AliasCommit, UnaliasRemove, UnaliasDone, LockedLabels
  <2>2. ~(\/ PrepareRun(p) \/ PrepareRejected(p) \/ EnsureRun(p) \/ JournalFails(p)
          \/ JournalStart(p) \/ Spawn(p) \/ SpawnFails(p) \/ CleanDisplaced(p)
          \/ CommitRuns(p) \/ CommitFails(p) \/ Relock(p) \/ Abandon(p)
          \/ AbandonRestore(p) \/ AbandonWrite(p))
    BY <1>2, <1>3 DEF PrepareRun, PrepareRejected, EnsureRun, JournalFails, JournalStart,
       Spawn, SpawnFails, CleanDisplaced, CommitRuns, CommitFails, Relock, Abandon,
       AbandonRestore, AbandonWrite, LockedLabels
  <2>3. ~(\/ FinishRoute(p) \/ FinishRemove(p) \/ FinishWrite(p)
          \/ PruneOrphan(p) \/ PruneReconcile(p) \/ ReplayRestore(p) \/ ReplayRemoval(p)
          \/ Replayed(p) \/ ReconcileRoute(p) \/ ReconcileWrite(p))
    BY <1>2, <1>3 DEF FinishRoute, FinishRemove, FinishWrite, PruneOrphan, PruneReconcile,
       ReplayRestore, ReplayRemoval, Replayed, ReconcileRoute, ReconcileWrite, LockedLabels
  <2> QED
    BY <2>1, <2>2, <2>3 DEF Continue
<1>6. CASE RunEnds(p)
  BY <1>1, <1>6 DEF RunEnds
<1>7. CASE Crash(p)
  BY <1>1, <1>7 DEF Crash, Spend
<1> QED
  BY <1>4, <1>5, <1>6, <1>7

\* A step of one command leaves the others where they are.
LEMMA OthersStay ==
  ASSUME OwnershipInv, DepartureInv, NEW p \in Procs, NEW q \in Procs, q # p,
         Begin(p) \/ Continue(p) \/ RunEnds(p) \/ Crash(p)
  PROVE  pc'[q] = pc[q] /\ local'[q] = local[q]
  BY CommandSteps DEF StepOf, IdsKept

-----------------------------------------------------------------------------
(* mDNS names.                                                             *)

\* No mDNS name is on record twice, or looked up beside a competitor.
LEMMA LanWatched ==
  ASSUME LanInv, NEW p \in Procs, LanApart(p),
         pc'[p] \in AliasLabels => pc[p] \in AliasLabels,
         pc'[p] \in StartLabels => /\ pc[p] \in StartLabels /\ leases' = leases
                                   /\ LookedUp(p)' \subseteq LookedUp(p),
         local'[p].apps \subseteq local[p].apps
  PROVE  LanApart(p)'
<1>1. ASSUME pc'[p] \in AliasLabels
      PROVE  \A a \in local'[p].apps : ~Lan[a]
  BY <1>1 DEF LanApart
<1>2. ASSUME pc'[p] \in StartLabels
      PROVE  /\ \A a, b \in local'[p].apps : Lan[a] /\ Lan[b] => a = b
             /\ \A a \in LookedUp(p)' : ~LanConflict(a)'
  <2>1. \A a : LanConflict(a)' = LanConflict(a)
    BY <1>2 DEF LanConflict
  <2> QED
    BY <1>2, <2>1 DEF LanApart
<1> QED
  BY <1>1, <1>2 DEF LanApart

\* Labels at which LanApart says something.
LanLabels == AliasLabels \cup StartLabels

\* Only the commands that start something come to these labels.
LEMMA LanReached ==
  ASSUME TypeOK, NEW p \in Procs,
         \/ \E a \in Owners, t \in BOOLEAN : RemoveAlias(p, a, t)
         \/ UnaliasRemove(p) \/ UnaliasDone(p)
         \/ AliasDrop(p) \/ AliasCommit(p)
         \/ PrepareRejected(p) \/ JournalFails(p) \/ SpawnFails(p) \/ CommitRuns(p)
         \/ CommitFails(p) \/ Relock(p) \/ Abandon(p) \/ AbandonRestore(p) \/ AbandonWrite(p)
         \/ RunEnds(p) \/ FinishRoute(p) \/ FinishRemove(p) \/ FinishWrite(p)
         \/ Reconcile(p) \/ Prune(p) \/ PruneOrphan(p) \/ PruneReconcile(p)
         \/ ReplayRestore(p) \/ ReplayRemoval(p) \/ Replayed(p) \/ ReconcileRoute(p)
         \/ ReconcileWrite(p) \/ Crash(p)
  PROVE  pc'[p] \notin LanLabels
<1>1. ASSUME NEW label \in {"idle", "unaliasRemove", "unaliasDone", "rollback", "abandon",
                            "abandonRestore", "live", "finish", "finishRemove", "finishWrite",
                            "orphans", "replay", "routes"},
             pc' = [pc EXCEPT ![p] = label]
      PROVE  pc'[p] \notin LanLabels
  BY <1>1 DEF LanLabels, AliasLabels, StartLabels, TypeOK
<1>2. CASE \/ \E a \in Owners, t \in BOOLEAN : RemoveAlias(p, a, t)
           \/ UnaliasRemove(p) \/ UnaliasDone(p)
           \/ AliasDrop(p) \/ AliasCommit(p)
  BY <1>1, <1>2, Zenon
  DEF RemoveAlias, UnaliasRemove, UnaliasDone, AliasDrop, AliasCommit, Return, Goto
<1>3. CASE \/ PrepareRejected(p) \/ JournalFails(p) \/ SpawnFails(p) \/ CommitRuns(p)
           \/ CommitFails(p) \/ Relock(p) \/ Abandon(p) \/ AbandonRestore(p) \/ AbandonWrite(p)
  BY <1>1, <1>3, Zenon
  DEF PrepareRejected, JournalFails, SpawnFails, CommitRuns, CommitFails, Relock,
     Abandon, AbandonRestore, AbandonWrite, AbandonCurrent, RollBack, Return, Goto
<1>4. CASE RunEnds(p) \/ FinishRoute(p) \/ FinishRemove(p) \/ FinishWrite(p) \/ Crash(p)
  BY <1>1, <1>4, Zenon DEF RunEnds, FinishRoute, FinishRemove, FinishWrite, Crash, Goto
<1>5. CASE \/ Reconcile(p) \/ Prune(p) \/ PruneOrphan(p) \/ PruneReconcile(p)
           \/ ReplayRestore(p) \/ ReplayRemoval(p) \/ Replayed(p) \/ ReconcileRoute(p)
           \/ ReconcileWrite(p)
  BY <1>1, <1>5, Zenon
  DEF Reconcile, Prune, PruneOrphan, PruneReconcile, JudgeLeases, ReplayRestore,
     ReplayRemoval, Replayed, ReconcileRoute, ReconcileWrite, Return, Goto
<1> QED
  BY <1>2, <1>3, <1>4, <1>5

LEMMA AliasApart ==
  ASSUME OwnershipInv, DepartureInv, LanInv, NEW p \in Procs,
         \/ AliasEnsure(p) \/ AliasPublish(p) \/ AliasUndo(p) \/ AliasRestore(p) \/ AliasClean(p)
  PROVE  LanApart(p)'
<1>1. TypeOK /\ LanApart(p) /\ used' = used /\ pc[p] \in AliasLabels
  BY DEF OwnershipInv, LanInv, AliasEnsure, AliasPublish, AliasUndo, AliasRestore, AliasClean,
     AliasLabels
<1>2. Continue(p)
  BY DEF Continue
<1>3. local'[p].apps \subseteq local[p].apps
  BY <1>1, <1>2, CommandSteps DEF StepOf, IdsKept
<1>4. PICK label \in AliasLabels \cup {"idle"} : pc' = [pc EXCEPT ![p] = label]
  BY Zenon
  DEF AliasEnsure, AliasPublish, AliasUndo, AliasRestore, AliasClean, Return, Goto, AliasLabels
<1>5. pc'[p] \notin StartLabels
  BY <1>1, <1>4 DEF AliasLabels, StartLabels, TypeOK
<1> QED
  BY <1>1, <1>3, <1>5, LanWatched

LEMMA StartsApart ==
  ASSUME OwnershipInv, DepartureInv, LanInv, NEW p \in Procs,
         \/ EnsureRun(p) \/ JournalStart(p) \/ Spawn(p) \/ CleanDisplaced(p)
  PROVE  LanApart(p)'
<1> DEFINE me == local[p]
<1>1. TypeOK /\ LanApart(p) /\ used' = used /\ pc[p] \in StartLabels /\ leases' = leases
  BY DEF OwnershipInv, LanInv, EnsureRun, JournalStart, Spawn, CleanDisplaced, StartLabels, registry
<1>2. Continue(p)
  BY DEF Continue
<1>3. local'[p].apps \subseteq me.apps
  BY <1>1, <1>2, CommandSteps DEF StepOf, IdsKept
<1>4. PICK label \in {"prepare", "journal", "spawn", "clean", "abandon"} :
        pc' = [pc EXCEPT ![p] = label]
  BY Zenon DEF EnsureRun, JournalStart, Spawn, CleanDisplaced, AbandonCurrent, Goto
<1>5. pc'[p] = label
  BY <1>1, <1>4 DEF TypeOK
<1>6. pc'[p] \notin AliasLabels
  BY <1>5 DEF AliasLabels
<1>7. ASSUME pc'[p] \in StartLabels
      PROVE  LookedUp(p)' \subseteq LookedUp(p)
  <2>1. CASE Spawn(p) \/ CleanDisplaced(p)
    <3>1. LookedUp(p) = me.apps
      BY <2>1 DEF Spawn, CleanDisplaced, LookedUp
    <3> QED
      BY <1>3, <3>1 DEF LookedUp
  <2>2. CASE EnsureRun(p)
    <3>1. Goto(p, "journal", me) \/ pc' = [pc EXCEPT ![p] = "abandon"]
      BY <2>2 DEF EnsureRun, AbandonCurrent, Goto
    <3>2. Goto(p, "journal", me)
      BY <1>1, <1>7, <3>1 DEF StartLabels, TypeOK
    <3>3. pc'[p] = "journal" /\ local'[p] = me /\ pc[p] = "ensure"
      BY <1>1, <2>2, <3>2, Moved DEF EnsureRun
    <3> QED
      BY <3>3 DEF LookedUp
  <2>3. CASE JournalStart(p)
    <3>1. pc[p] = "journal"
      BY <2>3 DEF JournalStart
    <3>2. CASE me.todo = {}
      BY <1>3, <3>1, <3>2 DEF LookedUp
    <3>3. CASE me.todo # {}
      <4>1. Goto(p, "prepare", me)
        BY <2>3, <3>3 DEF JournalStart
      <4>2. pc'[p] = "prepare" /\ local'[p] = me
        BY <1>1, <4>1, Moved
      <4> QED
        BY <3>1, <4>2 DEF LookedUp
    <3> QED
      BY <3>2, <3>3
  <2> QED
    BY <2>1, <2>2, <2>3
<1> QED
  BY <1>1, <1>3, <1>6, <1>7, LanWatched

LEMMA SetAliasApart ==
  ASSUME TypeOK, NEW p \in Procs, NEW o \in Owners, NEW f \in BOOLEAN, SetAlias(p, o, f)
  PROVE  LanApart(p)'
<1> DEFINE memory == [Idle EXCEPT !.cmd = "alias", !.force = f, !.sel = {Server(Tls[o])},
                                  !.apps = {o}, !.cur = o, !.displaced = Displaced(Host[o])]
<1>1. Goto(p, "aliasEnsure", memory) /\ ~Lan[o]
  BY DEF SetAlias
<1>2. memory.apps = {o}
  BY DEF Idle
<1> HIDE DEF memory
<1>3. pc'[p] = "aliasEnsure" /\ local'[p].apps = {o}
  BY <1>1, <1>2, Moved
<1> QED
  BY <1>1, <1>3 DEF LanApart, StartLabels

LEMMA StartRunApart ==
  ASSUME TypeOK, NEW p \in Procs, NEW cmd \in Commands \cap {"run", "workspace", "runner"},
         NEW apps \in SUBSET Owners, NEW force \in BOOLEAN, StartRun(p, cmd, apps, force)
  PROVE  LanApart(p)'
<1> DEFINE sel == {Server(Tls[a]) : a \in apps}
                    \cup (IF \E a \in apps : Lan[a] THEN {"HTTP"} ELSE {})
           memory == [Idle EXCEPT !.cmd = cmd, !.force = force, !.apps = apps, !.todo = apps,
                                  !.sel = sel]
<1>1. /\ Goto(p, "prepare", memory)
      /\ \A a, b \in apps : Lan[a] /\ Lan[b] => a = b
  BY DEF StartRun
<1>2. memory.apps = apps /\ memory.todo = apps
  BY DEF Idle
<1> HIDE DEF memory
<1>3. pc'[p] = "prepare" /\ local'[p].apps = apps /\ LookedUp(p)' = {}
  BY <1>1, <1>2, Moved DEF LookedUp
<1> QED
  BY <1>1, <1>3 DEF LanApart, AliasLabels

LEMMA PrepareApart ==
  ASSUME OwnershipInv, LanInv, NEW p \in Procs, PrepareRun(p)
  PROVE  LanApart(p)'
<1> DEFINE me == local[p]
<1>1. TypeOK /\ me \in Locals /\ LanApart(p) /\ leases' = leases /\ pc[p] = "prepare"
  BY MemoryTyped DEF OwnershipInv, LanInv, PrepareRun
<1>2. PICK a \in me.todo :
        /\ ~LanConflict(a)
        /\ Goto(p, "ensure", [me EXCEPT !.cur = a, !.todo = @ \ {a},
                                        !.displaced = @ \cup Displaced(Host[a])])
  BY DEF PrepareRun
<1> DEFINE memory == [me EXCEPT !.cur = a, !.todo = @ \ {a},
                                !.displaced = @ \cup Displaced(Host[a])]
<1>3. memory.apps = me.apps /\ memory.todo = me.todo \ {a}
  BY <1>1 DEF Locals
<1>4. Goto(p, "ensure", memory)
  BY <1>2
<1> HIDE DEF memory
<1>5. pc'[p] = "ensure" /\ local'[p].apps = me.apps /\ local'[p].todo = me.todo \ {a}
  BY <1>1, <1>3, <1>4, Moved
<1>6. LookedUp(p)' \subseteq LookedUp(p) \cup {a}
  BY <1>1, <1>5 DEF LookedUp
<1>7. \A b : LanConflict(b)' = LanConflict(b)
  BY <1>1 DEF LanConflict
<1> QED
  BY <1>1, <1>2, <1>5, <1>6, <1>7 DEF LanApart, AliasLabels, StartLabels

LEMMA CommandApart ==
  ASSUME OwnershipInv, DepartureInv, LanInv, NEW p \in Procs,
         Begin(p) \/ Continue(p) \/ RunEnds(p) \/ Crash(p)
  PROVE  LanApart(p)'
<1>1. TypeOK
  BY DEF OwnershipInv
<1>2. ASSUME pc'[p] \notin LanLabels
      PROVE  LanApart(p)'
  BY <1>2 DEF LanApart, LanLabels
<1>3. CASE Begin(p)
  BY <1>1, <1>2, <1>3, SetAliasApart, StartRunApart, LanReached DEF Begin
<1>4. CASE Continue(p)
  BY <1>1, <1>2, <1>4, AliasApart, PrepareApart, StartsApart, LanReached DEF Continue
<1> QED
  BY <1>1, <1>2, <1>3, <1>4, LanReached

\* A run is recorded beside no other run of its mDNS name: one on its own
\* hostname is displaced in the same write.
LEMMA LanRecorded ==
  ASSUME OwnershipInv, DepartureInv, LanInv, NEW p \in Procs, Records(p)
  PROVE  (\A a \in aliases' : ~Lan[a]) /\ OneRunPerLanName'
<1> DEFINE me == local[p]
<1>1. TypeOK /\ Loops(p) /\ LanApart(p) /\ OneRunPerLanName /\ \A a \in aliases : ~Lan[a]
  BY DEF OwnershipInv, CommandInv, LanInv
<1>2. CASE AliasCommit(p)
  <2>1. /\ aliases' = (aliases \ me.displaced) \cup {me.cur}
        /\ leases' = leases \ me.displaced
        /\ pc[p] = "aliasClean"
    BY <1>2 DEF AliasCommit
  <2>2. ~Lan[me.cur]
    BY <1>1, <2>1 DEF Loops, LanApart, AliasLabels
  <2> QED
    BY <1>1, <2>1, <2>2 DEF OneRunPerLanName
<1>3. CASE CommitRuns(p)
  <2>1. /\ aliases' = aliases \ me.displaced
        /\ leases' = (leases \ me.displaced) \cup me.apps
        /\ pc[p] = "clean"
    BY <1>3 DEF CommitRuns
  <2>2. /\ \A a, b \in me.apps : Lan[a] /\ Lan[b] => a = b
        /\ \A a \in me.apps : ~LanConflict(a)
    BY <1>1, <2>1 DEF LanApart, StartLabels, LookedUp
  <2>3. \A a \in me.apps, o \in Registered : Host[o] = Host[a] => o \in me.displaced
    BY RecordsTaken
  <2>4. ASSUME NEW a \in me.apps, NEW l \in leases \ me.displaced, Lan[a], Lan[l]
        PROVE  LanName[Host[a]] # LanName[Host[l]]
    <3>1. Host[l] # Host[a]
      BY <2>3 DEF Registered
    <3> QED
      BY <2>2, <2>4, <3>1 DEF LanConflict
  <2> QED
    BY <1>1, <2>1, <2>2, <2>4 DEF OneRunPerLanName
<1> QED
  BY <1>2, <1>3 DEF Records

LEMMA LanStep ==
  ASSUME OwnershipInv, DepartureInv, LanInv, [Next]_vars
  PROVE  LanInv'
<1>1. (\A a \in aliases' : ~Lan[a]) /\ OneRunPerLanName'
  <2>1. CASE UNCHANGED <<aliases, leases>>
    BY <2>1 DEF LanInv, OneRunPerLanName
  <2>2. ASSUME NEW p \in Procs, Records(p)
        PROVE  (\A a \in aliases' : ~Lan[a]) /\ OneRunPerLanName'
    BY <2>2, LanRecorded
  <2>3. ASSUME NEW p \in Procs, Drops(p)
        PROVE  (\A a \in aliases' : ~Lan[a]) /\ OneRunPerLanName'
    <3>1. aliases' \subseteq aliases /\ leases' \subseteq leases
      BY <2>3 DEF Drops, RemoveAlias, FinishWrite, ReconcileWrite
    <3> QED
      BY <3>1 DEF LanInv, OneRunPerLanName
  <2> QED
    BY <2>1, <2>2, <2>3, RegistryWrites
<1>2. ASSUME NEW q \in Procs, pc'[q] = pc[q], local'[q] = local[q],
             pc[q] \in StartLabels => UNCHANGED registry
      PROVE  LanApart(q)'
  <2>1. LanApart(q)
    BY DEF LanInv
  <2>2. pc[q] \in StartLabels => LookedUp(q)' = LookedUp(q) /\ leases' = leases
    BY <1>2 DEF LookedUp, registry
  <2> QED
    BY <1>2, <2>1, <2>2, LanWatched
<1>3. ASSUME NEW p \in Procs, Begin(p) \/ Continue(p) \/ RunEnds(p) \/ Crash(p)
      PROVE  \A q \in Procs : LanApart(q)'
  <2>1. ASSUME NEW q \in Procs, q # p
        PROVE  LanApart(q)'
    <3>1. pc'[q] = pc[q] /\ local'[q] = local[q]
      BY <1>3, <2>1, OthersStay
    <3>2. pc[q] \in StartLabels => UNCHANGED registry
      BY <1>3, <2>1, OthersWait DEF StartLabels, LockedLabels
    <3> QED
      BY <1>2, <3>1, <3>2
  <2> QED
    BY <1>3, <2>1, CommandApart
<1>4. ASSUME \/ \E o \in Owners : ChildExits(o)
             \/ CaddyReloads
             \/ UNCHANGED vars
      PROVE  \A q \in Procs : LanApart(q)'
  <2>1. UNCHANGED <<registry, pc, local>>
    BY <1>4 DEF ChildExits, CaddyReloads, vars
  <2>2. ASSUME NEW q \in Procs
        PROVE  LanApart(q)'
    BY <1>2, <2>1
  <2> QED
    BY <2>2
<1>5. \A q \in Procs : LanApart(q)'
  <2>1. CASE \E p \in Procs : Begin(p) \/ Continue(p) \/ RunEnds(p) \/ Crash(p)
    BY <1>3, <2>1
  <2> QED
    BY <1>4, <2>1 DEF Next
<1> QED
  BY <1>1, <1>5 DEF LanInv

\* What a command knows of the mDNS names stays true until it commits.
LEMMA LanKnown == Spec => []LanInv
<1>1. Init => LanInv
  BY DEF Init, LanInv, OneRunPerLanName, LanApart, AliasLabels, StartLabels
<1>2. CommandsStayRight /\ LanInv /\ [Next]_vars => LanInv'
  BY LanStep DEF CommandsStayRight
<1> QED
  BY <1>1, <1>2, DeparturesAreKnown, PTL DEF Spec

\* However runs, aliases and reconciliations interleave, and whatever fails,
\* two recorded LAN runs never announce one mDNS name: the check of
\* prepare_run still holds when commit_prepared_runs writes, many Caddy calls
\* and spawns later.
THEOREM LanNamesAreApart == Spec => []OneRunPerLanName
<1>1. LanInv => OneRunPerLanName
  BY DEF LanInv
<1> QED
  BY <1>1, LanKnown, PTL

-----------------------------------------------------------------------------
(* Routes: what one step of a command has to show.                         *)

AllInv == OwnershipInv /\ DepartureInv /\ LanInv /\ RouteInv

RouteStep(p) == RoutesShaped' /\ NoOrphanedRoute' /\ RouteKnowledge(p)'

\* What is claimed of a command depends on its label.
LEMMA KnowledgeAt ==
  ASSUME NEW p \in Procs,
         \/ pc'[p] \in {"idle", "live", "finish", "finishRemove", "rollback"}
         \/ /\ pc'[p] \in {"aliasEnsure", "aliasPublish", "prepare", "ensure", "journal", "spawn"}
            /\ Announced(p)'
         \/ pc'[p] \in {"aliasClean", "clean"} /\ Announced(p)' /\ TakenDown(p)'
         \/ pc'[p] \in {"aliasUndo", "abandon"} /\ Restorable(p)'
         \/ pc'[p] \in {"aliasRestore", "abandonRestore"} /\ Restorable(p)' /\ TakenDown(p)'
         \/ pc'[p] \in {"finishWrite", "unaliasRemove", "unaliasDone"} /\ TakenDown(p)'
         \/ pc'[p] = "orphans" /\ Accounted(p)'
         \/ pc'[p] \in {"replay", "routes"} /\ Accounted(p)' /\ Repairing(p)'
  PROVE  RouteKnowledge(p)'
<1>1. pc'[p] \notin Committing => Announced(p)'
  BY DEF Announced
<1>2. pc'[p] \notin {"aliasUndo", "aliasRestore", "abandon", "abandonRestore"} => Restorable(p)'
  BY DEF Restorable
<1>3. pc'[p] \notin {"aliasClean", "clean", "aliasRestore", "abandonRestore", "finishWrite",
                     "unaliasRemove", "unaliasDone"} => TakenDown(p)'
  BY DEF TakenDown
<1>4. pc'[p] \notin {"orphans", "replay", "routes"} => Accounted(p)'
  BY DEF Accounted
<1>5. pc'[p] \notin {"replay", "routes"} => Repairing(p)'
  BY DEF Repairing
<1> QED
  BY <1>1, <1>2, <1>3, <1>4, <1>5 DEF RouteKnowledge, Committing, StartLabels

LEMMA OwnerOfRoute ==
  ASSUME NEW o \in Owners, NEW r \in RoutesOf(o)
  PROVE  r[2] = o
  BY DEF RoutesOf

\* Only routes of an owner on record or in the journal appear.
LEMMA CallSafe ==
  ASSUME AllInv, NEW o \in Owners, routes' \subseteq routes \cup RoutesOf(o),
         o \in Registered \/ Journaled(o), UNCHANGED registry
  PROVE  RoutesShaped' /\ NoOrphanedRoute'
<1>1. RoutesShaped /\ NoOrphanedRoute
  BY DEF AllInv, RouteInv
<1>2. \A r \in RoutesOf(o) : r[2] = o
  BY OwnerOfRoute
<1>3. RoutesShaped'
  BY <1>1, <1>2 DEF RoutesShaped
<1>4. Registered' = Registered /\ \A d : Journaled(d)' = Journaled(d)
  BY DEF Registered, Journaled, registry
<1> QED
  BY <1>1, <1>2, <1>3, <1>4 DEF NoOrphanedRoute

LEMMA RemovalSafe ==
  ASSUME AllInv, routes' \subseteq routes, Registered \subseteq Registered',
         pending \subseteq pending'
  PROVE  RoutesShaped' /\ NoOrphanedRoute'
  BY DEF AllInv, RouteInv, RoutesShaped, NoOrphanedRoute, Journaled

\* A call to `ensure` for an owner on record, or in the journal.
LEMMA EnsureCall ==
  ASSUME AllInv, NEW o \in Owners, NEW replace \in BOOLEAN, NEW sel,
         NEW r \in Ensure(routes, o, replace, sel), Call(r)
  PROVE  /\ routes' \subseteq routes \cup RoutesOf(o)
         /\ \A d \in Owners : d # o /\ Clear(d) => Clear(d)'
<1>1. routes \in SUBSET Routes
  BY DEF AllInv, OwnershipInv, TypeOK
<1>2. routes' \subseteq routes \cup RoutesOf(o)
  BY <1>1, EnsureOutcome DEF Call
<1> QED
  BY <1>2, OwnerOfRoute DEF Clear

\* A call to `remove_if_owned` with the owner's own protocol.
LEMMA RemoveCall ==
  ASSUME AllInv, NEW o \in Owners, NEW sel,
         NEW r \in RemoveIfOwned(routes, o, Tls[o], sel), Call(r)
  PROVE  /\ routes' \subseteq routes
         /\ \A d \in routes \ routes' : d[2] = o
         /\ r.ok => Clear(o)'
         /\ Server(Tls[o]) \in sel /\ ~r.fault => r.ok
         /\ \A d : Clear(d) => Clear(d)'
<1>1. routes \in SUBSET Routes /\ Tls[o] \in BOOLEAN /\ routes' = r.routes
  BY OwnersAreTyped DEF AllInv, OwnershipInv, TypeOK, Call
<1>2. \A d \in routes : d[2] = o => d \in RoutesOf(o)
  BY DEF AllInv, RouteInv, RoutesShaped
<1>3. /\ r.routes \subseteq routes
      /\ \A d \in routes \ r.routes : d[2] = o
      /\ r.ok => \A d \in r.routes : d[2] # o
      /\ Server(Tls[o]) \in sel /\ ~r.fault => r.ok
  <2>1. r.routes \subseteq routes
    BY <1>1, RemoveOutcome
  <2>2. \A d \in routes \ r.routes : d[2] = o
    BY <1>1, RemoveOutcome
  <2>3. r.ok => \A d \in r.routes : d[2] # o
    BY <1>1, <1>2, RemoveOutcome
  <2>4. Server(Tls[o]) \in sel /\ ~r.fault => r.ok
    BY <1>1, RemoveOutcome
  <2> QED
    BY <2>1, <2>2, <2>3, <2>4
<1> QED
  BY <1>1, <1>3 DEF Clear

LEMMA OpContends ==
  ASSUME NEW o, NEW kind \in {"install", "start"}, Op(kind, o) \in pending'
  PROVE  Contends(o)'
<1>1. Op(kind, o).kind = kind /\ Op(kind, o).owner = o
  BY DEF Op
<1> QED
  BY <1>1 DEF Contends

LEMMA ContendsJournaled ==
  ASSUME NEW o, Contends(o)
  PROVE  Journaled(o)
  BY DEF Contends, Journaled, RemovingKinds

-----------------------------------------------------------------------------
(* nook alias.                                                             *)

LEMMA AliasFacts ==
  ASSUME AllInv, NEW p \in Procs, pc[p] \in AliasLabels
  PROVE  /\ TypeOK /\ local[p] \in Locals
         /\ local[p].apps = {local[p].cur} /\ local[p].cur \in Owners
         /\ local[p].cur \notin Registered
         /\ local[p].displaced \subseteq Owners
         /\ RouteKnowledge(p)
         /\ LookedUp(p) = {local[p].cur}
<1>1. /\ TypeOK /\ local[p] \in Locals /\ local[p].apps = {local[p].cur}
      /\ local[p].apps \subseteq Owners /\ local[p].displaced \subseteq Owners
      /\ local[p].apps \cap Registered = {}
      /\ RouteKnowledge(p)
  BY MemoryTyped DEF AllInv, OwnershipInv, CommandInv, Loops, NotRecorded, Uncommitted, RouteInv
<1>2. LookedUp(p) = local[p].apps
  BY DEF LookedUp, AliasLabels
<1> QED
  BY <1>1, <1>2

LEMMA SetAliasRoutes ==
  ASSUME AllInv, NEW p \in Procs, NEW o \in Owners, NEW f \in BOOLEAN, SetAlias(p, o, f)
  PROVE  RouteStep(p)
<1> DEFINE memory == [Idle EXCEPT !.cmd = "alias", !.force = f, !.sel = {Server(Tls[o])},
                                  !.apps = {o}, !.cur = o, !.displaced = Displaced(Host[o])]
<1>1. /\ Goto(p, "aliasEnsure", memory) /\ pending' = pending \cup {Op("install", o)}
      /\ UNCHANGED <<aliases, leases, routes>>
  BY DEF SetAlias
<1>2. memory.apps = {o}
  BY DEF Idle
<1> HIDE DEF memory
<1>3. pc'[p] = "aliasEnsure" /\ local'[p].apps = {o}
  BY <1>1, <1>2, Moved DEF AllInv, OwnershipInv
<1>4. Announced(p)'
  <2>1. Contends(o)'
    BY <1>1, OpContends
  <2> QED
    BY <1>3, <2>1 DEF Announced, LookedUp
<1>5. RoutesShaped' /\ NoOrphanedRoute'
  BY <1>1, RemovalSafe DEF Registered
<1> QED
  BY <1>3, <1>4, <1>5, KnowledgeAt DEF RouteStep

LEMMA AliasEnsureRoutes ==
  ASSUME AllInv, NEW p \in Procs, AliasEnsure(p)
  PROVE  RouteStep(p)
<1> DEFINE me == local[p]
<1>1. pc[p] = "aliasEnsure" /\ UNCHANGED registry
  BY DEF AliasEnsure
<1>2. /\ TypeOK /\ me.cur \in Owners /\ me.force \in BOOLEAN /\ Announced(p)
      /\ LookedUp(p) = {me.cur}
  BY <1>1, AliasFacts, MemoryTyped DEF AliasLabels, RouteKnowledge
<1>3. PICK r \in Ensure(routes, me.cur, me.force, me.sel) :
        /\ Call(r)
        /\ Goto(p, "aliasPublish", me) \/ Goto(p, "idle", Idle)
  BY DEF AliasEnsure, Return
<1>4. Journaled(me.cur)
  BY <1>1, <1>2 DEF Announced, Committing, Contends, Journaled, RemovingKinds
<1>5. RoutesShaped' /\ NoOrphanedRoute'
  BY <1>1, <1>2, <1>3, <1>4, EnsureCall, CallSafe
<1>6. CASE Goto(p, "idle", Idle)
  BY <1>2, <1>5, <1>6, Moved, KnowledgeAt DEF RouteStep
<1>7. CASE Goto(p, "aliasPublish", me)
  <2>1. pc'[p] = "aliasPublish" /\ local'[p] = me
    BY <1>2, <1>7, Moved
  <2>2. Announced(p)'
    BY <1>1, <1>2, <2>1 DEF Announced, Committing, LookedUp, Contends, registry
  <2> QED
    BY <1>5, <2>1, <2>2, KnowledgeAt DEF RouteStep
<1> QED
  BY <1>3, <1>6, <1>7

LEMMA AliasPublishRoutes ==
  ASSUME AllInv, NEW p \in Procs, AliasPublish(p)
  PROVE  RouteStep(p)
<1> DEFINE me == local[p]
           memory == [me EXCEPT !.todo = me.displaced]
<1>1. pc[p] = "aliasPublish" /\ UNCHANGED registry /\ routes' = routes
  BY DEF AliasPublish
<1>2. /\ TypeOK /\ me \in Locals /\ Announced(p) /\ LookedUp(p) = me.apps
      /\ me.displaced \subseteq Registered
  BY <1>1, AliasFacts
  DEF AliasLabels, RouteKnowledge, AllInv, OwnershipInv, CommandInv, NothingMissed, Committing
<1>3. Goto(p, "aliasClean", memory) \/ Goto(p, "aliasUndo", me)
  BY DEF AliasPublish
<1>4. memory.apps = me.apps /\ memory.todo = me.displaced /\ memory.displaced = me.displaced
  BY <1>2 DEF Locals
<1> HIDE DEF memory
<1>5. RoutesShaped' /\ NoOrphanedRoute'
  BY <1>1, RemovalSafe DEF Registered, registry
<1>6. CASE Goto(p, "aliasClean", memory)
  <2>1. pc'[p] = "aliasClean" /\ local'[p] = memory
    BY <1>2, <1>6, Moved
  <2>2. Announced(p)'
    BY <1>1, <1>2, <1>4, <2>1 DEF Announced, Committing, LookedUp, Contends, registry
  <2>3. TakenDown(p)'
    BY <1>4, <2>1 DEF TakenDown
  <2> QED
    BY <1>5, <2>1, <2>2, <2>3, KnowledgeAt DEF RouteStep
<1>7. CASE Goto(p, "aliasUndo", me)
  <2>1. pc'[p] = "aliasUndo" /\ local'[p] = me
    BY <1>2, <1>7, Moved
  <2>2. Restorable(p)'
    BY <1>1, <1>2, <2>1 DEF Restorable, Registered, registry
  <2> QED
    BY <1>5, <2>1, <2>2, KnowledgeAt DEF RouteStep
<1> QED
  BY <1>3, <1>6, <1>7

LEMMA AliasUndoRoutes ==
  ASSUME AllInv, NEW p \in Procs, AliasUndo(p)
  PROVE  RouteStep(p)
<1> DEFINE me == local[p]
<1>1. pc[p] = "aliasUndo" /\ UNCHANGED registry
  BY DEF AliasUndo
<1>2. /\ TypeOK /\ me \in Locals /\ me.cur \in Owners /\ Restorable(p)
  BY <1>1, AliasFacts DEF AliasLabels, RouteKnowledge
<1> PICK cur \in Owners : cur = me.cur
  BY <1>2
<1>3. PICK r \in RemoveIfOwned(routes, me.cur, Tls[me.cur], me.sel) :
        /\ Call(r)
        /\ Goto(p, "aliasRestore", [me EXCEPT !.todo = me.displaced,
                                              !.failed = IF r.ok THEN {} ELSE {me.cur}])
  BY DEF AliasUndo
<1> DEFINE failed == IF r.ok THEN {} ELSE {me.cur}
           memory == [me EXCEPT !.todo = me.displaced, !.failed = failed]
<1>4. routes' \subseteq routes /\ (r.ok => Clear(cur)')
  BY <1>2, <1>3, RemoveCall
<1>5. RoutesShaped' /\ NoOrphanedRoute'
  BY <1>1, <1>4, RemovalSafe DEF Registered, registry
<1>6. me.cur \in failed \/ r.ok
  OBVIOUS
<1> HIDE DEF failed
<1>7. /\ memory.cur = me.cur /\ memory.todo = me.displaced /\ memory.displaced = me.displaced
      /\ memory.failed = failed
  BY <1>2 DEF Locals
<1>8. Goto(p, "aliasRestore", memory)
  BY <1>3 DEF failed
<1> HIDE DEF memory
<1>9. pc'[p] = "aliasRestore" /\ local'[p] = memory
  BY <1>2, <1>8, Moved
<1>10. Restorable(p)'
  BY <1>1, <1>2, <1>7, <1>9 DEF Restorable, Registered, registry
<1>11. TakenDown(p)'
  BY <1>4, <1>6, <1>7, <1>9 DEF TakenDown
<1> QED
  BY <1>5, <1>9, <1>10, <1>11, KnowledgeAt DEF RouteStep

LEMMA AliasRestoreRoutes ==
  ASSUME AllInv, NEW p \in Procs, AliasRestore(p)
  PROVE  RouteStep(p)
<1> DEFINE me == local[p]
<1>1. pc[p] = "aliasRestore" /\ UNCHANGED registry
  BY DEF AliasRestore
<1>2. /\ TypeOK /\ me \in Locals /\ me.cur \in Owners /\ Restorable(p) /\ TakenDown(p)
      /\ me.cur \notin Registered
  BY <1>1, AliasFacts DEF AliasLabels, RouteKnowledge
<1>2a. PICK d \in me.todo : \E r \in Ensure(routes, d, TRUE, me.sel) :
        Call(r) /\ Goto(p, "aliasRestore", [me EXCEPT !.todo = @ \ {d}])
  BY DEF AliasRestore
<1> PICK cur \in Owners : cur = me.cur
  BY <1>2
<1>3. PICK r \in Ensure(routes, d, TRUE, me.sel) :
        Call(r) /\ Goto(p, "aliasRestore", [me EXCEPT !.todo = @ \ {d}])
  BY <1>2a
<1> DEFINE memory == [me EXCEPT !.todo = @ \ {d}]
<1>4. d \in Registered /\ d \in Owners /\ d # me.cur
  BY <1>1, <1>2, <1>3 DEF Restorable, Registered, TypeOK
<1>5. routes' \subseteq routes \cup RoutesOf(d) /\ (Clear(cur) => Clear(cur)')
  BY <1>2, <1>3, <1>4, EnsureCall
<1>6. RoutesShaped' /\ NoOrphanedRoute'
  BY <1>1, <1>4, <1>5, CallSafe
<1>7. /\ memory.cur = me.cur /\ memory.todo = me.todo \ {d} /\ memory.displaced = me.displaced
      /\ memory.failed = me.failed
  BY <1>2 DEF Locals
<1>8. Goto(p, "aliasRestore", memory)
  BY <1>3
<1> HIDE DEF memory
<1>9. pc'[p] = "aliasRestore" /\ local'[p] = memory
  BY <1>2, <1>8, Moved
<1>10. Restorable(p)'
  BY <1>1, <1>2, <1>7, <1>9 DEF Restorable, Registered, registry
<1>11. TakenDown(p)'
  BY <1>1, <1>2, <1>5, <1>7, <1>9 DEF TakenDown
<1> QED
  BY <1>6, <1>9, <1>10, <1>11, KnowledgeAt DEF RouteStep

\* A journal entry may go once its owner has no route, or needs no entry.
LEMMA DropSafe ==
  ASSUME AllInv, NEW os, routes' = routes,
         \A o \in Registered \ Registered' : Clear(o) \/ Journaled(o)',
         \A op \in pending \ pending' : op.owner \in os,
         \A o \in os : Clear(o) \/ o \in Registered' \/ Journaled(o)'
  PROVE  RoutesShaped' /\ NoOrphanedRoute'
<1>1. RoutesShaped /\ NoOrphanedRoute
  BY DEF AllInv, RouteInv
<1>2. ASSUME NEW r \in routes, r[2] \notin Registered'
      PROVE  Journaled(r[2])'
  <2>1. ~Clear(r[2])
    BY DEF Clear
  <2>2. CASE r[2] \in Registered
    BY <1>2, <2>1, <2>2
  <2>3. CASE r[2] \notin Registered
    <3>1. PICK op \in pending : op.kind \in RemovingKinds /\ op.owner = r[2]
      BY <1>1, <2>3 DEF NoOrphanedRoute, Journaled
    <3>2. CASE op \in pending'
      BY <3>1, <3>2 DEF Journaled
    <3>3. CASE op \notin pending'
      BY <1>2, <2>1, <3>1, <3>3
    <3> QED
      BY <3>2, <3>3
  <2> QED
    BY <2>2, <2>3
<1> QED
  BY <1>1, <1>2 DEF RoutesShaped, NoOrphanedRoute

LEMMA RemovalJournaled ==
  ASSUME NEW o, NEW failed, o \in failed, Removal(failed) \subseteq pending'
  PROVE  Journaled(o)'
<1>1. Op("remove", o).kind = "remove" /\ Op("remove", o).owner = o
  BY DEF Op
<1>2. Op("remove", o) \in pending'
  BY DEF Removal
<1> QED
  BY <1>1, <1>2 DEF Journaled, RemovingKinds

LEMMA CompletedOwner ==
  ASSUME NEW o, NEW op \in Completed(o)
  PROVE  op.owner = o
  BY DEF Completed, Op

LEMMA AliasDropRoutes ==
  ASSUME AllInv, NEW p \in Procs, AliasDrop(p)
  PROVE  RouteStep(p)
<1> DEFINE me == local[p]
<1>1. /\ pc[p] = "aliasRestore" /\ UNCHANGED <<aliases, leases, routes>>
      /\ pending' = (pending \ Completed(me.cur)) \cup Removal(me.failed)
      /\ Goto(p, "idle", Idle)
  BY DEF AliasDrop, Return
<1>2. TypeOK /\ TakenDown(p)
  BY <1>1, AliasFacts DEF AliasLabels, RouteKnowledge
<1> PICK cur : cur = me.cur
  OBVIOUS
<1>3. Clear(cur) \/ Journaled(cur)'
  BY <1>1, <1>2, RemovalJournaled DEF TakenDown
<1>4. \A op \in pending \ pending' : op.owner \in {cur}
  BY <1>1, CompletedOwner
<1>5. Registered' = Registered
  BY <1>1 DEF Registered
<1>6. \A o \in {cur} : Clear(o) \/ o \in Registered' \/ Journaled(o)'
  BY <1>3
<1>7. RoutesShaped' /\ NoOrphanedRoute'
  BY <1>1, <1>4, <1>5, <1>6, DropSafe
<1> QED
  BY <1>1, <1>2, <1>7, Moved, KnowledgeAt DEF RouteStep

\* One step of the loop that takes down what the apps displace.
LEMMA CleaningKept ==
  ASSUME AllInv, NEW p \in Procs, NEW label \in {"aliasClean", "clean"}, pc[p] = label,
         UNCHANGED registry,
         NEW d \in local[p].todo, NEW r \in RemoveIfOwned(routes, d, Tls[d], local[p].sel),
         Call(r),
         Goto(p, label, [local[p] EXCEPT !.todo = @ \ {d},
                                         !.failed = IF r.ok THEN @ ELSE @ \cup {d}])
  PROVE  RouteStep(p)
<1> DEFINE me == local[p]
           failed == IF r.ok THEN me.failed ELSE me.failed \cup {d}
           memory == [me EXCEPT !.todo = @ \ {d}, !.failed = failed]
<1>1. /\ TypeOK /\ me \in Locals /\ d \in Owners /\ Announced(p) /\ TakenDown(p)
  BY MemoryTyped DEF AllInv, OwnershipInv, RouteInv, RouteKnowledge
<1>2. routes' \subseteq routes /\ (r.ok => Clear(d)') /\ \A o : Clear(o) => Clear(o)'
  BY <1>1, RemoveCall
<1>3. RoutesShaped' /\ NoOrphanedRoute'
  BY <1>2, RemovalSafe DEF Registered, registry
<1>4. (d \in failed \/ r.ok) /\ me.failed \subseteq failed
  OBVIOUS
<1>5. Goto(p, label, memory)
  BY <1>1 DEF Locals
<1> HIDE DEF failed
<1>6. /\ memory.apps = me.apps /\ memory.todo = me.todo \ {d} /\ memory.displaced = me.displaced
      /\ memory.failed = failed
  BY <1>1 DEF Locals
<1> HIDE DEF memory
<1>7. pc'[p] = label /\ local'[p] = memory
  BY <1>1, <1>5, Moved
<1>8. Announced(p)'
  BY <1>1, <1>6, <1>7 DEF Announced, Committing, LookedUp, Contends, registry
<1>9. TakenDown(p)'
  BY <1>1, <1>2, <1>4, <1>6, <1>7 DEF TakenDown
<1> QED
  BY <1>3, <1>7, <1>8, <1>9, KnowledgeAt DEF RouteStep

LEMMA AliasCleanRoutes ==
  ASSUME AllInv, NEW p \in Procs, AliasClean(p)
  PROVE  RouteStep(p)
<1>1. PICK d \in local[p].todo : \E r \in RemoveIfOwned(routes, d, Tls[d], local[p].sel) :
        /\ Call(r)
        /\ Goto(p, "aliasClean", [local[p] EXCEPT !.todo = @ \ {d},
                                                 !.failed = IF r.ok THEN @ ELSE @ \cup {d}])
  BY DEF AliasClean
<1>2. pc[p] = "aliasClean" /\ UNCHANGED registry
  BY DEF AliasClean
<1> QED
  BY <1>1, <1>2, CleaningKept

-----------------------------------------------------------------------------
(* Commits, and nook alias remove.                                         *)

\* A commit leaves no route behind: what it drops was taken down, or its
\* removal is queued in the same write.
LEMMA CommitSafe ==
  ASSUME AllInv, NEW p \in Procs, pc[p] \in {"aliasClean", "clean"}, local[p].todo = {},
         NEW apps \in SUBSET Owners, apps = local[p].apps, routes' = routes,
         Registered' = (Registered \ local[p].displaced) \cup apps,
         pending' = (JournalWithout(local[p].displaced) \ UNION {Completed(a) : a \in apps})
                      \cup Removal(local[p].failed)
  PROVE  RoutesShaped' /\ NoOrphanedRoute'
<1> PICK displaced, failed : displaced = local[p].displaced /\ failed = local[p].failed
  OBVIOUS
<1>1. displaced \subseteq Registered /\ \A d \in displaced \ failed : Clear(d)
  BY DEF AllInv, OwnershipInv, CommandInv, NothingMissed, Committing, StartLabels, RouteInv,
     RouteKnowledge, TakenDown
<1>2. \A o \in failed : Journaled(o)'
  BY RemovalJournaled
<1>3. \A o \in Registered \ Registered' : Clear(o) \/ Journaled(o)'
  BY <1>1, <1>2
<1>4. \A op \in pending \ pending' : op.owner \in displaced \cup apps
  BY CompletedOwner DEF JournalWithout
<1>5. \A o \in displaced \cup apps : Clear(o) \/ o \in Registered' \/ Journaled(o)'
  BY <1>1, <1>2
<1> QED
  BY <1>3, <1>4, <1>5, DropSafe

LEMMA AliasCommitRoutes ==
  ASSUME AllInv, NEW p \in Procs, AliasCommit(p)
  PROVE  RouteStep(p)
<1> DEFINE me == local[p]
<1>1. /\ pc[p] = "aliasClean" /\ me.todo = {} /\ routes' = routes /\ Goto(p, "idle", Idle)
      /\ pending' = (JournalWithout(me.displaced) \ Completed(me.cur)) \cup Removal(me.failed)
  BY DEF AliasCommit, Return
<1>2. TypeOK /\ me.apps = {me.cur} /\ me.cur \in Owners
  BY <1>1, AliasFacts DEF AliasLabels
<1>3. UNION {Completed(a) : a \in me.apps} = Completed(me.cur)
  BY <1>2
<1>4. Registered' = (Registered \ me.displaced) \cup me.apps
  BY RecordsTaken DEF AllInv, Records
<1> PICK apps \in SUBSET Owners : apps = me.apps
  BY <1>2
<1>5. RoutesShaped' /\ NoOrphanedRoute'
  BY <1>1, <1>3, <1>4, CommitSafe
<1> QED
  BY <1>1, <1>2, <1>5, Moved, KnowledgeAt DEF RouteStep

LEMMA UnaliasRoutes ==
  ASSUME AllInv, NEW p \in Procs,
         \/ \E a \in Owners, t \in BOOLEAN : RemoveAlias(p, a, t)
         \/ UnaliasRemove(p) \/ UnaliasDone(p)
  PROVE  RouteStep(p)
<1> DEFINE me == local[p]
<1>1. TypeOK /\ RouteKnowledge(p) /\ aliases \cap leases = {} /\ used \subseteq Owners
  BY DEF AllInv, OwnershipInv, RouteInv, Ids, TypeOK
<1>2. ASSUME NEW a \in Owners, NEW t \in BOOLEAN, RemoveAlias(p, a, t)
      PROVE  RouteStep(p)
  <2> DEFINE memory == [Idle EXCEPT !.cmd = "unalias", !.sel = {Server(t)}, !.cur = a]
  <2>1. /\ Goto(p, "unaliasRemove", memory) /\ routes' = routes
        /\ aliases' = aliases \ {a} /\ leases' = leases /\ a \in aliases
        /\ pending' = pending \cup {Op("remove", a)}
    BY <1>2 DEF RemoveAlias
  <2>2. memory.cur = a
    BY DEF Idle
  <2> HIDE DEF memory
  <2>3. pc'[p] = "unaliasRemove" /\ local'[p].cur = a
    BY <1>1, <2>1, <2>2, Moved
  <2>4. Journaled(a)' /\ a \notin Registered'
    <3>1. Op("remove", a).kind = "remove" /\ Op("remove", a).owner = a
      BY DEF Op
    <3> QED
      BY <1>1, <2>1, <3>1 DEF Journaled, RemovingKinds, Registered
  <2>5. \A o \in Registered \ Registered' : o = a
    BY <2>1 DEF Registered
  <2>6. /\ \A o \in Registered \ Registered' : Clear(o) \/ Journaled(o)'
        /\ \A op \in pending \ pending' : op.owner \in {}
        /\ routes' = routes
    BY <2>1, <2>4, <2>5
  <2>7. RoutesShaped' /\ NoOrphanedRoute'
    BY <2>6, DropSafe
  <2>8. TakenDown(p)'
    BY <2>3, <2>4 DEF TakenDown
  <2> QED
    BY <2>3, <2>7, <2>8, KnowledgeAt DEF RouteStep
<1>3. CASE UnaliasRemove(p)
  <2>1. pc[p] = "unaliasRemove" /\ UNCHANGED registry
    BY <1>3 DEF UnaliasRemove
  <2> PICK cur \in Owners : cur = me.cur
    BY <1>1, <2>1 DEF AllInv, OwnershipInv, CommandInv, Loops
  <2>2. PICK r \in RemoveIfOwned(routes, cur, Tls[cur], me.sel) :
          Call(r) /\ IF r.ok THEN Goto(p, "unaliasDone", me) ELSE Goto(p, "idle", Idle)
    BY <1>3 DEF UnaliasRemove, Return
  <2>3. routes' \subseteq routes /\ (r.ok => Clear(cur)')
    BY <2>2, RemoveCall
  <2>4. RoutesShaped' /\ NoOrphanedRoute'
    BY <2>1, <2>3, RemovalSafe DEF Registered, registry
  <2>5. CASE r.ok
    <3>1. pc'[p] = "unaliasDone" /\ local'[p] = me
      BY <1>1, <2>2, <2>5, Moved
    <3>2. TakenDown(p)'
      BY <1>1, <2>1, <2>3, <2>5, <3>1 DEF TakenDown, RouteKnowledge, Registered, registry
    <3> QED
      BY <2>4, <3>1, <3>2, KnowledgeAt DEF RouteStep
  <2>6. CASE ~r.ok
    BY <1>1, <2>2, <2>4, <2>6, Moved, KnowledgeAt DEF RouteStep
  <2> QED
    BY <2>5, <2>6
<1>4. CASE UnaliasDone(p)
  <2> PICK cur : cur = me.cur
    OBVIOUS
  <2>1. /\ pc[p] = "unaliasDone" /\ pending' = pending \ {Op("remove", cur)}
        /\ Goto(p, "idle", Idle) /\ UNCHANGED <<aliases, leases, routes>>
    BY <1>4 DEF UnaliasDone, Return
  <2>2. Clear(cur)
    BY <1>1, <2>1 DEF RouteKnowledge, TakenDown
  <2>3. \A op \in pending \ pending' : op.owner \in {cur}
    BY <2>1 DEF Op
  <2>4. Registered' = Registered
    BY <2>1 DEF Registered
  <2>5. \A o \in {cur} : Clear(o) \/ o \in Registered' \/ Journaled(o)'
    BY <2>2
  <2>6. routes' = routes /\ \A o \in Registered \ Registered' : Clear(o) \/ Journaled(o)'
    BY <2>1, <2>4
  <2>7. RoutesShaped' /\ NoOrphanedRoute'
    BY <2>3, <2>5, <2>6, DropSafe
  <2> QED
    BY <1>1, <2>1, <2>7, Moved, KnowledgeAt DEF RouteStep
<1> QED
  BY <1>2, <1>3, <1>4

-----------------------------------------------------------------------------
(* nook run and workspaces.                                                *)

LEMMA StartRunRoutes ==
  ASSUME AllInv, NEW p \in Procs, NEW cmd \in Commands \cap {"run", "workspace", "runner"},
         NEW apps \in SUBSET Owners, NEW force \in BOOLEAN, StartRun(p, cmd, apps, force)
  PROVE  RouteStep(p)
<1> DEFINE sel == {Server(Tls[a]) : a \in apps}
                    \cup (IF \E a \in apps : Lan[a] THEN {"HTTP"} ELSE {})
           memory == [Idle EXCEPT !.cmd = cmd, !.force = force, !.apps = apps, !.todo = apps,
                                  !.sel = sel]
<1>1. Goto(p, "prepare", memory) /\ UNCHANGED registry /\ routes' = routes
  BY DEF StartRun
<1>2. memory.apps = apps /\ memory.todo = apps
  BY DEF Idle
<1> HIDE DEF memory
<1>3. pc'[p] = "prepare" /\ LookedUp(p)' = {}
  BY <1>1, <1>2, Moved DEF LookedUp, AllInv, OwnershipInv
<1>4. Announced(p)'
  BY <1>3 DEF Announced
<1>5. RoutesShaped' /\ NoOrphanedRoute'
  BY <1>1, RemovalSafe DEF Registered, registry
<1> QED
  BY <1>3, <1>4, <1>5, KnowledgeAt DEF RouteStep

LEMMA StartFacts ==
  ASSUME AllInv, NEW p \in Procs, pc[p] \in StartLabels \cup AbandonLabels
  PROVE  /\ TypeOK /\ local[p] \in Locals
         /\ local[p].apps \subseteq Owners /\ local[p].apps \cap Registered = {}
         /\ local[p].todo \subseteq Owners /\ local[p].displaced \subseteq Owners
         /\ pc[p] \in StartLabels => local[p].displaced \subseteq Registered
         /\ RouteKnowledge(p)
         /\ pc[p] \in {"ensure", "journal"} =>
              local[p].cur \in LookedUp(p) /\ local[p].cur \in Owners
  BY MemoryTyped
  DEF AllInv, OwnershipInv, CommandInv, Loops, NotRecorded, NothingMissed, Uncommitted,
      Committing, LookedUp, RouteInv

\* What a command in the middle of its start knows while nothing of it changes.
LEMMA AnnouncedStill ==
  ASSUME AllInv, NEW p \in Procs, pc[p] \in Committing, pending \subseteq pending',
         LookedUp(p)' \subseteq LookedUp(p)
  PROVE  Announced(p)'
  BY DEF AllInv, RouteInv, RouteKnowledge, Announced, Contends

LEMMA PrepareRunRoutes ==
  ASSUME AllInv, NEW p \in Procs, PrepareRun(p)
  PROVE  RouteStep(p)
<1> DEFINE me == local[p]
<1>1. pc[p] = "prepare" /\ UNCHANGED <<aliases, leases, routes>>
  BY DEF PrepareRun
<1>2. TypeOK /\ me \in Locals /\ Announced(p)
  BY <1>1, StartFacts DEF StartLabels, RouteKnowledge
<1>3. PICK a \in me.todo :
        /\ pending' = pending \cup {Op("install", a)}
        /\ Goto(p, "ensure", [me EXCEPT !.cur = a, !.todo = @ \ {a},
                                        !.displaced = @ \cup Displaced(Host[a])])
  BY DEF PrepareRun
<1> DEFINE memory == [me EXCEPT !.cur = a, !.todo = @ \ {a},
                                !.displaced = @ \cup Displaced(Host[a])]
<1>4. memory.apps = me.apps /\ memory.todo = me.todo \ {a}
  BY <1>2 DEF Locals
<1>5. Goto(p, "ensure", memory)
  BY <1>3
<1> HIDE DEF memory
<1>6. pc'[p] = "ensure" /\ local'[p].apps = me.apps /\ local'[p].todo = me.todo \ {a}
  BY <1>2, <1>4, <1>5, Moved
<1>7. LookedUp(p)' \subseteq LookedUp(p) \cup {a}
  BY <1>1, <1>6 DEF LookedUp
<1>8. Contends(a)' /\ \A o : Contends(o) => Contends(o)'
  BY <1>3, OpContends DEF Contends
<1>9. Announced(p)'
  BY <1>1, <1>2, <1>7, <1>8 DEF Announced, Committing, StartLabels
<1>10. RoutesShaped' /\ NoOrphanedRoute'
  BY <1>1, <1>3, RemovalSafe DEF Registered
<1> QED
  BY <1>6, <1>9, <1>10, KnowledgeAt DEF RouteStep

\* Giving up: the owners that were displaced are still on record.
LEMMA RollBackRoutes ==
  ASSUME AllInv, NEW p \in Procs, NEW memory, NEW prepared, RollBack(p, memory, prepared),
         memory \in Locals, memory.displaced \subseteq Registered',
         RoutesShaped' /\ NoOrphanedRoute'
  PROVE  RouteStep(p)
<1> DEFINE next == [memory EXCEPT !.apps = prepared, !.todo = prepared]
<1>1. PICK label \in {"idle", "rollback", "abandon"} :
         \/ label = "idle" /\ Goto(p, "idle", Idle)
         \/ label # "idle" /\ Goto(p, label, next)
  BY DEF RollBack, Return
<1>2. next.displaced = memory.displaced
  BY DEF Locals
<1> HIDE DEF next
<1>3. pc'[p] = label /\ (label # "idle" => local'[p].displaced = memory.displaced)
  BY <1>1, <1>2, Moved DEF AllInv, OwnershipInv
<1>4. label = "abandon" => Restorable(p)'
  BY <1>3 DEF Restorable
<1> QED
  BY <1>3, <1>4, KnowledgeAt DEF RouteStep

LEMMA AbandonCurrentRoutes ==
  ASSUME AllInv, NEW p \in Procs, pc[p] \in StartLabels, AbandonCurrent(p, local[p]),
         UNCHANGED registry, RoutesShaped' /\ NoOrphanedRoute'
  PROVE  RouteStep(p)
<1> DEFINE me == local[p]
           prepared == me.apps \ me.todo
           left == IF me.cmd = "runner" THEN {me.cur} ELSE prepared
           memory == [me EXCEPT !.apps = prepared, !.todo = left]
<1>1. TypeOK /\ me \in Locals /\ me.displaced \subseteq Registered
  BY StartFacts
<1>2. Goto(p, "abandon", memory)
  BY DEF AbandonCurrent
<1>3. memory.displaced = me.displaced
  BY <1>1 DEF Locals
<1> HIDE DEF memory
<1>4. pc'[p] = "abandon" /\ local'[p] = memory
  BY <1>1, <1>2, Moved
<1>5. Restorable(p)'
  BY <1>1, <1>3, <1>4 DEF Restorable, Registered, registry
<1> QED
  BY <1>4, <1>5, KnowledgeAt DEF RouteStep

LEMMA GivingUpRoutes ==
  ASSUME AllInv, NEW p \in Procs,
         PrepareRejected(p) \/ JournalFails(p) \/ SpawnFails(p) \/ CommitFails(p)
  PROVE  RouteStep(p)
<1> DEFINE me == local[p]
<1>1. pc[p] \in StartLabels /\ UNCHANGED registry /\ routes' = routes
  BY DEF PrepareRejected, JournalFails, SpawnFails, CommitFails, StartLabels
<1>2. TypeOK /\ me \in Locals /\ me.displaced \subseteq Registered
  BY <1>1, StartFacts
<1>3. RoutesShaped' /\ NoOrphanedRoute'
  BY <1>1, RemovalSafe DEF Registered, registry
<1>4. Registered' = Registered
  BY <1>1 DEF Registered, registry
<1>5. CASE PrepareRejected(p) \/ SpawnFails(p)
  <2>1. PICK prepared : RollBack(p, me, prepared)
    BY <1>5 DEF PrepareRejected, SpawnFails
  <2> QED
    BY <1>2, <1>3, <1>4, <2>1, RollBackRoutes
<1>6. CASE JournalFails(p)
  BY <1>1, <1>3, <1>6, AbandonCurrentRoutes DEF JournalFails
<1>7. CASE CommitFails(p)
  <2> DEFINE memory == [me EXCEPT !.failed = {}]
  <2>1. RollBack(p, memory, me.apps)
    BY <1>7 DEF CommitFails
  <2>2. memory \in Locals /\ memory.displaced = me.displaced
    BY <1>2 DEF Locals
  <2> HIDE DEF memory
  <2> QED
    BY <1>2, <1>3, <1>4, <2>1, <2>2, RollBackRoutes
<1> QED
  BY <1>5, <1>6, <1>7

LEMMA EnsureRunRoutes ==
  ASSUME AllInv, NEW p \in Procs, EnsureRun(p)
  PROVE  RouteStep(p)
<1> DEFINE me == local[p]
<1>1. pc[p] = "ensure" /\ UNCHANGED registry
  BY DEF EnsureRun
<1>2. TypeOK /\ me \in Locals /\ Announced(p) /\ me.cur \in LookedUp(p) /\ me.cur \in Owners
  BY <1>1, StartFacts DEF StartLabels, RouteKnowledge
<1>3. me.force \in BOOLEAN
  BY <1>2, MemoryTyped
<1> PICK cur \in Owners : cur = me.cur
  BY <1>2
<1>4. PICK r \in Ensure(routes, cur, me.force, me.sel) :
        /\ Call(r)
        /\ Goto(p, "journal", me) \/ AbandonCurrent(p, me)
  BY DEF EnsureRun
<1>5. Journaled(cur)
  BY <1>1, <1>2, ContendsJournaled DEF Announced, Committing, StartLabels
<1>6. RoutesShaped' /\ NoOrphanedRoute'
  BY <1>1, <1>3, <1>4, <1>5, EnsureCall, CallSafe
<1>7. CASE AbandonCurrent(p, me)
  BY <1>1, <1>6, <1>7, AbandonCurrentRoutes DEF StartLabels
<1>8. CASE Goto(p, "journal", me)
  <2>1. pc'[p] = "journal" /\ local'[p] = me
    BY <1>2, <1>8, Moved
  <2>2. LookedUp(p)' \subseteq LookedUp(p)
    BY <1>1, <2>1 DEF LookedUp
  <2>3. Announced(p)'
    BY <1>1, <2>2, AnnouncedStill DEF Committing, StartLabels, registry
  <2> QED
    BY <1>6, <2>1, <2>3, KnowledgeAt DEF RouteStep
<1> QED
  BY <1>4, <1>7, <1>8

LEMMA JournalStartRoutes ==
  ASSUME AllInv, NEW p \in Procs, JournalStart(p)
  PROVE  RouteStep(p)
<1> DEFINE me == local[p]
           memory == IF me.todo = {} THEN [me EXCEPT !.todo = me.apps] ELSE me
           label == IF me.todo = {} THEN "spawn" ELSE "prepare"
<1>1. /\ pc[p] = "journal" /\ UNCHANGED <<aliases, leases, routes>>
      /\ Goto(p, label, memory)
  BY DEF JournalStart
<1>2. TypeOK /\ me \in Locals /\ Announced(p) /\ me.cur \in LookedUp(p) /\ me.cur \in Owners
  BY <1>1, StartFacts DEF StartLabels, RouteKnowledge
<1> PICK cur \in Owners : cur = me.cur
  BY <1>2
<1>3. pending' = (pending \ Completed(cur)) \cup {Op("start", cur)}
  BY DEF JournalStart
<1>4. memory.apps = me.apps /\ (me.todo # {} => memory = me)
  BY <1>2 DEF Locals
<1>5. label \in {"spawn", "prepare"} /\ (label = "spawn" => me.todo = {})
  OBVIOUS
<1>6. label = "prepare" => memory = me
  OBVIOUS
<1> HIDE DEF memory, label
<1>7. pc'[p] = label /\ local'[p] = memory
  BY <1>1, <1>2, Moved
<1>8. LookedUp(p)' \subseteq LookedUp(p)
  BY <1>1, <1>4, <1>5, <1>6, <1>7 DEF LookedUp
<1>9. Contends(cur)' /\ Journaled(cur)'
  <2>1. Contends(cur)'
    BY <1>3, OpContends
  <2> QED
    BY <2>1 DEF Contends, Journaled, RemovingKinds
<1>10. ASSUME NEW o, Contends(o)
       PROVE  Contends(o)'
  <2>1. PICK op \in pending : op.kind \in {"install", "start"} /\ op.owner = o
    BY <1>10 DEF Contends
  <2>2. CASE o = cur
    BY <1>9, <2>2
  <2>3. CASE o # cur
    <3>1. op \in pending'
      BY <1>3, <2>1, <2>3, CompletedOwner
    <3> QED
      BY <2>1, <3>1 DEF Contends
  <2> QED
    BY <2>2, <2>3
<1>11. Announced(p)'
  BY <1>1, <1>2, <1>8, <1>10 DEF Announced, Committing, StartLabels
<1>12. Registered' = Registered
  BY <1>1 DEF Registered
<1>13. \A op \in pending \ pending' : op.owner \in {cur}
  BY <1>3, CompletedOwner
<1>14. \A o \in {cur} : Clear(o) \/ o \in Registered' \/ Journaled(o)'
  BY <1>9
<1>15. RoutesShaped' /\ NoOrphanedRoute'
  BY <1>1, <1>12, <1>13, <1>14, DropSafe
<1> QED
  BY <1>5, <1>7, <1>11, <1>15, KnowledgeAt DEF RouteStep

LEMMA SpawnRoutes ==
  ASSUME AllInv, NEW p \in Procs, Spawn(p)
  PROVE  RouteStep(p)
<1> DEFINE me == local[p]
<1>1. pc[p] = "spawn" /\ UNCHANGED registry /\ routes' = routes
  BY DEF Spawn
<1>2. TypeOK /\ me \in Locals
  BY <1>1, StartFacts DEF StartLabels
<1>3. PICK started :
        \/ Goto(p, "clean", [me EXCEPT !.todo = me.displaced])
        \/ Goto(p, "spawn", [me EXCEPT !.todo = @ \ started])
  BY DEF Spawn
<1> DEFINE cleaning == [me EXCEPT !.todo = me.displaced]
           spawning == [me EXCEPT !.todo = @ \ started]
<1>4. /\ cleaning.apps = me.apps /\ spawning.apps = me.apps
      /\ cleaning.todo = me.displaced /\ cleaning.displaced = me.displaced
  BY <1>2 DEF Locals
<1>5. Goto(p, "clean", cleaning) \/ Goto(p, "spawn", spawning)
  BY <1>3
<1> HIDE DEF cleaning, spawning
<1>6. \/ pc'[p] = "clean" /\ local'[p] = cleaning
      \/ pc'[p] = "spawn" /\ local'[p] = spawning
  BY <1>2, <1>5, Moved
<1>7. LookedUp(p)' \subseteq LookedUp(p)
  BY <1>1, <1>4, <1>6 DEF LookedUp
<1>8. Announced(p)'
  BY <1>1, <1>7, AnnouncedStill DEF Committing, StartLabels, registry
<1>9. pc'[p] = "clean" => TakenDown(p)'
  BY <1>4, <1>6 DEF TakenDown
<1>10. RoutesShaped' /\ NoOrphanedRoute'
  BY <1>1, RemovalSafe DEF Registered, registry
<1> QED
  BY <1>6, <1>8, <1>9, <1>10, KnowledgeAt DEF RouteStep

LEMMA CleanDisplacedRoutes ==
  ASSUME AllInv, NEW p \in Procs, CleanDisplaced(p)
  PROVE  RouteStep(p)
<1>1. PICK d \in local[p].todo : \E r \in RemoveIfOwned(routes, d, Tls[d], local[p].sel) :
        /\ Call(r)
        /\ Goto(p, "clean", [local[p] EXCEPT !.todo = @ \ {d},
                                             !.failed = IF r.ok THEN @ ELSE @ \cup {d}])
  BY DEF CleanDisplaced
<1>2. pc[p] = "clean" /\ UNCHANGED registry
  BY DEF CleanDisplaced
<1> QED
  BY <1>1, <1>2, CleaningKept

LEMMA CommitRunsRoutes ==
  ASSUME AllInv, NEW p \in Procs, CommitRuns(p)
  PROVE  RouteStep(p)
<1> DEFINE me == local[p]
           memory == [Idle EXCEPT !.cmd = me.cmd, !.sel = me.sel, !.apps = me.apps]
<1>1. /\ pc[p] = "clean" /\ me.todo = {} /\ routes' = routes /\ Goto(p, "live", memory)
      /\ pending' = (JournalWithout(me.displaced) \ UNION {Completed(a) : a \in me.apps})
                      \cup Removal(me.failed)
  BY DEF CommitRuns
<1> HIDE DEF memory
<1>2. TypeOK /\ me.apps \subseteq Owners
  BY <1>1, StartFacts DEF StartLabels
<1>3. Registered' = (Registered \ me.displaced) \cup me.apps
  BY RecordsTaken DEF AllInv, Records
<1> PICK apps \in SUBSET Owners : apps = me.apps
  BY <1>2
<1>4. RoutesShaped' /\ NoOrphanedRoute'
  BY <1>1, <1>3, CommitSafe
<1> QED
  BY <1>1, <1>2, <1>4, Moved, KnowledgeAt DEF RouteStep

-----------------------------------------------------------------------------
(* Abandoned runs.                                                         *)

LEMMA RelockRoutes ==
  ASSUME AllInv, RollbackKeepsOwners, NEW p \in Procs, Relock(p)
  PROVE  RouteStep(p)
<1>1. /\ pc[p] = "rollback" /\ UNCHANGED registry /\ routes' = routes
      /\ Goto(p, "abandon", local[p])
  BY DEF Relock
<1>2. pc'[p] = "abandon" /\ local'[p] = local[p]
  BY <1>1, Moved DEF AllInv, OwnershipInv
<1>3. Restorable(p)'
  BY <1>1, <1>2 DEF Restorable, RollbackKeepsOwners, Registered, registry
<1>4. RoutesShaped' /\ NoOrphanedRoute'
  BY <1>1, RemovalSafe DEF Registered, registry
<1> QED
  BY <1>2, <1>3, <1>4, KnowledgeAt DEF RouteStep

LEMMA AbandonRoutes ==
  ASSUME AllInv, NEW p \in Procs, Abandon(p)
  PROVE  RouteStep(p)
<1> DEFINE me == local[p]
<1>1. pc[p] = "abandon" /\ UNCHANGED registry
  BY DEF Abandon
<1>2. TypeOK /\ me \in Locals /\ me.todo \subseteq Owners /\ me.displaced \subseteq Registered
  BY <1>1, StartFacts DEF AbandonLabels, RouteKnowledge, Restorable
<1>3. PICK a \in me.todo : \E r \in RemoveIfOwned(routes, a, Tls[a], me.sel) :
        /\ Call(r)
        /\ Goto(p, "abandonRestore", [me EXCEPT !.cur = a, !.failed = IF r.ok THEN {} ELSE {a}])
  BY DEF Abandon
<1>4. PICK r \in RemoveIfOwned(routes, a, Tls[a], me.sel) :
        /\ Call(r)
        /\ Goto(p, "abandonRestore", [me EXCEPT !.cur = a, !.failed = IF r.ok THEN {} ELSE {a}])
  BY <1>3
<1> DEFINE failed == IF r.ok THEN {} ELSE {a}
           memory == [me EXCEPT !.cur = a, !.failed = failed]
<1>5. routes' \subseteq routes /\ (r.ok => Clear(a)')
  BY <1>2, <1>4, RemoveCall
<1>6. a \in failed \/ r.ok
  OBVIOUS
<1>7. Goto(p, "abandonRestore", memory)
  BY <1>4
<1> HIDE DEF failed
<1>8. memory.cur = a /\ memory.failed = failed /\ memory.displaced = me.displaced
  BY <1>2 DEF Locals
<1> HIDE DEF memory
<1>9. pc'[p] = "abandonRestore" /\ local'[p] = memory
  BY <1>2, <1>7, Moved
<1>10. Restorable(p)'
  BY <1>1, <1>2, <1>8, <1>9 DEF Restorable, Registered, registry
<1>11. TakenDown(p)'
  BY <1>5, <1>6, <1>8, <1>9 DEF TakenDown
<1>12. RoutesShaped' /\ NoOrphanedRoute'
  BY <1>1, <1>5, RemovalSafe DEF Registered, registry
<1> QED
  BY <1>9, <1>10, <1>11, <1>12, KnowledgeAt DEF RouteStep

LEMMA RestoreFacts ==
  ASSUME AllInv, NEW p \in Procs, pc[p] = "abandonRestore"
  PROVE  /\ TypeOK /\ local[p] \in Locals /\ local[p].displaced \subseteq Registered
         /\ local[p].displaced \subseteq Owners
         /\ local[p].cur \in Owners /\ local[p].cur \notin Registered /\ TakenDown(p)
<1>1. local[p].cur \in local[p].apps
  BY DEF AllInv, OwnershipInv, CommandInv, Loops
<1> QED
  BY <1>1, StartFacts DEF AbandonLabels, RouteKnowledge, Restorable

LEMMA AbandonRestoreRoutes ==
  ASSUME AllInv, NEW p \in Procs, AbandonRestore(p)
  PROVE  RouteStep(p)
<1> DEFINE me == local[p]
<1>1. pc[p] = "abandonRestore" /\ UNCHANGED registry
  BY DEF AbandonRestore
<1>2. /\ TypeOK /\ me \in Locals /\ me.displaced \subseteq Registered
      /\ me.cur \in Owners /\ me.cur \notin Registered /\ TakenDown(p)
  BY <1>1, RestoreFacts
<1> PICK cur \in Owners : cur = me.cur
  BY <1>2
<1>3. PICK d \in me.displaced : \E r \in Ensure(routes, d, TRUE, me.sel) :
        Call(r) /\ Goto(p, "abandonRestore", [me EXCEPT !.displaced = @ \ {d}])
  BY DEF AbandonRestore
<1> DEFINE memory == [me EXCEPT !.displaced = @ \ {d}]
<1>4. d \in Owners /\ d \in Registered /\ d # cur
  BY <1>2 DEF Registered, TypeOK
<1>5. routes' \subseteq routes \cup RoutesOf(d) /\ (Clear(cur) => Clear(cur)')
  BY <1>3, <1>4, EnsureCall
<1>6. RoutesShaped' /\ NoOrphanedRoute'
  BY <1>1, <1>4, <1>5, CallSafe
<1>7. Goto(p, "abandonRestore", memory)
  BY <1>3
<1>8. /\ memory.cur = me.cur /\ memory.failed = me.failed
      /\ memory.displaced = me.displaced \ {d}
  BY <1>2 DEF Locals
<1> HIDE DEF memory
<1>9. pc'[p] = "abandonRestore" /\ local'[p] = memory
  BY <1>2, <1>7, Moved
<1>10. Restorable(p)'
  BY <1>1, <1>2, <1>8, <1>9 DEF Restorable, Registered, registry
<1>11. TakenDown(p)'
  BY <1>1, <1>2, <1>5, <1>8, <1>9 DEF TakenDown
<1> QED
  BY <1>6, <1>9, <1>10, <1>11, KnowledgeAt DEF RouteStep

LEMMA AbandonWriteRoutes ==
  ASSUME AllInv, NEW p \in Procs, AbandonWrite(p)
  PROVE  RouteStep(p)
<1> DEFINE me == local[p]
           left == me.apps \ {me.cur}
<1>1. pc[p] = "abandonRestore" /\ UNCHANGED <<aliases, leases, routes>>
  BY DEF AbandonWrite
<1>2. TypeOK /\ me \in Locals /\ me.displaced \subseteq Registered /\ TakenDown(p)
  BY <1>1, RestoreFacts
<1>3. Registered' = Registered
  BY <1>1 DEF Registered
<1>4. RoutesShaped' /\ NoOrphanedRoute'
  <2> PICK cur : cur = me.cur
    OBVIOUS
  <2>1. \/ pending' = (pending \ Completed(cur)) \cup Removal(me.failed)
        \/ pending' = pending
    BY DEF AbandonWrite
  <2>2. CASE pending' = pending
    BY <1>1, <1>3, <2>2, RemovalSafe
  <2>3. CASE pending' = (pending \ Completed(cur)) \cup Removal(me.failed)
    <3>1. Clear(cur) \/ Journaled(cur)'
      BY <1>1, <1>2, <2>3, RemovalJournaled DEF TakenDown
    <3>2. \A op \in pending \ pending' : op.owner \in {cur}
      BY <2>3, CompletedOwner
    <3>3. \A o \in {cur} : Clear(o) \/ o \in Registered' \/ Journaled(o)'
      BY <3>1
    <3> QED
      BY <1>1, <1>3, <3>2, <3>3, DropSafe
  <2> QED
    BY <2>1, <2>2, <2>3
<1>5. \/ Goto(p, "abandon", [me EXCEPT !.apps = left, !.todo = @ \ {me.cur}])
      \/ RollBack(p, me, left)
  BY DEF AbandonWrite
<1>6. CASE RollBack(p, me, left)
  BY <1>2, <1>3, <1>4, <1>6, RollBackRoutes
<1>7. CASE Goto(p, "abandon", [me EXCEPT !.apps = left, !.todo = @ \ {me.cur}])
  <2> DEFINE memory == [me EXCEPT !.apps = left, !.todo = @ \ {me.cur}]
  <2>1. memory.displaced = me.displaced
    BY <1>2 DEF Locals
  <2>2. Goto(p, "abandon", memory)
    BY <1>7
  <2> HIDE DEF memory
  <2>3. pc'[p] = "abandon" /\ local'[p] = memory
    BY <1>2, <2>2, Moved
  <2>4. Restorable(p)'
    BY <1>2, <1>3, <2>1, <2>3 DEF Restorable
  <2> QED
    BY <1>4, <2>3, <2>4, KnowledgeAt DEF RouteStep
<1> QED
  BY <1>5, <1>6, <1>7

-----------------------------------------------------------------------------
(* The end of a run.                                                       *)

LEMMA FinishRoutes ==
  ASSUME AllInv, NEW p \in Procs,
         RunEnds(p) \/ FinishRoute(p) \/ FinishRemove(p) \/ FinishWrite(p)
  PROVE  RouteStep(p)
<1> DEFINE me == local[p]
<1>1. TypeOK /\ me \in Locals /\ RouteKnowledge(p) /\ leases \subseteq Owners
  BY MemoryTyped DEF AllInv, OwnershipInv, RouteInv, TypeOK
<1>2. CASE RunEnds(p) \/ FinishRoute(p)
  <2>1. UNCHANGED registry /\ routes' = routes
    BY <1>2 DEF RunEnds, FinishRoute
  <2>2. pc'[p] \in {"finish", "finishRemove"}
    BY <1>1, <1>2, Moved DEF RunEnds, FinishRoute
  <2>3. RoutesShaped' /\ NoOrphanedRoute'
    BY <2>1, RemovalSafe DEF Registered, registry
  <2> QED
    BY <2>2, <2>3, KnowledgeAt DEF RouteStep
<1>3. CASE FinishRemove(p)
  <2>1. pc[p] = "finishRemove" /\ UNCHANGED registry
    BY <1>3 DEF FinishRemove
  <2>2. me.cur \in me.apps /\ me.apps \subseteq Owners
    BY <1>1, <2>1, MemoryTyped DEF AllInv, OwnershipInv, CommandInv, Loops
  <2> PICK cur \in Owners : cur = me.cur
    BY <2>2
  <2>3. PICK r \in RemoveIfOwned(routes, cur, Tls[cur], me.sel) :
          Call(r) /\ Goto(p, "finishWrite", [me EXCEPT !.failed = IF r.ok THEN {} ELSE {cur}])
    BY <1>3 DEF FinishRemove
  <2> DEFINE failed == IF r.ok THEN {} ELSE {cur}
             memory == [me EXCEPT !.failed = failed]
  <2>4. routes' \subseteq routes /\ (r.ok => Clear(cur)')
    BY <2>3, RemoveCall
  <2>5. cur \in failed \/ r.ok
    OBVIOUS
  <2>6. Goto(p, "finishWrite", memory)
    BY <2>3
  <2> HIDE DEF failed
  <2>7. memory.cur = cur /\ memory.failed = failed
    BY <1>1 DEF Locals
  <2> HIDE DEF memory
  <2>8. pc'[p] = "finishWrite" /\ local'[p] = memory
    BY <1>1, <2>6, Moved
  <2>9. TakenDown(p)'
    BY <2>4, <2>5, <2>7, <2>8 DEF TakenDown
  <2>10. RoutesShaped' /\ NoOrphanedRoute'
    BY <2>1, <2>4, RemovalSafe DEF Registered, registry
  <2> QED
    BY <2>8, <2>9, <2>10, KnowledgeAt DEF RouteStep
<1>4. CASE FinishWrite(p)
  <2> PICK cur : cur = me.cur
    OBVIOUS
  <2>1. /\ pc[p] = "finishWrite" /\ UNCHANGED <<aliases, routes>>
        /\ Goto(p, "idle", Idle) \/ Goto(p, "finish", me)
        /\ \/ leases' = leases \ {cur} /\ pending' = pending \cup Removal(me.failed)
           \/ leases' = leases /\ pending' = pending
    BY <1>4 DEF FinishWrite
  <2>2. pc'[p] \in {"idle", "finish"}
    BY <1>1, <2>1, Moved
  <2>3. RoutesShaped' /\ NoOrphanedRoute'
    <3>1. CASE leases' = leases /\ pending' = pending
      BY <2>1, <3>1, RemovalSafe DEF Registered
    <3>2. CASE leases' = leases \ {cur} /\ pending' = pending \cup Removal(me.failed)
      <4>1. Clear(cur) \/ Journaled(cur)'
        BY <1>1, <2>1, <3>2, RemovalJournaled DEF TakenDown, RouteKnowledge
      <4>2. \A o \in Registered \ Registered' : Clear(o) \/ Journaled(o)'
        BY <2>1, <3>2, <4>1 DEF Registered
      <4>3. pending \ pending' = {}
        BY <3>2
      <4> QED
        BY <2>1, <4>2, <4>3, DropSafe
    <3> QED
      BY <2>1, <3>1, <3>2
  <2> QED
    BY <2>2, <2>3, KnowledgeAt DEF RouteStep
<1> QED
  BY <1>2, <1>3, <1>4

-----------------------------------------------------------------------------
(* Reconciliation.                                                         *)

LEMMA CallSpends ==
  ASSUME TypeOK, NEW r, Call(r)
  PROVE  faults' \in Nat /\ faults <= faults' /\ (r.fault => faults' # faults)
<1>1. faults \in Nat
  BY FaultsAreBounded DEF TypeOK
<1> QED
  BY <1>1 DEF Call, Spend

\* The judgement of the leases: every route belongs to a recorded owner, or
\* to an entry of the journal that is going to be replayed.
LEMMA JudgeRoutes ==
  ASSUME AllInv, NEW p \in Procs, NEW me \in Locals, JudgeLeases(p, me),
         UNCHANGED <<registry, routes>>, me.kept = {},
         \A r \in ExpectedRoutes : Server(r[1] = "https") \in me.sel,
         \A op \in pending : Server(Tls[op.owner]) \in me.sel
  PROVE  RouteStep(p)
<1>1. TypeOK /\ faults \in Nat /\ NoOrphanedRoute
  BY FaultsAreBounded DEF AllInv, OwnershipInv, TypeOK, RouteInv
<1>2. PICK unsure \in SUBSET leases :
        /\ Goto(p, "replay", [me EXCEPT !.ops = pending, !.unsure = unsure, !.mark = faults,
                                        !.dead = {o \in leases \ unsure : IsDead(o)}])
        /\ Spend(unsure # {})
  BY DEF JudgeLeases
<1> DEFINE dead == {o \in leases \ unsure : IsDead(o)}
           memory == [me EXCEPT !.ops = pending, !.unsure = unsure, !.mark = faults,
                                !.dead = dead]
<1>3. dead \cap unsure = {}
  OBVIOUS
<1>4. Goto(p, "replay", memory)
  BY <1>2
<1> HIDE DEF dead
<1>5. /\ memory.ops = pending /\ memory.unsure = unsure /\ memory.mark = faults
      /\ memory.dead = dead /\ memory.kept = {} /\ memory.sel = me.sel
  BY DEF Locals
<1> HIDE DEF memory
<1>6. pc'[p] = "replay" /\ local'[p] = memory
  BY <1>1, <1>4, Moved
<1>7. faults <= faults' /\ (faults' = faults => unsure = {})
  BY <1>1, <1>2 DEF Spend
<1>8. Accounted(p)'
  <2>1. ASSUME NEW r \in routes
        PROVE  \/ r[2] \in Registered
               \/ \E op \in memory.ops : op.kind \in RemovingKinds /\ op.owner = r[2]
    BY <1>1, <1>5 DEF NoOrphanedRoute, Journaled
  <2> QED
    BY <1>3, <1>5, <1>6, <2>1 DEF Accounted, Registered, registry
<1>9. Repairing(p)'
  <2>1. ExpectedRoutes' = ExpectedRoutes
    BY DEF ExpectedRoutes, Registered, registry
  <2> QED
    BY <1>5, <1>6, <1>7, <2>1 DEF Repairing
<1>10. RoutesShaped' /\ NoOrphanedRoute'
  BY RemovalSafe DEF Registered, registry
<1> QED
  BY <1>6, <1>8, <1>9, <1>10, KnowledgeAt DEF RouteStep

LEMMA ServerOf == \A t \in BOOLEAN : Server(t) \in Servers
  BY DEF Server, Servers

\* Whoever is removed by whatever protocol, no route appears.
LEMMA RemovesOnly ==
  ASSUME NEW R \in SUBSET Routes, NEW o \in Owners, NEW tls \in BOOLEAN, NEW sel,
         NEW r \in RemoveIfOwned(R, o, tls, sel)
  PROVE  r.routes \subseteq R
  BY RemoveOutcome

LEMMA ReconcileRoutes ==
  ASSUME AllInv, NEW p \in Procs,
         \/ Reconcile(p) /\ "reconcile" \in Commands
         \/ Prune(p) \/ PruneOrphan(p) \/ PruneReconcile(p)
  PROVE  RouteStep(p)
<1> DEFINE me == local[p]
<1>1. TypeOK /\ me \in Locals /\ RouteKnowledge(p) /\ RoutesShaped /\ routes \subseteq Routes
  BY MemoryTyped DEF AllInv, OwnershipInv, RouteInv, TypeOK
<1>2. UNCHANGED registry /\ Registered' = Registered
  BY DEF Reconcile, Prune, PruneOrphan, PruneReconcile, Registered, registry
<1>3. CASE Reconcile(p) /\ "reconcile" \in Commands
  <2> DEFINE memory == [Idle EXCEPT !.cmd = "reconcile", !.sel = SelectedServers]
  <2>1. SelectedServers \in SUBSET Servers
    BY DEF SelectedServers, Server, Servers
  <2>2. memory \in Locals /\ memory.kept = {} /\ memory.sel = SelectedServers
    BY <1>3, <2>1, IdleTyped DEF Idle, Locals
  <2>3. JudgeLeases(p, memory) /\ routes' = routes
    BY <1>3 DEF Reconcile
  <2> HIDE DEF memory
  <2>4. /\ \A r \in ExpectedRoutes : Server(r[1] = "https") \in memory.sel
        /\ \A op \in pending : Server(Tls[op.owner]) \in memory.sel
    BY <2>2 DEF SelectedServers
  <2> QED
    BY <1>2, <2>2, <2>3, <2>4, JudgeRoutes
<1>4. CASE Prune(p)
  <2> DEFINE memory == [Idle EXCEPT !.cmd = "prune", !.sel = Servers,
                                    !.orphans = {r \in routes : r[2] \notin Registered}]
  <2>1. Goto(p, "orphans", memory) /\ routes' = routes
    BY <1>4 DEF Prune
  <2>2. memory.sel = Servers /\ memory.orphans = {r \in routes : r[2] \notin Registered}
    BY DEF Idle
  <2> HIDE DEF memory
  <2>3. pc'[p] = "orphans" /\ local'[p] = memory
    BY <1>1, <2>1, Moved
  <2>4. Accounted(p)'
    BY <1>1, <1>2, <2>2, <2>3 DEF Accounted, RoutesShaped
  <2>5. RoutesShaped' /\ NoOrphanedRoute'
    BY <1>2, <2>1, RemovalSafe DEF registry
  <2> QED
    BY <2>3, <2>4, <2>5, KnowledgeAt DEF RouteStep
<1>5. CASE PruneOrphan(p)
  <2>1. pc[p] = "orphans" /\ me.orphans \subseteq Routes
    BY <1>1, <1>5 DEF PruneOrphan, Locals
  <2>2. PICK seen \in me.orphans :
          \E r \in RemoveIfOwned(routes, seen[2], seen[1] = "https", me.sel) :
            Call(r) /\ Goto(p, "orphans", [me EXCEPT !.orphans = @ \ {seen}])
    BY <1>5 DEF PruneOrphan
  <2>3. PICK r \in RemoveIfOwned(routes, seen[2], seen[1] = "https", me.sel) :
          Call(r) /\ Goto(p, "orphans", [me EXCEPT !.orphans = @ \ {seen}])
    BY <2>2
  <2> DEFINE memory == [me EXCEPT !.orphans = @ \ {seen}]
  <2>4. memory.sel = me.sel /\ memory.orphans \subseteq me.orphans
    BY <1>1 DEF Locals
  <2>5. Goto(p, "orphans", memory)
    BY <2>3
  <2> HIDE DEF memory
  <2>6. pc'[p] = "orphans" /\ local'[p] = memory
    BY <1>1, <2>5, Moved
  <2>7. seen[2] \in Owners
    BY <2>1, <2>2 DEF Routes
  <2>8. routes' \subseteq routes
    <3> PICK tls \in BOOLEAN, o \in Owners, sel \in {me.sel} :
           tls = (seen[1] = "https") /\ o = seen[2]
      BY <2>7
    <3>1. /\ r \in RemoveIfOwned(routes, o, tls, sel) /\ routes' = r.routes
          /\ routes \in SUBSET Routes
      BY <1>1, <2>3 DEF Call
    <3>2. r.routes \subseteq routes
      BY <3>1, RemovesOnly
    <3> QED
      BY <3>1, <3>2
  <2>9. Accounted(p)'
    BY <1>1, <1>2, <2>1, <2>4, <2>6 DEF Accounted, RouteKnowledge
  <2>10. RoutesShaped' /\ NoOrphanedRoute'
    BY <1>2, <2>8, RemovalSafe DEF registry
  <2> QED
    BY <2>6, <2>9, <2>10, KnowledgeAt DEF RouteStep
<1>6. CASE PruneReconcile(p)
  <2>1. /\ pc[p] = "orphans" /\ JudgeLeases(p, me) /\ routes' = routes
    BY <1>6 DEF PruneReconcile
  <2>2. me.kept = {} /\ me.sel = Servers
    BY <1>1, <2>1 DEF AllInv, OwnershipInv, CommandInv, Draft, RouteKnowledge, Accounted
  <2>3. /\ \A r \in ExpectedRoutes : Server(r[1] = "https") \in me.sel
        /\ \A op \in pending : Server(Tls[op.owner]) \in me.sel
    BY <2>2 DEF Server, Servers
  <2> QED
    BY <1>1, <1>2, <2>1, <2>2, <2>3, JudgeRoutes
<1> QED
  BY <1>3, <1>4, <1>5, <1>6

\* What a replay has to show when an entry is done with.
LEMMA ReplayStep ==
  ASSUME AllInv, NEW p \in Procs, NEW memory \in Locals, pc[p] = "replay",
         Goto(p, "replay", memory), UNCHANGED registry,
         faults' \in Nat, faults <= faults',
         NEW op \in local[p].ops,
         memory.ops = local[p].ops \ {op}, memory.kept \subseteq local[p].kept \cup {op},
         local[p].kept \subseteq memory.kept,
         memory.dead = local[p].dead, memory.unsure = local[p].unsure,
         memory.sel = local[p].sel, memory.mark = local[p].mark,
         op \in memory.kept \ local[p].kept /\ faults' = faults => op.kind = "restore",
         \A r \in routes' : r \in routes \/ r[2] \in Registered,
         op \in memory.kept \/ op.kind \notin RemovingKinds \/ Clear(op.owner)'
  PROVE  Accounted(p)' /\ Repairing(p)' /\ pc'[p] = "replay"
<1> DEFINE me == local[p]
<1>1. TypeOK /\ Accounted(p) /\ Repairing(p) /\ me \in Locals
  BY MemoryTyped DEF AllInv, OwnershipInv, RouteInv, RouteKnowledge
<1>2. faults \in Nat /\ me.mark \in Nat
  BY <1>1, FaultsAreBounded DEF TypeOK, Locals
<1>3. pc'[p] = "replay" /\ local'[p] = memory
  BY <1>1, Moved
<1>4. Registered' = Registered /\ ExpectedRoutes' = ExpectedRoutes
  BY DEF ExpectedRoutes, Registered, registry
<1>5. ASSUME NEW r \in routes', r[2] \notin Registered
      PROVE  \E x \in memory.ops \cup memory.kept : x.kind \in RemovingKinds /\ x.owner = r[2]
  <2>1. PICK x \in me.ops \cup me.kept : x.kind \in RemovingKinds /\ x.owner = r[2]
    BY <1>1, <1>5 DEF Accounted
  <2>2. ~Clear(r[2])'
    BY <1>5 DEF Clear
  <2>3. x \in memory.ops \cup memory.kept
    BY <2>1, <2>2
  <2> QED
    BY <2>1, <2>3
<1>6. Accounted(p)'
  BY <1>1, <1>3, <1>4, <1>5 DEF Accounted
<1>7. Repairing(p)'
  <2>1. me.mark <= faults
    BY <1>1 DEF Repairing
  <2>2. me.mark <= faults'
    BY <1>2, <2>1
  <2>3. faults' = me.mark => faults = me.mark
    BY <1>2, <2>1
  <2>4. faults' = me.mark => /\ me.unsure = {}
                            /\ \A x \in memory.kept : x.kind = "restore"
    BY <1>1, <2>3 DEF Repairing
  <2> QED
    BY <1>1, <1>3, <1>4, <2>2, <2>4 DEF Repairing
<1> QED
  BY <1>3, <1>6, <1>7

LEMMA ReplayRoutes ==
  ASSUME AllInv, NEW p \in Procs, ReplayRestore(p) \/ ReplayRemoval(p)
  PROVE  RouteStep(p)
<1> DEFINE me == local[p]
<1>0. pc[p] = "replay" /\ UNCHANGED registry
  BY DEF ReplayRestore, ReplayRemoval
<1>1. /\ TypeOK /\ me \in Locals /\ pc[p] = "replay" /\ UNCHANGED registry
      /\ Accounted(p) /\ Repairing(p) /\ faults \in Nat
  BY <1>0, MemoryTyped, FaultsAreBounded
  DEF AllInv, OwnershipInv, RouteInv, RouteKnowledge, TypeOK
<1>2. \A op \in me.ops : op \in PendingOperations /\ op.owner \in Owners
  BY <1>1 DEF Locals, PendingOperations
<1>3. CASE ReplayRestore(p)
  <2>1. PICK op \in me.ops :
          LET rest == [me EXCEPT !.ops = @ \ {op}] IN
          /\ op.kind = "restore"
          /\ \/ Goto(p, "replay", rest) /\ UNCHANGED <<routes, faults>>
             \/ /\ Goto(p, "replay", [rest EXCEPT !.kept = @ \cup {op}])
                /\ UNCHANGED <<routes, faults>>
             \/ /\ op.owner \in Registered \ (me.dead \cup me.unsure)
                /\ \E r \in Ensure(routes, op.owner, FALSE, me.sel) :
                     /\ Call(r)
                     /\ Goto(p, "replay", IF r.ok THEN rest ELSE [rest EXCEPT !.kept = @ \cup {op}])
    BY <1>3 DEF ReplayRestore
  <2> DEFINE done == [me EXCEPT !.ops = @ \ {op}]
             kept == [done EXCEPT !.kept = @ \cup {op}]
  <2>2. /\ done.ops = me.ops \ {op} /\ done.kept = me.kept /\ done.dead = me.dead
        /\ done.unsure = me.unsure /\ done.sel = me.sel /\ done.mark = me.mark /\ done \in Locals
        /\ kept.ops = me.ops \ {op} /\ kept.kept = me.kept \cup {op} /\ kept.dead = me.dead
        /\ kept.unsure = me.unsure /\ kept.sel = me.sel /\ kept.mark = me.mark /\ kept \in Locals
    BY <1>1 DEF Locals
  <2>3. /\ Goto(p, "replay", done) \/ Goto(p, "replay", kept)
        /\ \/ UNCHANGED <<routes, faults>>
           \/ /\ op.owner \in Registered
              /\ \E r \in Ensure(routes, op.owner, FALSE, me.sel) : Call(r)
    BY <2>1
  <2> HIDE DEF done, kept
  <2>4. op.kind \notin RemovingKinds
    BY <2>1 DEF RemovingKinds
  <2>5. /\ faults' \in Nat /\ faults <= faults'
        /\ routes' \subseteq routes \cup RoutesOf(op.owner)
        /\ \A r \in routes' : r \in routes \/ r[2] \in Registered
        /\ RoutesShaped' /\ NoOrphanedRoute'
    <3>1. CASE UNCHANGED <<routes, faults>>
      BY <1>1, <3>1, RemovalSafe DEF Registered, registry
    <3>2. CASE /\ op.owner \in Registered
               /\ \E r \in Ensure(routes, op.owner, FALSE, me.sel) : Call(r)
      <4>1. PICK r \in Ensure(routes, op.owner, FALSE, me.sel) : Call(r)
        BY <3>2
      <4> PICK o \in Owners : o = op.owner
        BY <1>2
      <4>2. routes' \subseteq routes \cup RoutesOf(o)
        BY <4>1, EnsureCall
      <4>3. RoutesShaped' /\ NoOrphanedRoute'
        BY <1>1, <3>2, <4>2, CallSafe
      <4> QED
        BY <1>1, <3>2, <4>1, <4>2, <4>3, CallSpends, OwnerOfRoute
    <3> QED
      BY <2>3, <3>1, <3>2
  <2>6. CASE Goto(p, "replay", done)
    <3>1. Accounted(p)' /\ Repairing(p)' /\ pc'[p] = "replay"
      BY <1>1, <2>1, <2>2, <2>4, <2>5, <2>6, ReplayStep
    <3> QED
      BY <2>5, <3>1, KnowledgeAt DEF RouteStep
  <2>7. CASE Goto(p, "replay", kept)
    <3>1. Accounted(p)' /\ Repairing(p)' /\ pc'[p] = "replay"
      BY <1>1, <2>1, <2>2, <2>4, <2>5, <2>7, ReplayStep
    <3> QED
      BY <2>5, <3>1, KnowledgeAt DEF RouteStep
  <2> QED
    BY <2>3, <2>6, <2>7
<1>4. CASE ReplayRemoval(p)
  <2>1. PICK op \in me.ops :
          \E r \in RemoveIfOwned(routes, op.owner, Tls[op.owner], me.sel) :
            /\ Call(r)
            /\ Goto(p, "replay", IF r.ok THEN [me EXCEPT !.ops = @ \ {op}]
                                 ELSE [[me EXCEPT !.ops = @ \ {op}] EXCEPT !.kept = @ \cup {op}])
    BY <1>4 DEF ReplayRemoval
  <2>2. PICK r \in RemoveIfOwned(routes, op.owner, Tls[op.owner], me.sel) :
            /\ Call(r)
            /\ Goto(p, "replay", IF r.ok THEN [me EXCEPT !.ops = @ \ {op}]
                                 ELSE [[me EXCEPT !.ops = @ \ {op}] EXCEPT !.kept = @ \cup {op}])
    BY <2>1
  <2> DEFINE done == [me EXCEPT !.ops = @ \ {op}]
             kept == [done EXCEPT !.kept = @ \cup {op}]
  <2>3. /\ done.ops = me.ops \ {op} /\ done.kept = me.kept /\ done.dead = me.dead
        /\ done.unsure = me.unsure /\ done.sel = me.sel /\ done.mark = me.mark /\ done \in Locals
        /\ kept.ops = me.ops \ {op} /\ kept.kept = me.kept \cup {op} /\ kept.dead = me.dead
        /\ kept.unsure = me.unsure /\ kept.sel = me.sel /\ kept.mark = me.mark /\ kept \in Locals
    BY <1>1, <1>2 DEF Locals
  <2>4. (r.ok /\ Goto(p, "replay", done)) \/ (~r.ok /\ Goto(p, "replay", kept))
    BY <2>2
  <2> HIDE DEF done, kept
  <2> PICK o \in Owners : o = op.owner
    BY <1>2
  <2>5. /\ routes' \subseteq routes /\ (r.ok => Clear(o)')
        /\ Server(Tls[o]) \in me.sel /\ ~r.fault => r.ok
    BY <2>2, RemoveCall
  <2>6. Server(Tls[o]) \in me.sel
    BY <1>1 DEF Repairing
  <2>7. faults' \in Nat /\ faults <= faults' /\ (r.fault => faults' # faults)
    BY <1>1, <2>2, CallSpends
  <2>8. RoutesShaped' /\ NoOrphanedRoute'
    BY <1>1, <2>5, RemovalSafe DEF Registered, registry
  <2>9. CASE r.ok /\ Goto(p, "replay", done)
    <3> PICK entry \in me.ops : entry = op
      OBVIOUS
    <3>1. Clear(op.owner)'
      BY <2>5, <2>9 DEF Clear
    <3>2. Accounted(p)' /\ Repairing(p)' /\ pc'[p] = "replay"
      BY <1>1, <2>3, <2>5, <2>7, <2>9, <3>1, ReplayStep
    <3> QED
      BY <2>8, <3>2, KnowledgeAt DEF RouteStep
  <2>10. CASE ~r.ok /\ Goto(p, "replay", kept)
    <3>1. faults' # faults /\ op \in kept.kept
      BY <2>3, <2>5, <2>6, <2>7, <2>10
    <3>2. Accounted(p)' /\ Repairing(p)' /\ pc'[p] = "replay"
      BY <1>1, <2>3, <2>5, <2>7, <2>10, <3>1, ReplayStep
    <3> QED
      BY <2>8, <3>2, KnowledgeAt DEF RouteStep
  <2> QED
    BY <2>4, <2>9, <2>10
<1> QED
  BY <1>3, <1>4

LEMMA ReplayedRoutes ==
  ASSUME AllInv, NEW p \in Procs, Replayed(p)
  PROVE  RouteStep(p)
<1> DEFINE me == local[p]
           memory == [me EXCEPT !.todo = Registered]
<1>1. /\ TypeOK /\ me \in Locals /\ pc[p] = "replay" /\ me.ops = {} /\ UNCHANGED registry
      /\ routes' = routes /\ faults' = faults /\ Accounted(p) /\ Repairing(p)
      /\ Goto(p, "routes", memory)
  BY MemoryTyped DEF AllInv, OwnershipInv, RouteInv, RouteKnowledge, Replayed
<1>2. /\ memory.ops = me.ops /\ memory.kept = me.kept /\ memory.dead = me.dead
      /\ memory.unsure = me.unsure /\ memory.sel = me.sel /\ memory.mark = me.mark
      /\ memory.todo = Registered
  BY <1>1 DEF Locals
<1> HIDE DEF memory
<1>3. pc'[p] = "routes" /\ local'[p] = memory
  BY <1>1, Moved
<1>4. Registered' = Registered /\ ExpectedRoutes' = ExpectedRoutes
  BY <1>1 DEF ExpectedRoutes, Registered, registry
<1>5. Accounted(p)'
  BY <1>1, <1>2, <1>3, <1>4 DEF Accounted
<1>6. Repairing(p)'
  BY <1>1, <1>2, <1>3, <1>4 DEF Repairing
<1>7. RoutesShaped' /\ NoOrphanedRoute'
  BY <1>1, <1>4, RemovalSafe DEF registry
<1> QED
  BY <1>3, <1>5, <1>6, <1>7, KnowledgeAt DEF RouteStep

\* Without a fault `ensure` serves a recorded owner: nobody else on record
\* claims a name of it, and no other route is left to claim one.
LEMMA EnsureSucceeds ==
  ASSUME AllInv, NEW p \in Procs, pc[p] = "routes", faults = local[p].mark,
         NEW o \in Registered, NEW r \in Ensure(routes, o, FALSE, local[p].sel), ~r.fault
  PROVE  r.ok
<1> DEFINE me == local[p]
<1>1. /\ TypeOK /\ RoutesShaped /\ routes \in SUBSET Routes /\ Accounted(p) /\ Repairing(p)
      /\ o \in Owners /\ OneOwnerPerHostname /\ LanInv
  BY DEF AllInv, OwnershipInv, TypeOK, Registered, RouteInv, RouteKnowledge
<1>2. ASSUME NEW q \in RoutesOf(o)
      PROVE  Server(q[1] = "https") \in me.sel /\ ~ClaimedByOther(routes, q[1], o)
  <2>1. Server(q[1] = "https") \in me.sel
    BY <1>1 DEF Repairing, ExpectedRoutes
  <2>2. ASSUME NEW d \in Owners, d # o, <<q[1], d>> \in routes, Claim(q[1], d) = Claim(q[1], o)
        PROVE  FALSE
    <3>1. d \in Registered
      BY <1>1, <2>2 DEF Accounted, Repairing, RemovingKinds
    <3>2. <<q[1], d>> \in RoutesOf(d)
      BY <1>1, <2>2 DEF RoutesShaped
    <3>3. CASE q[1] = "lan"
      <4>1. Lan[o] /\ Lan[d]
        BY <1>1, <3>2, <3>3, RouteShape
      <4>2. o \in leases /\ d \in leases
        BY <1>1, <3>1, <4>1 DEF LanInv, Registered
      <4>3. LanName[Host[o]] = LanName[Host[d]]
        BY <2>2, <3>3 DEF Claim
      <4> QED
        BY <1>1, <2>2, <4>1, <4>2, <4>3 DEF LanInv, OneRunPerLanName
    <3>4. CASE q[1] # "lan"
      BY <1>1, <2>2, <3>1, <3>4 DEF Claim, OneOwnerPerHostname
    <3> QED
      BY <3>3, <3>4
  <2> QED
    BY <2>1, <2>2 DEF ClaimedByOther
<1> PICK replace \in BOOLEAN, sel \in {me.sel} : replace = FALSE
  OBVIOUS
<1>3. r \in Ensure(routes, o, replace, sel)
  OBVIOUS
<1> QED
  BY <1>1, <1>2, <1>3, EnsureOutcome

\* What the pass over the leases and the aliases has to show.
LEMMA PassStep ==
  ASSUME AllInv, NEW p \in Procs, NEW memory \in Locals, pc[p] = "routes",
         Goto(p, "routes", memory), UNCHANGED registry,
         faults' \in Nat, faults <= faults',
         NEW o \in local[p].todo,
         memory.ops = local[p].ops, memory.todo = local[p].todo \ {o},
         local[p].kept \subseteq memory.kept,
         memory.dead = local[p].dead, memory.unsure = local[p].unsure,
         memory.sel = local[p].sel, memory.mark = local[p].mark,
         faults' = faults /\ faults = local[p].mark =>
           /\ \A op \in memory.kept \ local[p].kept : op.kind = "restore"
           /\ o \in local[p].dead \/ RoutesOf(o) \subseteq routes'
           /\ \A r \in routes \ routes' : r[2] = o /\ o \in local[p].dead,
         \A r \in routes' : r \in routes \/ r[2] = o,
         o \in local[p].dead =>
           \/ Clear(o)'
           \/ \E op \in memory.kept : op.kind \in RemovingKinds /\ op.owner = o
  PROVE  Accounted(p)' /\ Repairing(p)' /\ pc'[p] = "routes"
<1> DEFINE me == local[p]
<1>1. /\ TypeOK /\ Accounted(p) /\ Repairing(p) /\ me \in Locals /\ o \in Registered
      /\ faults \in Nat /\ me.mark \in Nat /\ registry' = registry
  BY MemoryTyped, FaultsAreBounded
  DEF AllInv, OwnershipInv, CommandInv, Draft, RouteInv, RouteKnowledge, TypeOK, Locals
<1>2. pc'[p] = "routes" /\ local'[p] = memory
  BY <1>1, Moved
<1>3. Registered' = Registered /\ ExpectedRoutes' = ExpectedRoutes
  BY DEF ExpectedRoutes, Registered, registry
<1>4. ASSUME NEW r \in routes'
      PROVE  \/ r[2] \in Registered /\ (r[2] \in memory.dead => r[2] \in memory.todo)
             \/ \E op \in memory.ops \cup memory.kept :
                  op.kind \in RemovingKinds /\ op.owner = r[2]
  <2>1. CASE r[2] = o
    <3>1. ~Clear(o)'
      BY <2>1 DEF Clear
    <3> QED
      BY <1>1, <2>1, <3>1
  <2>2. CASE r[2] # o
    <3>1. r \in routes
      BY <2>2
    <3> QED
      BY <1>1, <2>2, <3>1 DEF Accounted
  <2> QED
    BY <2>1, <2>2
<1>5. Accounted(p)'
  <2>1. memory.ops = {} /\ memory.dead \cap memory.unsure = {}
    BY <1>1 DEF Accounted
  <2> QED
    BY <1>2, <1>3, <1>4, <2>1 DEF Accounted
<1>6. Repairing(p)'
  <2>1. me.mark <= faults
    BY <1>1 DEF Repairing
  <2>2. me.mark <= faults' /\ (faults' = me.mark => faults = me.mark /\ faults' = faults)
    BY <1>1, <2>1
  <2>3. ASSUME faults' = me.mark
        PROVE  /\ me.unsure = {}
               /\ \A op \in memory.kept : op.kind = "restore"
    BY <1>1, <2>2, <2>3 DEF Repairing
  <2>4. ASSUME faults' = me.mark,
               NEW d \in Registered \ (memory.dead \cup memory.todo)
        PROVE  RoutesOf(d) \subseteq routes'
    <3>1. CASE d = o
      BY <2>2, <2>4, <3>1
    <3>2. CASE d # o
      <4>1. RoutesOf(d) \subseteq routes /\ d \in Owners
        BY <1>1, <2>2, <2>4, <3>2 DEF Repairing, Registered, TypeOK
      <4>2. \A r \in RoutesOf(d) : r[2] = d
        BY <4>1, OwnerOfRoute
      <4> QED
        BY <2>2, <2>4, <3>2, <4>1, <4>2
    <3> QED
      BY <3>1, <3>2
  <2>5. /\ \A r \in ExpectedRoutes : Server(r[1] = "https") \in memory.sel
        /\ \A op \in memory.ops : Server(Tls[op.owner]) \in memory.sel
    BY <1>1 DEF Repairing
  <2> QED
    BY <1>2, <1>3, <2>2, <2>3, <2>4, <2>5 DEF Repairing
<1> QED
  BY <1>2, <1>5, <1>6

LEMMA PassRoutes ==
  ASSUME AllInv, NEW p \in Procs, ReconcileRoute(p)
  PROVE  RouteStep(p)
<1> DEFINE me == local[p]
<1>0. pc[p] = "routes" /\ UNCHANGED registry
  BY DEF ReconcileRoute
<1>1. /\ TypeOK /\ me \in Locals /\ Accounted(p) /\ Repairing(p) /\ faults \in Nat
      /\ me.todo \subseteq Registered /\ me.todo \subseteq Owners
      /\ routes \in SUBSET Routes
  BY <1>0, MemoryTyped, FaultsAreBounded
  DEF AllInv, OwnershipInv, CommandInv, Draft, RouteInv, RouteKnowledge, TypeOK
<1>2. PICK o \in me.todo :
        LET rest == [me EXCEPT !.todo = @ \ {o}] IN
        \/ /\ o \in me.unsure
           /\ Goto(p, "routes", rest)
           /\ UNCHANGED <<routes, faults>>
        \/ /\ o \in me.dead
           /\ \E r \in RemoveIfOwned(routes, o, Tls[o], me.sel) :
                /\ Call(r)
                /\ Goto(p, "routes",
                        IF r.ok THEN rest ELSE [rest EXCEPT !.kept = @ \cup {Op("remove", o)}])
        \/ /\ o \notin me.dead \cup me.unsure
           /\ \E r \in Ensure(routes, o, FALSE, me.sel) :
                /\ Call(r)
                /\ Goto(p, "routes",
                        IF r.ok THEN rest ELSE [rest EXCEPT !.kept = @ \cup {Op("restore", o)}])
  BY DEF ReconcileRoute
<1>3. o \in Owners /\ o \in Registered
  BY <1>1
<1> DEFINE done == [me EXCEPT !.todo = @ \ {o}]
           removed == [done EXCEPT !.kept = @ \cup {Op("remove", o)}]
           restored == [done EXCEPT !.kept = @ \cup {Op("restore", o)}]
<1>4. Op("remove", o) \in PendingOperations /\ Op("restore", o) \in PendingOperations
  BY <1>3 DEF Op, PendingOperations, Kinds, RemovingKinds
<1>5. /\ done.ops = me.ops /\ done.todo = me.todo \ {o} /\ done.kept = me.kept
      /\ done.dead = me.dead /\ done.unsure = me.unsure /\ done.sel = me.sel
      /\ done.mark = me.mark /\ done \in Locals
  BY <1>1 DEF Locals
<1>6. /\ removed.ops = me.ops /\ removed.todo = me.todo \ {o}
      /\ removed.kept = me.kept \cup {Op("remove", o)}
      /\ removed.dead = me.dead /\ removed.unsure = me.unsure /\ removed.sel = me.sel
      /\ removed.mark = me.mark /\ removed \in Locals
  BY <1>1, <1>4 DEF Locals
<1>7. /\ restored.ops = me.ops /\ restored.todo = me.todo \ {o}
      /\ restored.kept = me.kept \cup {Op("restore", o)}
      /\ restored.dead = me.dead /\ restored.unsure = me.unsure /\ restored.sel = me.sel
      /\ restored.mark = me.mark /\ restored \in Locals
  BY <1>1, <1>4 DEF Locals
<1>8. \/ o \in me.unsure /\ Goto(p, "routes", done) /\ UNCHANGED <<routes, faults>>
      \/ /\ o \in me.dead
         /\ \E r \in RemoveIfOwned(routes, o, Tls[o], me.sel) :
              /\ Call(r)
              /\ (r.ok /\ Goto(p, "routes", done)) \/ (~r.ok /\ Goto(p, "routes", removed))
      \/ /\ o \notin me.dead \cup me.unsure
         /\ \E r \in Ensure(routes, o, FALSE, me.sel) :
              /\ Call(r)
              /\ (r.ok /\ Goto(p, "routes", done)) \/ (~r.ok /\ Goto(p, "routes", restored))
  BY <1>2
<1> HIDE DEF done, removed, restored
<1>9. CASE o \in me.unsure /\ Goto(p, "routes", done) /\ UNCHANGED <<routes, faults>>
  <2>1. o \notin me.dead
    BY <1>0, <1>1, <1>9 DEF Accounted
  <2>2. faults # me.mark
    BY <1>0, <1>1, <1>9 DEF Repairing
  <2>3. RoutesShaped' /\ NoOrphanedRoute'
    BY <1>0, <1>9, RemovalSafe DEF Registered, registry
  <2>4. Accounted(p)' /\ Repairing(p)' /\ pc'[p] = "routes"
    BY <1>0, <1>1, <1>5, <1>9, <2>1, <2>2, PassStep
  <2> QED
    BY <2>3, <2>4, KnowledgeAt DEF RouteStep
<1>10. CASE /\ o \in me.dead
            /\ \E r \in RemoveIfOwned(routes, o, Tls[o], me.sel) :
                 /\ Call(r)
                 /\ (r.ok /\ Goto(p, "routes", done)) \/ (~r.ok /\ Goto(p, "routes", removed))
  <2>1. PICK r \in RemoveIfOwned(routes, o, Tls[o], me.sel) :
          /\ Call(r)
          /\ (r.ok /\ Goto(p, "routes", done)) \/ (~r.ok /\ Goto(p, "routes", removed))
    BY <1>10
  <2>2. /\ routes' \subseteq routes /\ \A d \in routes \ routes' : d[2] = o
        /\ r.ok => Clear(o)'
        /\ Server(Tls[o]) \in me.sel /\ ~r.fault => r.ok
    BY <1>3, <2>1, RemoveCall
  <2>3. Server(Tls[o]) \in me.sel
    <3>1. <<Container(Tls[o]), o>> \in ExpectedRoutes
      BY <1>3 DEF ExpectedRoutes, RoutesOf
    <3>2. Server(Container(Tls[o]) = "https") = Server(Tls[o])
      BY <1>3, OwnersAreTyped DEF Server, Container
    <3> QED
      BY <1>0, <1>1, <3>1, <3>2 DEF Repairing
  <2>4. faults' \in Nat /\ faults <= faults' /\ (r.fault => faults' # faults)
    BY <1>1, <2>1, CallSpends
  <2>5. RoutesShaped' /\ NoOrphanedRoute'
    BY <1>0, <2>2, RemovalSafe DEF Registered, registry
  <2>6. CASE r.ok /\ Goto(p, "routes", done)
    <3>1. Accounted(p)' /\ Repairing(p)' /\ pc'[p] = "routes"
      BY <1>0, <1>1, <1>5, <1>10, <2>2, <2>4, <2>6, PassStep
    <3> QED
      BY <2>5, <3>1, KnowledgeAt DEF RouteStep
  <2>7. CASE ~r.ok /\ Goto(p, "routes", removed)
    <3>1. faults' # faults
      BY <2>2, <2>3, <2>4, <2>7
    <3>2. \E op \in removed.kept : op.kind \in RemovingKinds /\ op.owner = o
      <4>1. Op("remove", o).kind = "remove" /\ Op("remove", o).owner = o
        BY DEF Op
      <4> QED
        BY <1>6, <4>1 DEF RemovingKinds
    <3>3. Accounted(p)' /\ Repairing(p)' /\ pc'[p] = "routes"
      BY <1>0, <1>1, <1>6, <1>10, <2>2, <2>4, <2>7, <3>1, <3>2, PassStep
    <3> QED
      BY <2>5, <3>3, KnowledgeAt DEF RouteStep
  <2> QED
    BY <2>1, <2>6, <2>7
<1>11. CASE /\ o \notin me.dead \cup me.unsure
            /\ \E r \in Ensure(routes, o, FALSE, me.sel) :
                 /\ Call(r)
                 /\ (r.ok /\ Goto(p, "routes", done)) \/ (~r.ok /\ Goto(p, "routes", restored))
  <2>1. PICK r \in Ensure(routes, o, FALSE, me.sel) :
          /\ Call(r)
          /\ (r.ok /\ Goto(p, "routes", done)) \/ (~r.ok /\ Goto(p, "routes", restored))
    BY <1>11
  <2> PICK replace \in BOOLEAN, sel \in {me.sel} : replace = FALSE
    OBVIOUS
  <2>2. r \in Ensure(routes, o, replace, sel) /\ routes' = r.routes
    BY <2>1 DEF Call
  <2>3. /\ routes' \subseteq routes \cup RoutesOf(o)
        /\ routes \subseteq routes'
        /\ r.ok => RoutesOf(o) \subseteq routes'
    BY <1>1, <1>3, <2>2, EnsureOutcome
  <2>4. \A d \in routes' : d \in routes \/ d[2] = o
    BY <1>3, <2>3, OwnerOfRoute
  <2>5. faults' \in Nat /\ faults <= faults' /\ (r.fault => faults' # faults)
    BY <1>1, <2>1, CallSpends
  <2>6. RoutesShaped' /\ NoOrphanedRoute'
    BY <1>0, <1>3, <2>3, CallSafe
  <2>7. CASE r.ok /\ Goto(p, "routes", done)
    <3>1. Accounted(p)' /\ Repairing(p)' /\ pc'[p] = "routes"
      BY <1>0, <1>1, <1>5, <1>11, <2>3, <2>4, <2>5, <2>7, PassStep
    <3> QED
      BY <2>6, <3>1, KnowledgeAt DEF RouteStep
  <2>8. CASE ~r.ok /\ Goto(p, "routes", restored)
    <3>1. faults' = faults => faults # me.mark
      BY <1>0, <1>3, <2>1, <2>5, <2>8, EnsureSucceeds
    <3>2. Accounted(p)' /\ Repairing(p)' /\ pc'[p] = "routes"
      BY <1>0, <1>1, <1>7, <1>11, <2>3, <2>4, <2>5, <2>8, <3>1, PassStep
    <3> QED
      BY <2>6, <3>2, KnowledgeAt DEF RouteStep
  <2> QED
    BY <2>1, <2>7, <2>8
<1> QED
  BY <1>8, <1>9, <1>10, <1>11

\* The write: what it drops has no route, or an entry in the new journal.
LEMMA ReconcileWriteRoutes ==
  ASSUME AllInv, NEW p \in Procs, ReconcileWrite(p)
  PROVE  RouteStep(p)
<1> DEFINE me == local[p]
<1>1. /\ pc[p] = "routes" /\ me.todo = {} /\ leases' = leases \ me.dead /\ aliases' = aliases
      /\ pending' = me.kept /\ routes' = routes /\ Goto(p, "idle", Idle)
  BY DEF ReconcileWrite, Return
<1>2. TypeOK /\ RoutesShaped /\ Accounted(p)
  BY DEF AllInv, OwnershipInv, RouteInv, RouteKnowledge
<1>3. RoutesShaped'
  BY <1>1, <1>2 DEF RoutesShaped
<1>4. ASSUME NEW r \in routes
      PROVE  r[2] \in Registered' \/ Journaled(r[2])'
  <2>1. \/ r[2] \in Registered \ me.dead
        \/ \E op \in me.kept : op.kind \in RemovingKinds /\ op.owner = r[2]
    BY <1>1, <1>2 DEF Accounted
  <2>2. (r[2] \in Registered \ me.dead) => r[2] \in Registered'
    BY <1>1 DEF Registered
  <2>3. (\E op \in me.kept : op.kind \in RemovingKinds /\ op.owner = r[2]) => Journaled(r[2])'
    BY <1>1 DEF Journaled
  <2> QED
    BY <2>1, <2>2, <2>3
<1>5. NoOrphanedRoute'
  BY <1>1, <1>4 DEF NoOrphanedRoute
<1> QED
  BY <1>1, <1>2, <1>3, <1>5, Moved, KnowledgeAt DEF RouteStep

LEMMA CrashRoutes ==
  ASSUME AllInv, NEW p \in Procs, Crash(p)
  PROVE  RouteStep(p)
<1>1. Goto(p, "idle", Idle) /\ UNCHANGED registry /\ routes' = routes
  BY DEF Crash
<1>2. pc'[p] = "idle"
  BY <1>1, Moved DEF AllInv, OwnershipInv
<1>3. RoutesShaped' /\ NoOrphanedRoute'
  BY <1>1, RemovalSafe DEF Registered, registry
<1> QED
  BY <1>2, <1>3, KnowledgeAt DEF RouteStep

-----------------------------------------------------------------------------
(* Every step.                                                             *)

LEMMA CommandRoutes ==
  ASSUME AllInv, RollbackKeepsOwners, NEW p \in Procs,
         Begin(p) \/ Continue(p) \/ RunEnds(p) \/ Crash(p)
  PROVE  RouteStep(p)
<1>1. CASE Begin(p)
  BY <1>1, SetAliasRoutes, UnaliasRoutes, StartRunRoutes, ReconcileRoutes DEF Begin
<1>2. CASE Continue(p)
  <2>1. CASE \/ AliasEnsure(p) \/ AliasPublish(p) \/ AliasUndo(p) \/ AliasRestore(p)
             \/ AliasDrop(p) \/ AliasClean(p) \/ AliasCommit(p)
             \/ UnaliasRemove(p) \/ UnaliasDone(p)
    BY <2>1, AliasEnsureRoutes, AliasPublishRoutes, AliasUndoRoutes, AliasRestoreRoutes,
       AliasDropRoutes, AliasCleanRoutes, AliasCommitRoutes, UnaliasRoutes
  <2>2. CASE \/ PrepareRun(p) \/ PrepareRejected(p) \/ EnsureRun(p) \/ JournalFails(p)
             \/ JournalStart(p) \/ Spawn(p) \/ SpawnFails(p) \/ CleanDisplaced(p)
             \/ CommitRuns(p) \/ CommitFails(p)
    BY <2>2, PrepareRunRoutes, GivingUpRoutes, EnsureRunRoutes, JournalStartRoutes, SpawnRoutes,
       CleanDisplacedRoutes, CommitRunsRoutes
  <2>3. CASE \/ Relock(p) \/ Abandon(p) \/ AbandonRestore(p) \/ AbandonWrite(p)
             \/ FinishRoute(p) \/ FinishRemove(p) \/ FinishWrite(p)
    BY <2>3, RelockRoutes, AbandonRoutes, AbandonRestoreRoutes, AbandonWriteRoutes, FinishRoutes
  <2>4. CASE \/ PruneOrphan(p) \/ PruneReconcile(p) \/ ReplayRestore(p) \/ ReplayRemoval(p)
             \/ Replayed(p) \/ ReconcileRoute(p) \/ ReconcileWrite(p)
    BY <2>4, ReconcileRoutes, ReplayRoutes, ReplayedRoutes, PassRoutes, ReconcileWriteRoutes
  <2> QED
    BY <1>2, <2>1, <2>2, <2>3, <2>4 DEF Continue
<1>3. CASE RunEnds(p)
  BY <1>3, FinishRoutes
<1>4. CASE Crash(p)
  BY <1>4, CrashRoutes
<1> QED
  BY <1>1, <1>2, <1>3, <1>4

\* What a command knows of the routes stays true while it waits, also when
\* Caddy forgets them all.
LEMMA KnowledgeKept ==
  ASSUME AllInv, NEW q \in Procs, pc'[q] = pc[q], local'[q] = local[q], UNCHANGED registry,
         routes' \subseteq routes, faults' \in Nat, faults <= faults',
         routes' = routes \/ faults' # faults
  PROVE  RouteKnowledge(q)'
<1>1. TypeOK /\ RouteKnowledge(q) /\ faults \in Nat /\ local[q].mark \in Nat
  BY MemoryTyped, FaultsAreBounded DEF AllInv, OwnershipInv, RouteInv, TypeOK, Locals
<1>2. /\ Registered' = Registered /\ ExpectedRoutes' = ExpectedRoutes /\ LookedUp(q)' = LookedUp(q)
      /\ pending' = pending
      /\ \A o : Clear(o) => Clear(o)'
  BY DEF ExpectedRoutes, Registered, registry, LookedUp, Clear
<1>3. Announced(q)' /\ Restorable(q)'
  BY <1>1, <1>2 DEF RouteKnowledge, Announced, Restorable, Contends
<1>4. TakenDown(q)'
  <2> PICK cur : cur = local[q].cur
    OBVIOUS
  <2>1. Clear(cur) => Clear(cur)'
    BY <1>2
  <2> QED
    BY <1>1, <1>2, <2>1 DEF RouteKnowledge, TakenDown
<1>5. Accounted(q)'
  BY <1>1, <1>2 DEF RouteKnowledge, Accounted
<1>6. Repairing(q)'
  <2>1. CASE pc[q] \in {"replay", "routes"}
    <3>1. local[q].mark <= faults
      BY <1>1, <2>1 DEF RouteKnowledge, Repairing
    <3>2. local[q].mark <= faults' /\ (faults' = local[q].mark => faults = local[q].mark)
      BY <1>1, <3>1
    <3> QED
      BY <1>1, <1>2, <3>2 DEF RouteKnowledge, Repairing
  <2>2. CASE pc[q] \notin {"replay", "routes"}
    BY <2>2 DEF Repairing
  <2> QED
    BY <2>1, <2>2
<1> QED
  BY <1>3, <1>4, <1>5, <1>6 DEF RouteKnowledge

LEMMA RouteInvStep ==
  ASSUME AllInv, RollbackKeepsOwners, [Next]_vars
  PROVE  RouteInv'
<1>1. TypeOK /\ faults \in Nat /\ RoutesShaped /\ NoOrphanedRoute
  BY FaultsAreBounded DEF AllInv, OwnershipInv, TypeOK, RouteInv
<1>2. ASSUME NEW p \in Procs, Begin(p) \/ Continue(p) \/ RunEnds(p) \/ Crash(p)
      PROVE  RouteInv'
  <2>1. RouteStep(p)
    BY <1>2, CommandRoutes
  <2>2. ASSUME NEW q \in Procs, q # p
        PROVE  RouteKnowledge(q)'
    <3>1. pc'[q] = pc[q] /\ local'[q] = local[q] /\ pc[q] \in Labels
      BY <1>1, <1>2, <2>2, OthersStay DEF AllInv, TypeOK
    <3>2. CASE pc[q] \in LockedLabels
      <4>1. UNCHANGED <<registry, routes>> /\ faults <= faults'
        BY <1>2, <2>2, <3>2, OthersWait DEF AllInv
      <4>2. faults' \in Nat
        BY <1>2, StepTyped, FaultsAreBounded DEF AllInv, TypeOK, Next
      <4> QED
        BY <3>1, <4>1, <4>2, KnowledgeKept
    <3>3. CASE pc[q] \notin LockedLabels
      BY <3>1, <3>3, KnowledgeAt DEF Labels
    <3> QED
      BY <3>2, <3>3
  <2> QED
    BY <2>1, <2>2 DEF RouteStep, RouteInv
<1>3. ASSUME UNCHANGED <<registry, pc, local>>, routes' \subseteq routes, faults' \in Nat,
             faults <= faults', routes' = routes \/ faults' # faults
      PROVE  RouteInv'
  <2>1. RoutesShaped' /\ NoOrphanedRoute'
    BY <1>3, RemovalSafe DEF Registered, registry
  <2>2. \A q \in Procs : RouteKnowledge(q)'
    BY <1>3, KnowledgeKept
  <2> QED
    BY <2>1, <2>2 DEF RouteInv
<1>4. CASE CaddyReloads
  <2>1. UNCHANGED <<registry, pc, local>> /\ routes' = {} /\ faults' = faults + 1
    BY <1>4 DEF CaddyReloads, Spend
  <2> QED
    BY <1>1, <1>3, <2>1
<1>5. CASE (\E o \in Owners : ChildExits(o)) \/ UNCHANGED vars
  <2>1. UNCHANGED <<registry, pc, local, routes, faults>>
    BY <1>5 DEF ChildExits, vars
  <2> QED
    BY <1>1, <1>3, <2>1
<1> QED
  BY <1>2, <1>4, <1>5 DEF Next

-----------------------------------------------------------------------------
(* What RollbackKeepsOwners leaves out.                                    *)

\* Only a root runner ever gives up the lock before its rollback.
LEMMA OnlyRunnersRollBack ==
  ASSUME OwnershipInv, DepartureInv, "runner" \notin Commands, [Next]_vars,
         \A q \in Procs : pc[q] # "rollback"
  PROVE  \A q \in Procs : pc'[q] # "rollback"
<1>1. TypeOK /\ \A q \in Procs : local[q] \in Locals /\ local[q].cmd # "runner"
  BY MemoryTyped DEF OwnershipInv, Locals
<1>2. ASSUME NEW p \in Procs, NEW label \in Labels \ {"rollback"}, NEW memory,
             Goto(p, label, memory)
      PROVE  pc'[p] # "rollback"
  BY <1>1, <1>2, Moved
<1>3. ASSUME NEW p \in Procs, NEW memory, NEW prepared, memory.cmd # "runner",
             RollBack(p, memory, prepared)
      PROVE  pc'[p] # "rollback"
  <2>1. PICK label \in {"idle", "abandon"} :
            \E next : Goto(p, label, next)
    BY <1>3, Zenon DEF RollBack, Return
  <2> QED
    BY <1>2, <2>1 DEF Labels, LockedLabels
<1>4. ASSUME NEW p \in Procs,
             PrepareRejected(p) \/ SpawnFails(p) \/ CommitFails(p) \/ AbandonWrite(p)
      PROVE  pc'[p] # "rollback"
  <2> DEFINE me == local[p]
             forgetful == [me EXCEPT !.failed = {}]
             next == [me EXCEPT !.apps = me.apps \ {me.cur}, !.todo = @ \ {me.cur}]
  <2>1. \/ \E prepared : RollBack(p, me, prepared) \/ RollBack(p, forgetful, prepared)
        \/ Goto(p, "abandon", next)
    BY <1>4 DEF PrepareRejected, SpawnFails, CommitFails, AbandonWrite
  <2>2. me.cmd # "runner" /\ forgetful.cmd # "runner"
    BY <1>1 DEF Locals
  <2> HIDE DEF forgetful, next
  <2>3. "abandon" \in Labels \ {"rollback"}
    BY DEF Labels, LockedLabels
  <2> QED
    BY <1>2, <1>3, <2>1, <2>2, <2>3
<1>5. ASSUME NEW p \in Procs, Begin(p) \/ Continue(p) \/ RunEnds(p) \/ Crash(p)
      PROVE  pc'[p] # "rollback"
  <2>1. CASE PrepareRejected(p) \/ SpawnFails(p) \/ CommitFails(p) \/ AbandonWrite(p)
    BY <1>4, <2>1
  <2>2. CASE /\ ~(PrepareRejected(p) \/ SpawnFails(p) \/ CommitFails(p) \/ AbandonWrite(p))
             /\ Begin(p)
    <3>1. PICK label \in {"aliasEnsure", "unaliasRemove", "prepare", "replay", "orphans"} :
            \E memory : Goto(p, label, memory)
      BY <2>2, Zenon DEF Begin, SetAlias, RemoveAlias, StartRun, Reconcile, Prune, JudgeLeases
    <3> QED
      BY <1>2, <3>1 DEF Labels, LockedLabels
  <2>3. CASE RunEnds(p) \/ Crash(p) \/ FinishRoute(p) \/ FinishRemove(p) \/ FinishWrite(p)
    <3>1. PICK label \in {"finish", "idle", "finishRemove", "finishWrite"} :
            \E memory : Goto(p, label, memory)
      BY <2>3, Zenon DEF RunEnds, Crash, FinishRoute, FinishRemove, FinishWrite
    <3> QED
      BY <1>2, <3>1 DEF Labels, LockedLabels
  <2>4. CASE \/ AliasEnsure(p) \/ AliasPublish(p) \/ AliasUndo(p) \/ AliasRestore(p)
             \/ AliasDrop(p) \/ AliasClean(p) \/ AliasCommit(p)
             \/ UnaliasRemove(p) \/ UnaliasDone(p)
    <3>1. PICK label \in {"aliasPublish", "aliasClean", "aliasUndo", "aliasRestore", "unaliasDone",
                          "idle"} :
            \E memory : Goto(p, label, memory)
      BY <2>4, Zenon
      DEF AliasEnsure, AliasPublish, AliasUndo, AliasRestore, AliasDrop, AliasClean, AliasCommit,
          UnaliasRemove, UnaliasDone, Return
    <3> QED
      BY <1>2, <3>1 DEF Labels, LockedLabels
  <2>5. CASE \/ PrepareRun(p) \/ EnsureRun(p) \/ JournalFails(p) \/ JournalStart(p) \/ Spawn(p)
             \/ CleanDisplaced(p) \/ CommitRuns(p) \/ Relock(p) \/ Abandon(p) \/ AbandonRestore(p)
    <3>1. PICK label \in {"ensure", "journal", "abandon", "spawn", "prepare", "clean", "live",
                          "abandonRestore"} :
            \E memory : Goto(p, label, memory)
      BY <2>5, Zenon
      DEF PrepareRun, EnsureRun, JournalFails, JournalStart, Spawn, CleanDisplaced, CommitRuns,
          Relock, Abandon, AbandonRestore, AbandonCurrent
    <3> QED
      BY <1>2, <3>1 DEF Labels, LockedLabels
  <2>6. CASE \/ PruneOrphan(p) \/ PruneReconcile(p) \/ ReplayRestore(p) \/ ReplayRemoval(p)
             \/ Replayed(p) \/ ReconcileRoute(p) \/ ReconcileWrite(p)
    <3>1. PICK label \in {"orphans", "replay", "routes", "idle"} :
            \E memory : Goto(p, label, memory)
      BY <2>6, Zenon
      DEF PruneOrphan, PruneReconcile, JudgeLeases, ReplayRestore, ReplayRemoval, Replayed,
          ReconcileRoute, ReconcileWrite, Return
    <3> QED
      BY <1>2, <3>1 DEF Labels, LockedLabels
  <2> QED
    BY <1>5, <2>1, <2>2, <2>3, <2>4, <2>5, <2>6 DEF Continue
<1>6. ASSUME NEW q \in Procs
      PROVE  pc'[q] # "rollback"
  <2>1. CASE \E p \in Procs : Begin(p) \/ Continue(p) \/ RunEnds(p) \/ Crash(p)
    <3>1. PICK p \in Procs : Begin(p) \/ Continue(p) \/ RunEnds(p) \/ Crash(p)
      BY <2>1
    <3>2. q # p => pc'[q] = pc[q]
      BY <3>1, OthersStay
    <3> QED
      BY <1>5, <3>1, <3>2
  <2>2. CASE (\E o \in Owners : ChildExits(o)) \/ CaddyReloads \/ UNCHANGED vars
    BY <2>2 DEF ChildExits, CaddyReloads, vars
  <2> QED
    BY <2>1, <2>2 DEF Next
<1> QED
  BY <1>6

-----------------------------------------------------------------------------
(* The theorems about single states.                                       *)

\* At every step, crash and failed Caddy call, what each command has noted of
\* the routes it installed, took down or must bring back is true: it is what
\* commit_prepared_runs, set_alias_with, abandon_route and reconcile act on.
THEOREM RoutesAreKnown == Spec /\ []RollbackKeepsOwners => []RouteInv
<1>1. Init => RouteInv
  BY DEF Init, RouteInv, RoutesShaped, NoOrphanedRoute, RouteKnowledge, Announced, Restorable,
     TakenDown, Accounted, Repairing, Committing, StartLabels
<1>2. CommandsStayRight /\ LanInv /\ RouteInv /\ RollbackKeepsOwners /\ [Next]_vars => RouteInv'
  BY RouteInvStep DEF CommandsStayRight, AllInv
<1> QED
  BY <1>1, <1>2, DeparturesAreKnown, LanKnown, PTL DEF Spec

\* No crash and no failed, lost or repeated Caddy call leaves a managed route
\* that no registry entry and no journal entry accounts for; only an owner
\* dropped in the gap of a root runner's rollback (workspace.rs:636) can.
THEOREM OnlyARollbackOrphansRoutes == Spec /\ []RollbackKeepsOwners => []NoOrphanedRoute
<1>1. RouteInv => NoOrphanedRoute
  BY DEF RouteInv
<1> QED
  BY <1>1, RoutesAreKnown, PTL

\* Without root runners nothing is dropped in a gap, for there is none.
LEMMA NoRunnerNoRollback ==
  ASSUME "runner" \notin Commands
  PROVE  Spec => []RollbackKeepsOwners
<1> DEFINE NoRollback == \A q \in Procs : pc[q] # "rollback"
<1>1. Init => NoRollback
  BY DEF Init
<1>2. CommandsStayRight /\ NoRollback /\ [Next]_vars => NoRollback'
  BY OnlyRunnersRollBack DEF CommandsStayRight
<1>3. NoRollback => RollbackKeepsOwners
  BY DEF RollbackKeepsOwners
<1> HIDE DEF NoRollback
<1> QED
  BY <1>1, <1>2, <1>3, DeparturesAreKnown, PTL DEF Spec

-----------------------------------------------------------------------------
(* The routes that a step takes down.                                      *)

\* Why the route of an owner may go.
MayGo(o) ==
  \/ o \notin Registered
  \/ \E op \in pending : /\ op.kind \in {"install", "start"}
                         /\ op.owner # o /\ Host[op.owner] = Host[o]
  \/ o \in leases /\ child[o] = "dead"

\* `ensure` takes down the routes of others on the hostname only, or of a
\* run that announces the same mDNS name.
LEMMA TakenByEnsure ==
  ASSUME AllInv, NEW o \in Owners, NEW replace \in BOOLEAN, NEW sel,
         NEW r \in Ensure(routes, o, replace, sel), Call(r), NEW d \in routes \ routes'
  PROVE  /\ replace /\ d[2] \in Owners /\ d[2] # o
         /\ \/ Host[d[2]] = Host[o]
            \/ Lan[o] /\ Lan[d[2]] /\ LanName[Host[d[2]]] = LanName[Host[o]]
<1>1. routes \in SUBSET Routes /\ RoutesShaped /\ routes' = r.routes
  BY DEF AllInv, OwnershipInv, TypeOK, RouteInv, Call
<1>2. /\ replace /\ d[2] # o
      /\ <<d[1], o>> \in RoutesOf(o) /\ Claim(d[1], d[2]) = Claim(d[1], o)
  BY <1>1, EnsureOutcome
<1>3. d[2] \in Owners /\ d \in RoutesOf(d[2])
  BY <1>1 DEF Routes, RoutesShaped
<1>4. CASE d[1] = "lan"
  <2>1. Lan[d[2]]
    BY <1>3, <1>4, RouteShape
  <2>2. Lan[o]
    <3> PICK q \in RoutesOf(o) : q = <<d[1], o>>
      BY <1>2
    <3> QED
      BY <1>4, RouteShape
  <2> QED
    BY <1>2, <1>3, <1>4, <2>1, <2>2 DEF Claim
<1>5. CASE d[1] # "lan"
  BY <1>2, <1>3, <1>5 DEF Claim
<1> QED
  BY <1>4, <1>5

\* Putting back the route of an owner on record costs no other one its route.
LEMMA RestoreTakesNothing ==
  ASSUME AllInv, NEW o \in Registered, NEW sel,
         NEW r \in Ensure(routes, o, TRUE, sel), Call(r), NEW d \in routes \ routes'
  PROVE  d[2] \notin Registered
<1>1. o \in Owners /\ OneOwnerPerHostname /\ LanInv
  BY DEF AllInv, OwnershipInv, TypeOK, Registered
<1> PICK replace \in BOOLEAN : replace = TRUE
  OBVIOUS
<1>2. r \in Ensure(routes, o, replace, sel)
  OBVIOUS
<1>3. /\ d[2] # o
      /\ \/ Host[d[2]] = Host[o]
         \/ Lan[o] /\ Lan[d[2]] /\ LanName[Host[d[2]]] = LanName[Host[o]]
  BY <1>1, <1>2, TakenByEnsure
<1>4. ASSUME d[2] \in Registered
      PROVE  FALSE
  <2>1. Host[d[2]] # Host[o]
    BY <1>1, <1>3, <1>4 DEF OneOwnerPerHostname
  <2>2. o \in leases /\ d[2] \in leases
    BY <1>1, <1>3, <1>4, <2>1 DEF LanInv, Registered
  <2> QED
    BY <1>1, <1>3, <2>1, <2>2 DEF LanInv, OneRunPerLanName
<1> QED
  BY <1>4

LEMMA TakenByRemove ==
  ASSUME AllInv, NEW o \in Owners, NEW tls \in BOOLEAN, NEW sel,
         NEW r \in RemoveIfOwned(routes, o, tls, sel), Call(r), NEW d \in routes \ routes'
  PROVE  d[2] = o
<1>1. routes \in SUBSET Routes /\ routes' = r.routes
  BY DEF AllInv, OwnershipInv, TypeOK, Call
<1> QED
  BY <1>1, RemoveOutcome

\* A new app takes down who holds its hostname, under its journal entry.
LEMMA TakenForNew ==
  ASSUME AllInv, NEW p \in Procs, pc[p] \in {"aliasEnsure", "ensure"}, NEW o \in Owners,
         o \in LookedUp(p), o \in local[p].apps,
         NEW replace \in BOOLEAN, NEW sel, NEW r \in Ensure(routes, o, replace, sel), Call(r),
         NEW d \in routes \ routes'
  PROVE  MayGo(d[2])
<1>1. /\ d[2] # o
      /\ \/ Host[d[2]] = Host[o]
         \/ Lan[o] /\ Lan[d[2]] /\ LanName[Host[d[2]]] = LanName[Host[o]]
  BY TakenByEnsure
<1>2. Contends(o) /\ LanInv /\ LanApart(p)
  BY DEF AllInv, RouteInv, RouteKnowledge, Announced, Committing, StartLabels, LanInv
<1>3. CASE Host[d[2]] = Host[o]
  BY <1>1, <1>2, <1>3 DEF MayGo, Contends
<1>4. CASE /\ Host[d[2]] # Host[o]
           /\ Lan[o] /\ Lan[d[2]] /\ LanName[Host[d[2]]] = LanName[Host[o]]
  <2>1. ~LanConflict(o)
    BY <1>2, <1>4 DEF LanApart, AliasLabels, StartLabels
  <2>2. d[2] \notin leases /\ d[2] \notin aliases
    BY <1>2, <1>4, <2>1 DEF LanConflict, LanInv
  <2> QED
    BY <2>2 DEF MayGo, Registered
<1> QED
  BY <1>1, <1>3, <1>4

\* A commit takes down what it displaces, under the entry of its app.
LEMMA TakenForCommit ==
  ASSUME AllInv, NEW p \in Procs, pc[p] \in {"aliasClean", "clean"}, NEW o \in local[p].todo
  PROVE  MayGo(o)
<1>1. /\ OwnershipInv /\ DepartureInv /\ CommandInv(p) /\ Announced(p)
      /\ pc[p] \in Committing /\ pc[p] \in Uncommitted
  BY DEF AllInv, OwnershipInv, RouteInv, RouteKnowledge, Committing, Uncommitted, AliasLabels,
     StartLabels
<1>2. o \in local[p].displaced /\ o \in Registered
  BY <1>1 DEF CommandInv, Loops, NothingMissed
<1>3. PICK a \in local[p].apps : Host[a] = Host[o]
  BY <1>1, <1>2 DEF DepartureInv, Aimed
<1>4. a # o
  BY <1>1, <1>2 DEF CommandInv, NotRecorded
<1>5. Contends(a)
  BY <1>1 DEF Announced, LookedUp
<1> QED
  BY <1>3, <1>4, <1>5 DEF MayGo, Contends

\* A reconciliation takes down who is not on record, or dead.
LEMMA TakenForReplay ==
  ASSUME AllInv, NEW p \in Procs, pc[p] \in {"replay", "routes"}, NEW o,
         o \in local[p].dead \/ \E op \in local[p].ops : op.kind \in RemovingKinds /\ op.owner = o
  PROVE  MayGo(o)
<1>1. /\ OwnershipInv /\ DepartureInv /\ local[p].dead \subseteq leases
      /\ \A op \in local[p].ops : op.kind \in RemovingKinds =>
                                    op.owner \notin Registered \ local[p].dead
  BY DEF AllInv, OwnershipInv, CommandInv, Draft
<1>2. CASE o \in local[p].dead
  BY <1>1, <1>2 DEF MayGo, DepartureInv, DeadIsDead
<1>3. CASE o \notin local[p].dead
  BY <1>1, <1>3 DEF MayGo
<1> QED
  BY <1>2, <1>3

LEMMA AliasTakes ==
  ASSUME AllInv, NEW p \in Procs, NEW d \in routes \ routes',
         AliasEnsure(p) \/ AliasUndo(p) \/ AliasRestore(p) \/ AliasClean(p) \/ UnaliasRemove(p)
  PROVE  MayGo(d[2])
<1> DEFINE me == local[p]
<1>1. TypeOK /\ me \in Locals /\ me.force \in BOOLEAN /\ me.todo \subseteq Owners
  BY MemoryTyped DEF AllInv, OwnershipInv
<1>2. CASE AliasEnsure(p)
  <2>1. pc[p] = "aliasEnsure"
    BY <1>2 DEF AliasEnsure
  <2>2. me.cur \in Owners /\ me.cur \in LookedUp(p) /\ me.cur \in me.apps
    BY <2>1, AliasFacts DEF AliasLabels
  <2>3. PICK r \in Ensure(routes, me.cur, me.force, me.sel) : Call(r)
    BY <1>2 DEF AliasEnsure
  <2> QED
    BY <1>1, <2>1, <2>2, <2>3, TakenForNew
<1>3. CASE AliasUndo(p)
  <2>1. pc[p] = "aliasUndo"
    BY <1>3 DEF AliasUndo
  <2>2. me.cur \in Owners /\ me.cur \notin Registered /\ Tls[me.cur] \in BOOLEAN
    BY <2>1, AliasFacts, OwnersAreTyped DEF AliasLabels
  <2>3. PICK r \in RemoveIfOwned(routes, me.cur, Tls[me.cur], me.sel) : Call(r)
    BY <1>3 DEF AliasUndo
  <2>4. d[2] = me.cur
    BY <2>2, <2>3, TakenByRemove
  <2> QED
    BY <2>2, <2>4 DEF MayGo
<1>4. CASE AliasRestore(p)
  <2>1. PICK o \in me.todo : \E r \in Ensure(routes, o, TRUE, me.sel) : Call(r)
    BY <1>4 DEF AliasRestore
  <2>2. PICK r \in Ensure(routes, o, TRUE, me.sel) : Call(r)
    BY <2>1
  <2>3. o \in Registered
    BY <1>4 DEF AliasRestore, AllInv, RouteInv, RouteKnowledge, Restorable
  <2>4. d[2] \notin Registered
    BY <2>2, <2>3, RestoreTakesNothing
  <2> QED
    BY <2>4 DEF MayGo
<1>5. CASE AliasClean(p)
  <2>1. pc[p] = "aliasClean"
    BY <1>5 DEF AliasClean
  <2>2. PICK o \in me.todo : \E r \in RemoveIfOwned(routes, o, Tls[o], me.sel) : Call(r)
    BY <1>5 DEF AliasClean
  <2>3. PICK r \in RemoveIfOwned(routes, o, Tls[o], me.sel) : Call(r)
    BY <2>2
  <2>4. o \in Owners /\ Tls[o] \in BOOLEAN
    BY <1>1, OwnersAreTyped
  <2>5. d[2] = o
    BY <2>3, <2>4, TakenByRemove
  <2> QED
    BY <2>1, <2>5, TakenForCommit
<1>6. CASE UnaliasRemove(p)
  <2>1. pc[p] = "unaliasRemove"
    BY <1>6 DEF UnaliasRemove
  <2>2. me.cur \in Owners /\ Tls[me.cur] \in BOOLEAN
    BY <1>1, <2>1, OwnersAreTyped DEF AllInv, OwnershipInv, CommandInv, Loops, TypeOK
  <2>3. me.cur \notin Registered
    BY <2>1 DEF AllInv, RouteInv, RouteKnowledge, TakenDown
  <2>4. PICK r \in RemoveIfOwned(routes, me.cur, Tls[me.cur], me.sel) : Call(r)
    BY <1>6 DEF UnaliasRemove
  <2>5. d[2] = me.cur
    BY <2>2, <2>4, TakenByRemove
  <2> QED
    BY <2>3, <2>5 DEF MayGo
<1> QED
  BY <1>2, <1>3, <1>4, <1>5, <1>6

LEMMA RunTakes ==
  ASSUME AllInv, NEW p \in Procs, NEW d \in routes \ routes',
         EnsureRun(p) \/ CleanDisplaced(p) \/ Abandon(p) \/ AbandonRestore(p) \/ FinishRemove(p)
  PROVE  MayGo(d[2])
<1> DEFINE me == local[p]
<1>1. /\ TypeOK /\ me \in Locals /\ me.force \in BOOLEAN /\ me.todo \subseteq Owners
      /\ me.apps \subseteq Owners
  BY MemoryTyped DEF AllInv, OwnershipInv
<1>2. CASE EnsureRun(p)
  <2>1. pc[p] = "ensure"
    BY <1>2 DEF EnsureRun
  <2>2. me.cur \in Owners /\ me.cur \in LookedUp(p) /\ me.cur \in me.apps
    BY <2>1, StartFacts DEF StartLabels, LookedUp
  <2>3. PICK r \in Ensure(routes, me.cur, me.force, me.sel) : Call(r)
    BY <1>2 DEF EnsureRun
  <2> QED
    BY <1>1, <2>1, <2>2, <2>3, TakenForNew
<1>3. CASE CleanDisplaced(p)
  <2>1. pc[p] = "clean"
    BY <1>3 DEF CleanDisplaced
  <2>2. PICK o \in me.todo : \E r \in RemoveIfOwned(routes, o, Tls[o], me.sel) : Call(r)
    BY <1>3 DEF CleanDisplaced
  <2>3. PICK r \in RemoveIfOwned(routes, o, Tls[o], me.sel) : Call(r)
    BY <2>2
  <2>4. o \in Owners /\ Tls[o] \in BOOLEAN
    BY <1>1, OwnersAreTyped
  <2>5. d[2] = o
    BY <2>3, <2>4, TakenByRemove
  <2> QED
    BY <2>1, <2>5, TakenForCommit
<1>4. CASE Abandon(p)
  <2>1. PICK o \in me.todo : \E r \in RemoveIfOwned(routes, o, Tls[o], me.sel) : Call(r)
    BY <1>4 DEF Abandon
  <2>2. PICK r \in RemoveIfOwned(routes, o, Tls[o], me.sel) : Call(r)
    BY <2>1
  <2>3. o \in Owners /\ Tls[o] \in BOOLEAN
    BY <1>1, OwnersAreTyped
  <2>4. pc[p] = "abandon" /\ me.todo \subseteq me.apps
    BY <1>4 DEF Abandon, AllInv, OwnershipInv, CommandInv, Loops
  <2>5. o \notin Registered
    BY <2>4, StartFacts DEF AbandonLabels
  <2>6. d[2] = o
    BY <2>2, <2>3, TakenByRemove
  <2> QED
    BY <2>5, <2>6 DEF MayGo
<1>5. CASE AbandonRestore(p)
  <2>1. PICK o \in me.displaced : \E r \in Ensure(routes, o, TRUE, me.sel) : Call(r)
    BY <1>5 DEF AbandonRestore
  <2>2. PICK r \in Ensure(routes, o, TRUE, me.sel) : Call(r)
    BY <2>1
  <2>3. o \in Registered
    BY <1>5 DEF AbandonRestore, AllInv, RouteInv, RouteKnowledge, Restorable
  <2>4. d[2] \notin Registered
    BY <2>2, <2>3, RestoreTakesNothing
  <2> QED
    BY <2>4 DEF MayGo
<1>6. CASE FinishRemove(p)
  <2>1. pc[p] = "finishRemove"
    BY <1>6 DEF FinishRemove
  <2>2. /\ me.cur \in me.apps /\ me.cur \in Owners /\ Tls[me.cur] \in BOOLEAN
        /\ me.cur \notin aliases
    BY <1>1, <2>1, OwnersAreTyped DEF AllInv, OwnershipInv, CommandInv, Loops, OwnIds
  <2>3. child[me.cur] = "dead"
    BY <2>1, <2>2 DEF AllInv, DepartureInv, Started
  <2>4. PICK r \in RemoveIfOwned(routes, me.cur, Tls[me.cur], me.sel) : Call(r)
    BY <1>6 DEF FinishRemove
  <2>5. d[2] = me.cur
    BY <2>2, <2>4, TakenByRemove
  <2> QED
    BY <2>2, <2>3, <2>5 DEF MayGo, Registered
<1> QED
  BY <1>2, <1>3, <1>4, <1>5, <1>6

LEMMA ReconcileTakes ==
  ASSUME AllInv, NEW p \in Procs, NEW d \in routes \ routes',
         PruneOrphan(p) \/ ReplayRestore(p) \/ ReplayRemoval(p) \/ ReconcileRoute(p)
  PROVE  MayGo(d[2])
<1> DEFINE me == local[p]
<1>1. /\ TypeOK /\ me \in Locals /\ me.todo \subseteq Owners /\ me.orphans \subseteq Routes
      /\ \A op \in me.ops : op.owner \in Owners
  BY MemoryTyped DEF AllInv, OwnershipInv, Locals, PendingOperations
<1>2. CASE PruneOrphan(p)
  <2>1. PICK seen \in me.orphans :
          \E r \in RemoveIfOwned(routes, seen[2], seen[1] = "https", me.sel) : Call(r)
    BY <1>2 DEF PruneOrphan
  <2>2. PICK r \in RemoveIfOwned(routes, seen[2], seen[1] = "https", me.sel) : Call(r)
    BY <2>1
  <2>3. seen[2] \in Owners /\ seen[2] \notin Registered
    BY <1>1, <1>2 DEF PruneOrphan, Routes, AllInv, RouteInv, RouteKnowledge, Accounted
  <2> PICK tls \in BOOLEAN, o \in Owners, sel \in {me.sel} :
         tls = (seen[1] = "https") /\ o = seen[2]
    BY <2>3
  <2>4. r \in RemoveIfOwned(routes, o, tls, sel)
    BY <2>2
  <2>5. d[2] = o
    BY <2>2, <2>4, TakenByRemove
  <2> QED
    BY <2>3, <2>5 DEF MayGo
<1>3. ASSUME NEW o \in Owners, NEW r \in Ensure(routes, o, FALSE, me.sel), Call(r)
      PROVE  FALSE
  <2> PICK replace \in BOOLEAN, sel \in {me.sel} : replace = FALSE
    OBVIOUS
  <2>1. r \in Ensure(routes, o, replace, sel)
    BY <1>3
  <2> QED
    BY <1>3, <2>1, TakenByEnsure
<1>4. CASE ReplayRestore(p)
  <2>1. PICK op \in me.ops : \/ UNCHANGED routes
                             \/ \E r \in Ensure(routes, op.owner, FALSE, me.sel) : Call(r)
    BY <1>4 DEF ReplayRestore
  <2> QED
    BY <1>1, <1>3, <2>1
<1>5. CASE ReplayRemoval(p)
  <2>1. PICK op \in me.ops :
          /\ op.kind \in RemovingKinds
          /\ \E r \in RemoveIfOwned(routes, op.owner, Tls[op.owner], me.sel) : Call(r)
    BY <1>5 DEF ReplayRemoval
  <2> PICK o \in Owners : o = op.owner
    BY <1>1
  <2>2. PICK r \in RemoveIfOwned(routes, o, Tls[o], me.sel) : Call(r)
    BY <2>1
  <2>3. d[2] = o
    BY <2>2, OwnersAreTyped, TakenByRemove
  <2> QED
    BY <1>5, <2>1, <2>3, TakenForReplay DEF ReplayRemoval
<1>6. CASE ReconcileRoute(p)
  <2>1. PICK o \in me.todo :
          \/ UNCHANGED routes
          \/ o \in me.dead /\ \E r \in RemoveIfOwned(routes, o, Tls[o], me.sel) : Call(r)
          \/ \E r \in Ensure(routes, o, FALSE, me.sel) : Call(r)
    BY <1>6 DEF ReconcileRoute
  <2>2. o \in Owners /\ Tls[o] \in BOOLEAN
    BY <1>1, OwnersAreTyped
  <2>3. CASE o \in me.dead /\ \E r \in RemoveIfOwned(routes, o, Tls[o], me.sel) : Call(r)
    <3>1. PICK r \in RemoveIfOwned(routes, o, Tls[o], me.sel) : Call(r)
      BY <2>3
    <3>2. d[2] = o
      BY <2>2, <3>1, TakenByRemove
    <3> QED
      BY <1>6, <2>3, <3>2, TakenForReplay DEF ReconcileRoute
  <2> QED
    BY <1>3, <2>1, <2>2, <2>3
<1> QED
  BY <1>2, <1>4, <1>5, <1>6

\* Every other step leaves the routes alone.
LEMMA RoutesLeft ==
  ASSUME [Next]_vars, routes' # routes
  PROVE  \/ CaddyReloads
         \/ \E p \in Procs :
              \/ AliasEnsure(p) \/ AliasUndo(p) \/ AliasRestore(p) \/ AliasClean(p)
              \/ UnaliasRemove(p)
              \/ EnsureRun(p) \/ CleanDisplaced(p) \/ Abandon(p) \/ AbandonRestore(p)
              \/ FinishRemove(p)
              \/ PruneOrphan(p) \/ ReplayRestore(p) \/ ReplayRemoval(p) \/ ReconcileRoute(p)
<1>1. ASSUME NEW p \in Procs
      PROVE  ~(Begin(p) \/ RunEnds(p) \/ Crash(p))
  BY DEF Begin, SetAlias, RemoveAlias, StartRun, Reconcile, Prune, RunEnds, Crash
<1>2. ASSUME NEW p \in Procs
      PROVE  ~(\/ AliasPublish(p) \/ AliasDrop(p) \/ AliasCommit(p) \/ UnaliasDone(p)
               \/ PrepareRun(p) \/ PrepareRejected(p) \/ JournalFails(p) \/ JournalStart(p)
               \/ Spawn(p) \/ SpawnFails(p) \/ CommitRuns(p) \/ CommitFails(p) \/ Relock(p)
               \/ AbandonWrite(p) \/ FinishRoute(p) \/ FinishWrite(p)
               \/ PruneReconcile(p) \/ Replayed(p) \/ ReconcileWrite(p))
  BY DEF AliasPublish, AliasDrop, AliasCommit, UnaliasDone, PrepareRun, PrepareRejected,
     JournalFails, JournalStart, Spawn, SpawnFails, CommitRuns, CommitFails, Relock,
     AbandonWrite, FinishRoute, FinishWrite, PruneReconcile, Replayed, ReconcileWrite
<1>3. ~(\/ \E o \in Owners : ChildExits(o)
        \/ UNCHANGED vars)
  BY DEF ChildExits, vars
<1> QED
  BY <1>1, <1>2, <1>3 DEF Next, Continue

LEMMA RoutesTaken ==
  ASSUME AllInv, [Next]_vars, NEW d \in routes \ routes'
  PROVE  MayGo(d[2]) \/ UNCHANGED <<pc, local>>
<1>1. CASE CaddyReloads
  BY <1>1 DEF CaddyReloads
<1>2. CASE ~CaddyReloads
  <2>1. PICK p \in Procs :
              \/ AliasEnsure(p) \/ AliasUndo(p) \/ AliasRestore(p) \/ AliasClean(p)
              \/ UnaliasRemove(p)
              \/ EnsureRun(p) \/ CleanDisplaced(p) \/ Abandon(p) \/ AbandonRestore(p)
              \/ FinishRemove(p)
              \/ PruneOrphan(p) \/ ReplayRestore(p) \/ ReplayRemoval(p) \/ ReconcileRoute(p)
    BY <1>2, RoutesLeft
  <2> QED
    BY <2>1, AliasTakes, RunTakes, ReconcileTakes
<1> QED
  BY <1>1, <1>2

\* Nook takes down the route of a recorded owner only under a journal entry of
\* the competitor, whose recovery brings it back, or after the owner's process
\* has died (set_alias_with, commit_prepared_runs, cleanup_run_route,
\* abandon_route, reconcile, prune).
THEOREM RoutesGoForAReason == Spec /\ []RollbackKeepsOwners => RouteTakenOnlyUnderJournal
<1>1. CommandsStayRight /\ LanInv /\ RouteInv /\ [Next]_vars =>
        [\A r \in routes \ routes' :
           \/ r[2] \notin Registered
           \/ UNCHANGED <<pc, local>>
           \/ \E op \in pending : /\ op.kind \in {"install", "start"}
                                  /\ op.owner # r[2] /\ Host[op.owner] = Host[r[2]]
           \/ r[2] \in leases /\ child[r[2]] = "dead"]_vars
  BY RoutesTaken DEF CommandsStayRight, AllInv, MayGo
<1> QED
  BY <1>1, DeparturesAreKnown, LanKnown, RoutesAreKnown, PTL DEF Spec, RouteTakenOnlyUnderJournal

-----------------------------------------------------------------------------
(* The end of a reconciliation.                                            *)

\* Without a fault, what is left is what the registry calls for.
LEMMA CleanWrite ==
  ASSUME AllInv, NEW p \in Procs, ReconcileWrite(p), faults' = local[p].mark
  PROVE  routes' = ExpectedRoutes' /\ \A op \in pending' : op.kind = "restore"
<1> DEFINE me == local[p]
<1>1. /\ pc[p] = "routes" /\ me.todo = {} /\ leases' = leases \ me.dead /\ aliases' = aliases
      /\ pending' = me.kept /\ routes' = routes /\ faults = me.mark
  BY DEF ReconcileWrite
<1>2. /\ RoutesShaped /\ Accounted(p) /\ Repairing(p) /\ aliases \cap leases = {}
      /\ me.dead \subseteq leases
  BY <1>1 DEF AllInv, OwnershipInv, Ids, CommandInv, Draft, RouteInv, RouteKnowledge
<1>3. /\ \A op \in me.kept : op.kind = "restore"
      /\ \A o \in Registered \ me.dead : RoutesOf(o) \subseteq routes
  BY <1>1, <1>2 DEF Repairing
<1>4. Registered' = Registered \ me.dead
  BY <1>1, <1>2 DEF Registered
<1>5. \A r \in routes : r \in RoutesOf(r[2]) /\ r[2] \in Registered \ me.dead
  BY <1>1, <1>2, <1>3 DEF Accounted, RoutesShaped, RemovingKinds
<1>6. ExpectedRoutes' = UNION {RoutesOf(o) : o \in Registered \ me.dead}
  BY <1>4 DEF ExpectedRoutes
<1> QED
  BY <1>1, <1>3, <1>5, <1>6

LEMMA ReconciliationEnds ==
  ASSUME AllInv, [Next]_vars, NEW p \in Procs, pc[p] = "routes", local[p].todo = {},
         pc'[p] = "idle", faults' = local[p].mark
  PROVE  ReconcileWrite(p)
<1>1. TypeOK /\ faults \in Nat /\ local[p].mark <= faults
  BY FaultsAreBounded DEF AllInv, OwnershipInv, TypeOK, RouteInv, RouteKnowledge, Repairing
<1>2. \E q \in Procs : Begin(q) \/ Continue(q) \/ RunEnds(q) \/ Crash(q)
  BY DEF Next, ChildExits, CaddyReloads, vars
<1>3. Begin(p) \/ Continue(p) \/ RunEnds(p) \/ Crash(p)
  BY <1>2, OthersStay DEF AllInv
<1>4. ~Crash(p)
  BY <1>1 DEF Crash, Spend
<1>5. ~Begin(p) /\ ~RunEnds(p)
  BY DEF Begin, SetAlias, RemoveAlias, StartRun, Reconcile, Prune, RunEnds
<1>6. Continue(p) => ReconcileRoute(p) \/ ReconcileWrite(p)
  BY DEF Continue, AliasEnsure, AliasPublish, AliasUndo, AliasRestore, AliasDrop, AliasClean,
     AliasCommit, UnaliasRemove, UnaliasDone, PrepareRun, PrepareRejected, EnsureRun,
     JournalFails, JournalStart, Spawn, SpawnFails, CleanDisplaced, CommitRuns, CommitFails,
     Relock, Abandon, AbandonRestore, AbandonWrite, FinishRoute, FinishRemove, FinishWrite,
     PruneOrphan, PruneReconcile, ReplayRestore, ReplayRemoval, Replayed
<1>7. ~ReconcileRoute(p)
  BY DEF ReconcileRoute
<1> QED
  BY <1>3, <1>4, <1>5, <1>6, <1>7

\* Whatever crashes, failures and Caddy reloads came before, one reconciliation
\* without a fault leaves exactly the routes of the registry and a journal
\* without removals (reconcile_before_command, nook prune).
THEOREM CleanReconciliationsConverge == Spec /\ []RollbackKeepsOwners => CleanReconcileConverges
<1>1. CommandsStayRight /\ LanInv /\ RouteInv /\ [Next]_vars =>
        [\A p \in Procs :
           /\ pc[p] = "routes" /\ local[p].todo = {} /\ pc'[p] = "idle"
           /\ faults' = local[p].mark
           => /\ routes' = ExpectedRoutes'
              /\ \A op \in pending' : op.kind = "restore"]_vars
  BY ReconciliationEnds, CleanWrite DEF CommandsStayRight, AllInv
<1> QED
  BY <1>1, DeparturesAreKnown, LanKnown, RoutesAreKnown, PTL DEF Spec, CleanReconcileConverges

-----------------------------------------------------------------------------
(* Without root runners.                                                   *)

\* Where nobody runs a root runner, all of this holds without a hypothesis.
THEOREM WithoutRootRunners ==
  ASSUME "runner" \notin Commands
  PROVE  Spec => /\ []NoOrphanedRoute
                 /\ RouteTakenOnlyUnderJournal
                 /\ CleanReconcileConverges
<1>1. Spec => []RollbackKeepsOwners
  BY NoRunnerNoRollback
<1> QED
  BY <1>1, OnlyARollbackOrphansRoutes, RoutesGoForAReason, CleanReconciliationsConverge, PTL

=============================================================================
