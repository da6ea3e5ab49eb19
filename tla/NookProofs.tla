----------------------------- MODULE NookProofs -----------------------------
(***************************************************************************)
(* Machine-checked proofs about module Nook, for any number of processes,  *)
(* hostnames and owners, any set of commands and any bound on faults: a    *)
(* hostname has one owner, no owner leaves the registry silently, and the  *)
(* commands implement HostnameOwnership.                                   *)
(*                                                                         *)
(* OwnershipInv says what a command knows of the registry.  The second     *)
(* half also needs DepartureInv, what it knows of the owners it is about   *)
(* to drop: whom a commit displaces, and which children are dead.          *)
(***************************************************************************)
EXTENDS NookInvariant, NookRefinement, TLAPS

-----------------------------------------------------------------------------
(* The route backend.                                                      *)

LEMMA ContainerTyped ==
  ASSUME NEW tls \in BOOLEAN
  PROVE  Container(tls) \in Containers /\ Server(tls) \in Servers
  BY DEF Container, Containers, Server, Servers

LEMMA PutRouteTyped ==
  ASSUME NEW R \in SUBSET Routes, NEW c \in Containers, NEW o \in Owners
  PROVE  PutRoute(R, c, o) \in SUBSET Routes
  BY DEF PutRoute, Routes

LEMMA DropRoutesTyped ==
  ASSUME NEW R \in SUBSET Routes, NEW cs, NEW o
  PROVE  DropRoutes(R, cs, o) \in SUBSET Routes
  BY DEF DropRoutes

Outcomes == [ok : BOOLEAN, routes : SUBSET Routes, fault : BOOLEAN]

LEMMA OutcomeTyped ==
  ASSUME NEW R \in SUBSET Routes, NEW ok \in BOOLEAN, NEW fault \in BOOLEAN
  PROVE  Outcome(ok, R, fault) \in Outcomes
  BY Zenon DEF Outcome, Outcomes

LEMMA TransactionTyped ==
  ASSUME NEW R \in SUBSET Routes, NEW S \in SUBSET Routes, NEW r \in Transaction(R, S)
  PROVE  r \in Outcomes
<1>1. \/ r = Outcome(TRUE, S, FALSE)
      \/ r = Outcome(FALSE, R, TRUE)
      \/ r = Outcome(FALSE, S, TRUE)
  BY DEF Transaction
<1>2. TRUE \in BOOLEAN /\ FALSE \in BOOLEAN
  OBVIOUS
<1> QED
  BY <1>1, <1>2, OutcomeTyped, Zenon

LEMMA EnsureProxyTyped ==
  ASSUME NEW R \in SUBSET Routes, NEW c \in Containers, NEW o \in Owners,
         NEW replace, NEW sel, NEW r \in EnsureProxy(R, c, o, replace, sel)
  PROVE  r \in Outcomes
<1>1. r = Outcome(FALSE, R, FALSE) \/ r \in Transaction(R, PutRoute(R, c, o))
  BY DEF EnsureProxy
<1>2. CASE r = Outcome(FALSE, R, FALSE)
  BY <1>2, OutcomeTyped
<1>3. CASE r \in Transaction(R, PutRoute(R, c, o))
  BY <1>3, PutRouteTyped, TransactionTyped
<1> QED
  BY <1>1, <1>2, <1>3

LEMMA EnsureTyped ==
  ASSUME NEW R \in SUBSET Routes, NEW o \in Owners, NEW replace, NEW sel,
         NEW r \in Ensure(R, o, replace, sel)
  PROVE  r \in Outcomes
<1>1. Container(Tls[o]) \in Containers /\ "lan" \in Containers
  BY OwnersAreTyped, ContainerTyped DEF Containers
<1>2. CASE ~Lan[o]
  BY <1>1, <1>2, EnsureProxyTyped DEF Ensure
<1>3. CASE Lan[o]
  <2>1. PICK first \in EnsureProxy(R, "lan", o, replace, sel) :
          r \in IF first.ok
                  THEN EnsureProxy(first.routes, Container(Tls[o]), o, replace, sel)
                  ELSE {first}
    BY <1>3 DEF Ensure
  <2>2. first \in Outcomes
    BY <1>1, EnsureProxyTyped
  <2>3. first.routes \in SUBSET Routes
    BY <2>2 DEF Outcomes
  <2> QED
    BY <1>1, <2>1, <2>2, <2>3, EnsureProxyTyped
<1> QED
  BY <1>2, <1>3

LEMMA RemoveTyped ==
  ASSUME NEW R \in SUBSET Routes, NEW o \in Owners, NEW tls \in BOOLEAN, NEW sel,
         NEW r \in RemoveIfOwned(R, o, tls, sel)
  PROVE  r \in Outcomes
<1>1. CASE Server(tls) \notin sel
  <2>1. r = Outcome(FALSE, R, FALSE)
    BY <1>1 DEF RemoveIfOwned
  <2> QED
    BY <2>1, OutcomeTyped
<1>2. CASE Server(tls) \in sel /\ ~tls
  BY <1>2, DropRoutesTyped, TransactionTyped DEF RemoveIfOwned
<1>3. CASE Server(tls) \in sel /\ tls
  <2>1. PICK first \in Transaction(R, DropRoutes(R, {"https"}, o)) :
          r \in IF first.ok THEN RemoveCompanion(first.routes, o, sel) ELSE {first}
    BY <1>3 DEF RemoveIfOwned
  <2>2. first \in Outcomes
    BY DropRoutesTyped, TransactionTyped
  <2>3. first.routes \in SUBSET Routes
    BY <2>2 DEF Outcomes
  <2>4. \A s \in RemoveCompanion(first.routes, o, sel) : s \in Outcomes
    <3> SUFFICES ASSUME NEW s \in RemoveCompanion(first.routes, o, sel)
                 PROVE  s \in Outcomes
      OBVIOUS
    <3>1. \/ s \in Transaction(first.routes, DropRoutes(first.routes, {"lan"}, o))
          \/ s = Outcome(TRUE, first.routes, FALSE)
          \/ s = Outcome(FALSE, first.routes, TRUE)
      BY DEF RemoveCompanion
    <3>2. CASE s \in Transaction(first.routes, DropRoutes(first.routes, {"lan"}, o))
      BY <2>3, <3>2, DropRoutesTyped, TransactionTyped
    <3> QED
      BY <2>3, <3>1, <3>2, OutcomeTyped
  <2> QED
    BY <2>1, <2>2, <2>4
<1> QED
  BY <1>1, <1>2, <1>3

-----------------------------------------------------------------------------
(* Type correctness.                                                       *)

LEMMA SpendTyped ==
  ASSUME TypeOK, NEW fault, Spend(fault)
  PROVE  faults' \in 0..MaxFaults
<1>1. faults' = faults \/ faults' = faults + 1
  BY DEF Spend, TypeOK
<1> QED
  BY <1>1, FaultsAreBounded DEF TypeOK, Spend

LEMMA CallTyped ==
  ASSUME TypeOK, NEW r \in Outcomes, Call(r)
  PROVE  routes' \subseteq Routes /\ faults' \in 0..MaxFaults
<1>1. routes' \subseteq Routes
  BY DEF Outcomes, Call
<1>2. faults' \in 0..MaxFaults
  BY SpendTyped DEF Call
<1> QED
  BY <1>1, <1>2

LEMMA GotoTyped ==
  ASSUME TypeOK, NEW p \in Procs, NEW label \in Labels, NEW memory \in Locals,
         Goto(p, label, memory)
  PROVE  pc' \in [Procs -> Labels] /\ local' \in [Procs -> Locals]
  BY DEF TypeOK, Goto

LEMMA IdleTyped == Idle \in Locals
  BY FaultsAreBounded DEF Locals, Idle

LEMMA KillTyped ==
  ASSUME NEW os, TypeOK, Kill(os)
  PROVE  child' \in [Owners -> {"none", "alive", "dead"}]
  BY DEF Kill, TypeOK

LEMMA MemoryTyped ==
  ASSUME TypeOK, NEW p \in Procs
  PROVE  /\ local[p] \in Locals
         /\ local[p].cmd \in Commands \cup {"none"}
         /\ local[p].force \in BOOLEAN
         /\ local[p].sel \subseteq Servers
         /\ local[p].apps \subseteq Owners
         /\ local[p].displaced \subseteq Owners
         /\ local[p].todo \subseteq Owners
         /\ local[p].failed \subseteq Owners
         /\ local[p].ops \subseteq PendingOperations
         /\ local[p].kept \subseteq PendingOperations
         /\ local[p].orphans \subseteq Routes
         /\ local[p].dead \subseteq Owners
         /\ local[p].unsure \subseteq Owners
         /\ local[p].mark \in 0..MaxFaults
<1>1. local[p] \in Locals
  BY DEF TypeOK
<1> QED
  BY <1>1 DEF Locals

LEMMA OpTyped ==
  ASSUME NEW kind \in Kinds, NEW o \in Owners
  PROVE  Op(kind, o) \in PendingOperations
  BY Zenon DEF Op, PendingOperations

\* A step that calls Caddy and touches nothing else outside its memory.
LEMMA CallStepTyped ==
  ASSUME TypeOK, NEW p \in Procs, NEW label \in Labels, NEW memory \in Locals,
         NEW r \in Outcomes, Call(r), Goto(p, label, memory),
         UNCHANGED <<registry, child, used>>, operations' \in {operations, NoProc}
  PROVE  TypeOK'
<1>1. pc' \in [Procs -> Labels] /\ local' \in [Procs -> Locals]
  BY GotoTyped
<1>2. operations' \in Procs \cup {NoProc}
  BY DEF TypeOK
<1>3. routes' \subseteq Routes /\ faults' \in 0..MaxFaults
  BY CallTyped
<1> QED
  BY <1>1, <1>2, <1>3 DEF TypeOK, registry

\* A step that writes the registry, or takes or frees the lock.
LEMMA WriteStepTyped ==
  ASSUME TypeOK, NEW p \in Procs, NEW label \in Labels, NEW memory \in Locals,
         Goto(p, label, memory),
         aliases' \subseteq Owners, leases' \subseteq Owners, grouped' \subseteq leases',
         pending' \subseteq PendingOperations, used' \subseteq Owners,
         child' \in [Owners -> {"none", "alive", "dead"}],
         operations' \in {operations, NoProc, p}, faults' \in 0..MaxFaults,
         UNCHANGED routes
  PROVE  TypeOK'
<1>1. pc' \in [Procs -> Labels] /\ local' \in [Procs -> Locals]
  BY GotoTyped
<1>2. operations' \in Procs \cup {NoProc}
  BY DEF TypeOK
<1> QED
  BY <1>1, <1>2 DEF TypeOK

LEMMA RemovalTyped ==
  ASSUME NEW os \in SUBSET Owners
  PROVE  Removal(os) \subseteq PendingOperations
<1>1. "remove" \in Kinds
  BY DEF Kinds, RemovingKinds
<1> QED
  BY <1>1, OpTyped DEF Removal

\* A step of a command that keeps the types of the registry.
LEMMA AliasTyped ==
  ASSUME OwnershipInv, NEW p \in Procs,
         \/ \E o \in Owners, f \in BOOLEAN : "alias" \in Commands /\ SetAlias(p, o, f)
         \/ AliasEnsure(p) \/ AliasPublish(p) \/ AliasUndo(p) \/ AliasRestore(p)
         \/ AliasDrop(p) \/ AliasClean(p) \/ AliasCommit(p)
  PROVE  TypeOK'
<1> DEFINE me == local[p]
<1>1. TypeOK /\ me \in Locals
  BY MemoryTyped DEF OwnershipInv
<1>2. pc[p] \in AliasLabels => me.cur \in Owners /\ Tls[me.cur] \in BOOLEAN
  BY MemoryTyped, OwnersAreTyped DEF OwnershipInv, CommandInv, Loops
<1>3. ASSUME NEW o \in Owners, NEW f \in BOOLEAN, "alias" \in Commands, SetAlias(p, o, f)
      PROVE  TypeOK'
  <2> DEFINE memory == [Idle EXCEPT !.cmd = "alias", !.force = f, !.sel = {Server(Tls[o])},
                                    !.apps = {o}, !.cur = o, !.displaced = Displaced(Host[o])]
  <2>1. Displaced(Host[o]) \subseteq Owners
    BY <1>1 DEF Displaced, OwnersOf, Registered, TypeOK
  <2>2. {Server(Tls[o])} \subseteq Servers
    BY OwnersAreTyped, ContainerTyped
  <2>3. memory \in Locals
    BY <1>3, <2>1, <2>2, IdleTyped, CommandsExist, FaultsAreBounded DEF Idle, Locals
  <2>4. "aliasEnsure" \in Labels /\ Goto(p, "aliasEnsure", memory)
    BY <1>3 DEF SetAlias, Labels, LockedLabels
  <2>5. pc' \in [Procs -> Labels] /\ local' \in [Procs -> Locals]
    BY <1>1, <2>3, <2>4, GotoTyped
  <2>6. pending' \subseteq PendingOperations
    BY <1>1, <1>3, OpTyped DEF SetAlias, TypeOK, Kinds, RemovingKinds
  <2> QED
    BY <1>1, <1>3, <2>5, <2>6 DEF SetAlias, Lock, TypeOK
<1>4. CASE AliasEnsure(p)
  <2>1. PICK r \in Ensure(routes, me.cur, me.force, me.sel) :
          /\ Call(r)
          /\ IF r.ok THEN operations' = operations /\ Goto(p, "aliasPublish", me)
                     ELSE Return(p)
    BY <1>4 DEF AliasEnsure
  <2>2. r \in Outcomes
    BY <1>1, <1>2, <1>4, EnsureTyped DEF AliasEnsure, AliasLabels, TypeOK
  <2>3. "aliasPublish" \in Labels /\ "idle" \in Labels
    BY DEF Labels, LockedLabels
  <2>4. pc' \in [Procs -> Labels] /\ local' \in [Procs -> Locals]
    BY <1>1, <2>1, <2>3, IdleTyped, GotoTyped DEF Return
  <2>5. operations' \in Procs \cup {NoProc}
    BY <1>1, <2>1 DEF Return, Unlock, TypeOK
  <2> QED
    BY <1>1, <1>4, <2>1, <2>2, <2>4, <2>5, CallTyped DEF AliasEnsure, TypeOK, registry

<1>5. CASE AliasPublish(p)
  <2>1. [me EXCEPT !.todo = me.displaced] \in Locals
    BY <1>1 DEF Locals
  <2>2. "aliasClean" \in Labels /\ "aliasUndo" \in Labels
    BY DEF Labels, LockedLabels
  <2>3. UNCHANGED <<registry, routes, child, operations, used, faults>>
    BY <1>5 DEF AliasPublish
  <2>4. pc' \in [Procs -> Labels] /\ local' \in [Procs -> Locals]
    BY <1>1, <1>5, <2>1, <2>2, GotoTyped DEF AliasPublish
  <2> QED
    BY <1>1, <2>3, <2>4 DEF TypeOK, registry
<1>6. CASE AliasUndo(p)
  <2>1. PICK r \in RemoveIfOwned(routes, me.cur, Tls[me.cur], me.sel) :
          /\ Call(r)
          /\ Goto(p, "aliasRestore", [me EXCEPT !.todo = me.displaced,
                                       !.failed = IF r.ok THEN {} ELSE {me.cur}])
    BY <1>6 DEF AliasUndo
  <2>2. me.cur \in Owners /\ r \in Outcomes
    BY <1>1, <1>2, <1>6, RemoveTyped DEF AliasUndo, AliasLabels, TypeOK
  <2>3. [me EXCEPT !.todo = me.displaced,
                   !.failed = IF r.ok THEN {} ELSE {me.cur}] \in Locals
    BY <1>1, <2>2 DEF Locals
  <2>4. "aliasRestore" \in Labels
    BY DEF Labels, LockedLabels
  <2> QED
    BY <1>1, <1>6, <2>1, <2>2, <2>3, <2>4, CallStepTyped DEF AliasUndo
<1>7. CASE AliasRestore(p)
  <2>1. PICK d \in me.todo : \E r \in Ensure(routes, d, TRUE, me.sel) :
          Call(r) /\ Goto(p, "aliasRestore", [me EXCEPT !.todo = @ \ {d}])
    BY <1>7 DEF AliasRestore
  <2>2. PICK r \in Ensure(routes, d, TRUE, me.sel) :
          Call(r) /\ Goto(p, "aliasRestore", [me EXCEPT !.todo = @ \ {d}])
    BY <2>1
  <2>3. d \in Owners /\ r \in Outcomes
    BY <1>1, MemoryTyped, EnsureTyped DEF TypeOK
  <2>4. [me EXCEPT !.todo = @ \ {d}] \in Locals
    BY <1>1 DEF Locals
  <2>5. "aliasRestore" \in Labels
    BY DEF Labels, LockedLabels
  <2> QED
    BY <1>1, <1>7, <2>2, <2>3, <2>4, <2>5, CallStepTyped DEF AliasRestore
<1>8. CASE AliasDrop(p)
  <2>1. pending' \subseteq PendingOperations
    BY <1>1, <1>8, MemoryTyped, RemovalTyped DEF AliasDrop, TypeOK
  <2>2. "idle" \in Labels
    BY DEF Labels
  <2> QED
    BY <1>1, <1>8, <2>1, <2>2, IdleTyped, WriteStepTyped
    DEF AliasDrop, Return, Unlock, TypeOK
<1>9. CASE AliasClean(p)
  <2>1. PICK d \in me.todo : \E r \in RemoveIfOwned(routes, d, Tls[d], me.sel) :
          /\ Call(r)
          /\ Goto(p, "aliasClean",
                  [me EXCEPT !.todo = @ \ {d}, !.failed = IF r.ok THEN @ ELSE @ \cup {d}])
    BY <1>9 DEF AliasClean
  <2>2. PICK r \in RemoveIfOwned(routes, d, Tls[d], me.sel) :
          /\ Call(r)
          /\ Goto(p, "aliasClean",
                  [me EXCEPT !.todo = @ \ {d}, !.failed = IF r.ok THEN @ ELSE @ \cup {d}])
    BY <2>1
  <2>3. d \in Owners /\ Tls[d] \in BOOLEAN
    BY <1>1, MemoryTyped, OwnersAreTyped
  <2>4. r \in Outcomes
    BY <1>1, <2>3, RemoveTyped DEF TypeOK
  <2>5. [me EXCEPT !.todo = @ \ {d}, !.failed = IF r.ok THEN @ ELSE @ \cup {d}] \in Locals
    BY <1>1, <2>3 DEF Locals
  <2>6. "aliasClean" \in Labels
    BY DEF Labels, LockedLabels
  <2> QED
    BY <1>1, <1>9, <2>2, <2>4, <2>5, <2>6, CallStepTyped DEF AliasClean
<1>10. CASE AliasCommit(p)
  <2>1. pending' \subseteq PendingOperations
    BY <1>1, <1>10, MemoryTyped, RemovalTyped DEF AliasCommit, JournalWithout, TypeOK
  <2>2. me.cur \in Owners
    BY <1>2, <1>10 DEF AliasCommit, AliasLabels
  <2>3. /\ aliases' \subseteq Owners /\ leases' \subseteq Owners
        /\ grouped' \subseteq leases'
    BY <1>1, <1>10, <2>2 DEF AliasCommit, TypeOK
  <2>4. "idle" \in Labels
    BY DEF Labels
  <2> QED
    BY <1>1, <1>10, <2>1, <2>3, <2>4, IdleTyped, WriteStepTyped
    DEF AliasCommit, Return, Unlock, TypeOK
<1> QED
  BY <1>3, <1>4, <1>5, <1>6, <1>7, <1>8, <1>9, <1>10

LEMMA UnaliasTyped ==
  ASSUME OwnershipInv, NEW p \in Procs,
         \/ \E a \in Owners, t \in BOOLEAN : "unalias" \in Commands /\ RemoveAlias(p, a, t)
         \/ UnaliasRemove(p) \/ UnaliasDone(p)
  PROVE  TypeOK'
<1> DEFINE me == local[p]
<1>1. TypeOK /\ me \in Locals
  BY MemoryTyped DEF OwnershipInv
<1>2. ASSUME NEW a \in Owners, NEW t \in BOOLEAN, "unalias" \in Commands, RemoveAlias(p, a, t)
      PROVE  TypeOK'
  <2> DEFINE memory == [Idle EXCEPT !.cmd = "unalias", !.sel = {Server(t)}, !.cur = a]
  <2>1. memory \in Locals
    BY <1>2, ContainerTyped, IdleTyped, FaultsAreBounded DEF Idle, Locals
  <2>2. "unaliasRemove" \in Labels /\ Goto(p, "unaliasRemove", memory)
    BY <1>2 DEF RemoveAlias, Labels, LockedLabels
  <2>3. pending' \subseteq PendingOperations
    BY <1>1, <1>2, OpTyped DEF RemoveAlias, TypeOK, Kinds, RemovingKinds
  <2> QED
    BY <1>1, <1>2, <2>1, <2>2, <2>3, WriteStepTyped DEF RemoveAlias, Lock, TypeOK
<1>3. CASE UnaliasRemove(p)
  <2>1. PICK r \in RemoveIfOwned(routes, me.cur, Tls[me.cur], me.sel) :
          /\ Call(r)
          /\ IF r.ok THEN operations' = operations /\ Goto(p, "unaliasDone", me)
                     ELSE Return(p)
    BY <1>3 DEF UnaliasRemove
  <2>2. me.cur \in Owners /\ Tls[me.cur] \in BOOLEAN
    BY <1>1, <1>3, OwnersAreTyped DEF UnaliasRemove, OwnershipInv, CommandInv, Loops, TypeOK
  <2>3. r \in Outcomes
    BY <1>1, <2>2, RemoveTyped DEF TypeOK
  <2>4. "unaliasDone" \in Labels /\ "idle" \in Labels
    BY DEF Labels, LockedLabels
  <2>5. CASE r.ok
    BY <1>1, <1>3, <2>1, <2>3, <2>4, <2>5, CallStepTyped DEF UnaliasRemove
  <2>6. CASE ~r.ok
    BY <1>1, <1>3, <2>1, <2>3, <2>4, <2>6, IdleTyped, CallStepTyped
    DEF UnaliasRemove, Return, Unlock
  <2> QED
    BY <2>5, <2>6
<1>4. CASE UnaliasDone(p)
  <2>1. "idle" \in Labels
    BY DEF Labels
  <2> QED
    BY <1>1, <1>4, <2>1, IdleTyped, WriteStepTyped DEF UnaliasDone, Return, Unlock, TypeOK
<1> QED
  BY <1>2, <1>3, <1>4

\* Giving up prepared apps only moves the command.
LEMMA RollBackTyped ==
  ASSUME TypeOK, NEW p \in Procs, NEW me \in Locals, NEW prepared \in SUBSET Owners,
         RollBack(p, me, prepared)
  PROVE  /\ operations' \in Procs \cup {NoProc}
         /\ pc' \in [Procs -> Labels] /\ local' \in [Procs -> Locals]
<1>1. [me EXCEPT !.apps = prepared, !.todo = prepared] \in Locals
  BY DEF Locals
<1>2. {"idle", "rollback", "abandon"} \subseteq Labels
  BY DEF Labels, LockedLabels
<1>3. operations' \in Procs \cup {NoProc}
  BY DEF RollBack, Return, Unlock, TypeOK
<1>4. \/ Goto(p, "idle", Idle)
      \/ Goto(p, "rollback", [me EXCEPT !.apps = prepared, !.todo = prepared])
      \/ Goto(p, "abandon", [me EXCEPT !.apps = prepared, !.todo = prepared])
  BY DEF RollBack, Return
<1> QED
  BY <1>1, <1>2, <1>3, <1>4, IdleTyped, GotoTyped

LEMMA AbandonCurrentTyped ==
  ASSUME TypeOK, NEW p \in Procs, NEW me \in Locals, me.cur \in Owners,
         AbandonCurrent(p, me)
  PROVE  pc' \in [Procs -> Labels] /\ local' \in [Procs -> Locals]
<1> DEFINE todo == IF me.cmd = "runner" THEN {me.cur} ELSE me.apps \ me.todo
           memory == [me EXCEPT !.apps = me.apps \ me.todo, !.todo = todo]
<1>1. me.apps \ me.todo \subseteq Owners /\ todo \subseteq Owners
  BY DEF Locals
<1>2. memory \in Locals
  <2> HIDE DEF todo
  <2> QED
    BY <1>1 DEF Locals
<1>3. "abandon" \in Labels
  BY DEF Labels, LockedLabels
<1>4. Goto(p, "abandon", memory)
  BY DEF AbandonCurrent
<1> QED
  BY <1>2, <1>3, <1>4, GotoTyped

LEMMA StartTyped ==
  ASSUME OwnershipInv, NEW p \in Procs, NEW c \in Commands \cap {"run", "workspace", "runner"},
         NEW apps \in SUBSET Owners, NEW force \in BOOLEAN, StartRun(p, c, apps, force)
  PROVE  TypeOK'
<1> DEFINE sel == {Server(Tls[a]) : a \in apps}
                    \cup (IF \E a \in apps : Lan[a] THEN {"HTTP"} ELSE {})
           memory == [Idle EXCEPT !.cmd = c, !.force = force, !.apps = apps, !.todo = apps,
                                  !.sel = sel]
<1>1. TypeOK
  BY DEF OwnershipInv
<1>2. sel \in SUBSET Servers
  BY OwnersAreTyped, ContainerTyped DEF Servers
<1>3. memory \in Locals
  <2> HIDE DEF sel
  <2> QED
    BY <1>2, IdleTyped DEF Idle, Locals
<1>4. "prepare" \in Labels /\ Goto(p, "prepare", memory)
  BY DEF StartRun, Labels, LockedLabels
<1> QED
  BY <1>1, <1>3, <1>4, WriteStepTyped DEF StartRun, Lock, TypeOK, registry

LEMMA PrepareTyped ==
  ASSUME OwnershipInv, NEW p \in Procs,
         \/ PrepareRun(p) \/ PrepareRejected(p) \/ EnsureRun(p) \/ JournalFails(p)
         \/ JournalStart(p)
  PROVE  TypeOK'
<1> DEFINE me == local[p]
<1>1. TypeOK /\ me \in Locals
  BY MemoryTyped DEF OwnershipInv
<1>2. pc[p] \in {"ensure", "journal"} => me.cur \in Owners
  BY <1>1, MemoryTyped DEF OwnershipInv, CommandInv, Loops
<1>3. CASE PrepareRun(p)
  <2>1. PICK a \in me.todo :
          /\ pending' = pending \cup {Op("install", a)}
          /\ Goto(p, "ensure", [me EXCEPT !.cur = a, !.todo = @ \ {a},
                                          !.displaced = @ \cup Displaced(Host[a])])
    BY <1>3 DEF PrepareRun
  <2>2. a \in Owners /\ Displaced(Host[a]) \in SUBSET Owners
    BY <1>1, MemoryTyped DEF Displaced, OwnersOf, Registered, TypeOK
  <2>3. [me EXCEPT !.cur = a, !.todo = @ \ {a},
                   !.displaced = @ \cup Displaced(Host[a])] \in Locals
    BY <1>1, <2>2 DEF Locals
  <2>4. "ensure" \in Labels
    BY DEF Labels, LockedLabels
  <2>5. pending' \subseteq PendingOperations
    BY <1>1, <2>1, <2>2, OpTyped DEF TypeOK, Kinds, RemovingKinds
  <2> QED
    BY <1>1, <1>3, <2>1, <2>3, <2>4, <2>5, WriteStepTyped DEF PrepareRun, TypeOK
<1>4. CASE PrepareRejected(p)
  <2>1. RollBack(p, me, me.apps \ me.todo)
    BY <1>4 DEF PrepareRejected
  <2>2. me.apps \ me.todo \in SUBSET Owners
    BY <1>1, MemoryTyped
  <2> QED
    BY <1>1, <1>4, <2>1, <2>2, RollBackTyped DEF PrepareRejected, TypeOK, registry
<1>5. CASE EnsureRun(p)
  <2>1. PICK r \in Ensure(routes, me.cur, me.force, me.sel) :
          Call(r) /\ (IF r.ok THEN Goto(p, "journal", me) ELSE AbandonCurrent(p, me))
    BY <1>5 DEF EnsureRun
  <2>2. r \in Outcomes
    BY <1>1, <1>2, <1>5, EnsureTyped DEF EnsureRun, TypeOK
  <2>3. "journal" \in Labels
    BY DEF Labels, LockedLabels
  <2>4. pc' \in [Procs -> Labels] /\ local' \in [Procs -> Locals]
    BY <1>1, <1>2, <1>5, <2>1, <2>3, GotoTyped, AbandonCurrentTyped DEF EnsureRun
  <2>5. routes' \subseteq Routes /\ faults' \in 0..MaxFaults
    BY <1>1, <2>1, <2>2, CallTyped
  <2> QED
    BY <1>1, <1>5, <2>4, <2>5 DEF EnsureRun, TypeOK, registry
<1>6. CASE JournalFails(p)
  <2>1. pc' \in [Procs -> Labels] /\ local' \in [Procs -> Locals]
    BY <1>1, <1>2, <1>6, AbandonCurrentTyped DEF JournalFails
  <2>2. faults' \in 0..MaxFaults
    BY <1>1, <1>6, SpendTyped DEF JournalFails
  <2> QED
    BY <1>1, <1>6, <2>1, <2>2 DEF JournalFails, TypeOK, registry
<1>7. CASE JournalStart(p)
  <2>1. pending' \subseteq PendingOperations
    BY <1>1, <1>2, <1>7, OpTyped DEF JournalStart, TypeOK, Kinds, RemovingKinds
  <2>2. [me EXCEPT !.todo = me.apps] \in Locals
    BY <1>1 DEF Locals
  <2>3. "spawn" \in Labels /\ "prepare" \in Labels
    BY DEF Labels, LockedLabels
  <2>4. Goto(p, "spawn", [me EXCEPT !.todo = me.apps]) \/ Goto(p, "prepare", me)
    BY <1>7 DEF JournalStart
  <2> QED
    BY <1>1, <1>7, <2>1, <2>2, <2>3, <2>4, WriteStepTyped DEF JournalStart, TypeOK
<1> QED
  BY <1>3, <1>4, <1>5, <1>6, <1>7

LEMMA CommitTyped ==
  ASSUME OwnershipInv, NEW p \in Procs,
         \/ Spawn(p) \/ SpawnFails(p) \/ CleanDisplaced(p) \/ CommitRuns(p)
         \/ CommitFails(p) \/ Relock(p)
  PROVE  TypeOK'
<1> DEFINE me == local[p]
<1>1. TypeOK /\ me \in Locals /\ me.apps \in SUBSET Owners
  BY MemoryTyped DEF OwnershipInv
<1>2. CASE Spawn(p)
  <2>1. PICK started \in IF me.cmd = "runner" THEN {me.apps} ELSE {{a} : a \in me.todo} :
          /\ child' = [o \in Owners |-> IF o \in started THEN "alive" ELSE child[o]]
          /\ IF me.todo = started
               THEN Goto(p, "clean", [me EXCEPT !.todo = me.displaced])
               ELSE Goto(p, "spawn", [me EXCEPT !.todo = @ \ started])
    BY <1>2 DEF Spawn
  <2>2. /\ [me EXCEPT !.todo = me.displaced] \in Locals
        /\ [me EXCEPT !.todo = @ \ started] \in Locals
    BY <1>1 DEF Locals
  <2>3. "clean" \in Labels /\ "spawn" \in Labels
    BY DEF Labels, LockedLabels
  <2>4. child' \in [Owners -> {"none", "alive", "dead"}]
    BY <1>1, <2>1 DEF TypeOK
  <2>5. pc' \in [Procs -> Labels] /\ local' \in [Procs -> Locals]
    BY <1>1, <2>1, <2>2, <2>3, GotoTyped
  <2> QED
    BY <1>1, <1>2, <2>4, <2>5 DEF Spawn, TypeOK, registry
<1>3. CASE SpawnFails(p)
  BY <1>1, <1>3, KillTyped, RollBackTyped DEF SpawnFails, TypeOK, registry
<1>4. CASE CleanDisplaced(p)
  <2>1. PICK d \in me.todo : \E r \in RemoveIfOwned(routes, d, Tls[d], me.sel) :
          /\ Call(r)
          /\ Goto(p, "clean",
                  [me EXCEPT !.todo = @ \ {d}, !.failed = IF r.ok THEN @ ELSE @ \cup {d}])
    BY <1>4 DEF CleanDisplaced
  <2>2. PICK r \in RemoveIfOwned(routes, d, Tls[d], me.sel) :
          /\ Call(r)
          /\ Goto(p, "clean",
                  [me EXCEPT !.todo = @ \ {d}, !.failed = IF r.ok THEN @ ELSE @ \cup {d}])
    BY <2>1
  <2>3. d \in Owners /\ Tls[d] \in BOOLEAN
    BY <1>1, MemoryTyped, OwnersAreTyped
  <2>4. r \in Outcomes
    BY <1>1, <2>3, RemoveTyped DEF TypeOK
  <2>5. [me EXCEPT !.todo = @ \ {d}, !.failed = IF r.ok THEN @ ELSE @ \cup {d}] \in Locals
    BY <1>1, <2>3 DEF Locals
  <2>6. "clean" \in Labels
    BY DEF Labels, LockedLabels
  <2> QED
    BY <1>1, <1>4, <2>2, <2>4, <2>5, <2>6, CallStepTyped DEF CleanDisplaced
<1>5. CASE CommitRuns(p)
  <2> DEFINE memory == [Idle EXCEPT !.cmd = me.cmd, !.sel = me.sel, !.apps = me.apps]
  <2>1. memory \in Locals
    BY <1>1, IdleTyped DEF Idle, Locals
  <2>2. "live" \in Labels /\ Goto(p, "live", memory)
    BY <1>5 DEF CommitRuns, Labels
  <2>3. pending' \subseteq PendingOperations
    BY <1>1, <1>5, MemoryTyped, RemovalTyped DEF CommitRuns, JournalWithout, TypeOK
  <2>4. aliases' \subseteq Owners /\ leases' \subseteq Owners /\ grouped' \subseteq leases'
    BY <1>1, <1>5 DEF CommitRuns, TypeOK
  <2> QED
    BY <1>1, <1>5, <2>1, <2>2, <2>3, <2>4, WriteStepTyped DEF CommitRuns, Unlock, TypeOK
<1>6. CASE CommitFails(p)
  <2>1. [me EXCEPT !.failed = {}] \in Locals
    BY <1>1 DEF Locals
  <2>2. RollBack(p, [me EXCEPT !.failed = {}], me.apps)
    BY <1>6 DEF CommitFails
  <2>3. faults' \in 0..MaxFaults
    BY <1>1, <1>6, SpendTyped DEF CommitFails
  <2>4. /\ operations' \in Procs \cup {NoProc}
        /\ pc' \in [Procs -> Labels] /\ local' \in [Procs -> Locals]
    BY <1>1, <2>1, <2>2, RollBackTyped
  <2> QED
    BY <1>1, <1>6, <2>3, <2>4, KillTyped DEF CommitFails, TypeOK, registry
<1>7. CASE Relock(p)
  <2>1. "abandon" \in Labels
    BY DEF Labels, LockedLabels
  <2> QED
    BY <1>1, <1>7, <2>1, WriteStepTyped DEF Relock, Lock, TypeOK, registry
<1> QED
  BY <1>2, <1>3, <1>4, <1>5, <1>6, <1>7

LEMMA AbandonTyped ==
  ASSUME OwnershipInv, NEW p \in Procs,
         Abandon(p) \/ AbandonRestore(p) \/ AbandonWrite(p)
  PROVE  TypeOK'
<1> DEFINE me == local[p]
<1>1. TypeOK /\ me \in Locals /\ me.apps \in SUBSET Owners
  BY MemoryTyped DEF OwnershipInv
<1>2. CASE Abandon(p)
  <2>1. PICK a \in me.todo : \E r \in RemoveIfOwned(routes, a, Tls[a], me.sel) :
          /\ Call(r)
          /\ Goto(p, "abandonRestore", [me EXCEPT !.cur = a,
                                         !.failed = IF r.ok THEN {} ELSE {a}])
    BY <1>2 DEF Abandon
  <2>2. PICK r \in RemoveIfOwned(routes, a, Tls[a], me.sel) :
          /\ Call(r)
          /\ Goto(p, "abandonRestore", [me EXCEPT !.cur = a,
                                         !.failed = IF r.ok THEN {} ELSE {a}])
    BY <2>1
  <2>3. a \in Owners /\ Tls[a] \in BOOLEAN
    BY <1>1, MemoryTyped, OwnersAreTyped
  <2>4. r \in Outcomes
    BY <1>1, <2>3, RemoveTyped DEF TypeOK
  <2>5. [me EXCEPT !.cur = a, !.failed = IF r.ok THEN {} ELSE {a}] \in Locals
    BY <1>1, <2>3 DEF Locals
  <2>6. "abandonRestore" \in Labels
    BY DEF Labels, LockedLabels
  <2> QED
    BY <1>1, <1>2, <2>2, <2>4, <2>5, <2>6, CallStepTyped DEF Abandon
<1>3. CASE AbandonRestore(p)
  <2>1. PICK d \in me.displaced : \E r \in Ensure(routes, d, TRUE, me.sel) :
          Call(r) /\ Goto(p, "abandonRestore", [me EXCEPT !.displaced = @ \ {d}])
    BY <1>3 DEF AbandonRestore
  <2>2. PICK r \in Ensure(routes, d, TRUE, me.sel) :
          Call(r) /\ Goto(p, "abandonRestore", [me EXCEPT !.displaced = @ \ {d}])
    BY <2>1
  <2>3. r \in Outcomes
    BY <1>1, MemoryTyped, EnsureTyped DEF TypeOK
  <2>4. [me EXCEPT !.displaced = @ \ {d}] \in Locals
    BY <1>1 DEF Locals
  <2>5. "abandonRestore" \in Labels
    BY DEF Labels, LockedLabels
  <2> QED
    BY <1>1, <1>3, <2>2, <2>3, <2>4, <2>5, CallStepTyped DEF AbandonRestore
<1>4. CASE AbandonWrite(p)
  <2> DEFINE left == me.apps \ {me.cur}
             memory == [me EXCEPT !.apps = left, !.todo = @ \ {me.cur}]
  <2>1. pending' \subseteq PendingOperations
    BY <1>1, <1>4, MemoryTyped, RemovalTyped DEF AbandonWrite, TypeOK
  <2>2. faults' \in 0..MaxFaults
    BY <1>1, <1>4, SpendTyped DEF AbandonWrite
  <2>3. memory \in Locals
    BY <1>1 DEF Locals
  <2>4. "abandon" \in Labels
    BY DEF Labels, LockedLabels
  <2>5. \/ operations' = operations /\ Goto(p, "abandon", memory)
        \/ RollBack(p, me, left)
    BY <1>4 DEF AbandonWrite
  <2>6. /\ operations' \in Procs \cup {NoProc}
        /\ pc' \in [Procs -> Labels] /\ local' \in [Procs -> Locals]
    <3>1. CASE operations' = operations /\ Goto(p, "abandon", memory)
      <4> HIDE DEF memory
      <4> QED
        BY <1>1, <2>3, <2>4, <3>1, GotoTyped DEF TypeOK
    <3>2. CASE RollBack(p, me, left)
      BY <1>1, <3>2, RollBackTyped
    <3> QED
      BY <2>5, <3>1, <3>2
  <2> QED
    BY <1>1, <1>4, <2>1, <2>2, <2>6 DEF AbandonWrite, TypeOK
<1> QED
  BY <1>2, <1>3, <1>4

LEMMA FinishTyped ==
  ASSUME OwnershipInv, NEW p \in Procs,
         RunEnds(p) \/ FinishRoute(p) \/ FinishRemove(p) \/ FinishWrite(p)
  PROVE  TypeOK'
<1> DEFINE me == local[p]
<1>1. TypeOK /\ me \in Locals
  BY MemoryTyped DEF OwnershipInv
<1>2. CASE RunEnds(p)
  <2>1. [me EXCEPT !.todo = me.apps] \in Locals
    BY <1>1 DEF Locals
  <2>2. "finish" \in Labels
    BY DEF Labels
  <2> QED
    BY <1>1, <1>2, <2>1, <2>2, KillTyped, WriteStepTyped DEF RunEnds, TypeOK, registry
<1>3. CASE FinishRoute(p)
  <2>1. PICK a \in me.todo : Goto(p, "finishRemove", [me EXCEPT !.cur = a, !.todo = @ \ {a}])
    BY <1>3 DEF FinishRoute
  <2>2. a \in Owners
    BY <1>1, MemoryTyped
  <2>3. [me EXCEPT !.cur = a, !.todo = @ \ {a}] \in Locals
    BY <1>1, <2>2 DEF Locals
  <2>4. "finishRemove" \in Labels
    BY DEF Labels, LockedLabels
  <2> QED
    BY <1>1, <1>3, <2>1, <2>3, <2>4, WriteStepTyped DEF FinishRoute, Lock, TypeOK, registry
<1>4. CASE FinishRemove(p)
  <2>1. PICK r \in RemoveIfOwned(routes, me.cur, Tls[me.cur], me.sel) :
          /\ Call(r)
          /\ Goto(p, "finishWrite", [me EXCEPT !.failed = IF r.ok THEN {} ELSE {me.cur}])
    BY <1>4 DEF FinishRemove
  <2>2. me.cur \in Owners /\ Tls[me.cur] \in BOOLEAN
    BY <1>1, <1>4, MemoryTyped, OwnersAreTyped
    DEF FinishRemove, OwnershipInv, CommandInv, Loops
  <2>3. r \in Outcomes
    BY <1>1, <2>2, RemoveTyped DEF TypeOK
  <2>4. [me EXCEPT !.failed = IF r.ok THEN {} ELSE {me.cur}] \in Locals
    BY <1>1, <2>2 DEF Locals
  <2>5. "finishWrite" \in Labels
    BY DEF Labels, LockedLabels
  <2> QED
    BY <1>1, <1>4, <2>1, <2>3, <2>4, <2>5, CallStepTyped DEF FinishRemove
<1>5. CASE FinishWrite(p)
  <2>1. pending' \subseteq PendingOperations
    BY <1>1, <1>5, MemoryTyped, RemovalTyped DEF FinishWrite, TypeOK
  <2>2. leases' \subseteq Owners /\ grouped' \subseteq leases'
    BY <1>1, <1>5 DEF FinishWrite, TypeOK
  <2>3. faults' \in 0..MaxFaults
    BY <1>1, <1>5, SpendTyped DEF FinishWrite
  <2>4. "idle" \in Labels /\ "finish" \in Labels
    BY DEF Labels
  <2>5. Goto(p, "idle", Idle) \/ Goto(p, "finish", me)
    BY <1>5 DEF FinishWrite
  <2> QED
    BY <1>1, <1>5, <2>1, <2>2, <2>3, <2>4, <2>5, IdleTyped, WriteStepTyped
    DEF FinishWrite, Unlock, TypeOK
<1> QED
  BY <1>2, <1>3, <1>4, <1>5

LEMMA JudgeTyped ==
  ASSUME TypeOK, NEW p \in Procs, NEW me \in Locals, JudgeLeases(p, me)
  PROVE  /\ child' \in [Owners -> {"none", "alive", "dead"}]
         /\ faults' \in 0..MaxFaults
         /\ pc' \in [Procs -> Labels] /\ local' \in [Procs -> Locals]
<1>1. PICK unsure \in SUBSET leases :
        LET dead == {o \in leases \ unsure : IsDead(o)} IN
        /\ Kill(dead \cap grouped)
        /\ Spend(unsure # {})
        /\ Goto(p, "replay", [me EXCEPT !.ops = pending, !.dead = dead, !.unsure = unsure,
                                        !.mark = faults])
  BY DEF JudgeLeases
<1> DEFINE dead == {o \in leases \ unsure : IsDead(o)}
           memory == [me EXCEPT !.ops = pending, !.dead = dead, !.unsure = unsure,
                                !.mark = faults]
<1>2. dead \in SUBSET Owners /\ unsure \in SUBSET Owners
  BY DEF TypeOK
<1>3. pending \in SUBSET PendingOperations /\ faults \in 0..MaxFaults
  BY DEF TypeOK
<1>4. memory \in Locals
  <2> HIDE DEF dead
  <2> QED
    BY <1>2, <1>3 DEF Locals
<1>5. "replay" \in Labels /\ Goto(p, "replay", memory)
  BY <1>1 DEF Labels, LockedLabels
<1>6. faults' \in 0..MaxFaults
  BY <1>1, SpendTyped
<1>7. child' \in [Owners -> {"none", "alive", "dead"}]
  BY <1>1, KillTyped
<1> QED
  BY <1>4, <1>5, <1>6, <1>7, GotoTyped

LEMMA ReconcileTyped ==
  ASSUME OwnershipInv, NEW p \in Procs,
         \/ "reconcile" \in Commands /\ Reconcile(p)
         \/ "prune" \in Commands /\ Prune(p)
         \/ PruneOrphan(p) \/ PruneReconcile(p)
  PROVE  TypeOK'
<1> DEFINE me == local[p]
<1>1. TypeOK /\ me \in Locals
  BY MemoryTyped DEF OwnershipInv
<1>2. CASE "reconcile" \in Commands /\ Reconcile(p)
  <2> DEFINE memory == [Idle EXCEPT !.cmd = "reconcile", !.sel = SelectedServers]
  <2>1. SelectedServers \in SUBSET Servers
    BY DEF SelectedServers, Server, Servers
  <2>2. memory \in Locals
    BY <1>2, <2>1, IdleTyped DEF Idle, Locals
  <2>3. JudgeLeases(p, memory)
    BY <1>2 DEF Reconcile
  <2> HIDE DEF memory
  <2> QED
    BY <1>1, <1>2, <2>2, <2>3, JudgeTyped DEF Reconcile, Lock, TypeOK, registry
<1>3. CASE "prune" \in Commands /\ Prune(p)
  <2> DEFINE observed == {r \in routes : r[2] \notin Registered}
             memory == [Idle EXCEPT !.cmd = "prune", !.sel = Servers, !.orphans = observed]
  <2>1. observed \in SUBSET Routes
    BY <1>1 DEF TypeOK
  <2>2. memory \in Locals
    <3> HIDE DEF observed
    <3> QED
      BY <1>3, <2>1, IdleTyped DEF Idle, Locals
  <2>3. "orphans" \in Labels /\ Goto(p, "orphans", memory)
    BY <1>3 DEF Prune, Labels, LockedLabels
  <2> QED
    BY <1>1, <1>3, <2>2, <2>3, WriteStepTyped DEF Prune, Lock, TypeOK, registry
<1>4. CASE PruneOrphan(p)
  <2>1. PICK seen \in me.orphans :
          \E r \in RemoveIfOwned(routes, seen[2], seen[1] = "https", me.sel) :
            Call(r) /\ Goto(p, "orphans", [me EXCEPT !.orphans = @ \ {seen}])
    BY <1>4 DEF PruneOrphan
  <2>2. PICK r \in RemoveIfOwned(routes, seen[2], seen[1] = "https", me.sel) :
          Call(r) /\ Goto(p, "orphans", [me EXCEPT !.orphans = @ \ {seen}])
    BY <2>1
  <2>3. seen[2] \in Owners /\ (seen[1] = "https") \in BOOLEAN
    BY <1>1, MemoryTyped DEF Routes
  <2>4. r \in Outcomes
    BY <1>1, <2>3, RemoveTyped DEF TypeOK
  <2>5. [me EXCEPT !.orphans = @ \ {seen}] \in Locals
    BY <1>1 DEF Locals
  <2>6. "orphans" \in Labels
    BY DEF Labels, LockedLabels
  <2> QED
    BY <1>1, <1>4, <2>2, <2>4, <2>5, <2>6, CallStepTyped DEF PruneOrphan
<1>5. CASE PruneReconcile(p)
  BY <1>1, <1>5, JudgeTyped DEF PruneReconcile, TypeOK, registry
<1> QED
  BY <1>2, <1>3, <1>4, <1>5

\* The memory of a reconciliation after one of its steps.
LEMMA DraftTyped ==
  ASSUME NEW me \in Locals, NEW op \in PendingOperations, NEW o \in Owners
  PROVE  /\ [me EXCEPT !.ops = @ \ {op}] \in Locals
         /\ [[me EXCEPT !.ops = @ \ {op}] EXCEPT !.kept = @ \cup {op}] \in Locals
         /\ [me EXCEPT !.todo = @ \ {o}] \in Locals
         /\ [[me EXCEPT !.todo = @ \ {o}] EXCEPT !.kept = @ \cup {op}] \in Locals
  BY DEF Locals

LEMMA ReplayTyped ==
  ASSUME OwnershipInv, NEW p \in Procs,
         ReplayRestore(p) \/ ReplayRemoval(p) \/ Replayed(p)
  PROVE  TypeOK'
<1> DEFINE me == local[p]
<1>1. TypeOK /\ me \in Locals
  BY MemoryTyped DEF OwnershipInv
<1>2. "replay" \in Labels /\ "routes" \in Labels
  BY DEF Labels, LockedLabels
<1>3. CASE ReplayRestore(p)
  <2>1. PICK op \in me.ops :
          LET rest == [me EXCEPT !.ops = @ \ {op}] IN
          /\ op.kind = "restore"
          /\ \/ Goto(p, "replay", rest) /\ UNCHANGED <<routes, faults>>
             \/ /\ Goto(p, "replay", [rest EXCEPT !.kept = @ \cup {op}])
                /\ UNCHANGED <<routes, faults>>
             \/ \E r \in Ensure(routes, op.owner, FALSE, me.sel) :
                  /\ Call(r)
                  /\ Goto(p, "replay", IF r.ok THEN rest ELSE [rest EXCEPT !.kept = @ \cup {op}])
    BY <1>3 DEF ReplayRestore
  <2>2. op \in PendingOperations /\ op.owner \in Owners
    BY <1>1, MemoryTyped DEF PendingOperations
  <2> DEFINE rest == [me EXCEPT !.ops = @ \ {op}]
             again == [rest EXCEPT !.kept = @ \cup {op}]
  <2>3. rest \in Locals /\ again \in Locals
    BY <1>1, <2>2, DraftTyped
  <2>4. UNCHANGED <<registry, child, operations, used>>
    BY <1>3 DEF ReplayRestore
  <2>5. \/ (Goto(p, "replay", rest) \/ Goto(p, "replay", again)) /\ UNCHANGED <<routes, faults>>
        \/ \E r \in Ensure(routes, op.owner, FALSE, me.sel) :
             Call(r) /\ Goto(p, "replay", IF r.ok THEN rest ELSE again)
    BY <2>1
  <2> HIDE DEF rest, again
  <2>6. CASE (Goto(p, "replay", rest) \/ Goto(p, "replay", again)) /\ UNCHANGED <<routes, faults>>
    <3>1. pc' \in [Procs -> Labels] /\ local' \in [Procs -> Locals]
      BY <1>1, <1>2, <2>3, <2>6, GotoTyped
    <3> QED
      BY <1>1, <2>4, <2>6, <3>1 DEF TypeOK, registry
  <2>7. CASE \E r \in Ensure(routes, op.owner, FALSE, me.sel) :
               Call(r) /\ Goto(p, "replay", IF r.ok THEN rest ELSE again)
    <3>1. PICK r \in Ensure(routes, op.owner, FALSE, me.sel) :
            Call(r) /\ Goto(p, "replay", IF r.ok THEN rest ELSE again)
      BY <2>7
    <3>2. r \in Outcomes
      BY <1>1, <2>2, EnsureTyped DEF TypeOK
    <3> QED
      BY <1>1, <1>2, <2>3, <2>4, <3>1, <3>2, CallStepTyped
  <2> QED
    BY <2>5, <2>6, <2>7
<1>4. CASE ReplayRemoval(p)
  <2>1. PICK op \in me.ops :
          LET rest == [me EXCEPT !.ops = @ \ {op}] IN
          \E r \in RemoveIfOwned(routes, op.owner, Tls[op.owner], me.sel) :
            /\ Call(r)
            /\ Goto(p, "replay", IF r.ok THEN rest ELSE [rest EXCEPT !.kept = @ \cup {op}])
    BY <1>4 DEF ReplayRemoval
  <2>2. op \in PendingOperations /\ op.owner \in Owners /\ Tls[op.owner] \in BOOLEAN
    BY <1>1, MemoryTyped, OwnersAreTyped DEF PendingOperations
  <2> DEFINE rest == [me EXCEPT !.ops = @ \ {op}]
             again == [rest EXCEPT !.kept = @ \cup {op}]
  <2>3. rest \in Locals /\ again \in Locals
    BY <1>1, <2>2, DraftTyped
  <2>4. PICK r \in RemoveIfOwned(routes, op.owner, Tls[op.owner], me.sel) :
          Call(r) /\ Goto(p, "replay", IF r.ok THEN rest ELSE again)
    BY <2>1
  <2>5. r \in Outcomes
    BY <1>1, <2>2, RemoveTyped DEF TypeOK
  <2> HIDE DEF rest, again
  <2> QED
    BY <1>1, <1>2, <1>4, <2>3, <2>4, <2>5, CallStepTyped DEF ReplayRemoval
<1>5. CASE Replayed(p)
  <2>1. [me EXCEPT !.todo = Registered] \in Locals
    <3>1. Registered \in SUBSET Owners
      BY <1>1 DEF Registered, TypeOK
    <3> QED
      BY <1>1, <3>1 DEF Locals
  <2>2. Goto(p, "routes", [me EXCEPT !.todo = Registered])
    BY <1>5 DEF Replayed
  <2>3. pc' \in [Procs -> Labels] /\ local' \in [Procs -> Locals]
    BY <1>1, <1>2, <2>1, <2>2, GotoTyped
  <2> QED
    BY <1>1, <1>5, <2>3 DEF Replayed, TypeOK, registry
<1> QED
  BY <1>3, <1>4, <1>5

LEMMA RoutesTyped ==
  ASSUME OwnershipInv, NEW p \in Procs, ReconcileRoute(p) \/ ReconcileWrite(p)
  PROVE  TypeOK'
<1> DEFINE me == local[p]
<1>1. TypeOK /\ me \in Locals
  BY MemoryTyped DEF OwnershipInv
<1>2. "routes" \in Labels /\ "idle" \in Labels
  BY DEF Labels, LockedLabels
<1>3. CASE ReconcileRoute(p)
  <2>1. PICK o \in me.todo :
          LET rest == [me EXCEPT !.todo = @ \ {o}] IN
          \/ Goto(p, "routes", rest) /\ UNCHANGED <<routes, faults>>
          \/ \E r \in RemoveIfOwned(routes, o, Tls[o], me.sel) :
               /\ Call(r)
               /\ Goto(p, "routes",
                       IF r.ok THEN rest ELSE [rest EXCEPT !.kept = @ \cup {Op("remove", o)}])
          \/ \E r \in Ensure(routes, o, FALSE, me.sel) :
               /\ Call(r)
               /\ Goto(p, "routes",
                       IF r.ok THEN rest ELSE [rest EXCEPT !.kept = @ \cup {Op("restore", o)}])
    BY <1>3 DEF ReconcileRoute
  <2>2. o \in Owners /\ Tls[o] \in BOOLEAN
    BY <1>1, MemoryTyped, OwnersAreTyped
  <2>3. Op("remove", o) \in PendingOperations /\ Op("restore", o) \in PendingOperations
    BY <2>2, OpTyped DEF Kinds, RemovingKinds
  <2> DEFINE rest == [me EXCEPT !.todo = @ \ {o}]
             again(kind) == [rest EXCEPT !.kept = @ \cup {Op(kind, o)}]
  <2>4. rest \in Locals /\ again("remove") \in Locals /\ again("restore") \in Locals
    BY <1>1, <2>2, <2>3, DraftTyped
  <2>5. UNCHANGED <<registry, child, operations, used>>
    BY <1>3 DEF ReconcileRoute
  <2>6. \/ Goto(p, "routes", rest) /\ UNCHANGED <<routes, faults>>
        \/ \E r \in RemoveIfOwned(routes, o, Tls[o], me.sel) :
             Call(r) /\ Goto(p, "routes", IF r.ok THEN rest ELSE again("remove"))
        \/ \E r \in Ensure(routes, o, FALSE, me.sel) :
             Call(r) /\ Goto(p, "routes", IF r.ok THEN rest ELSE again("restore"))
    BY <2>1
  <2> HIDE DEF rest, again
  <2>7. CASE Goto(p, "routes", rest) /\ UNCHANGED <<routes, faults>>
    <3>1. pc' \in [Procs -> Labels] /\ local' \in [Procs -> Locals]
      BY <1>1, <1>2, <2>4, <2>7, GotoTyped
    <3> QED
      BY <1>1, <2>5, <2>7, <3>1 DEF TypeOK, registry
  <2>8. ASSUME NEW r \in Outcomes, Call(r), NEW memory \in Locals, Goto(p, "routes", memory)
        PROVE  TypeOK'
    BY <1>1, <1>2, <2>5, <2>8, CallStepTyped
  <2>9. /\ \A r \in RemoveIfOwned(routes, o, Tls[o], me.sel) : r \in Outcomes
        /\ \A r \in Ensure(routes, o, FALSE, me.sel) : r \in Outcomes
    BY <1>1, <2>2, RemoveTyped, EnsureTyped DEF TypeOK
  <2> QED
    BY <2>4, <2>6, <2>7, <2>8, <2>9
<1>4. CASE ReconcileWrite(p)
  <2>1. pending' \subseteq PendingOperations
    BY <1>1, <1>4, MemoryTyped DEF ReconcileWrite
  <2> QED
    BY <1>1, <1>2, <1>4, <2>1, IdleTyped, WriteStepTyped
    DEF ReconcileWrite, Return, Unlock, TypeOK
<1> QED
  BY <1>3, <1>4

LEMMA FaultTyped ==
  ASSUME OwnershipInv,
         \/ \E p \in Procs : Crash(p)
         \/ \E o \in Owners : ChildExits(o)
         \/ CaddyReloads
         \/ UNCHANGED vars
  PROVE  TypeOK'
<1>1. TypeOK
  BY DEF OwnershipInv
<1>2. ASSUME NEW p \in Procs, Crash(p)
      PROVE  TypeOK'
  <2>1. pc' \in [Procs -> Labels] /\ local' \in [Procs -> Locals]
    BY <1>1, <1>2, IdleTyped, GotoTyped DEF Crash, Labels
  <2>2. faults' \in 0..MaxFaults
    BY <1>1, <1>2, SpendTyped DEF Crash
  <2> QED
    BY <1>1, <1>2, <2>1, <2>2 DEF Crash, TypeOK, registry
<1>3. ASSUME NEW o \in Owners, ChildExits(o)
      PROVE  TypeOK'
  <2>1. child' \in [Owners -> {"none", "alive", "dead"}]
    BY <1>1, <1>3 DEF ChildExits, TypeOK
  <2> QED
    BY <1>1, <1>3, <2>1 DEF ChildExits, TypeOK, registry
<1>4. CASE CaddyReloads
  <2>1. faults' \in 0..MaxFaults
    BY <1>1, <1>4, SpendTyped DEF CaddyReloads
  <2> QED
    BY <1>1, <1>4, <2>1 DEF CaddyReloads, TypeOK, registry
<1>5. CASE UNCHANGED vars
  BY <1>1, <1>5 DEF TypeOK, vars, registry
<1> QED
  BY <1>2, <1>3, <1>4, <1>5

LEMMA StepTyped ==
  ASSUME OwnershipInv, [Next]_vars
  PROVE  TypeOK'
<1>1. ASSUME NEW p \in Procs, Begin(p)
      PROVE  TypeOK'
  BY <1>1, AliasTyped, UnaliasTyped, StartTyped, ReconcileTyped DEF Begin
<1>2. ASSUME NEW p \in Procs, Continue(p)
      PROVE  TypeOK'
  BY <1>2, AliasTyped, UnaliasTyped, PrepareTyped, CommitTyped, AbandonTyped,
     FinishTyped, ReconcileTyped, ReplayTyped, RoutesTyped DEF Continue
<1>3. ASSUME NEW p \in Procs, RunEnds(p)
      PROVE  TypeOK'
  BY <1>3, FinishTyped
<1> QED
  BY <1>1, <1>2, <1>3, FaultTyped DEF Next

-----------------------------------------------------------------------------
(* The invariant is inductive.  A step of one command cannot make what     *)
(* another one knows stale; then there is one lemma per command.           *)

\* The invariant without the types.
Consistent ==
  Ids /\ (\A p \in Procs : CommandInv(p)) /\ OneOwnerPerHostname /\ JournalSparesOwners

\* What a step of p leaves to the others: their memory, and the registry if
\* one of them holds the lock.
Frame(p) ==
  /\ \A q \in Procs : q # p => pc'[q] = pc[q] /\ local'[q] = local[q]
  /\ \A q \in Procs : q # p /\ operations = q =>
       operations' = q /\ aliases' = aliases /\ leases' = leases /\ pending' = pending
  /\ aliases' \subseteq aliases \cup local[p].apps
  /\ leases' \subseteq leases \cup local[p].apps
  /\ used \subseteq used'
  /\ local'[p].apps \subseteq local[p].apps \cup (used' \ used)

LEMMA OpOfPending ==
  ASSUME NEW op \in PendingOperations
  PROVE  op = Op(op.kind, op.owner)
  BY DEF PendingOperations, Op

LEMMA Moved ==
  ASSUME TypeOK, NEW p \in Procs, NEW label, NEW memory, Goto(p, label, memory)
  PROVE  /\ pc'[p] = label /\ local'[p] = memory
         /\ \A q \in Procs : q # p => pc'[q] = pc[q] /\ local'[q] = local[q]
  BY DEF TypeOK, Goto

LEMMA OthersKept ==
  ASSUME OwnershipInv, NEW p \in Procs, NEW q \in Procs, q # p, Frame(p)
  PROVE  CommandInv(q)'
<1>1. CommandInv(q) /\ pc'[q] = pc[q] /\ local'[q] = local[q]
  BY DEF OwnershipInv, Frame
<1>2. LockHeld(q)'
  BY <1>1 DEF CommandInv, LockHeld, Frame
<1>3. OwnIds(q)'
  <2>1. local'[q].apps \subseteq used'
    BY <1>1 DEF CommandInv, OwnIds, Frame
  <2>2. local[q].apps \cap local[p].apps = {}
    BY <1>1 DEF CommandInv, OwnIds
  <2>3. local'[q].apps \cap aliases' = {}
    BY <1>1, <2>2 DEF CommandInv, OwnIds, Frame
  <2>4. \A a, b \in local'[q].apps : Host[a] = Host[b] => a = b
    BY <1>1 DEF CommandInv, OwnIds
  <2>5. ASSUME NEW r \in Procs, r # q
        PROVE  local'[q].apps \cap local'[r].apps = {}
    <3>1. CASE r = p
      BY <1>1, <2>2, <3>1 DEF CommandInv, OwnIds, Frame
    <3>2. CASE r # p
      BY <1>1, <2>5, <3>2 DEF CommandInv, OwnIds, Frame
    <3> QED
      BY <3>1, <3>2
  <2> QED
    BY <2>1, <2>3, <2>4, <2>5 DEF OwnIds
<1>4. NotRecorded(q)'
  <2>1. local[q].apps \cap local[p].apps = {}
    BY <1>1 DEF CommandInv, OwnIds
  <2> QED
    BY <1>1, <2>1 DEF CommandInv, NotRecorded, Registered, Frame
<1>5. NothingMissed(q)'
  <2>1. pc[q] \in Committing => operations = q
    BY <1>1 DEF CommandInv, LockHeld, LockedLabels, Committing, StartLabels
  <2> QED
    BY <1>1, <2>1 DEF CommandInv, NothingMissed, LookedUp, OwnersOf, Registered, Frame
<1>6. Loops(q)'
  BY <1>1 DEF CommandInv, Loops, Frame
<1>7. Draft(q)'
  <2>1. pc[q] \in {"replay", "routes"} => operations = q
    BY <1>1 DEF CommandInv, LockHeld, LockedLabels
  <2> QED
    BY <1>1, <2>1 DEF CommandInv, Draft, Registered, Frame
<1> QED
  BY <1>2, <1>3, <1>4, <1>5, <1>6, <1>7 DEF CommandInv

LEMMA OwnedStep ==
  ASSUME OwnershipInv, NEW p \in Procs, Frame(p), CommandInv(p)',
         Ids', OneOwnerPerHostname', JournalSparesOwners'
  PROVE  Consistent'
<1>1. ASSUME NEW q \in Procs
      PROVE  CommandInv(q)'
  BY <1>1, OthersKept
<1> QED
  BY <1>1 DEF Consistent

\* A step that leaves the registry alone and invents no id.
LEMMA QuietStep ==
  ASSUME OwnershipInv, NEW p \in Procs, NEW label, NEW memory, Goto(p, label, memory),
         UNCHANGED <<aliases, leases, pending, used>>,
         operations \in {p, NoProc} \/ operations' = operations,
         label \in LockedLabels => operations' = p,
         label \in Uncommitted => pc[p] \in Uncommitted,
         memory.apps \subseteq local[p].apps,
         NothingMissed(p)', Loops(p)', Draft(p)'
  PROVE  Consistent'
<1>1. TypeOK /\ CommandInv(p)
  BY DEF OwnershipInv
<1>2. /\ pc'[p] = label /\ local'[p] = memory
      /\ \A q \in Procs : q # p => pc'[q] = pc[q] /\ local'[q] = local[q]
  BY <1>1, Moved
<1>3. Frame(p)
  BY <1>2, NoProcIsNoProcess DEF Frame
<1>4. LockHeld(p)' /\ NotRecorded(p)'
  BY <1>1, <1>2 DEF CommandInv, LockHeld, NotRecorded, Registered
<1>5. OwnIds(p)'
  BY <1>1, <1>2 DEF CommandInv, OwnIds
<1>6. CommandInv(p)'
  BY <1>4, <1>5 DEF CommandInv
<1>7. Ids' /\ OneOwnerPerHostname' /\ JournalSparesOwners'
  BY DEF OwnershipInv, Ids, OneOwnerPerHostname, JournalSparesOwners, Registered
<1> QED
  BY <1>3, <1>6, <1>7, OwnedStep

LEMMA RegistryUnchanged ==
  ASSUME OwnershipInv, UNCHANGED <<aliases, leases, pending, used>>
  PROVE  Ids' /\ OneOwnerPerHostname' /\ JournalSparesOwners'
  BY DEF OwnershipInv, Ids, OneOwnerPerHostname, JournalSparesOwners, Registered

\* A step that ends a command.
LEMMA ReturnStep ==
  ASSUME OwnershipInv, NEW p \in Procs, operations = p, Return(p), used' = used,
         aliases' \subseteq aliases \cup local[p].apps, leases' \subseteq leases \cup local[p].apps,
         Ids', OneOwnerPerHostname', JournalSparesOwners'
  PROVE  Consistent'
<1>1. /\ pc'[p] = "idle" /\ local'[p] = Idle /\ Idle.apps = {} /\ operations' = NoProc
      /\ \A q \in Procs : q # p => pc'[q] = pc[q] /\ local'[q] = local[q]
  BY Moved DEF OwnershipInv, Return, Unlock, Idle
<1>2. Frame(p)
  BY <1>1 DEF Frame
<1>3. OwnIds(p)'
  BY <1>1 DEF OwnIds
<1>4. LockHeld(p)' /\ NotRecorded(p)' /\ NothingMissed(p)' /\ Loops(p)' /\ Draft(p)'
  BY <1>1 DEF LockHeld, LockedLabels, NotRecorded, NothingMissed, Loops, Draft,
     Uncommitted, Committing, StartLabels, AliasLabels, AbandonLabels
<1> QED
  BY <1>2, <1>3, <1>4, OwnedStep DEF CommandInv

\* A step of a command that has recorded nothing yet; it may write or drop
\* journal entries of its own.
LEMMA JournalStep ==
  ASSUME OwnershipInv, NEW p \in Procs, NEW label, NEW memory, Goto(p, label, memory),
         operations = p, pc[p] \in Uncommitted,
         UNCHANGED <<aliases, leases, used>>,
         \A op \in pending' : op \in pending \/ op.owner \in local[p].apps,
         label \in LockedLabels => operations' = p,
         memory.apps \subseteq local[p].apps,
         NothingMissed(p)', Loops(p)', Draft(p)'
  PROVE  Consistent'
<1>1. TypeOK /\ CommandInv(p) /\ local[p].apps \cap Registered = {} /\ local[p].apps \subseteq used
  BY DEF OwnershipInv, CommandInv, NotRecorded, OwnIds
<1>2. /\ pc'[p] = label /\ local'[p] = memory
      /\ \A q \in Procs : q # p => pc'[q] = pc[q] /\ local'[q] = local[q]
  BY <1>1, Moved
<1>3. Frame(p)
  BY <1>2 DEF Frame
<1>4. LockHeld(p)' /\ NotRecorded(p)'
  BY <1>1, <1>2 DEF LockHeld, NotRecorded, Registered
<1>5. OwnIds(p)'
  BY <1>1, <1>2 DEF CommandInv, OwnIds
<1>6. Ids' /\ OneOwnerPerHostname' /\ JournalSparesOwners'
  BY <1>1 DEF OwnershipInv, Ids, OneOwnerPerHostname, JournalSparesOwners, Registered
<1> QED
  BY <1>3, <1>4, <1>5, <1>6, OwnedStep DEF CommandInv

LEMMA SetAliasConsistent ==
  ASSUME OwnershipInv, NEW p \in Procs, NEW o \in Owners, NEW f \in BOOLEAN, SetAlias(p, o, f)
  PROVE  Consistent'
<1> DEFINE memory == [Idle EXCEPT !.cmd = "alias", !.force = f, !.sel = {Server(Tls[o])},
                                  !.apps = {o}, !.cur = o, !.displaced = Displaced(Host[o])]
<1>1. TypeOK /\ Ids /\ OneOwnerPerHostname /\ JournalSparesOwners
  BY DEF OwnershipInv
<1>2. Goto(p, "aliasEnsure", memory)
  BY DEF SetAlias
<1>3. /\ memory.apps = {o} /\ memory.cur = o /\ memory.displaced = OwnersOf(Host[o])
      /\ memory.failed = {}
  BY DEF Idle, Displaced
<1> HIDE DEF memory
<1>4. /\ pc'[p] = "aliasEnsure" /\ local'[p] = memory
      /\ \A q \in Procs : q # p => pc'[q] = pc[q] /\ local'[q] = local[q]
  BY <1>1, <1>2, Moved
<1>5. /\ o \notin used /\ used' = used \cup {o} /\ operations = NoProc /\ operations' = p
      /\ pending' = pending \cup {Op("install", o)}
      /\ aliases' = aliases /\ leases' = leases
  BY DEF SetAlias, Lock
<1>6. o \notin Registered /\ \A op \in pending : op.owner # o
  BY <1>1, <1>5 DEF Ids
<1>7. Frame(p)
  BY <1>3, <1>4, <1>5, NoProcIsNoProcess DEF Frame
<1>8. OwnIds(p)'
  <2>1. \A q \in Procs : q # p => local[q].apps \subseteq used
    BY DEF OwnershipInv, CommandInv, OwnIds
  <2> QED
    BY <1>3, <1>4, <1>5, <1>6, <2>1 DEF OwnIds, Registered
<1>9. NothingMissed(p)'
  BY <1>3, <1>4, <1>5, <1>6 DEF NothingMissed, LookedUp, OwnersOf, Registered, Op
<1>10. LockHeld(p)' /\ NotRecorded(p)' /\ Loops(p)' /\ Draft(p)'
  BY <1>3, <1>4, <1>5, <1>6
  DEF LockHeld, NotRecorded, Loops, Draft, Registered, AliasLabels
<1>11. Ids' /\ OneOwnerPerHostname' /\ JournalSparesOwners'
  BY <1>1, <1>5, <1>6 DEF Ids, OneOwnerPerHostname, JournalSparesOwners, Registered, Op
<1> QED
  BY <1>7, <1>8, <1>9, <1>10, <1>11, OwnedStep DEF CommandInv

LEMMA AliasConsistent ==
  ASSUME OwnershipInv, NEW p \in Procs,
         \/ AliasEnsure(p) \/ AliasPublish(p) \/ AliasUndo(p) \/ AliasRestore(p)
         \/ AliasDrop(p) \/ AliasClean(p) \/ AliasCommit(p)
  PROVE  Consistent'
<1> DEFINE me == local[p]
<1>1. /\ TypeOK /\ Ids /\ OneOwnerPerHostname /\ JournalSparesOwners
      /\ OwnIds(p) /\ NotRecorded(p) /\ NothingMissed(p) /\ Loops(p)
  BY DEF OwnershipInv, CommandInv
<1>2. /\ pc[p] \in AliasLabels /\ operations = p
      /\ me.apps = {me.cur} /\ me.apps \cap Registered = {}
  BY <1>1 DEF OwnershipInv, CommandInv, LockHeld, LockedLabels, AliasLabels, NotRecorded,
     Uncommitted, Loops, AliasEnsure, AliasPublish, AliasUndo, AliasRestore, AliasDrop,
     AliasClean, AliasCommit
<1>3. ASSUME NEW label \in AliasLabels, NEW memory, Goto(p, label, memory),
             memory.apps = me.apps, memory.cur = me.cur, memory.displaced = me.displaced,
             label = "aliasClean" => memory.todo \cup memory.failed \subseteq me.displaced,
             label = "aliasRestore" => memory.failed \subseteq {me.cur},
             label = "aliasPublish" => memory.failed = {}, label # "aliasEnsure",
             label \in Committing => pc[p] \in Committing,
             UNCHANGED <<registry, used, operations>>
      PROVE  Consistent'
  <2>1. pc'[p] = label /\ local'[p] = memory
    BY <1>1, <1>3, Moved
  <2>2. label \in LockedLabels /\ pc[p] \in Uncommitted
    BY <1>2, <1>3 DEF AliasLabels, LockedLabels, Uncommitted
  <2>3. NothingMissed(p)'
    BY <1>1, <1>2, <1>3, <2>1
    DEF NothingMissed, LookedUp, OwnersOf, Registered, registry, AliasLabels
  <2>4. Loops(p)' /\ Draft(p)'
    BY <1>2, <1>3, <2>1 DEF Loops, Draft, AliasLabels
  <2> QED
    BY <1>2, <1>3, <2>1, <2>2, <2>3, <2>4, QuietStep DEF registry
<1>4. ASSUME Return(p), UNCHANGED <<aliases, leases, pending, used>>
      PROVE  Consistent'
  BY <1>2, <1>4, RegistryUnchanged, ReturnStep
<1>5. CASE AliasEnsure(p)
  <2>1. \/ operations' = operations /\ Goto(p, "aliasPublish", me)
        \/ Return(p)
    BY <1>5 DEF AliasEnsure
  <2> QED
    BY <1>1, <1>3, <1>4, <1>5, <2>1 DEF AliasEnsure, AliasLabels, Committing, registry, Loops
<1>6. CASE AliasPublish(p)
  <2> DEFINE memory == [me EXCEPT !.todo = me.displaced]
  <2>1. Goto(p, "aliasClean", memory) \/ Goto(p, "aliasUndo", me)
    BY <1>6 DEF AliasPublish
  <2>2. CASE Goto(p, "aliasUndo", me)
    BY <1>3, <1>6, <2>2 DEF AliasPublish, AliasLabels, Committing, StartLabels, registry
  <2>3. CASE Goto(p, "aliasClean", memory)
    <3>1. /\ memory.apps = me.apps /\ memory.cur = me.cur /\ memory.displaced = me.displaced
          /\ memory.todo = me.displaced /\ memory.failed = me.failed
      BY MemoryTyped, <1>1 DEF Locals
    <3>2. me.failed = {}
      BY <1>1, <1>6 DEF AliasPublish, Loops
    <3> HIDE DEF memory
    <3> QED
      BY <1>3, <1>6, <2>3, <3>1, <3>2 DEF AliasPublish, AliasLabels, Committing, registry
  <2> QED
    BY <2>1, <2>2, <2>3
<1>7. CASE AliasUndo(p)
  <2>1. PICK r \in RemoveIfOwned(routes, me.cur, Tls[me.cur], me.sel) :
          Goto(p, "aliasRestore", [me EXCEPT !.todo = me.displaced,
                                       !.failed = IF r.ok THEN {} ELSE {me.cur}])
    BY <1>7 DEF AliasUndo
  <2> DEFINE memory == [me EXCEPT !.todo = me.displaced,
                                  !.failed = IF r.ok THEN {} ELSE {me.cur}]
  <2>2. /\ memory.apps = me.apps /\ memory.cur = me.cur /\ memory.displaced = me.displaced
        /\ memory.failed \subseteq {me.cur}
    BY MemoryTyped, <1>1 DEF Locals
  <2>3. Goto(p, "aliasRestore", memory)
    BY <2>1
  <2> HIDE DEF memory
  <2> QED
    BY <1>3, <1>7, <2>2, <2>3 DEF AliasUndo, AliasLabels, Committing, StartLabels, registry
<1>8. CASE AliasRestore(p)
  <2>1. PICK d \in me.todo : Goto(p, "aliasRestore", [me EXCEPT !.todo = @ \ {d}])
    BY <1>8 DEF AliasRestore
  <2> DEFINE memory == [me EXCEPT !.todo = @ \ {d}]
  <2>2. /\ memory.apps = me.apps /\ memory.cur = me.cur /\ memory.displaced = me.displaced
        /\ memory.failed = me.failed
    BY MemoryTyped, <1>1 DEF Locals
  <2>3. me.failed \subseteq {me.cur}
    BY <1>1, <1>8 DEF AliasRestore, Loops
  <2>4. Goto(p, "aliasRestore", memory)
    BY <2>1
  <2> HIDE DEF memory
  <2> QED
    BY <1>3, <1>8, <2>2, <2>3, <2>4
    DEF AliasRestore, AliasLabels, Committing, StartLabels, registry
<1>9. CASE AliasClean(p)
  <2>1. PICK d \in me.todo : \E r \in RemoveIfOwned(routes, d, Tls[d], me.sel) :
          Goto(p, "aliasClean",
               [me EXCEPT !.todo = @ \ {d}, !.failed = IF r.ok THEN @ ELSE @ \cup {d}])
    BY <1>9 DEF AliasClean
  <2>2. PICK r \in RemoveIfOwned(routes, d, Tls[d], me.sel) :
          Goto(p, "aliasClean",
               [me EXCEPT !.todo = @ \ {d}, !.failed = IF r.ok THEN @ ELSE @ \cup {d}])
    BY <2>1
  <2> DEFINE memory ==
        [me EXCEPT !.todo = @ \ {d}, !.failed = IF r.ok THEN @ ELSE @ \cup {d}]
  <2>3. /\ memory.apps = me.apps /\ memory.cur = me.cur /\ memory.displaced = me.displaced
        /\ memory.todo \cup memory.failed \subseteq me.todo \cup me.failed
    BY MemoryTyped, <1>1 DEF Locals
  <2>4. me.todo \cup me.failed \subseteq me.displaced
    BY <1>1, <1>9 DEF AliasClean, Loops
  <2>5. Goto(p, "aliasClean", memory)
    BY <2>2
  <2> HIDE DEF memory
  <2> QED
    BY <1>3, <1>9, <2>3, <2>4, <2>5 DEF AliasClean, AliasLabels, Committing, registry
<1>10. CASE AliasDrop(p)
  <2>1. /\ pending' = (pending \ Completed(me.cur)) \cup Removal(me.failed)
        /\ Return(p) /\ UNCHANGED <<aliases, leases, used>>
    BY <1>10 DEF AliasDrop
  <2>2. me.failed \subseteq {me.cur} /\ me.cur \in used /\ me.cur \notin Registered
    BY <1>1, <1>2, <1>10 DEF AliasDrop, Loops, OwnIds
  <2>3. \A op \in pending' : op \in pending \/ (op.owner = me.cur)
    BY <2>1, <2>2 DEF Removal, Op
  <2>4. Ids' /\ OneOwnerPerHostname' /\ JournalSparesOwners'
    BY <1>1, <2>1, <2>2, <2>3 DEF Ids, OneOwnerPerHostname, JournalSparesOwners, Registered
  <2> QED
    BY <1>2, <2>1, <2>4, ReturnStep
<1>11. CASE AliasCommit(p)
  <2>1. /\ aliases' = (aliases \ me.displaced) \cup {me.cur}
        /\ leases' = leases \ me.displaced
        /\ pending' = (JournalWithout(me.displaced) \ Completed(me.cur)) \cup Removal(me.failed)
        /\ Return(p) /\ used' = used
    BY <1>11 DEF AliasCommit
  <2>2. /\ me.failed \subseteq me.displaced /\ me.displaced \subseteq Registered
        /\ me.cur \in used /\ me.cur \notin Registered
        /\ OwnersOf(Host[me.cur]) \subseteq me.displaced
        /\ \A op \in pending : op.owner = me.cur => op.kind \in {"install", "start"}
    BY <1>1, <1>2, <1>11
    DEF AliasCommit, Loops, OwnIds, NothingMissed, Committing, LookedUp
  <2>3. \A op \in pending' : \/ op \in pending /\ op.owner # me.cur
                             \/ op.owner \in me.displaced
    <3>1. SUFFICES ASSUME NEW op \in pending, op.owner = me.cur, op \notin Completed(me.cur)
                   PROVE  FALSE
      BY <2>1, <2>2 DEF JournalWithout, Removal, Op
    <3>2. op.kind \in {"install", "start"} /\ op = Op(op.kind, op.owner)
      BY <1>1, <2>2, <3>1, OpOfPending DEF TypeOK
    <3> QED
      BY <3>1, <3>2 DEF Completed
  <2>4. Ids'
    BY <1>1, <2>1, <2>2, <2>3 DEF Ids, Registered
  <2>5. OneOwnerPerHostname'
    BY <1>1, <2>1, <2>2 DEF OneOwnerPerHostname, OwnersOf, Registered
  <2>6. JournalSparesOwners'
    BY <1>1, <2>1, <2>2, <2>3 DEF JournalSparesOwners, Registered
  <2> QED
    BY <1>2, <2>1, <2>4, <2>5, <2>6, ReturnStep
<1> QED
  BY <1>5, <1>6, <1>7, <1>8, <1>9, <1>10, <1>11

LEMMA UnaliasConsistent ==
  ASSUME OwnershipInv, NEW p \in Procs,
         \/ \E a \in Owners, t \in BOOLEAN : RemoveAlias(p, a, t)
         \/ UnaliasRemove(p) \/ UnaliasDone(p)
  PROVE  Consistent'
<1> DEFINE me == local[p]
<1>1. /\ TypeOK /\ Ids /\ OneOwnerPerHostname /\ JournalSparesOwners
      /\ LockHeld(p) /\ OwnIds(p) /\ Loops(p)
  BY DEF OwnershipInv, CommandInv
<1>2. ASSUME NEW a \in Owners, NEW t \in BOOLEAN, RemoveAlias(p, a, t)
      PROVE  Consistent'
  <2> DEFINE memory == [Idle EXCEPT !.cmd = "unalias", !.sel = {Server(t)}, !.cur = a]
  <2>1. /\ Goto(p, "unaliasRemove", memory) /\ a \in aliases
        /\ operations = NoProc /\ operations' = p
        /\ aliases' = aliases \ {a} /\ leases' = leases /\ used' = used
        /\ pending' = pending \cup {Op("remove", a)}
    BY <1>2 DEF RemoveAlias, Lock
  <2>2. memory.apps = {} /\ memory.cur = a
    BY DEF Idle
  <2> HIDE DEF memory
  <2>3. /\ pc'[p] = "unaliasRemove" /\ local'[p] = memory
        /\ \A q \in Procs : q # p => pc'[q] = pc[q] /\ local'[q] = local[q]
    BY <1>1, <2>1, Moved
  <2>4. Frame(p)
    BY <2>1, <2>2, <2>3, NoProcIsNoProcess DEF Frame
  <2>5. LockHeld(p)' /\ OwnIds(p)' /\ NotRecorded(p)' /\ NothingMissed(p)' /\ Draft(p)'
    BY <2>1, <2>2, <2>3 DEF LockHeld, OwnIds, NotRecorded, NothingMissed, Draft,
       Committing, StartLabels
  <2>6. Ids' /\ OneOwnerPerHostname' /\ JournalSparesOwners'
    BY <1>1, <2>1 DEF Ids, OneOwnerPerHostname, JournalSparesOwners, Registered, Op
  <2>7. Loops(p)'
    BY <1>1, <2>1, <2>2, <2>3 DEF Loops, Ids, Registered, AliasLabels
  <2> QED
    BY <2>4, <2>5, <2>6, <2>7, OwnedStep DEF CommandInv
<1>3. CASE UnaliasRemove(p)
  <2>1. operations = p /\ UNCHANGED <<aliases, leases, pending, used>>
    BY <1>1, <1>3 DEF UnaliasRemove, LockHeld, LockedLabels, registry
  <2>2. (operations' = operations /\ Goto(p, "unaliasDone", me)) \/ Return(p)
    BY <1>3 DEF UnaliasRemove
  <2>3. CASE Return(p)
    BY <2>1, <2>3, RegistryUnchanged, ReturnStep
  <2>4. CASE operations' = operations /\ Goto(p, "unaliasDone", me)
    <3>1. pc'[p] = "unaliasDone" /\ local'[p] = me
      BY <1>1, <2>4, Moved
    <3>2. NothingMissed(p)' /\ Loops(p)' /\ Draft(p)'
      BY <1>1, <1>3, <2>1, <3>1 DEF UnaliasRemove, NothingMissed, Loops, Draft, Committing,
         StartLabels, AliasLabels
    <3>3. "unaliasDone" \notin Uncommitted
      BY DEF Uncommitted, AliasLabels, StartLabels, AbandonLabels
    <3> QED
      BY <2>1, <2>4, <3>2, <3>3, QuietStep
  <2> QED
    BY <2>2, <2>3, <2>4
<1>4. CASE UnaliasDone(p)
  <2>1. /\ operations = p /\ Return(p) /\ UNCHANGED <<aliases, leases, used>>
        /\ pending' \subseteq pending
    BY <1>1, <1>4 DEF UnaliasDone, LockHeld, LockedLabels
  <2>2. Ids' /\ OneOwnerPerHostname' /\ JournalSparesOwners'
    BY <1>1, <2>1 DEF Ids, OneOwnerPerHostname, JournalSparesOwners, Registered
  <2> QED
    BY <2>1, <2>2, ReturnStep
<1> QED
  BY <1>2, <1>3, <1>4

LEMMA StartConsistent ==
  ASSUME OwnershipInv, NEW p \in Procs, NEW c, NEW apps \in SUBSET Owners, NEW force,
         c \in {"run", "workspace", "runner"}, StartRun(p, c, apps, force)
  PROVE  Consistent'
<1> DEFINE memory == [Idle EXCEPT !.cmd = c, !.force = force, !.apps = apps, !.todo = apps,
                                  !.sel = {Server(Tls[a]) : a \in apps}
                                     \cup (IF \E a \in apps : Lan[a] THEN {"HTTP"} ELSE {})]
<1>1. TypeOK /\ Ids /\ OneOwnerPerHostname /\ JournalSparesOwners
  BY DEF OwnershipInv
<1>2. /\ Goto(p, "prepare", memory) /\ apps \cap used = {}
      /\ operations = NoProc /\ operations' = p /\ used' = used \cup apps
      /\ UNCHANGED <<aliases, leases, pending>>
      /\ \A a, b \in apps : Host[a] = Host[b] => a = b
  BY DEF StartRun, Lock, registry
<1>3. /\ memory.apps = apps /\ memory.todo = apps /\ memory.displaced = {}
      /\ memory.failed = {}
  BY DEF Idle
<1> HIDE DEF memory
<1>4. /\ pc'[p] = "prepare" /\ local'[p] = memory
      /\ \A q \in Procs : q # p => pc'[q] = pc[q] /\ local'[q] = local[q]
  BY <1>1, <1>2, Moved
<1>5. apps \cap Registered = {} /\ \A op \in pending : op.owner \notin apps
  BY <1>1, <1>2 DEF Ids
<1>6. Frame(p)
  BY <1>2, <1>3, <1>4, NoProcIsNoProcess DEF Frame
<1>7. OwnIds(p)'
  <2>1. \A q \in Procs : q # p => local[q].apps \subseteq used
    BY DEF OwnershipInv, CommandInv, OwnIds
  <2> QED
    BY <1>2, <1>3, <1>4, <1>5, <2>1 DEF OwnIds, Registered
<1>8. NothingMissed(p)' /\ LockHeld(p)' /\ NotRecorded(p)' /\ Loops(p)' /\ Draft(p)'
  BY <1>2, <1>3, <1>4, <1>5
  DEF NothingMissed, LookedUp, LockHeld, NotRecorded, Loops, Draft, Registered, AliasLabels
<1>9. Ids' /\ OneOwnerPerHostname' /\ JournalSparesOwners'
  BY <1>1, <1>2 DEF Ids, OneOwnerPerHostname, JournalSparesOwners, Registered
<1> QED
  BY <1>6, <1>7, <1>8, <1>9, OwnedStep DEF CommandInv

\* Giving up prepared apps keeps the invariant.
LEMMA GiveUpStep ==
  ASSUME OwnershipInv, NEW p \in Procs, operations = p, pc[p] \in Uncommitted,
         NEW label \in {"rollback", "abandon"}, NEW memory, Goto(p, label, memory),
         memory.apps \subseteq local[p].apps, memory.todo \subseteq memory.apps,
         label = "abandon" => operations' = operations,
         UNCHANGED <<aliases, leases, used>>,
         \A op \in pending' : op \in pending \/ op.owner \in local[p].apps
  PROVE  Consistent'
<1>1. pc'[p] = label /\ local'[p] = memory
  BY Moved DEF OwnershipInv
<1>2. NothingMissed(p)' /\ Loops(p)' /\ Draft(p)'
  BY <1>1 DEF NothingMissed, Loops, Draft, Committing, StartLabels, AliasLabels
<1>3. label \in LockedLabels => operations' = p
  BY DEF LockedLabels
<1> QED
  BY <1>2, <1>3, JournalStep

LEMMA RollBackStep ==
  ASSUME OwnershipInv, NEW p \in Procs, operations = p, pc[p] \in Uncommitted,
         NEW me \in Locals, NEW prepared \in SUBSET local[p].apps, RollBack(p, me, prepared),
         UNCHANGED <<aliases, leases, used>>,
         \A op \in pending' : op \in pending \/ op.owner \in local[p].apps
  PROVE  Consistent'
<1> DEFINE memory == [me EXCEPT !.apps = prepared, !.todo = prepared]
<1>1. \/ Return(p)
      \/ Goto(p, "rollback", memory)
      \/ operations' = operations /\ Goto(p, "abandon", memory)
  BY DEF RollBack
<1>2. CASE Return(p)
  <2>1. local[p].apps \cap Registered = {} /\ local[p].apps \subseteq used
    BY DEF OwnershipInv, CommandInv, NotRecorded, OwnIds
  <2>2. Ids' /\ OneOwnerPerHostname' /\ JournalSparesOwners'
    BY <2>1 DEF OwnershipInv, Ids, OneOwnerPerHostname, JournalSparesOwners, Registered
  <2> QED
    BY <1>2, <2>2, ReturnStep
<1>3. memory.apps = prepared /\ memory.todo = prepared
  BY DEF Locals
<1> HIDE DEF memory
<1>4. CASE Goto(p, "rollback", memory)
  BY <1>3, <1>4, GiveUpStep
<1>5. CASE operations' = operations /\ Goto(p, "abandon", memory)
  BY <1>3, <1>5, GiveUpStep
<1> QED
  BY <1>1, <1>2, <1>4, <1>5

LEMMA AbandonCurrentStep ==
  ASSUME OwnershipInv, NEW p \in Procs, operations = p, pc[p] \in {"ensure", "journal"},
         AbandonCurrent(p, local[p]), UNCHANGED <<aliases, leases, pending, used, operations>>
  PROVE  Consistent'
<1> DEFINE me == local[p]
           prepared == me.apps \ me.todo
           todo == IF me.cmd = "runner" THEN {me.cur} ELSE prepared
           memory == [me EXCEPT !.apps = prepared, !.todo = todo]
<1>1. me \in Locals /\ me.cur \in prepared /\ todo \subseteq prepared
  BY MemoryTyped DEF OwnershipInv, CommandInv, Loops
<1>2. Goto(p, "abandon", memory)
  BY DEF AbandonCurrent
<1>3. memory.apps = prepared /\ memory.todo = todo
  <2> HIDE DEF prepared, todo
  <2> QED
    BY <1>1 DEF Locals
<1>4. pc[p] \in Uncommitted
  BY DEF Uncommitted, StartLabels
<1> HIDE DEF memory
<1> QED
  BY <1>1, <1>2, <1>3, <1>4, GiveUpStep

LEMMA PrepareConsistent ==
  ASSUME OwnershipInv, NEW p \in Procs,
         \/ PrepareRun(p) \/ PrepareRejected(p) \/ EnsureRun(p) \/ JournalFails(p)
         \/ JournalStart(p)
  PROVE  Consistent'
<1> DEFINE me == local[p]
<1>1. /\ TypeOK /\ Ids /\ OneOwnerPerHostname /\ JournalSparesOwners
      /\ LockHeld(p) /\ OwnIds(p) /\ NotRecorded(p) /\ NothingMissed(p) /\ Loops(p)
  BY DEF OwnershipInv, CommandInv
<1>2. /\ pc[p] \in {"prepare", "ensure", "journal"} /\ operations = p
      /\ pc[p] \in Uncommitted /\ pc[p] \in Committing
      /\ me.todo \subseteq me.apps /\ me.failed = {}
  BY <1>1 DEF LockHeld, LockedLabels, Uncommitted, Committing, StartLabels, Loops,
     PrepareRun, PrepareRejected, EnsureRun, JournalFails, JournalStart
<1>3. /\ me.displaced \subseteq Registered
      /\ \A a \in me.apps \ me.todo : OwnersOf(Host[a]) \subseteq me.displaced
      /\ \A op \in pending : op.owner \in me.apps => op.kind \in {"install", "start"}
  BY <1>1, <1>2 DEF NothingMissed, LookedUp
<1>4. me \in Locals
  BY <1>1, MemoryTyped
<1>5. CASE PrepareRun(p)
  <2>1. PICK a \in me.todo :
          /\ pending' = pending \cup {Op("install", a)}
          /\ Goto(p, "ensure", [me EXCEPT !.cur = a, !.todo = @ \ {a},
                                          !.displaced = @ \cup Displaced(Host[a])])
    BY <1>5 DEF PrepareRun
  <2> DEFINE memory == [me EXCEPT !.cur = a, !.todo = @ \ {a},
                                  !.displaced = @ \cup Displaced(Host[a])]
  <2>2. /\ memory.apps = me.apps /\ memory.cur = a /\ memory.todo = me.todo \ {a}
        /\ memory.displaced = me.displaced \cup OwnersOf(Host[a]) /\ memory.failed = {}
    BY <1>2, <1>4 DEF Locals, Displaced
  <2>3. Goto(p, "ensure", memory)
    BY <2>1
  <2> HIDE DEF memory
  <2>4. pc'[p] = "ensure" /\ local'[p] = memory
    BY <1>1, <2>3, Moved
  <2>5. UNCHANGED <<aliases, leases, used, operations>>
    BY <1>5 DEF PrepareRun
  <2>6. NothingMissed(p)'
    BY <1>2, <1>3, <2>1, <2>2, <2>4, <2>5 DEF NothingMissed, LookedUp, OwnersOf, Registered, Op
  <2>7. Loops(p)' /\ Draft(p)'
    BY <1>2, <2>2, <2>4 DEF Loops, Draft, AliasLabels
  <2>8. \A op \in pending' : op \in pending \/ op.owner \in me.apps
    BY <1>2, <2>1 DEF Op
  <2> QED
    BY <1>2, <2>2, <2>3, <2>5, <2>6, <2>7, <2>8, JournalStep
<1>6. CASE PrepareRejected(p)
  <2>1. RollBack(p, me, me.apps \ me.todo) /\ UNCHANGED <<aliases, leases, pending, used>>
    BY <1>6 DEF PrepareRejected, registry
  <2> QED
    BY <1>2, <1>4, <2>1, RollBackStep
<1>7. CASE EnsureRun(p)
  <2>1. /\ Goto(p, "journal", me) \/ AbandonCurrent(p, me)
        /\ UNCHANGED <<aliases, leases, pending, used, operations>> /\ pc[p] = "ensure"
    BY <1>7 DEF EnsureRun, registry
  <2>2. CASE AbandonCurrent(p, me)
    BY <1>2, <2>1, <2>2, AbandonCurrentStep
  <2>3. CASE Goto(p, "journal", me)
    <3>1. pc'[p] = "journal" /\ local'[p] = me
      BY <1>1, <2>3, Moved
    <3>2. NothingMissed(p)'
      BY <1>3, <2>1, <3>1 DEF NothingMissed, LookedUp, OwnersOf, Registered
    <3>3. Loops(p)' /\ Draft(p)'
      BY <1>1, <1>2, <2>1, <3>1 DEF Loops, Draft, AliasLabels
    <3> QED
      BY <1>2, <2>1, <2>3, <3>2, <3>3, JournalStep
  <2> QED
    BY <2>1, <2>2, <2>3
<1>8. CASE JournalFails(p)
  BY <1>2, <1>8, AbandonCurrentStep DEF JournalFails, registry
<1>9. CASE JournalStart(p)
  <2> DEFINE memory == IF me.todo = {} THEN [me EXCEPT !.todo = me.apps] ELSE me
             label == IF me.todo = {} THEN "spawn" ELSE "prepare"
  <2>1. /\ pending' = (pending \ Completed(me.cur)) \cup {Op("start", me.cur)}
        /\ Goto(p, label, memory)
        /\ UNCHANGED <<aliases, leases, used, operations>> /\ pc[p] = "journal"
    BY <1>9 DEF JournalStart
  <2>2. /\ memory.apps = me.apps /\ memory.displaced = me.displaced /\ memory.failed = {}
        /\ memory.todo \subseteq me.apps
        /\ me.todo = {} \/ memory.todo = me.todo
        /\ label \in {"spawn", "prepare"} /\ (label = "spawn" <=> me.todo = {})
    BY <1>2, <1>4 DEF Locals
  <2> HIDE DEF memory, label
  <2>3. pc'[p] = label /\ local'[p] = memory
    BY <1>1, <2>1, Moved
  <2>4. me.cur \in me.apps
    BY <1>1, <2>1 DEF Loops
  <2>5. NothingMissed(p)'
    BY <1>3, <2>1, <2>2, <2>3, <2>4 DEF NothingMissed, LookedUp, OwnersOf, Registered, Op
  <2>6. Loops(p)' /\ Draft(p)'
    BY <2>2, <2>3 DEF Loops, Draft, AliasLabels
  <2>7. \A op \in pending' : op \in pending \/ op.owner \in me.apps
    BY <2>1, <2>4 DEF Op
  <2> QED
    BY <1>2, <2>1, <2>2, <2>5, <2>6, <2>7, JournalStep
<1> QED
  BY <1>5, <1>6, <1>7, <1>8, <1>9

LEMMA CommitConsistent ==
  ASSUME OwnershipInv, NEW p \in Procs,
         \/ Spawn(p) \/ SpawnFails(p) \/ CleanDisplaced(p) \/ CommitRuns(p)
         \/ CommitFails(p) \/ Relock(p)
  PROVE  Consistent'
<1> DEFINE me == local[p]
<1>1. /\ TypeOK /\ Ids /\ OneOwnerPerHostname /\ JournalSparesOwners
      /\ LockHeld(p) /\ OwnIds(p) /\ NotRecorded(p) /\ NothingMissed(p) /\ Loops(p)
  BY DEF OwnershipInv, CommandInv
<1>2. me \in Locals
  BY <1>1, MemoryTyped
<1>3. CASE Relock(p)
  <2>1. /\ pc[p] = "rollback" /\ operations = NoProc /\ operations' = p
        /\ Goto(p, "abandon", me) /\ UNCHANGED <<aliases, leases, pending, used>>
    BY <1>3 DEF Relock, Lock, registry
  <2>2. pc'[p] = "abandon" /\ local'[p] = me
    BY <1>1, <2>1, Moved
  <2>3. NothingMissed(p)' /\ Loops(p)' /\ Draft(p)'
    BY <1>1, <2>1, <2>2 DEF NothingMissed, Loops, Draft, Committing, StartLabels, AliasLabels
  <2> QED
    BY <2>1, <2>3, QuietStep DEF Uncommitted, AbandonLabels
<1>4. ASSUME pc[p] \in {"spawn", "clean"}
      PROVE  /\ operations = p /\ pc[p] \in Uncommitted
             /\ me.displaced \subseteq Registered
             /\ \A a \in me.apps : OwnersOf(Host[a]) \subseteq me.displaced
             /\ \A op \in pending : op.owner \in me.apps => op.kind \in {"install", "start"}
             /\ me.apps \cap Registered = {} /\ me.apps \subseteq used
  BY <1>1, <1>4 DEF LockHeld, LockedLabels, Uncommitted, Committing, StartLabels,
     NothingMissed, LookedUp, NotRecorded, OwnIds
<1>5. ASSUME pc[p] \in {"spawn", "clean"}, NEW label \in {"spawn", "clean"}, NEW memory,
             Goto(p, label, memory), memory.apps = me.apps, memory.displaced = me.displaced,
             label = "spawn" => memory.todo \subseteq me.apps /\ memory.failed = {},
             label = "clean" => memory.todo \cup memory.failed \subseteq me.displaced,
             UNCHANGED <<aliases, leases, pending, used, operations>>
      PROVE  Consistent'
  <2>1. pc'[p] = label /\ local'[p] = memory
    BY <1>1, <1>5, Moved
  <2>2. NothingMissed(p)'
    BY <1>4, <1>5, <2>1 DEF NothingMissed, LookedUp, OwnersOf, Registered
  <2>3. Loops(p)' /\ Draft(p)'
    BY <1>5, <2>1 DEF Loops, Draft, AliasLabels
  <2> QED
    BY <1>4, <1>5, <2>2, <2>3, QuietStep
<1>6. CASE Spawn(p)
  <2>1. PICK started \in IF me.cmd = "runner" THEN {me.apps} ELSE {{a} : a \in me.todo} :
          IF me.todo = started
            THEN Goto(p, "clean", [me EXCEPT !.todo = me.displaced])
            ELSE Goto(p, "spawn", [me EXCEPT !.todo = @ \ started])
    BY <1>6 DEF Spawn
  <2> DEFINE label == IF me.todo = started THEN "clean" ELSE "spawn"
             memory == [me EXCEPT !.todo = IF me.todo = started THEN me.displaced
                                                                ELSE @ \ started]
  <2>2. pc[p] = "spawn" /\ me.todo \subseteq me.apps /\ me.failed = {}
    BY <1>1, <1>6 DEF Spawn, Loops
  <2>3. Goto(p, label, memory) /\ label \in {"spawn", "clean"}
    BY <2>1
  <2>4. /\ memory.apps = me.apps /\ memory.displaced = me.displaced /\ memory.failed = {}
        /\ label = "spawn" => memory.todo \subseteq me.apps
        /\ label = "clean" => memory.todo = me.displaced
    BY <1>2, <2>2 DEF Locals
  <2>5. UNCHANGED <<aliases, leases, pending, used, operations>>
    BY <1>6 DEF Spawn, registry
  <2> HIDE DEF memory, label
  <2> QED
    BY <1>5, <2>2, <2>3, <2>4, <2>5
<1>7. CASE SpawnFails(p)
  <2>1. /\ pc[p] = "spawn" /\ RollBack(p, me, me.apps)
        /\ UNCHANGED <<aliases, leases, pending, used>>
    BY <1>7 DEF SpawnFails, registry
  <2> QED
    BY <1>2, <1>4, <2>1, RollBackStep
<1>8. CASE CleanDisplaced(p)
  <2>1. PICK d \in me.todo : \E r \in RemoveIfOwned(routes, d, Tls[d], me.sel) :
          Goto(p, "clean",
               [me EXCEPT !.todo = @ \ {d}, !.failed = IF r.ok THEN @ ELSE @ \cup {d}])
    BY <1>8 DEF CleanDisplaced
  <2>2. PICK r \in RemoveIfOwned(routes, d, Tls[d], me.sel) :
          Goto(p, "clean",
               [me EXCEPT !.todo = @ \ {d}, !.failed = IF r.ok THEN @ ELSE @ \cup {d}])
    BY <2>1
  <2> DEFINE memory ==
        [me EXCEPT !.todo = @ \ {d}, !.failed = IF r.ok THEN @ ELSE @ \cup {d}]
  <2>3. /\ memory.apps = me.apps /\ memory.displaced = me.displaced
        /\ memory.todo \cup memory.failed \subseteq me.todo \cup me.failed
    BY <1>2 DEF Locals
  <2>4. pc[p] = "clean" /\ me.todo \cup me.failed \subseteq me.displaced
    BY <1>1, <1>8 DEF CleanDisplaced, Loops
  <2>5. UNCHANGED <<aliases, leases, pending, used, operations>>
    BY <1>8 DEF CleanDisplaced, registry
  <2>6. Goto(p, "clean", memory)
    BY <2>2
  <2> HIDE DEF memory
  <2> QED
    BY <1>5, <2>3, <2>4, <2>5, <2>6
<1>9. CASE CommitFails(p)
  <2>1. /\ pc[p] = "clean" /\ RollBack(p, [me EXCEPT !.failed = {}], me.apps)
        /\ UNCHANGED <<aliases, leases, pending, used>>
    BY <1>9 DEF CommitFails, registry
  <2>2. [me EXCEPT !.failed = {}] \in Locals
    BY <1>2 DEF Locals
  <2> QED
    BY <1>4, <2>1, <2>2, RollBackStep
<1>10. CASE CommitRuns(p)
  <2> DEFINE memory == [Idle EXCEPT !.cmd = me.cmd, !.sel = me.sel, !.apps = me.apps]
  <2>1. /\ aliases' = aliases \ me.displaced
        /\ leases' = (leases \ me.displaced) \cup me.apps
        /\ pending' = (JournalWithout(me.displaced) \ UNION {Completed(a) : a \in me.apps})
                        \cup Removal(me.failed)
        /\ operations' = NoProc /\ Goto(p, "live", memory) /\ used' = used
        /\ pc[p] = "clean"
    BY <1>10 DEF CommitRuns, Unlock
  <2>2. memory.apps = me.apps /\ memory.todo = {} /\ memory.failed = {}
    BY DEF Idle
  <2> HIDE DEF memory
  <2>3. /\ pc'[p] = "live" /\ local'[p] = memory
        /\ \A q \in Procs : q # p => pc'[q] = pc[q] /\ local'[q] = local[q]
    BY <1>1, <2>1, Moved
  <2>4. me.failed \subseteq me.displaced
    BY <1>1, <2>1 DEF Loops
  <2>5. /\ me.displaced \subseteq Registered /\ operations = p
        /\ \A a \in me.apps : OwnersOf(Host[a]) \subseteq me.displaced
        /\ \A op \in pending : op.owner \in me.apps => op.kind \in {"install", "start"}
        /\ me.apps \cap Registered = {} /\ me.apps \subseteq used
    BY <1>4, <2>1
  <2>6. \A op \in pending' : \/ op \in pending /\ op.owner \notin me.apps
                             \/ op.owner \in me.displaced
    <3>1. SUFFICES ASSUME NEW op \in pending, op.owner \in me.apps,
                          op \notin Completed(op.owner)
                   PROVE  FALSE
      BY <2>1, <2>4 DEF JournalWithout, Removal, Op
    <3>2. op.kind \in {"install", "start"} /\ op = Op(op.kind, op.owner)
      BY <1>1, <2>5, <3>1, OpOfPending DEF TypeOK
    <3> QED
      BY <3>1, <3>2 DEF Completed
  <2>7. Ids'
    <3>1. aliases' \cap leases' = {}
      BY <1>1, <2>1, <2>5 DEF Ids, Registered
    <3>2. Registered' \subseteq used'
      BY <1>1, <2>1, <2>5 DEF Ids, Registered
    <3>3. \A op \in pending' : op.owner \in used'
      BY <1>1, <2>1, <2>5, <2>6 DEF Ids, Registered
    <3> QED
      BY <3>1, <3>2, <3>3 DEF Ids
  <2>8. Registered' = (Registered \ me.displaced) \cup me.apps
    BY <2>1, <2>5 DEF Registered
  <2>9. OneOwnerPerHostname'
    <3>1. \A a, b \in me.apps : Host[a] = Host[b] => a = b
      BY <1>1 DEF OwnIds
    <3>2. \A a \in me.apps, b \in Registered \ me.displaced : Host[a] # Host[b]
      BY <2>5 DEF OwnersOf
    <3> QED
      BY <1>1, <2>8, <3>1, <3>2 DEF OneOwnerPerHostname
  <2>10. JournalSparesOwners'
    BY <1>1, <2>5, <2>6, <2>8 DEF JournalSparesOwners
  <2>11. Frame(p)
    BY <2>1, <2>2, <2>3, <2>5, NoProcIsNoProcess DEF Frame
  <2>12. OwnIds(p)'
    BY <1>1, <2>1, <2>2, <2>3 DEF OwnIds
  <2>13. LockHeld(p)' /\ NotRecorded(p)' /\ NothingMissed(p)' /\ Loops(p)' /\ Draft(p)'
    BY <2>2, <2>3 DEF LockHeld, LockedLabels, NotRecorded, NothingMissed, Loops, Draft,
       Uncommitted, Committing, StartLabels, AliasLabels, AbandonLabels
  <2> QED
    BY <2>7, <2>9, <2>10, <2>11, <2>12, <2>13, OwnedStep DEF CommandInv
<1> QED
  BY <1>3, <1>6, <1>7, <1>8, <1>9, <1>10

LEMMA AbandonConsistent ==
  ASSUME OwnershipInv, NEW p \in Procs, Abandon(p) \/ AbandonRestore(p) \/ AbandonWrite(p)
  PROVE  Consistent'
<1> DEFINE me == local[p]
<1>1. TypeOK /\ LockHeld(p) /\ Loops(p) /\ me \in Locals
  BY MemoryTyped DEF OwnershipInv, CommandInv
<1>2. /\ pc[p] \in {"abandon", "abandonRestore"} /\ operations = p
      /\ pc[p] \in Uncommitted /\ me.todo \subseteq me.apps
      /\ pc[p] = "abandonRestore" => me.cur \in me.apps /\ me.failed \subseteq {me.cur}
  BY <1>1 DEF LockHeld, LockedLabels, Uncommitted, AbandonLabels, Loops,
     Abandon, AbandonRestore, AbandonWrite
<1>3. ASSUME NEW memory, Goto(p, "abandonRestore", memory),
             memory.apps = me.apps, memory.todo = me.todo,
             memory.cur \in me.apps, memory.failed \subseteq {memory.cur},
             UNCHANGED <<aliases, leases, pending, used, operations>>
      PROVE  Consistent'
  <2>1. pc'[p] = "abandonRestore" /\ local'[p] = memory
    BY <1>1, <1>3, Moved
  <2>2. NothingMissed(p)' /\ Loops(p)' /\ Draft(p)'
    BY <1>2, <1>3, <2>1 DEF NothingMissed, Loops, Draft, Committing, StartLabels, AliasLabels
  <2> QED
    BY <1>2, <1>3, <2>2, JournalStep
<1>4. CASE Abandon(p)
  <2>1. PICK a \in me.todo : \E r \in RemoveIfOwned(routes, a, Tls[a], me.sel) :
          Goto(p, "abandonRestore", [me EXCEPT !.cur = a,
                                               !.failed = IF r.ok THEN {} ELSE {a}])
    BY <1>4 DEF Abandon
  <2>2. PICK r \in RemoveIfOwned(routes, a, Tls[a], me.sel) :
          Goto(p, "abandonRestore", [me EXCEPT !.cur = a,
                                               !.failed = IF r.ok THEN {} ELSE {a}])
    BY <2>1
  <2> DEFINE memory == [me EXCEPT !.cur = a, !.failed = IF r.ok THEN {} ELSE {a}]
  <2>3. /\ memory.apps = me.apps /\ memory.todo = me.todo /\ memory.cur = a
        /\ memory.failed \subseteq {a}
    BY <1>1 DEF Locals
  <2>4. Goto(p, "abandonRestore", memory)
    BY <2>2
  <2>5. UNCHANGED <<aliases, leases, pending, used, operations>>
    BY <1>4 DEF Abandon, registry
  <2> HIDE DEF memory
  <2> QED
    BY <1>2, <1>3, <2>3, <2>4, <2>5
<1>5. CASE AbandonRestore(p)
  <2>1. PICK d \in me.displaced :
          Goto(p, "abandonRestore", [me EXCEPT !.displaced = @ \ {d}])
    BY <1>5 DEF AbandonRestore
  <2> DEFINE memory == [me EXCEPT !.displaced = @ \ {d}]
  <2>2. /\ memory.apps = me.apps /\ memory.todo = me.todo /\ memory.cur = me.cur
        /\ memory.failed = me.failed
    BY <1>1 DEF Locals
  <2>3. Goto(p, "abandonRestore", memory)
    BY <2>1
  <2>4. UNCHANGED <<aliases, leases, pending, used, operations>> /\ pc[p] = "abandonRestore"
    BY <1>5 DEF AbandonRestore, registry
  <2> HIDE DEF memory
  <2> QED
    BY <1>2, <1>3, <2>2, <2>3, <2>4
<1>6. CASE AbandonWrite(p)
  <2> DEFINE left == me.apps \ {me.cur}
             memory == [me EXCEPT !.apps = left, !.todo = @ \ {me.cur}]
  <2>1. /\ pc[p] = "abandonRestore" /\ UNCHANGED <<aliases, leases, used>>
        /\ \/ pending' = (pending \ Completed(me.cur)) \cup Removal(me.failed)
           \/ pending' = pending
        /\ \/ operations' = operations /\ Goto(p, "abandon", memory)
           \/ RollBack(p, me, left)
    BY <1>6 DEF AbandonWrite
  <2>2. \A op \in pending' : op \in pending \/ op.owner \in me.apps
    BY <1>2, <2>1 DEF Removal, Op
  <2>3. memory.apps = left /\ memory.todo = me.todo \ {me.cur}
    BY <1>1 DEF Locals
  <2> HIDE DEF memory
  <2>4. CASE operations' = operations /\ Goto(p, "abandon", memory)
    BY <1>2, <2>1, <2>2, <2>3, <2>4, GiveUpStep
  <2>5. CASE RollBack(p, me, left)
    BY <1>1, <1>2, <2>1, <2>2, <2>5, RollBackStep
  <2> QED
    BY <2>1, <2>4, <2>5
<1> QED
  BY <1>4, <1>5, <1>6

LEMMA FinishConsistent ==
  ASSUME OwnershipInv, NEW p \in Procs,
         RunEnds(p) \/ FinishRoute(p) \/ FinishRemove(p) \/ FinishWrite(p)
  PROVE  Consistent'
<1> DEFINE me == local[p]
<1>1. /\ TypeOK /\ Ids /\ OneOwnerPerHostname /\ JournalSparesOwners
      /\ LockHeld(p) /\ OwnIds(p) /\ Loops(p) /\ me \in Locals
  BY MemoryTyped DEF OwnershipInv, CommandInv
<1>2. ASSUME NEW label \in {"finish", "finishRemove", "finishWrite"}, NEW memory,
             Goto(p, label, memory), memory.apps = me.apps, memory.todo \subseteq me.apps,
             label \in {"finishRemove", "finishWrite"} => memory.cur \in me.apps,
             label = "finishWrite" => memory.failed \subseteq {memory.cur},
             operations \in {p, NoProc} \/ operations' = operations,
             label # "finish" => operations' = p,
             UNCHANGED <<aliases, leases, pending, used>>
      PROVE  Consistent'
  <2>1. pc'[p] = label /\ local'[p] = memory
    BY <1>1, <1>2, Moved
  <2>2. NothingMissed(p)' /\ Loops(p)' /\ Draft(p)'
    BY <1>2, <2>1 DEF NothingMissed, Loops, Draft, Committing, StartLabels, AliasLabels
  <2>3. label \notin Uncommitted /\ (label \in LockedLabels => label # "finish")
    BY DEF Uncommitted, AliasLabels, StartLabels, AbandonLabels, LockedLabels
  <2> QED
    BY <1>2, <2>2, <2>3, QuietStep
<1>3. CASE RunEnds(p)
  <2> DEFINE memory == [me EXCEPT !.todo = me.apps]
  <2>1. /\ Goto(p, "finish", memory)
        /\ UNCHANGED <<aliases, leases, pending, used, operations>>
    BY <1>3 DEF RunEnds, registry
  <2>2. memory.apps = me.apps /\ memory.todo = me.apps
    BY <1>1 DEF Locals
  <2> HIDE DEF memory
  <2> QED
    BY <1>2, <2>1, <2>2
<1>4. CASE FinishRoute(p)
  <2>1. PICK a \in me.todo :
          Goto(p, "finishRemove", [me EXCEPT !.cur = a, !.todo = @ \ {a}])
    BY <1>4 DEF FinishRoute
  <2> DEFINE memory == [me EXCEPT !.cur = a, !.todo = @ \ {a}]
  <2>2. /\ operations = NoProc /\ operations' = p /\ pc[p] = "finish"
        /\ UNCHANGED <<aliases, leases, pending, used>>
    BY <1>4 DEF FinishRoute, Lock, registry
  <2>3. memory.apps = me.apps /\ memory.todo \subseteq me.todo /\ memory.cur = a
    BY <1>1 DEF Locals
  <2>4. me.todo \subseteq me.apps
    BY <1>1, <2>2 DEF Loops
  <2>5. Goto(p, "finishRemove", memory)
    BY <2>1
  <2> HIDE DEF memory
  <2> QED
    BY <1>2, <2>2, <2>3, <2>4, <2>5
<1>5. CASE FinishRemove(p)
  <2>1. PICK r \in RemoveIfOwned(routes, me.cur, Tls[me.cur], me.sel) :
          Goto(p, "finishWrite", [me EXCEPT !.failed = IF r.ok THEN {} ELSE {me.cur}])
    BY <1>5 DEF FinishRemove
  <2> DEFINE memory == [me EXCEPT !.failed = IF r.ok THEN {} ELSE {me.cur}]
  <2>2. /\ pc[p] = "finishRemove" /\ UNCHANGED <<aliases, leases, pending, used, operations>>
    BY <1>5 DEF FinishRemove, registry
  <2>3. operations = p /\ me.cur \in me.apps /\ me.todo \subseteq me.apps
    BY <1>1, <2>2 DEF LockHeld, LockedLabels, Loops
  <2>4. /\ memory.apps = me.apps /\ memory.todo = me.todo /\ memory.cur = me.cur
        /\ memory.failed \subseteq {me.cur}
    BY <1>1 DEF Locals
  <2>5. Goto(p, "finishWrite", memory)
    BY <2>1
  <2> HIDE DEF memory
  <2> QED
    BY <1>2, <2>2, <2>3, <2>4, <2>5
<1>6. CASE FinishWrite(p)
  <2>1. /\ pc[p] = "finishWrite" /\ operations' = NoProc
        /\ UNCHANGED <<aliases, used>>
        /\ \/ leases' = leases \ {me.cur} /\ pending' = pending \cup Removal(me.failed)
           \/ leases' = leases /\ pending' = pending
        /\ Goto(p, "idle", Idle) \/ Goto(p, "finish", me)
    BY <1>6 DEF FinishWrite, Unlock
  <2>2. /\ operations = p /\ me.cur \in me.apps /\ me.todo \subseteq me.apps
        /\ me.failed \subseteq {me.cur} /\ me.cur \notin aliases /\ me.cur \in used
    BY <1>1, <2>1 DEF LockHeld, LockedLabels, Loops, OwnIds
  <2>3. \A op \in pending' : op \in pending \/ (op.owner = me.cur /\ leases' = leases \ {me.cur})
    BY <2>1, <2>2 DEF Removal, Op
  <2>4. Ids' /\ OneOwnerPerHostname' /\ JournalSparesOwners'
    BY <1>1, <2>1, <2>2, <2>3 DEF Ids, OneOwnerPerHostname, JournalSparesOwners, Registered
  <2>5. CASE Goto(p, "idle", Idle)
    BY <2>1, <2>2, <2>4, <2>5, ReturnStep DEF Return, Unlock
  <2>6. CASE Goto(p, "finish", me)
    <3>1. /\ pc'[p] = "finish" /\ local'[p] = me
          /\ \A q \in Procs : q # p => pc'[q] = pc[q] /\ local'[q] = local[q]
      BY <1>1, <2>6, Moved
    <3>2. Frame(p)
      BY <2>1, <2>2, <3>1 DEF Frame
    <3>3. OwnIds(p)'
      BY <1>1, <2>1, <3>1 DEF OwnIds
    <3>4. LockHeld(p)' /\ NotRecorded(p)' /\ NothingMissed(p)' /\ Loops(p)' /\ Draft(p)'
      BY <2>2, <3>1 DEF LockHeld, LockedLabels, NotRecorded, NothingMissed, Loops, Draft,
         Uncommitted, Committing, StartLabels, AliasLabels, AbandonLabels
    <3> QED
      BY <2>4, <3>2, <3>3, <3>4, OwnedStep DEF CommandInv
  <2> QED
    BY <2>1, <2>5, <2>6
<1> QED
  BY <1>3, <1>4, <1>5, <1>6

\* A step of a reconciliation before its write.
LEMMA DraftStep ==
  ASSUME OwnershipInv, NEW p \in Procs, NEW label \in {"orphans", "replay", "routes"},
         NEW memory, Goto(p, label, memory), UNCHANGED <<aliases, leases, pending, used>>,
         operations \in {p, NoProc}, operations' = p,
         memory.apps \subseteq local[p].apps, Draft(p)'
  PROVE  Consistent'
<1>1. pc'[p] = label /\ local'[p] = memory
  BY Moved DEF OwnershipInv
<1>2. NothingMissed(p)' /\ Loops(p)'
  BY <1>1 DEF NothingMissed, Loops, Committing, StartLabels, AliasLabels
<1>3. label \notin Uncommitted
  BY DEF Uncommitted, AliasLabels, StartLabels, AbandonLabels
<1> QED
  BY <1>2, <1>3, QuietStep

LEMMA JudgeStep ==
  ASSUME OwnershipInv, NEW p \in Procs, NEW me \in Locals, JudgeLeases(p, me),
         me.apps \subseteq local[p].apps, me.kept = {}, UNCHANGED <<aliases, leases, pending, used>>,
         operations \in {p, NoProc}, operations' = p
  PROVE  Consistent'
<1>1. PICK unsure \in SUBSET leases :
        Goto(p, "replay", [me EXCEPT !.ops = pending, !.unsure = unsure, !.mark = faults,
                                     !.dead = {o \in leases \ unsure : IsDead(o)}])
  BY DEF JudgeLeases
<1> DEFINE memory == [me EXCEPT !.ops = pending, !.unsure = unsure, !.mark = faults,
                                !.dead = {o \in leases \ unsure : IsDead(o)}]
<1>2. /\ memory.apps = me.apps /\ memory.kept = {} /\ memory.ops = pending
      /\ memory.dead \subseteq leases
  BY DEF Locals
<1>3. Goto(p, "replay", memory)
  BY <1>1
<1> HIDE DEF memory
<1>4. pc'[p] = "replay" /\ local'[p] = memory
  BY <1>3, Moved DEF OwnershipInv
<1>5. Draft(p)'
  BY <1>2, <1>4 DEF Draft, OwnershipInv, Ids, JournalSparesOwners, Registered
<1> QED
  BY <1>2, <1>3, <1>5, DraftStep

LEMMA ReconcileConsistent ==
  ASSUME OwnershipInv, NEW p \in Procs,
         \/ Reconcile(p) /\ "reconcile" \in Commands
         \/ Prune(p) \/ PruneOrphan(p) \/ PruneReconcile(p)
  PROVE  Consistent'
<1> DEFINE me == local[p]
<1>1. TypeOK /\ LockHeld(p) /\ OwnIds(p) /\ Draft(p) /\ me \in Locals
  BY MemoryTyped DEF OwnershipInv, CommandInv
<1>2. CASE Reconcile(p) /\ "reconcile" \in Commands
  <2> DEFINE memory == [Idle EXCEPT !.cmd = "reconcile", !.sel = SelectedServers]
  <2>1. SelectedServers \in SUBSET Servers
    BY DEF SelectedServers, Server, Servers
  <2>2. memory \in Locals /\ memory.apps = {} /\ memory.kept = {}
    BY <1>2, <2>1, IdleTyped DEF Idle, Locals
  <2>3. /\ JudgeLeases(p, memory) /\ operations = NoProc /\ operations' = p
        /\ UNCHANGED <<aliases, leases, pending, used>>
    BY <1>2 DEF Reconcile, Lock, registry
  <2> HIDE DEF memory
  <2> QED
    BY <2>2, <2>3, JudgeStep
<1>3. CASE Prune(p)
  <2> DEFINE memory == [Idle EXCEPT !.cmd = "prune", !.sel = Servers,
                                    !.orphans = {r \in routes : r[2] \notin Registered}]
  <2>1. /\ Goto(p, "orphans", memory) /\ operations = NoProc /\ operations' = p
        /\ UNCHANGED <<aliases, leases, pending, used>>
    BY <1>3 DEF Prune, Lock, registry
  <2>2. memory.apps = {} /\ memory.kept = {}
    BY DEF Idle
  <2> HIDE DEF memory
  <2>3. pc'[p] = "orphans" /\ local'[p] = memory
    BY <1>1, <2>1, Moved
  <2>4. Draft(p)'
    BY <2>2, <2>3 DEF Draft
  <2> QED
    BY <2>1, <2>2, <2>4, DraftStep
<1>4. CASE PruneOrphan(p)
  <2>1. PICK seen \in me.orphans : Goto(p, "orphans", [me EXCEPT !.orphans = @ \ {seen}])
    BY <1>4 DEF PruneOrphan
  <2> DEFINE memory == [me EXCEPT !.orphans = @ \ {seen}]
  <2>2. pc[p] = "orphans" /\ UNCHANGED <<aliases, leases, pending, used, operations>>
    BY <1>4 DEF PruneOrphan, registry
  <2>3. operations = p /\ me.kept = {}
    BY <1>1, <2>2 DEF LockHeld, LockedLabels, Draft
  <2>4. memory.apps = me.apps /\ memory.kept = {}
    BY <1>1, <2>3 DEF Locals
  <2>5. Goto(p, "orphans", memory)
    BY <2>1
  <2> HIDE DEF memory
  <2>6. pc'[p] = "orphans" /\ local'[p] = memory
    BY <1>1, <2>5, Moved
  <2>7. Draft(p)'
    BY <2>4, <2>6 DEF Draft
  <2> QED
    BY <2>2, <2>3, <2>4, <2>5, <2>7, DraftStep
<1>5. CASE PruneReconcile(p)
  <2>1. /\ pc[p] = "orphans" /\ JudgeLeases(p, me)
        /\ UNCHANGED <<aliases, leases, pending, used, operations>>
    BY <1>5 DEF PruneReconcile, registry
  <2>2. operations = p /\ me.kept = {}
    BY <1>1, <2>1 DEF LockHeld, LockedLabels, Draft
  <2> QED
    BY <1>1, <2>1, <2>2, JudgeStep
<1> QED
  BY <1>2, <1>3, <1>4, <1>5

LEMMA ReplayConsistent ==
  ASSUME OwnershipInv, NEW p \in Procs,
         \/ ReplayRestore(p) \/ ReplayRemoval(p) \/ Replayed(p)
         \/ ReconcileRoute(p) \/ ReconcileWrite(p)
  PROVE  Consistent'
<1> DEFINE me == local[p]
<1>1. /\ TypeOK /\ Ids /\ OneOwnerPerHostname /\ JournalSparesOwners
      /\ LockHeld(p) /\ Draft(p) /\ me \in Locals
  BY MemoryTyped DEF OwnershipInv, CommandInv
<1>2. /\ pc[p] \in {"replay", "routes"} /\ operations = p
      /\ me.dead \subseteq leases
      /\ pc[p] = "routes" => me.todo \subseteq Registered
      /\ \A op \in me.ops \cup me.kept :
           /\ op.owner \in used
           /\ op.kind \in RemovingKinds => op.owner \notin Registered \ me.dead
  BY <1>1 DEF LockHeld, LockedLabels, Draft,
     ReplayRestore, ReplayRemoval, Replayed, ReconcileRoute, ReconcileWrite
<1>3. ASSUME NEW label \in {"replay", "routes"}, NEW memory, Goto(p, label, memory),
             memory.apps = me.apps, memory.dead = me.dead,
             label = "routes" => memory.todo \subseteq Registered,
             \A op \in memory.ops \cup memory.kept :
               \/ op \in me.ops \cup me.kept
               \/ /\ op.owner \in Registered
                  /\ op.kind \in RemovingKinds => op.owner \in me.dead,
             UNCHANGED <<aliases, leases, pending, used, operations>>
      PROVE  Consistent'
  <2>1. pc'[p] = label /\ local'[p] = memory
    BY <1>1, <1>3, Moved
  <2>2. Draft(p)'
    BY <1>1, <1>2, <1>3, <2>1 DEF Draft, Ids, Registered
  <2> QED
    BY <1>2, <1>3, <2>2, DraftStep
<1>4. ASSUME NEW op \in me.ops, NEW memory, pc[p] = "replay", Goto(p, "replay", memory),
             \/ memory = [me EXCEPT !.ops = @ \ {op}]
             \/ memory = [[me EXCEPT !.ops = @ \ {op}] EXCEPT !.kept = @ \cup {op}],
             UNCHANGED <<aliases, leases, pending, used, operations>>
      PROVE  Consistent'
  <2>1. /\ memory.apps = me.apps /\ memory.dead = me.dead
        /\ memory.ops \cup memory.kept \subseteq me.ops \cup me.kept
    <3>1. CASE memory = [me EXCEPT !.ops = @ \ {op}]
      BY <1>1, <3>1 DEF Locals
    <3>2. CASE memory = [[me EXCEPT !.ops = @ \ {op}] EXCEPT !.kept = @ \cup {op}]
      <4>1. /\ memory.apps = me.apps /\ memory.dead = me.dead /\ memory.ops = me.ops \ {op}
            /\ memory.kept = me.kept \cup {op}
        BY <1>1, <3>2 DEF Locals
      <4> QED
        BY <1>4, <4>1
    <3> QED
      BY <1>4, <3>1, <3>2
  <2> QED
    BY <1>3, <1>4, <2>1
<1>5. CASE ReplayRestore(p)
  <2>1. PICK op \in me.ops :
          \/ Goto(p, "replay", [me EXCEPT !.ops = @ \ {op}])
          \/ Goto(p, "replay", [[me EXCEPT !.ops = @ \ {op}] EXCEPT !.kept = @ \cup {op}])
    BY <1>5 DEF ReplayRestore
  <2>2. pc[p] = "replay" /\ UNCHANGED <<aliases, leases, pending, used, operations>>
    BY <1>5 DEF ReplayRestore, registry
  <2> QED
    BY <1>4, <2>1, <2>2
<1>6. CASE ReplayRemoval(p)
  <2>1. PICK op \in me.ops :
          \/ Goto(p, "replay", [me EXCEPT !.ops = @ \ {op}])
          \/ Goto(p, "replay", [[me EXCEPT !.ops = @ \ {op}] EXCEPT !.kept = @ \cup {op}])
    BY <1>6 DEF ReplayRemoval
  <2>2. pc[p] = "replay" /\ UNCHANGED <<aliases, leases, pending, used, operations>>
    BY <1>6 DEF ReplayRemoval, registry
  <2> QED
    BY <1>4, <2>1, <2>2
<1>7. CASE Replayed(p)
  <2> DEFINE memory == [me EXCEPT !.todo = Registered]
  <2>1. /\ Goto(p, "routes", memory)
        /\ UNCHANGED <<aliases, leases, pending, used, operations>>
    BY <1>7 DEF Replayed, registry
  <2>2. /\ memory.apps = me.apps /\ memory.dead = me.dead /\ memory.todo = Registered
        /\ memory.ops = me.ops /\ memory.kept = me.kept
    BY <1>1 DEF Locals
  <2> HIDE DEF memory
  <2> QED
    BY <1>3, <2>1, <2>2
<1>8. CASE ReconcileRoute(p)
  <2>1. PICK o \in me.todo :
          LET rest == [me EXCEPT !.todo = @ \ {o}] IN
          \/ Goto(p, "routes", rest)
          \/ /\ o \in me.dead
             /\ Goto(p, "routes", [rest EXCEPT !.kept = @ \cup {Op("remove", o)}])
          \/ Goto(p, "routes", [rest EXCEPT !.kept = @ \cup {Op("restore", o)}])
    BY <1>8 DEF ReconcileRoute
  <2>2. /\ pc[p] = "routes" /\ UNCHANGED <<aliases, leases, pending, used, operations>>
        /\ o \in Registered
    BY <1>2, <1>8 DEF ReconcileRoute, registry
  <2>3. ASSUME NEW new \in SUBSET {Op("remove", o), Op("restore", o)},
               Op("remove", o) \in new => o \in me.dead,
               NEW memory, Goto(p, "routes", memory),
               memory.apps = me.apps, memory.dead = me.dead, memory.ops = me.ops,
               memory.todo \subseteq me.todo, memory.kept = me.kept \cup new
        PROVE  Consistent'
    <3>1. \A op \in new : op.owner = o /\ (op.kind \in RemovingKinds => o \in me.dead)
      BY <2>3 DEF Op, RemovingKinds
    <3> QED
      BY <1>2, <1>3, <2>2, <2>3, <3>1
  <2> DEFINE rest == [me EXCEPT !.todo = @ \ {o}]
             removed == [rest EXCEPT !.kept = @ \cup {Op("remove", o)}]
             restored == [rest EXCEPT !.kept = @ \cup {Op("restore", o)}]
  <2>4. /\ rest.apps = me.apps /\ rest.dead = me.dead /\ rest.ops = me.ops
        /\ rest.todo \subseteq me.todo /\ rest.kept = me.kept \cup {}
    BY <1>1 DEF Locals
  <2>5. /\ removed.apps = me.apps /\ removed.dead = me.dead /\ removed.ops = me.ops
        /\ removed.todo \subseteq me.todo /\ removed.kept = me.kept \cup {Op("remove", o)}
    BY <1>1 DEF Locals
  <2>6. /\ restored.apps = me.apps /\ restored.dead = me.dead /\ restored.ops = me.ops
        /\ restored.todo \subseteq me.todo /\ restored.kept = me.kept \cup {Op("restore", o)}
    BY <1>1 DEF Locals
  <2>7. \/ Goto(p, "routes", rest)
        \/ o \in me.dead /\ Goto(p, "routes", removed)
        \/ Goto(p, "routes", restored)
    BY <2>1
  <2>8. Op("remove", o) # Op("restore", o)
    BY DEF Op
  <2> HIDE DEF rest, removed, restored
  <2>9. CASE Goto(p, "routes", rest)
    BY <2>3, <2>4, <2>9
  <2>10. CASE o \in me.dead /\ Goto(p, "routes", removed)
    BY <2>3, <2>5, <2>10
  <2>11. CASE Goto(p, "routes", restored)
    BY <2>3, <2>6, <2>8, <2>11
  <2> QED
    BY <2>7, <2>9, <2>10, <2>11
<1>9. CASE ReconcileWrite(p)
  <2>1. /\ leases' = leases \ me.dead /\ pending' = me.kept /\ Return(p)
        /\ UNCHANGED <<aliases, used>>
    BY <1>9 DEF ReconcileWrite
  <2>2. Registered' = Registered \ me.dead
    BY <1>1, <1>2, <2>1 DEF Registered, Ids
  <2>3. Ids' /\ OneOwnerPerHostname' /\ JournalSparesOwners'
    BY <1>1, <1>2, <2>1, <2>2 DEF Ids, OneOwnerPerHostname, JournalSparesOwners
  <2> QED
    BY <1>2, <2>1, <2>3, ReturnStep
<1> QED
  BY <1>5, <1>6, <1>7, <1>8, <1>9

LEMMA FaultConsistent ==
  ASSUME OwnershipInv,
         \/ \E p \in Procs : Crash(p)
         \/ \E o \in Owners : ChildExits(o)
         \/ CaddyReloads
         \/ UNCHANGED vars
  PROVE  Consistent'
<1>1. ASSUME NEW p \in Procs, Crash(p)
      PROVE  Consistent'
  <2>1. /\ Goto(p, "idle", Idle) /\ UNCHANGED <<aliases, leases, pending, used>>
        /\ operations = p \/ operations' = operations
    BY <1>1 DEF Crash, registry
  <2>2. pc'[p] = "idle" /\ local'[p] = Idle /\ Idle.apps = {}
    BY <2>1, Moved DEF OwnershipInv, Idle
  <2>3. NothingMissed(p)' /\ Loops(p)' /\ Draft(p)'
    BY <2>2 DEF NothingMissed, Loops, Draft, Committing, StartLabels, AliasLabels
  <2>4. "idle" \notin Uncommitted /\ "idle" \notin LockedLabels
    BY DEF Uncommitted, AliasLabels, StartLabels, AbandonLabels, LockedLabels
  <2> QED
    BY <2>1, <2>2, <2>3, <2>4, QuietStep
<1>2. CASE UNCHANGED <<registry, operations, pc, local, used>>
  <2>1. \A p \in Procs : CommandInv(p)'
    BY <1>2 DEF OwnershipInv, CommandInv, LockHeld, OwnIds, NotRecorded, NothingMissed,
       LookedUp, OwnersOf, Loops, Draft, Registered, registry
  <2> QED
    BY <1>2, <2>1, RegistryUnchanged DEF Consistent, registry
<1>3. ASSUME NEW o \in Owners, ChildExits(o)
      PROVE  Consistent'
  BY <1>2, <1>3 DEF ChildExits
<1> QED
  BY <1>1, <1>2, <1>3 DEF CaddyReloads, vars

LEMMA StepConsistent ==
  ASSUME OwnershipInv, [Next]_vars
  PROVE  Consistent'
<1>1. ASSUME NEW p \in Procs, Begin(p)
      PROVE  Consistent'
  BY <1>1, SetAliasConsistent, UnaliasConsistent, StartConsistent, ReconcileConsistent
  DEF Begin
<1>2. ASSUME NEW p \in Procs, Continue(p)
      PROVE  Consistent'
  BY <1>2, AliasConsistent, UnaliasConsistent, PrepareConsistent, CommitConsistent,
     AbandonConsistent, FinishConsistent, ReconcileConsistent, ReplayConsistent DEF Continue
<1>3. ASSUME NEW p \in Procs, RunEnds(p)
      PROVE  Consistent'
  BY <1>3, FinishConsistent
<1> QED
  BY <1>1, <1>2, <1>3, FaultConsistent DEF Next

LEMMA InitConsistent ==
  ASSUME Init
  PROVE  OwnershipInv
<1>1. TypeOK
  BY IdleTyped, FaultsAreBounded DEF Init, TypeOK, Labels
<1>2. Ids /\ OneOwnerPerHostname /\ JournalSparesOwners
  BY DEF Init, Ids, OneOwnerPerHostname, JournalSparesOwners, Registered
<1>3. ASSUME NEW p \in Procs
      PROVE  CommandInv(p)
  <2>1. pc[p] = "idle" /\ local[p].apps = {} /\ \A q \in Procs : local[q].apps = {}
    BY DEF Init, Idle
  <2> QED
    BY <2>1 DEF CommandInv, LockHeld, OwnIds, NotRecorded, NothingMissed, Loops, Draft,
       LockedLabels, Uncommitted, Committing, StartLabels, AliasLabels, AbandonLabels
<1> QED
  BY <1>1, <1>2, <1>3 DEF OwnershipInv

-----------------------------------------------------------------------------
(* The theorems.                                                           *)

\* At every step of every interleaving, crash and failed Caddy call, each
\* command's knowledge of the registry is up to date for as long as it acts
\* on it (the operations lock of Store::lock_operations does its work).
THEOREM OwnershipHolds == Spec => []OwnershipInv
<1>1. ASSUME OwnershipInv, [Next]_vars
      PROVE  OwnershipInv'
  BY <1>1, StepTyped, StepConsistent DEF OwnershipInv, Consistent
<1> QED
  BY <1>1, InitConsistent, PTL DEF Spec

\* The registry, the journal, the routes and every command's memory stay well
\* formed; a workspace group only holds recorded leases.
THEOREM TypesHold == Spec => []TypeOK
<1>1. OwnershipInv => TypeOK
  BY DEF OwnershipInv
<1> QED
  BY <1>1, OwnershipHolds, PTL

\* However many commands run, and whatever fails, two owners are never on
\* record for one hostname (set_alias_with, commit_prepared_runs).
THEOREM HostnamesHaveOneOwner == Spec => []OneOwnerPerHostname
<1>1. OwnershipInv => OneOwnerPerHostname
  BY DEF OwnershipInv
<1> QED
  BY <1>1, OwnershipHolds, PTL

\* The journal never holds an entry whose replay would take down the route of
\* a recorded owner (retry_pending).
THEOREM ReplayIsSafe == Spec => []JournalSparesOwners
<1>1. OwnershipInv => JournalSparesOwners
  BY DEF OwnershipInv
<1> QED
  BY <1>1, OwnershipHolds, PTL

-----------------------------------------------------------------------------
(* What one step of process p can do to the ids, the children and the      *)
(* leases, whatever it does to routes and journal.                         *)

ChildrenDie ==
  \A o \in Owners : child'[o] = child[o] \/ (child[o] = "alive" /\ child'[o] = "dead")

IdsKept(p) ==
  /\ \A q \in Procs : q # p => pc'[q] = pc[q] /\ local'[q] = local[q]
  /\ used \subseteq used'
  /\ local'[p].apps \subseteq local[p].apps \cup (used' \ used)
  /\ pc'[p] \in BeforeWrite => pc[p] \in BeforeWrite \/ local'[p].apps \cap used = {}

StepOf(p) ==
  /\ IdsKept(p)
  /\ \A o \in Owners : \/ child'[o] = child[o]
                       \/ child[o] = "alive" /\ child'[o] = "dead"
                       \/ pc[p] = "spawn" /\ o \in local[p].apps /\ child'[o] = "alive"
  /\ \A o \in leases' \ leases : child'[o] # "none"
  /\ grouped' \subseteq grouped \/ pc[p] \in LockedLabels
  /\ Aimed(p)' /\ Started(p)' /\ DeadIsDead(p)'

\* Labels at which Started or DeadIsDead says something.
Watched ==
  {"spawn", "clean", "live", "finish", "finishRemove", "finishWrite", "replay", "routes"}

LEMMA StepKeepsDepartures ==
  ASSUME OwnershipInv, DepartureInv, NEW p \in Procs, StepOf(p)
  PROVE  DepartureInv'
<1>1. TypeOK /\ Ids
  BY DEF OwnershipInv
<1>2. \A o \in leases' : child'[o] # "none"
  <2>1. leases \subseteq Owners /\ \A o \in leases : child[o] # "none"
    BY <1>1 DEF TypeOK, DepartureInv
  <2>2. \A o \in leases : child'[o] # "none"
    BY <2>1 DEF StepOf
  <2> QED
    BY <2>2 DEF StepOf
<1>3. ASSUME NEW q \in Procs, q # p
      PROVE  Aimed(q)' /\ Started(q)' /\ DeadIsDead(q)'
  <2>1. /\ pc'[q] = pc[q] /\ local'[q] = local[q]
        /\ Aimed(q) /\ Started(q) /\ DeadIsDead(q)
    BY <1>3 DEF StepOf, IdsKept, DepartureInv
  <2>2. Aimed(q)'
    BY <2>1 DEF Aimed
  <2>3. local[q].apps \cap local[p].apps = {} /\ local[q].apps \subseteq Owners
    BY <1>1, <1>3, MemoryTyped DEF OwnershipInv, CommandInv, OwnIds
  <2>4. \A a \in local[q].apps :
          /\ child[a] # "none" => child'[a] # "none"
          /\ child[a] = "dead" => child'[a] = "dead"
    BY <2>3 DEF StepOf
  <2>5. Started(q)'
    BY <2>1, <2>4 DEF Started
  <2>6. ASSUME pc[q] \in {"replay", "routes"}
        PROVE  DeadIsDead(q)'
    <3>1. pc[p] \notin LockedLabels
      BY <1>3, <2>6 DEF OwnershipInv, CommandInv, LockHeld, LockedLabels
    <3>2. pc[p] # "spawn" /\ grouped' \subseteq grouped
      BY <3>1 DEF StepOf, LockedLabels
    <3>3. local[q].dead \subseteq leases /\ leases \subseteq used /\ leases \subseteq Owners
      BY <1>1, <2>6 DEF OwnershipInv, CommandInv, Draft, Ids, Registered, TypeOK
    <3>4. \A o \in local[q].dead : child'[o] = "dead"
      BY <2>1, <2>6, <3>2, <3>3 DEF DeadIsDead, StepOf
    <3>5. ASSUME NEW o \in local[q].dead, o \in grouped'
          PROVE  ~Supervised(o)'
      <4>1. \A r \in Procs : o \notin local[r].apps
        BY <2>1, <2>6, <3>2, <3>5 DEF DeadIsDead, Supervised
      <4>2. \A r \in Procs : o \notin local'[r].apps
        BY <3>3, <3>5, <4>1 DEF StepOf, IdsKept
      <4> QED
        BY <4>2 DEF Supervised
    <3> QED
      BY <2>1, <3>4, <3>5 DEF DeadIsDead
  <2> QED
    BY <2>1, <2>2, <2>5, <2>6 DEF DeadIsDead
<1> QED
  BY <1>2, <1>3 DEF DepartureInv, StepOf

\* A step that starts nothing, on its way to a label where nothing is watched.
LEMMA QuietMove ==
  ASSUME TypeOK, DepartureInv, NEW p \in Procs, NEW label, NEW memory, Goto(p, label, memory),
         ChildrenDie, used' = used, leases' \subseteq leases, grouped' \subseteq grouped,
         memory.apps \subseteq local[p].apps, label \notin Watched,
         label \in Committing => /\ pc[p] \in Committing
                                 /\ memory.apps = local[p].apps
                                 /\ memory.displaced = local[p].displaced
  PROVE  StepOf(p)
<1>1. /\ pc'[p] = label /\ local'[p] = memory
      /\ \A q \in Procs : q # p => pc'[q] = pc[q] /\ local'[q] = local[q]
  BY Moved
<1>2. Aimed(p)'
  BY <1>1 DEF Aimed, DepartureInv
<1>3. Started(p)' /\ DeadIsDead(p)'
  BY <1>1 DEF Started, DeadIsDead, Watched
<1>4. IdsKept(p)
  BY <1>1 DEF IdsKept, BeforeWrite, Committing, StartLabels
<1> QED
  BY <1>2, <1>3, <1>4 DEF StepOf, ChildrenDie

LEMMA QuietReturn ==
  ASSUME TypeOK, DepartureInv, NEW p \in Procs, Return(p) \/ Goto(p, "idle", Idle),
         ChildrenDie, used' = used, leases' \subseteq leases, grouped' \subseteq grouped
  PROVE  StepOf(p)
<1>1. Goto(p, "idle", Idle)
  BY DEF Return
<1>2. Idle.apps = {} /\ "idle" \notin Watched /\ "idle" \notin Committing
  BY DEF Idle, Watched, Committing, StartLabels
<1> QED
  BY <1>1, <1>2, QuietMove

LEMMA ChildrenUnchanged ==
  ASSUME child' = child
  PROVE  ChildrenDie
  BY DEF ChildrenDie

LEMMA KillMeansDie ==
  ASSUME TypeOK, NEW os, Kill(os)
  PROVE  ChildrenDie
  BY DEF Kill, ChildrenDie, TypeOK

LEMMA IdsMoved ==
  ASSUME TypeOK, NEW p \in Procs, NEW label, NEW memory, Goto(p, label, memory), used' = used,
         memory.apps \subseteq local[p].apps,
         label \in Committing => pc[p] \in Committing
  PROVE  IdsKept(p)
<1>1. /\ pc'[p] = label /\ local'[p] = memory
      /\ \A q \in Procs : q # p => pc'[q] = pc[q] /\ local'[q] = local[q]
  BY Moved
<1> QED
  BY <1>1 DEF IdsKept, BeforeWrite, Committing, StartLabels

-----------------------------------------------------------------------------
(* Every action of a command is such a step.                               *)

LEMMA AliasSteps ==
  ASSUME OwnershipInv, DepartureInv, NEW p \in Procs,
         \/ AliasEnsure(p) \/ AliasPublish(p) \/ AliasUndo(p) \/ AliasRestore(p)
         \/ AliasDrop(p) \/ AliasClean(p) \/ AliasCommit(p)
  PROVE  StepOf(p)
<1> DEFINE me == local[p]
<1>1. TypeOK /\ me \in Locals
  BY MemoryTyped DEF OwnershipInv
<1>2. /\ ChildrenDie /\ used' = used /\ leases' \subseteq leases /\ grouped' \subseteq grouped
  BY ChildrenUnchanged DEF AliasEnsure, AliasPublish, AliasUndo, AliasRestore, AliasDrop,
     AliasClean, AliasCommit, registry
<1>3. ASSUME NEW label \in AliasLabels, NEW memory, Goto(p, label, memory),
             memory.apps = me.apps, memory.displaced = me.displaced,
             label \in Committing => pc[p] \in Committing
      PROVE  StepOf(p)
  <2>1. label \notin Watched
    BY DEF AliasLabels, Watched
  <2> QED
    BY <1>1, <1>2, <1>3, <2>1, QuietMove
<1>4. CASE Return(p)
  BY <1>1, <1>2, <1>4, QuietReturn
<1>5. CASE AliasEnsure(p)
  <2>1. pc[p] = "aliasEnsure" /\ (Goto(p, "aliasPublish", me) \/ Return(p))
    BY <1>5 DEF AliasEnsure
  <2> QED
    BY <1>3, <1>4, <2>1 DEF AliasLabels, Committing
<1>6. CASE AliasPublish(p)
  <2> DEFINE memory == [me EXCEPT !.todo = me.displaced]
  <2>1. pc[p] = "aliasPublish" /\ (Goto(p, "aliasClean", memory) \/ Goto(p, "aliasUndo", me))
    BY <1>6 DEF AliasPublish
  <2>2. memory.apps = me.apps /\ memory.displaced = me.displaced
    BY <1>1 DEF Locals
  <2> HIDE DEF memory
  <2> QED
    BY <1>3, <2>1, <2>2 DEF AliasLabels, Committing
<1>7. CASE AliasUndo(p)
  <2>1. PICK r \in RemoveIfOwned(routes, me.cur, Tls[me.cur], me.sel) :
          Goto(p, "aliasRestore", [me EXCEPT !.todo = me.displaced,
                                       !.failed = IF r.ok THEN {} ELSE {me.cur}])
    BY <1>7 DEF AliasUndo
  <2> DEFINE memory == [me EXCEPT !.todo = me.displaced,
                                  !.failed = IF r.ok THEN {} ELSE {me.cur}]
  <2>2. memory.apps = me.apps /\ memory.displaced = me.displaced
    BY <1>1 DEF Locals
  <2>3. Goto(p, "aliasRestore", memory)
    BY <2>1
  <2> HIDE DEF memory
  <2> QED
    BY <1>3, <2>2, <2>3 DEF AliasLabels, Committing, StartLabels
<1>8. CASE AliasRestore(p)
  <2>1. PICK d \in me.todo : Goto(p, "aliasRestore", [me EXCEPT !.todo = @ \ {d}])
    BY <1>8 DEF AliasRestore
  <2> DEFINE memory == [me EXCEPT !.todo = @ \ {d}]
  <2>2. memory.apps = me.apps /\ memory.displaced = me.displaced
    BY <1>1 DEF Locals
  <2>3. Goto(p, "aliasRestore", memory)
    BY <2>1
  <2> HIDE DEF memory
  <2> QED
    BY <1>3, <2>2, <2>3 DEF AliasLabels, Committing, StartLabels
<1>9. CASE AliasClean(p)
  <2>1. PICK d \in me.todo, failed \in SUBSET Owners :
          /\ pc[p] = "aliasClean"
          /\ Goto(p, "aliasClean", [me EXCEPT !.todo = @ \ {d}, !.failed = failed])
    <3>1. PICK d \in me.todo : \E r \in RemoveIfOwned(routes, d, Tls[d], me.sel) :
            Goto(p, "aliasClean",
                 [me EXCEPT !.todo = @ \ {d}, !.failed = IF r.ok THEN @ ELSE @ \cup {d}])
      BY <1>9 DEF AliasClean
    <3>2. PICK r \in RemoveIfOwned(routes, d, Tls[d], me.sel) :
            Goto(p, "aliasClean",
                 [me EXCEPT !.todo = @ \ {d}, !.failed = IF r.ok THEN @ ELSE @ \cup {d}])
      BY <3>1
    <3>3. (IF r.ok THEN me.failed ELSE me.failed \cup {d}) \in SUBSET Owners
      BY <1>1, MemoryTyped
    <3>4. pc[p] = "aliasClean"
      BY <1>9 DEF AliasClean
    <3> QED
      BY <3>2, <3>3, <3>4
  <2> DEFINE memory == [me EXCEPT !.todo = @ \ {d}, !.failed = failed]
  <2>2. memory.apps = me.apps /\ memory.displaced = me.displaced
    BY <1>1 DEF Locals
  <2>3. Goto(p, "aliasClean", memory) /\ pc[p] = "aliasClean"
    BY <2>1
  <2> HIDE DEF memory
  <2> QED
    BY <1>3, <2>2, <2>3 DEF AliasLabels
<1>10. CASE AliasDrop(p) \/ AliasCommit(p)
  BY <1>4, <1>10 DEF AliasDrop, AliasCommit
<1> QED
  BY <1>5, <1>6, <1>7, <1>8, <1>9, <1>10

LEMMA UnaliasSteps ==
  ASSUME OwnershipInv, DepartureInv, NEW p \in Procs,
         \/ \E a \in Owners, t \in BOOLEAN : RemoveAlias(p, a, t)
         \/ UnaliasRemove(p) \/ UnaliasDone(p)
  PROVE  StepOf(p)
<1>1. TypeOK
  BY DEF OwnershipInv
<1>2. ChildrenDie /\ used' = used /\ leases' \subseteq leases /\ grouped' \subseteq grouped
  BY ChildrenUnchanged DEF RemoveAlias, UnaliasRemove, UnaliasDone, registry
<1>3. ASSUME NEW label \in {"unaliasRemove", "unaliasDone"}, NEW memory,
             Goto(p, label, memory), memory.apps \subseteq local[p].apps
      PROVE  StepOf(p)
  <2>1. label \notin Watched /\ label \notin Committing
    BY DEF Committing, StartLabels, Watched
  <2> QED
    BY <1>1, <1>2, <1>3, <2>1, QuietMove
<1>4. ASSUME NEW a \in Owners, NEW t \in BOOLEAN, RemoveAlias(p, a, t)
      PROVE  StepOf(p)
  <2> DEFINE memory == [Idle EXCEPT !.cmd = "unalias", !.sel = {Server(t)}, !.cur = a]
  <2>1. Goto(p, "unaliasRemove", memory)
    BY <1>4 DEF RemoveAlias
  <2>2. memory.apps = {}
    BY DEF Idle
  <2> HIDE DEF memory
  <2> QED
    BY <1>3, <2>1, <2>2
<1>5. CASE UnaliasRemove(p)
  <2>1. Goto(p, "unaliasDone", local[p]) \/ Return(p)
    BY <1>5 DEF UnaliasRemove
  <2> QED
    BY <1>1, <1>2, <1>3, <2>1, QuietReturn
<1>6. CASE UnaliasDone(p)
  BY <1>1, <1>2, <1>6, QuietReturn DEF UnaliasDone
<1> QED
  BY <1>4, <1>5, <1>6

\* A command that starts: its ids are new, and nothing else happens yet.
LEMMA FreshStep ==
  ASSUME OwnershipInv, NEW p \in Procs, NEW label \in {"aliasEnsure", "prepare"}, NEW memory,
         Goto(p, label, memory), used' = used \cup memory.apps, memory.apps \cap used = {},
         UNCHANGED <<leases, grouped, child>>,
         \A d \in memory.displaced : \E a \in memory.apps : Host[a] = Host[d]
  PROVE  StepOf(p)
<1>1. /\ pc'[p] = label /\ local'[p] = memory
      /\ \A q \in Procs : q # p => pc'[q] = pc[q] /\ local'[q] = local[q]
  BY Moved DEF OwnershipInv
<1>2. IdsKept(p)
  BY <1>1 DEF IdsKept
<1>3. Aimed(p)' /\ Started(p)' /\ DeadIsDead(p)'
  BY <1>1 DEF Aimed, Started, DeadIsDead
<1> QED
  BY <1>2, <1>3 DEF StepOf

LEMMA SetAliasStep ==
  ASSUME OwnershipInv, NEW p \in Procs, NEW o \in Owners, NEW f \in BOOLEAN, SetAlias(p, o, f)
  PROVE  StepOf(p)
<1> DEFINE memory == [Idle EXCEPT !.cmd = "alias", !.force = f, !.sel = {Server(Tls[o])},
                                  !.apps = {o}, !.cur = o, !.displaced = Displaced(Host[o])]
<1>1. /\ Goto(p, "aliasEnsure", memory) /\ o \notin used /\ used' = used \cup {o}
      /\ UNCHANGED <<leases, grouped, child>>
  BY DEF SetAlias
<1>2. memory.apps = {o} /\ memory.displaced = OwnersOf(Host[o])
  BY DEF Idle, Displaced
<1>3. \A d \in OwnersOf(Host[o]) : Host[d] = Host[o]
  BY DEF OwnersOf
<1> HIDE DEF memory
<1> QED
  BY <1>1, <1>2, <1>3, FreshStep

LEMMA StartStep ==
  ASSUME OwnershipInv, NEW p \in Procs, NEW c, NEW apps \in SUBSET Owners, NEW force,
         StartRun(p, c, apps, force)
  PROVE  StepOf(p)
<1> DEFINE memory == [Idle EXCEPT !.cmd = c, !.force = force, !.apps = apps, !.todo = apps,
                                  !.sel = {Server(Tls[a]) : a \in apps}
                                     \cup (IF \E a \in apps : Lan[a] THEN {"HTTP"} ELSE {})]
<1>1. /\ Goto(p, "prepare", memory) /\ apps \cap used = {} /\ used' = used \cup apps
      /\ UNCHANGED <<leases, grouped, child>>
  BY DEF StartRun, registry
<1>2. memory.apps = apps /\ memory.displaced = {}
  BY DEF Idle
<1> HIDE DEF memory
<1> QED
  BY <1>1, <1>2, FreshStep

\* Giving up prepared apps ends the command or leads to the abandon loop.
LEMMA RollBackSteps ==
  ASSUME OwnershipInv, DepartureInv, NEW p \in Procs, NEW me \in Locals,
         NEW prepared \in SUBSET local[p].apps, RollBack(p, me, prepared),
         ChildrenDie, used' = used, leases' \subseteq leases, grouped' \subseteq grouped
  PROVE  StepOf(p)
<1> DEFINE memory == [me EXCEPT !.apps = prepared, !.todo = prepared]
<1>1. Return(p) \/ Goto(p, "rollback", memory) \/ Goto(p, "abandon", memory)
  BY DEF RollBack
<1>2. memory.apps = prepared
  BY DEF Locals
<1>3. /\ "rollback" \notin Watched \cup Committing
      /\ "abandon" \notin Watched \cup Committing
  BY DEF Watched, Committing, StartLabels
<1> HIDE DEF memory
<1> QED
  BY <1>1, <1>2, <1>3, QuietReturn, QuietMove DEF OwnershipInv

LEMMA AbandonCurrentSteps ==
  ASSUME OwnershipInv, DepartureInv, NEW p \in Procs, AbandonCurrent(p, local[p]),
         UNCHANGED <<leases, grouped, child, used>>
  PROVE  StepOf(p)
<1> DEFINE me == local[p]
           prepared == me.apps \ me.todo
           todo == IF me.cmd = "runner" THEN {me.cur} ELSE prepared
           memory == [me EXCEPT !.apps = prepared, !.todo = todo]
<1>1. TypeOK /\ me \in Locals
  BY MemoryTyped DEF OwnershipInv
<1>2. Goto(p, "abandon", memory)
  BY DEF AbandonCurrent
<1>3. memory.apps = prepared
  <2> HIDE DEF prepared, todo
  <2> QED
    BY <1>1 DEF Locals
<1>4. "abandon" \notin Watched \cup Committing
  BY DEF Watched, Committing, StartLabels
<1> HIDE DEF memory
<1> QED
  BY <1>1, <1>2, <1>3, <1>4, QuietMove, ChildrenUnchanged

LEMMA PrepareSteps ==
  ASSUME OwnershipInv, DepartureInv, NEW p \in Procs,
         \/ PrepareRun(p) \/ PrepareRejected(p) \/ EnsureRun(p) \/ JournalFails(p)
         \/ JournalStart(p)
  PROVE  StepOf(p)
<1> DEFINE me == local[p]
<1>1. TypeOK /\ me \in Locals /\ Loops(p) /\ Aimed(p)
  BY MemoryTyped DEF OwnershipInv, CommandInv, DepartureInv
<1>2. UNCHANGED <<leases, grouped, child, used>>
  BY DEF PrepareRun, PrepareRejected, EnsureRun, JournalFails, JournalStart, registry
<1>3. /\ pc[p] \in {"prepare", "ensure", "journal"} /\ pc[p] \in Committing
      /\ me.todo \subseteq me.apps
  BY <1>1 DEF Committing, StartLabels, Loops,
     PrepareRun, PrepareRejected, EnsureRun, JournalFails, JournalStart
<1>4. ASSUME NEW label \in {"prepare", "ensure", "journal", "spawn"}, NEW memory,
             Goto(p, label, memory), memory.apps = me.apps,
             \A d \in memory.displaced : \E a \in me.apps : Host[a] = Host[d],
             label = "spawn" => memory.todo = me.apps
      PROVE  StepOf(p)
  <2>1. pc'[p] = label /\ local'[p] = memory
    BY <1>1, <1>4, Moved
  <2>2. Aimed(p)' /\ Started(p)' /\ DeadIsDead(p)'
    BY <1>4, <2>1 DEF Aimed, Started, DeadIsDead
  <2>3. IdsKept(p)
    BY <1>1, <1>2, <1>3, <1>4, IdsMoved
  <2> QED
    BY <1>2, <2>2, <2>3 DEF StepOf
<1>5. \A d \in me.displaced : \E a \in me.apps : Host[a] = Host[d]
  BY <1>1, <1>3 DEF Aimed
<1>6. CASE PrepareRun(p)
  <2>1. PICK a \in me.todo :
          Goto(p, "ensure", [me EXCEPT !.cur = a, !.todo = @ \ {a},
                                       !.displaced = @ \cup Displaced(Host[a])])
    BY <1>6 DEF PrepareRun
  <2> DEFINE memory == [me EXCEPT !.cur = a, !.todo = @ \ {a},
                                  !.displaced = @ \cup Displaced(Host[a])]
  <2>2. memory.apps = me.apps /\ memory.displaced = me.displaced \cup OwnersOf(Host[a])
    BY <1>1 DEF Locals, Displaced
  <2>3. Goto(p, "ensure", memory)
    BY <2>1
  <2> HIDE DEF memory
  <2>4. \A d \in OwnersOf(Host[a]) : Host[d] = Host[a]
    BY DEF OwnersOf
  <2> QED
    BY <1>3, <1>4, <1>5, <2>2, <2>3, <2>4
<1>7. CASE PrepareRejected(p)
  <2>1. RollBack(p, me, me.apps \ me.todo)
    BY <1>7 DEF PrepareRejected
  <2> QED
    BY <1>1, <1>2, <2>1, RollBackSteps, ChildrenUnchanged
<1>8. CASE EnsureRun(p) \/ JournalFails(p)
  <2>1. Goto(p, "journal", me) \/ AbandonCurrent(p, me)
    BY <1>8 DEF EnsureRun, JournalFails
  <2> QED
    BY <1>2, <1>4, <1>5, <2>1, AbandonCurrentSteps
<1>9. CASE JournalStart(p)
  <2> DEFINE memory == [me EXCEPT !.todo = me.apps]
  <2>1. Goto(p, "spawn", memory) \/ Goto(p, "prepare", me)
    BY <1>9 DEF JournalStart
  <2>2. memory.apps = me.apps /\ memory.displaced = me.displaced /\ memory.todo = me.apps
    BY <1>1 DEF Locals
  <2> HIDE DEF memory
  <2> QED
    BY <1>4, <1>5, <2>1, <2>2
<1> QED
  BY <1>6, <1>7, <1>8, <1>9

LEMMA CommitSteps ==
  ASSUME OwnershipInv, DepartureInv, NEW p \in Procs,
         \/ Spawn(p) \/ SpawnFails(p) \/ CleanDisplaced(p) \/ CommitRuns(p)
         \/ CommitFails(p) \/ Relock(p)
  PROVE  StepOf(p)
<1> DEFINE me == local[p]
<1>1. /\ TypeOK /\ me \in Locals /\ Loops(p) /\ Aimed(p) /\ Started(p)
      /\ me.apps \subseteq Owners
  BY MemoryTyped DEF OwnershipInv, CommandInv, DepartureInv
<1>2. ASSUME NEW label \in {"spawn", "clean"}, NEW memory, Goto(p, label, memory),
             pc[p] \in {"spawn", "clean"}, memory.apps = me.apps,
             memory.displaced = me.displaced,
             UNCHANGED <<leases, grouped, used>>,
             \A o \in Owners : \/ child'[o] = child[o]
                               \/ pc[p] = "spawn" /\ o \in me.apps /\ child'[o] = "alive",
             label = "spawn" => \A a \in me.apps \ memory.todo : child'[a] # "none",
             label = "clean" => \A a \in me.apps : child'[a] # "none"
      PROVE  StepOf(p)
  <2>1. pc'[p] = label /\ local'[p] = memory
    BY <1>1, <1>2, Moved
  <2>2. pc[p] \in Committing
    BY <1>2 DEF Committing, StartLabels
  <2>3. Aimed(p)' /\ Started(p)' /\ DeadIsDead(p)'
    BY <1>1, <1>2, <2>1, <2>2 DEF Aimed, Started, DeadIsDead
  <2>4. IdsKept(p)
    BY <1>1, <1>2, <2>2, IdsMoved
  <2> QED
    BY <1>2, <2>3, <2>4 DEF StepOf
<1>3. CASE Spawn(p)
  <2>1. PICK started \in IF me.cmd = "runner" THEN {me.apps} ELSE {{a} : a \in me.todo} :
          /\ child' = [o \in Owners |-> IF o \in started THEN "alive" ELSE child[o]]
          /\ IF me.todo = started
               THEN Goto(p, "clean", [me EXCEPT !.todo = me.displaced])
               ELSE Goto(p, "spawn", [me EXCEPT !.todo = @ \ started])
    BY <1>3 DEF Spawn
  <2> DEFINE label == IF me.todo = started THEN "clean" ELSE "spawn"
             memory == [me EXCEPT !.todo = IF me.todo = started THEN me.displaced
                                                                ELSE @ \ started]
  <2>2. pc[p] = "spawn" /\ me.todo \subseteq me.apps /\ started \subseteq me.apps
    BY <1>1, <1>3, <2>1 DEF Spawn, Loops
  <2>3. Goto(p, label, memory)
    BY <2>1
  <2>4. /\ label \in {"spawn", "clean"} /\ (label = "clean" => me.todo = started)
        /\ memory.apps = me.apps /\ memory.displaced = me.displaced
        /\ label = "spawn" => memory.todo = me.todo \ started
    BY <1>1 DEF Locals
  <2>5. UNCHANGED <<leases, grouped, used>>
    BY <1>3 DEF Spawn, registry
  <2> HIDE DEF memory, label
  <2>6. \A a \in me.apps \ me.todo : child[a] # "none"
    BY <1>1, <2>2 DEF Started
  <2>7. \A a \in me.apps : a \notin me.todo \/ a \in started => child'[a] # "none"
    BY <1>1, <2>1, <2>6
  <2>8. \A o \in Owners : \/ child'[o] = child[o]
                          \/ o \in me.apps /\ child'[o] = "alive"
    BY <2>1, <2>2
  <2> QED
    BY <1>2, <2>2, <2>3, <2>4, <2>5, <2>7, <2>8
<1>4. CASE SpawnFails(p)
  <2>1. Kill(me.apps) /\ RollBack(p, me, me.apps) /\ UNCHANGED <<leases, grouped, used>>
    BY <1>4 DEF SpawnFails, registry
  <2> QED
    BY <1>1, <2>1, KillMeansDie, RollBackSteps
<1>5. CASE CleanDisplaced(p)
  <2>1. PICK d \in me.todo : \E r \in RemoveIfOwned(routes, d, Tls[d], me.sel) :
          Goto(p, "clean",
               [me EXCEPT !.todo = @ \ {d}, !.failed = IF r.ok THEN @ ELSE @ \cup {d}])
    BY <1>5 DEF CleanDisplaced
  <2>2. PICK r \in RemoveIfOwned(routes, d, Tls[d], me.sel) :
          Goto(p, "clean",
               [me EXCEPT !.todo = @ \ {d}, !.failed = IF r.ok THEN @ ELSE @ \cup {d}])
    BY <2>1
  <2> DEFINE memory ==
        [me EXCEPT !.todo = @ \ {d}, !.failed = IF r.ok THEN @ ELSE @ \cup {d}]
  <2>3. memory.apps = me.apps /\ memory.displaced = me.displaced
    BY <1>1 DEF Locals
  <2>4. Goto(p, "clean", memory)
    BY <2>2
  <2> HIDE DEF memory
  <2>5. pc[p] = "clean" /\ UNCHANGED <<leases, grouped, used, child>>
    BY <1>5 DEF CleanDisplaced, registry
  <2> QED
    BY <1>1, <1>2, <2>3, <2>4, <2>5 DEF Started
<1>6. CASE CommitRuns(p)
  <2> DEFINE memory == [Idle EXCEPT !.cmd = me.cmd, !.sel = me.sel, !.apps = me.apps]
  <2>1. /\ leases' = (leases \ me.displaced) \cup me.apps /\ pc[p] = "clean"
        /\ Goto(p, "live", memory) /\ used' = used /\ child' = child
    BY <1>6 DEF CommitRuns
  <2>2. memory.apps = me.apps
    BY DEF Idle
  <2> HIDE DEF memory
  <2>3. pc'[p] = "live" /\ local'[p] = memory
    BY <1>1, <2>1, Moved
  <2>4. \A a \in me.apps : child'[a] # "none"
    BY <1>1, <2>1 DEF Started
  <2>5. Aimed(p)' /\ Started(p)' /\ DeadIsDead(p)'
    BY <2>2, <2>3, <2>4 DEF Aimed, Started, DeadIsDead, Committing, StartLabels
  <2>6. IdsKept(p)
    BY <1>1, <2>1, <2>2, IdsMoved DEF Committing, StartLabels
  <2> QED
    BY <2>1, <2>4, <2>5, <2>6 DEF StepOf, LockedLabels
<1>7. CASE CommitFails(p)
  <2>1. /\ Kill(me.apps) /\ RollBack(p, [me EXCEPT !.failed = {}], me.apps)
        /\ UNCHANGED <<leases, grouped, used>>
    BY <1>7 DEF CommitFails, registry
  <2>2. [me EXCEPT !.failed = {}] \in Locals
    BY <1>1 DEF Locals
  <2> QED
    BY <1>1, <2>1, <2>2, KillMeansDie, RollBackSteps
<1>8. CASE Relock(p)
  <2>1. Goto(p, "abandon", me) /\ UNCHANGED <<leases, grouped, used, child>>
    BY <1>8 DEF Relock, registry
  <2>2. "abandon" \notin Watched \cup Committing
    BY DEF Watched, Committing, StartLabels
  <2> QED
    BY <1>1, <2>1, <2>2, QuietMove, ChildrenUnchanged
<1> QED
  BY <1>3, <1>4, <1>5, <1>6, <1>7, <1>8

LEMMA AbandonSteps ==
  ASSUME OwnershipInv, DepartureInv, NEW p \in Procs,
         Abandon(p) \/ AbandonRestore(p) \/ AbandonWrite(p)
  PROVE  StepOf(p)
<1> DEFINE me == local[p]
<1>1. TypeOK /\ me \in Locals
  BY MemoryTyped DEF OwnershipInv
<1>2. UNCHANGED <<leases, grouped, used, child>>
  BY DEF Abandon, AbandonRestore, AbandonWrite, registry
<1>3. ASSUME NEW label \in {"abandon", "abandonRestore"}, NEW memory,
             Goto(p, label, memory), memory.apps \subseteq me.apps
      PROVE  StepOf(p)
  <2>1. label \notin Watched \cup Committing
    BY DEF Watched, Committing, StartLabels
  <2> QED
    BY <1>1, <1>2, <1>3, <2>1, QuietMove, ChildrenUnchanged
<1>4. CASE Abandon(p)
  <2>1. PICK a \in me.todo : \E r \in RemoveIfOwned(routes, a, Tls[a], me.sel) :
          Goto(p, "abandonRestore", [me EXCEPT !.cur = a,
                                               !.failed = IF r.ok THEN {} ELSE {a}])
    BY <1>4 DEF Abandon
  <2>2. PICK r \in RemoveIfOwned(routes, a, Tls[a], me.sel) :
          Goto(p, "abandonRestore", [me EXCEPT !.cur = a,
                                               !.failed = IF r.ok THEN {} ELSE {a}])
    BY <2>1
  <2> DEFINE memory == [me EXCEPT !.cur = a, !.failed = IF r.ok THEN {} ELSE {a}]
  <2>3. memory.apps = me.apps
    BY <1>1 DEF Locals
  <2>4. Goto(p, "abandonRestore", memory)
    BY <2>2
  <2> HIDE DEF memory
  <2> QED
    BY <1>3, <2>3, <2>4
<1>5. CASE AbandonRestore(p)
  <2>1. PICK d \in me.displaced :
          Goto(p, "abandonRestore", [me EXCEPT !.displaced = @ \ {d}])
    BY <1>5 DEF AbandonRestore
  <2> DEFINE memory == [me EXCEPT !.displaced = @ \ {d}]
  <2>2. memory.apps = me.apps
    BY <1>1 DEF Locals
  <2>3. Goto(p, "abandonRestore", memory)
    BY <2>1
  <2> HIDE DEF memory
  <2> QED
    BY <1>3, <2>2, <2>3
<1>6. CASE AbandonWrite(p)
  <2> DEFINE left == me.apps \ {me.cur}
             memory == [me EXCEPT !.apps = left, !.todo = @ \ {me.cur}]
  <2>1. Goto(p, "abandon", memory) \/ RollBack(p, me, left)
    BY <1>6 DEF AbandonWrite
  <2>2. memory.apps = left
    BY <1>1 DEF Locals
  <2> HIDE DEF memory
  <2> QED
    BY <1>1, <1>2, <1>3, <2>1, <2>2, RollBackSteps, ChildrenUnchanged
<1> QED
  BY <1>4, <1>5, <1>6

LEMMA FinishSteps ==
  ASSUME OwnershipInv, DepartureInv, NEW p \in Procs,
         \/ RunEnds(p) \/ FinishRoute(p) \/ FinishRemove(p) \/ FinishWrite(p)
  PROVE  StepOf(p)
<1> DEFINE me == local[p]
<1>1. /\ TypeOK /\ me \in Locals /\ Started(p) /\ me.apps \subseteq Owners
  BY MemoryTyped DEF OwnershipInv, DepartureInv
<1>2. ASSUME NEW label \in {"finish", "finishRemove", "finishWrite"}, NEW memory,
             Goto(p, label, memory), memory.apps = me.apps, used' = used, ChildrenDie,
             leases' \subseteq leases, grouped' \subseteq grouped,
             \A a \in me.apps : child'[a] = "dead"
      PROVE  StepOf(p)
  <2>1. pc'[p] = label /\ local'[p] = memory
    BY <1>1, <1>2, Moved
  <2>2. Aimed(p)' /\ Started(p)' /\ DeadIsDead(p)'
    BY <1>2, <2>1 DEF Aimed, Started, DeadIsDead, Committing, StartLabels
  <2>3. IdsKept(p)
    BY <1>1, <1>2, IdsMoved DEF Committing, StartLabels
  <2> QED
    BY <1>2, <2>2, <2>3 DEF StepOf, ChildrenDie
<1>3. CASE RunEnds(p)
  <2> DEFINE memory == [me EXCEPT !.todo = me.apps]
  <2>1. /\ pc[p] = "live" /\ Kill(me.apps) /\ Goto(p, "finish", memory)
        /\ UNCHANGED <<leases, grouped, used>>
    BY <1>3 DEF RunEnds, registry
  <2>2. memory.apps = me.apps
    BY <1>1 DEF Locals
  <2> HIDE DEF memory
  <2>3. \A a \in me.apps : child[a] # "none" /\ child[a] \in {"none", "alive", "dead"}
    BY <1>1, <2>1 DEF Started, TypeOK
  <2>4. \A a \in me.apps : child'[a] = "dead"
    BY <1>1, <2>1, <2>3 DEF Kill
  <2> QED
    BY <1>1, <1>2, <2>1, <2>2, <2>4, KillMeansDie
<1>4. ASSUME pc[p] \in {"finish", "finishRemove", "finishWrite"}, child' = child
      PROVE  ChildrenDie /\ \A a \in me.apps : child'[a] = "dead"
  BY <1>1, <1>4, ChildrenUnchanged DEF Started
<1>5. CASE FinishRoute(p)
  <2>1. PICK a \in me.todo : Goto(p, "finishRemove", [me EXCEPT !.cur = a, !.todo = @ \ {a}])
    BY <1>5 DEF FinishRoute
  <2> DEFINE memory == [me EXCEPT !.cur = a, !.todo = @ \ {a}]
  <2>2. memory.apps = me.apps
    BY <1>1 DEF Locals
  <2>3. Goto(p, "finishRemove", memory)
    BY <2>1
  <2> HIDE DEF memory
  <2>4. pc[p] = "finish" /\ UNCHANGED <<leases, grouped, used, child>>
    BY <1>5 DEF FinishRoute, registry
  <2> QED
    BY <1>2, <1>4, <2>2, <2>3, <2>4
<1>6. CASE FinishRemove(p)
  <2>1. PICK r \in RemoveIfOwned(routes, me.cur, Tls[me.cur], me.sel) :
          Goto(p, "finishWrite", [me EXCEPT !.failed = IF r.ok THEN {} ELSE {me.cur}])
    BY <1>6 DEF FinishRemove
  <2> DEFINE memory == [me EXCEPT !.failed = IF r.ok THEN {} ELSE {me.cur}]
  <2>2. memory.apps = me.apps
    BY <1>1 DEF Locals
  <2>3. Goto(p, "finishWrite", memory)
    BY <2>1
  <2> HIDE DEF memory
  <2>4. pc[p] = "finishRemove" /\ UNCHANGED <<leases, grouped, used, child>>
    BY <1>6 DEF FinishRemove, registry
  <2> QED
    BY <1>2, <1>4, <2>2, <2>3, <2>4
<1>7. CASE FinishWrite(p)
  <2>1. /\ pc[p] = "finishWrite" /\ leases' \subseteq leases /\ grouped' \subseteq grouped
        /\ UNCHANGED <<used, child>>
        /\ Goto(p, "idle", Idle) \/ Goto(p, "finish", me)
    BY <1>7 DEF FinishWrite
  <2> QED
    BY <1>1, <1>2, <1>4, <2>1, QuietReturn
<1> QED
  BY <1>3, <1>5, <1>6, <1>7

\* The leases judged dead are dead, and nobody supervises them.
LEMMA JudgeSteps ==
  ASSUME OwnershipInv, DepartureInv, NEW p \in Procs, NEW me \in Locals,
         JudgeLeases(p, me), me.apps \subseteq local[p].apps,
         UNCHANGED <<leases, grouped, used>>
  PROVE  StepOf(p)
<1>1. TypeOK /\ leases \subseteq Owners /\ \A o \in leases : child[o] # "none"
  BY DEF OwnershipInv, DepartureInv, TypeOK
<1>2. PICK unsure \in SUBSET leases :
        /\ Kill({o \in leases \ unsure : IsDead(o)} \cap grouped)
        /\ Goto(p, "replay", [me EXCEPT !.ops = pending, !.unsure = unsure, !.mark = faults,
                                        !.dead = {o \in leases \ unsure : IsDead(o)}])
  BY DEF JudgeLeases
<1> DEFINE dead == {o \in leases \ unsure : IsDead(o)}
           memory == [me EXCEPT !.ops = pending, !.unsure = unsure, !.mark = faults,
                                !.dead = dead]
<1>3. memory.apps = me.apps /\ memory.dead = dead
  <2> HIDE DEF dead
  <2> QED
    BY DEF Locals
<1>4. Kill(dead \cap grouped) /\ Goto(p, "replay", memory)
  BY <1>2
<1> HIDE DEF memory
<1>5. /\ pc'[p] = "replay" /\ local'[p] = memory
      /\ \A q \in Procs : q # p => pc'[q] = pc[q] /\ local'[q] = local[q]
  BY <1>1, <1>4, Moved
<1>6. ChildrenDie
  BY <1>1, <1>4, KillMeansDie
<1>7. ASSUME NEW o \in dead
      PROVE  child'[o] = "dead" /\ (o \in grouped' => ~Supervised(o)')
  <2>1. /\ o \in leases /\ o \in Owners /\ child[o] \in {"alive", "dead"}
        /\ o \in grouped => ~Supervised(o)
        /\ o \notin grouped => child[o] # "alive"
    BY <1>1 DEF TypeOK, IsDead
  <2>2. child'[o] = "dead"
    BY <1>4, <1>6, <2>1 DEF Kill, ChildrenDie
  <2>3. ~Supervised(o) => ~Supervised(o)'
    BY <1>3, <1>5 DEF Supervised
  <2> QED
    BY <2>1, <2>2, <2>3
<1> HIDE DEF dead
<1>8. Aimed(p)' /\ Started(p)' /\ DeadIsDead(p)'
  BY <1>3, <1>5, <1>7 DEF Aimed, Started, DeadIsDead, Committing, StartLabels
<1>9. IdsKept(p)
  BY <1>1, <1>3, <1>4, IdsMoved DEF Committing, StartLabels
<1> QED
  BY <1>6, <1>8, <1>9 DEF StepOf, ChildrenDie

LEMMA ReconcileSteps ==
  ASSUME OwnershipInv, DepartureInv, NEW p \in Procs,
         \/ Reconcile(p) /\ "reconcile" \in Commands
         \/ Prune(p) \/ PruneOrphan(p) \/ PruneReconcile(p)
  PROVE  StepOf(p)
<1> DEFINE me == local[p]
<1>1. TypeOK /\ me \in Locals
  BY MemoryTyped DEF OwnershipInv
<1>2. UNCHANGED <<leases, grouped, used>>
  BY DEF Reconcile, Prune, PruneOrphan, PruneReconcile, registry
<1>3. ASSUME NEW memory, Goto(p, "orphans", memory), memory.apps \subseteq me.apps,
             child' = child
      PROVE  StepOf(p)
  <2>1. "orphans" \notin Watched \cup Committing
    BY DEF Watched, Committing, StartLabels
  <2> QED
    BY <1>1, <1>2, <1>3, <2>1, QuietMove, ChildrenUnchanged
<1>4. CASE Reconcile(p) /\ "reconcile" \in Commands
  <2> DEFINE memory == [Idle EXCEPT !.cmd = "reconcile", !.sel = SelectedServers]
  <2>1. SelectedServers \in SUBSET Servers
    BY DEF SelectedServers, Server, Servers
  <2>2. memory \in Locals /\ memory.apps = {}
    BY <1>4, <2>1, IdleTyped DEF Idle, Locals
  <2>3. JudgeLeases(p, memory)
    BY <1>4 DEF Reconcile
  <2> HIDE DEF memory
  <2> QED
    BY <1>2, <2>2, <2>3, JudgeSteps
<1>5. CASE Prune(p)
  <2> DEFINE memory == [Idle EXCEPT !.cmd = "prune", !.sel = Servers,
                                    !.orphans = {r \in routes : r[2] \notin Registered}]
  <2>1. Goto(p, "orphans", memory) /\ child' = child
    BY <1>5 DEF Prune
  <2>2. memory.apps = {}
    BY DEF Idle
  <2> HIDE DEF memory
  <2> QED
    BY <1>3, <2>1, <2>2
<1>6. CASE PruneOrphan(p)
  <2>1. PICK seen \in me.orphans : Goto(p, "orphans", [me EXCEPT !.orphans = @ \ {seen}])
    BY <1>6 DEF PruneOrphan
  <2> DEFINE memory == [me EXCEPT !.orphans = @ \ {seen}]
  <2>2. memory.apps = me.apps
    BY <1>1 DEF Locals
  <2>3. Goto(p, "orphans", memory) /\ child' = child
    BY <1>6, <2>1 DEF PruneOrphan
  <2> HIDE DEF memory
  <2> QED
    BY <1>3, <2>2, <2>3
<1>7. CASE PruneReconcile(p)
  <2>1. JudgeLeases(p, me)
    BY <1>7 DEF PruneReconcile
  <2> QED
    BY <1>1, <1>2, <2>1, JudgeSteps
<1> QED
  BY <1>4, <1>5, <1>6, <1>7

LEMMA ReplaySteps ==
  ASSUME OwnershipInv, DepartureInv, NEW p \in Procs,
         \/ ReplayRestore(p) \/ ReplayRemoval(p) \/ Replayed(p)
         \/ ReconcileRoute(p) \/ ReconcileWrite(p)
  PROVE  StepOf(p)
<1> DEFINE me == local[p]
<1>1. TypeOK /\ me \in Locals /\ DeadIsDead(p) /\ pc[p] \in {"replay", "routes"}
  BY MemoryTyped
  DEF OwnershipInv, DepartureInv, ReplayRestore, ReplayRemoval, Replayed, ReconcileRoute,
      ReconcileWrite
<1>2. ASSUME NEW label \in {"replay", "routes"}, NEW memory, Goto(p, label, memory),
             memory.apps = me.apps, memory.dead = me.dead,
             UNCHANGED <<leases, grouped, child, used>>
      PROVE  StepOf(p)
  <2>1. /\ pc'[p] = label /\ local'[p] = memory
        /\ \A q \in Procs : q # p => pc'[q] = pc[q] /\ local'[q] = local[q]
    BY <1>1, <1>2, Moved
  <2>2. \A o : Supervised(o)' => Supervised(o)
    BY <1>2, <2>1 DEF Supervised
  <2>3. Aimed(p)' /\ Started(p)' /\ DeadIsDead(p)'
    BY <1>1, <1>2, <2>1, <2>2 DEF Aimed, Started, DeadIsDead, Committing, StartLabels
  <2>4. IdsKept(p)
    BY <1>1, <1>2, IdsMoved DEF Committing, StartLabels
  <2> QED
    BY <1>2, <2>3, <2>4 DEF StepOf
<1>3. CASE ReplayRestore(p) \/ ReplayRemoval(p)
  <2>1. PICK op \in me.ops :
          \/ Goto(p, "replay", [me EXCEPT !.ops = @ \ {op}])
          \/ Goto(p, "replay", [[me EXCEPT !.ops = @ \ {op}] EXCEPT !.kept = @ \cup {op}])
    BY <1>3 DEF ReplayRestore, ReplayRemoval
  <2> DEFINE done == [me EXCEPT !.ops = @ \ {op}]
             kept == [done EXCEPT !.kept = @ \cup {op}]
  <2>2. /\ done.apps = me.apps /\ done.dead = me.dead
        /\ kept.apps = me.apps /\ kept.dead = me.dead
    BY <1>1 DEF Locals
  <2>3. Goto(p, "replay", done) \/ Goto(p, "replay", kept)
    BY <2>1
  <2>4. UNCHANGED <<leases, grouped, child, used>>
    BY <1>3 DEF ReplayRestore, ReplayRemoval, registry
  <2> HIDE DEF done, kept
  <2> QED
    BY <1>2, <2>2, <2>3, <2>4
<1>4. CASE Replayed(p)
  <2> DEFINE memory == [me EXCEPT !.todo = Registered]
  <2>1. Goto(p, "routes", memory) /\ UNCHANGED <<leases, grouped, child, used>>
    BY <1>4 DEF Replayed, registry
  <2>2. memory.apps = me.apps /\ memory.dead = me.dead
    BY <1>1 DEF Locals
  <2> HIDE DEF memory
  <2> QED
    BY <1>2, <2>1, <2>2
<1>5. CASE ReconcileRoute(p)
  <2>1. PICK o \in me.todo :
          LET rest == [me EXCEPT !.todo = @ \ {o}] IN
          \/ Goto(p, "routes", rest)
          \/ Goto(p, "routes", [rest EXCEPT !.kept = @ \cup {Op("remove", o)}])
          \/ Goto(p, "routes", [rest EXCEPT !.kept = @ \cup {Op("restore", o)}])
    BY <1>5 DEF ReconcileRoute
  <2> DEFINE rest == [me EXCEPT !.todo = @ \ {o}]
             removed == [rest EXCEPT !.kept = @ \cup {Op("remove", o)}]
             restored == [rest EXCEPT !.kept = @ \cup {Op("restore", o)}]
  <2>2. /\ rest.apps = me.apps /\ rest.dead = me.dead
        /\ removed.apps = me.apps /\ removed.dead = me.dead
        /\ restored.apps = me.apps /\ restored.dead = me.dead
    BY <1>1 DEF Locals
  <2>3. Goto(p, "routes", rest) \/ Goto(p, "routes", removed) \/ Goto(p, "routes", restored)
    BY <2>1
  <2>4. UNCHANGED <<leases, grouped, child, used>>
    BY <1>5 DEF ReconcileRoute, registry
  <2> HIDE DEF rest, removed, restored
  <2> QED
    BY <1>2, <2>2, <2>3, <2>4
<1>6. CASE ReconcileWrite(p)
  <2>1. /\ Return(p) /\ UNCHANGED <<child, used>>
        /\ leases' \subseteq leases /\ grouped' \subseteq grouped
    BY <1>6 DEF ReconcileWrite
  <2> QED
    BY <1>1, <2>1, QuietReturn, ChildrenUnchanged
<1> QED
  BY <1>3, <1>4, <1>5, <1>6

LEMMA CommandSteps ==
  ASSUME OwnershipInv, DepartureInv, NEW p \in Procs,
         Begin(p) \/ Continue(p) \/ RunEnds(p) \/ Crash(p)
  PROVE  StepOf(p)
<1>1. CASE Begin(p)
  BY <1>1, SetAliasStep, UnaliasSteps, StartStep, ReconcileSteps DEF Begin
<1>2. CASE Continue(p)
  BY <1>2, AliasSteps, UnaliasSteps, PrepareSteps, CommitSteps, AbandonSteps, FinishSteps,
     ReconcileSteps, ReplaySteps DEF Continue
<1>3. CASE RunEnds(p)
  BY <1>3, FinishSteps
<1>4. CASE Crash(p)
  <2>1. Goto(p, "idle", Idle) /\ UNCHANGED <<leases, grouped, child, used>>
    BY <1>4 DEF Crash, registry
  <2> QED
    BY <2>1, QuietReturn, ChildrenUnchanged DEF OwnershipInv
<1> QED
  BY <1>1, <1>2, <1>3, <1>4

LEMMA DeparturesStep ==
  ASSUME OwnershipInv, DepartureInv, [Next]_vars
  PROVE  DepartureInv'
<1>1. ASSUME NEW p \in Procs, Begin(p) \/ Continue(p) \/ RunEnds(p) \/ Crash(p)
      PROVE  DepartureInv'
  BY <1>1, CommandSteps, StepKeepsDepartures
<1>2. ASSUME ChildrenDie, UNCHANGED <<registry, pc, local, used>>
      PROVE  DepartureInv'
  <2>1. leases \subseteq Owners /\ \A o \in leases : child'[o] # "none"
    BY <1>2 DEF OwnershipInv, TypeOK, DepartureInv, ChildrenDie
  <2>2. ASSUME NEW p \in Procs
        PROVE  Aimed(p)' /\ Started(p)' /\ DeadIsDead(p)'
    <3>1. Aimed(p) /\ Started(p) /\ DeadIsDead(p) /\ local[p].apps \subseteq Owners
      BY MemoryTyped DEF OwnershipInv, DepartureInv
    <3>2. pc[p] \in {"replay", "routes"} => local[p].dead \subseteq Owners
      BY <2>1 DEF OwnershipInv, CommandInv, Draft
    <3>3. \A o \in Owners : /\ child[o] # "none" => child'[o] # "none"
                            /\ child[o] = "dead" => child'[o] = "dead"
      BY <1>2 DEF ChildrenDie
    <3>4. Aimed(p)'
      BY <1>2, <3>1 DEF Aimed
    <3>5. Started(p)'
      BY <1>2, <3>1, <3>3 DEF Started
    <3>6. DeadIsDead(p)'
      BY <1>2, <3>1, <3>2, <3>3 DEF DeadIsDead, Supervised, registry
    <3> QED
      BY <3>4, <3>5, <3>6
  <2> QED
    BY <1>2, <2>1, <2>2 DEF DepartureInv, registry
<1>3. ASSUME NEW o \in Owners, ChildExits(o)
      PROVE  DepartureInv'
  <2>1. ChildrenDie /\ UNCHANGED <<registry, pc, local, used>>
    BY <1>3 DEF ChildExits, ChildrenDie, OwnershipInv, TypeOK
  <2> QED
    BY <1>2, <2>1
<1>4. CASE CaddyReloads \/ UNCHANGED vars
  BY <1>2, <1>4, ChildrenUnchanged DEF CaddyReloads, vars
<1> QED
  BY <1>1, <1>3, <1>4 DEF Next

\* A commit displaces owners of its own hostnames only, and what a command
\* drops as dead is dead and unsupervised, from the moment it looks until it
\* writes (commit_prepared_runs, cleanup_run_route and reconcile).
THEOREM DeparturesAreKnown == Spec => []CommandsStayRight
<1>1. Init => DepartureInv
  BY DEF Init, DepartureInv, Aimed, Started, DeadIsDead, Committing, StartLabels
<1>2. OwnershipInv /\ DepartureInv /\ [Next]_vars => DepartureInv'
  BY DeparturesStep
<1> QED
  BY <1>1, <1>2, OwnershipHolds, PTL DEF Spec, CommandsStayRight

-----------------------------------------------------------------------------
(* The steps that change who is on record.                                 *)

\* Commands that record their apps in place of the owners they displace...
Records(p) == AliasCommit(p) \/ CommitRuns(p)

\* ...and those that drop owners.
Drops(p) ==
  \/ \E a \in Owners, t \in BOOLEAN : RemoveAlias(p, a, t)
  \/ FinishWrite(p)
  \/ ReconcileWrite(p)

LEMMA RegistryWrites ==
  ASSUME [Next]_vars
  PROVE  UNCHANGED <<aliases, leases>> \/ \E p \in Procs : Records(p) \/ Drops(p)
<1>1. ASSUME NEW p \in Procs, Begin(p)
      PROVE  UNCHANGED <<aliases, leases>> \/ Drops(p)
  BY <1>1 DEF Begin, Drops, SetAlias, StartRun, Reconcile, Prune, registry
<1>2. ASSUME NEW p \in Procs, Continue(p)
      PROVE  UNCHANGED <<aliases, leases>> \/ Records(p) \/ Drops(p)
  <2>1. CASE \/ AliasEnsure(p) \/ AliasPublish(p) \/ AliasUndo(p) \/ AliasRestore(p)
             \/ AliasDrop(p) \/ AliasClean(p) \/ UnaliasRemove(p) \/ UnaliasDone(p)
    BY <2>1 DEF AliasEnsure, AliasPublish, AliasUndo, AliasRestore, AliasDrop, AliasClean,
       UnaliasRemove, UnaliasDone, registry
  <2>2. CASE \/ PrepareRun(p) \/ PrepareRejected(p) \/ EnsureRun(p) \/ JournalFails(p)
             \/ JournalStart(p) \/ Spawn(p) \/ SpawnFails(p) \/ CleanDisplaced(p)
             \/ CommitFails(p) \/ Relock(p) \/ Abandon(p) \/ AbandonRestore(p)
             \/ AbandonWrite(p)
    BY <2>2 DEF PrepareRun, PrepareRejected, EnsureRun, JournalFails, JournalStart, Spawn,
       SpawnFails, CleanDisplaced, CommitFails, Relock, Abandon, AbandonRestore,
       AbandonWrite, registry
  <2>3. CASE \/ FinishRoute(p) \/ FinishRemove(p) \/ PruneOrphan(p) \/ PruneReconcile(p)
             \/ ReplayRestore(p) \/ ReplayRemoval(p) \/ Replayed(p) \/ ReconcileRoute(p)
    BY <2>3 DEF FinishRoute, FinishRemove, PruneOrphan, PruneReconcile, ReplayRestore,
       ReplayRemoval, Replayed, ReconcileRoute, registry
  <2>4. CASE AliasCommit(p) \/ CommitRuns(p) \/ FinishWrite(p) \/ ReconcileWrite(p)
    BY <2>4 DEF Records, Drops
  <2> QED
    BY <1>2, <2>1, <2>2, <2>3, <2>4 DEF Continue
<1>3. ASSUME NEW p \in Procs, RunEnds(p) \/ Crash(p)
      PROVE  UNCHANGED <<aliases, leases>>
  BY <1>3 DEF RunEnds, Crash, registry
<1>4. ASSUME \/ \E o \in Owners : ChildExits(o)
             \/ CaddyReloads
             \/ UNCHANGED vars
      PROVE  UNCHANGED <<aliases, leases>>
  BY <1>4 DEF ChildExits, CaddyReloads, vars, registry
<1> QED
  BY <1>1, <1>2, <1>3, <1>4 DEF Next

\* A commit puts its apps on record, on hostnames of their own, and takes off
\* record exactly the owners it displaces there.
LEMMA RecordsTaken ==
  ASSUME OwnershipInv, DepartureInv, NEW p \in Procs, Records(p)
  PROVE  LET apps == local[p].apps
             displaced == local[p].displaced
         IN /\ Registered' = (Registered \ displaced) \cup apps
            /\ displaced \subseteq Registered /\ apps \cap Registered = {}
            /\ \A d \in displaced : \E a \in apps : Host[a] = Host[d]
            /\ \A a \in apps, o \in Registered : Host[o] = Host[a] => o \in displaced
            /\ \A a, b \in apps : Host[a] = Host[b] => a = b
            /\ pc[p] \in Committing /\ used' = used
            /\ pc'[p] \notin Committing
<1> DEFINE me == local[p]
<1>1. /\ TypeOK /\ Ids /\ OwnIds(p) /\ NotRecorded(p) /\ NothingMissed(p) /\ Loops(p)
      /\ Aimed(p)
  BY DEF OwnershipInv, CommandInv, DepartureInv
<1>2. /\ pc[p] \in {"aliasClean", "clean"} /\ used' = used
      /\ pc[p] \in Committing /\ pc[p] \in Uncommitted
  BY DEF Records, AliasCommit, CommitRuns, Committing, Uncommitted, StartLabels, AliasLabels
<1>3. /\ me.displaced \subseteq Registered /\ me.apps \cap Registered = {}
      /\ \A d \in me.displaced : \E a \in me.apps : Host[a] = Host[d]
      /\ \A a \in me.apps : OwnersOf(Host[a]) \subseteq me.displaced
      /\ \A a, b \in me.apps : Host[a] = Host[b] => a = b
  BY <1>1, <1>2 DEF NotRecorded, NothingMissed, LookedUp, Aimed, OwnIds
<1>4. \A a \in me.apps, o \in Registered : Host[o] = Host[a] => o \in me.displaced
  BY <1>3 DEF OwnersOf
<1>5. CASE AliasCommit(p)
  <2>1. /\ aliases' = (aliases \ me.displaced) \cup {me.cur}
        /\ leases' = leases \ me.displaced
        /\ Goto(p, "idle", Idle) /\ pc[p] = "aliasClean"
    BY <1>5 DEF AliasCommit, Return
  <2>2. me.apps = {me.cur}
    BY <1>1, <2>1 DEF Loops, AliasLabels
  <2>3. pc'[p] \notin Committing
    BY <1>1, <2>1, Moved DEF Committing, StartLabels
  <2>4. Registered' = (Registered \ me.displaced) \cup me.apps
    BY <1>3, <2>1, <2>2 DEF Registered
  <2> QED
    BY <1>2, <1>3, <1>4, <2>3, <2>4
<1>6. CASE CommitRuns(p)
  <2> DEFINE memory == [Idle EXCEPT !.cmd = me.cmd, !.sel = me.sel, !.apps = me.apps]
  <2>1. /\ aliases' = aliases \ me.displaced
        /\ leases' = (leases \ me.displaced) \cup me.apps
        /\ Goto(p, "live", memory)
    BY <1>6 DEF CommitRuns
  <2> HIDE DEF memory
  <2>2. pc'[p] \notin Committing
    BY <1>1, <2>1, Moved DEF Committing, StartLabels
  <2>3. Registered' = (Registered \ me.displaced) \cup me.apps
    BY <1>3, <2>1 DEF Registered
  <2> QED
    BY <1>2, <1>3, <1>4, <2>2, <2>3
<1> QED
  BY <1>5, <1>6 DEF Records

\* A step that drops owners records none and decides on no new id.
LEMMA DropsLeave ==
  ASSUME OwnershipInv, NEW p \in Procs, Drops(p)
  PROVE  /\ Registered' \subseteq Registered /\ used' = used
         /\ pc[p] \notin Committing /\ pc'[p] \notin Committing
<1>1. TypeOK
  BY DEF OwnershipInv
<1>2. ASSUME NEW label \in {"unaliasRemove", "idle", "finish"}, NEW memory,
             Goto(p, label, memory), pc[p] \in {"idle", "finishWrite", "routes"}
      PROVE  pc[p] \notin Committing /\ pc'[p] \notin Committing
  BY <1>1, <1>2, Moved DEF Committing, StartLabels
<1>3. ASSUME NEW a \in Owners, NEW t \in BOOLEAN, RemoveAlias(p, a, t)
      PROVE  /\ Registered' \subseteq Registered /\ used' = used
             /\ pc[p] \notin Committing /\ pc'[p] \notin Committing
  <2> DEFINE memory == [Idle EXCEPT !.cmd = "unalias", !.sel = {Server(t)}, !.cur = a]
  <2>1. /\ Goto(p, "unaliasRemove", memory) /\ pc[p] = "idle" /\ used' = used
        /\ aliases' = aliases \ {a} /\ leases' = leases
    BY <1>3 DEF RemoveAlias
  <2> HIDE DEF memory
  <2> QED
    BY <1>2, <2>1 DEF Registered
<1>4. CASE FinishWrite(p)
  <2>1. /\ Goto(p, "idle", Idle) \/ Goto(p, "finish", local[p])
        /\ pc[p] = "finishWrite" /\ used' = used
        /\ aliases' = aliases /\ leases' \subseteq leases
    BY <1>4 DEF FinishWrite
  <2> QED
    BY <1>2, <2>1 DEF Registered
<1>5. CASE ReconcileWrite(p)
  <2>1. /\ Goto(p, "idle", Idle) /\ pc[p] = "routes" /\ used' = used
        /\ aliases' = aliases /\ leases' \subseteq leases
    BY <1>5 DEF ReconcileWrite, Return
  <2> QED
    BY <1>2, <2>1 DEF Registered
<1> QED
  BY <1>3, <1>4, <1>5 DEF Drops

-----------------------------------------------------------------------------
(* No owner leaves silently.                                               *)

LEMMA DeparturesJustified ==
  ASSUME OwnershipInv, DepartureInv, [Next]_vars, NEW o \in Registered \ Registered'
  PROVE  \/ \E n \in Registered' \ Registered : Host[n] = Host[o]
         \/ o \in aliases /\ Op("remove", o) \in pending'
         \/ /\ o \in leases /\ child[o] = "dead"
            /\ o \in grouped => \A q \in Procs : o \in local[q].apps => pc[q] = "finishWrite"
<1>1. PICK p \in Procs : Records(p) \/ Drops(p)
  BY RegistryWrites DEF Registered
<1>2. CASE Records(p)
  <2>1. /\ o \in local[p].displaced
        /\ \A d \in local[p].displaced : \E a \in local[p].apps : Host[a] = Host[d]
        /\ local[p].apps \subseteq Registered' /\ local[p].apps \cap Registered = {}
    BY <1>2, RecordsTaken
  <2> QED
    BY <2>1
<1>3. ASSUME NEW a \in Owners, NEW t \in BOOLEAN, RemoveAlias(p, a, t)
      PROVE  o \in aliases /\ Op("remove", o) \in pending'
  <2>1. /\ aliases' = aliases \ {a} /\ leases' = leases /\ a \in aliases
        /\ pending' = pending \cup {Op("remove", a)}
    BY <1>3 DEF RemoveAlias
  <2> QED
    BY <2>1 DEF Registered
<1>4. CASE FinishWrite(p)
  <2>1. /\ aliases' = aliases /\ leases \ leases' \subseteq {local[p].cur}
        /\ pc[p] = "finishWrite"
    BY <1>4 DEF FinishWrite
  <2>2. o \in leases /\ o = local[p].cur
    BY <2>1 DEF Registered
  <2>3. o \in local[p].apps
    BY <2>1, <2>2 DEF OwnershipInv, CommandInv, Loops
  <2>4. child[o] = "dead"
    BY <2>1, <2>3 DEF DepartureInv, Started
  <2>5. \A q \in Procs : o \in local[q].apps => q = p
    BY <2>3 DEF OwnershipInv, CommandInv, OwnIds
  <2> QED
    BY <2>1, <2>2, <2>4, <2>5
<1>5. CASE ReconcileWrite(p)
  <2>1. aliases' = aliases /\ leases' = leases \ local[p].dead /\ pc[p] = "routes"
    BY <1>5 DEF ReconcileWrite
  <2>2. o \in leases /\ o \in local[p].dead
    BY <2>1 DEF Registered
  <2>3. child[o] = "dead" /\ (o \in grouped => ~Supervised(o))
    BY <2>1, <2>2 DEF DepartureInv, DeadIsDead
  <2> QED
    BY <2>2, <2>3 DEF Supervised
<1> QED
  BY <1>1, <1>2, <1>3, <1>4, <1>5 DEF Drops

\* A hostname changes hands only in the write that gives it to its new owner,
\* and is given up only on the user's word or when the process behind it is
\* dead: no failed or crashed command costs an earlier owner its hostname.
THEOREM DeparturesAreNeverSilent == Spec => NoOwnerLeavesSilently
<1>1. OwnershipInv /\ DepartureInv /\ [Next]_vars =>
        [\A o \in Registered \ Registered' :
           \/ \E n \in Registered' \ Registered : Host[n] = Host[o]
           \/ o \in aliases /\ Op("remove", o) \in pending'
           \/ /\ o \in leases /\ child[o] = "dead"
              /\ o \in grouped =>
                   \A q \in Procs : o \in local[q].apps => pc[q] = "finishWrite"]_vars
  BY DeparturesJustified
<1> QED
  BY <1>1, DeparturesAreKnown, PTL DEF Spec, NoOwnerLeavesSilently, CommandsStayRight

-----------------------------------------------------------------------------
(* The refinement.                                                         *)

\* RecordedOwner as a function of the owners on record.
OwnerAmong(R) ==
  [h \in Hosts |-> IF {o \in R : Host[o] = h} = {} THEN NoOwner
                   ELSE CHOOSE o \in {o \in R : Host[o] = h} : TRUE]

LEMMA OwnerOfRecord ==
  ASSUME NEW R \in SUBSET Owners, \A a, b \in R : Host[a] = Host[b] => a = b, NEW h \in Hosts
  PROVE  /\ \A o \in R : Host[o] = h => OwnerAmong(R)[h] = o
         /\ (\A o \in R : Host[o] # h) => OwnerAmong(R)[h] = NoOwner
  BY DEF OwnerAmong

LEMMA SpentGrows ==
  ASSUME OwnershipInv, DepartureInv, [Next]_vars
  PROVE  SpentIds \subseteq SpentIds'
<1>1. ASSUME NEW p \in Procs, IdsKept(p)
      PROVE  SpentIds \subseteq SpentIds'
  <2>1. SUFFICES ASSUME NEW o \in SpentIds, NEW q \in Procs, pc'[q] \in BeforeWrite,
                        o \in local'[q].apps
                 PROVE  FALSE
    BY <1>1 DEF SpentIds, IdsKept
  <2>2. o \in used /\ (pc[q] \in BeforeWrite => o \notin local[q].apps)
    BY DEF SpentIds
  <2> QED
    BY <1>1, <2>1, <2>2 DEF IdsKept
<1>2. ASSUME NEW p \in Procs, Begin(p) \/ Continue(p) \/ RunEnds(p) \/ Crash(p)
      PROVE  SpentIds \subseteq SpentIds'
  BY <1>1, <1>2, CommandSteps DEF StepOf
<1>3. ASSUME \/ \E o \in Owners : ChildExits(o)
             \/ CaddyReloads
             \/ UNCHANGED vars
      PROVE  SpentIds \subseteq SpentIds'
  BY <1>3 DEF ChildExits, CaddyReloads, vars, SpentIds
<1> QED
  BY <1>2, <1>3 DEF Next

LEMMA RefinementStep ==
  ASSUME OwnershipInv, DepartureInv, OwnershipInv', [Next]_vars
  PROVE  [Ownership!Next]_<<RecordedOwner, SpentIds>>
<1>1. /\ RecordedOwner = OwnerAmong(Registered)
      /\ RecordedOwner' = OwnerAmong(Registered')
  BY DEF RecordedOwner, OwnersOf, OwnerAmong
<1>2. /\ Registered \subseteq Owners /\ Registered' \subseteq Owners
      /\ \A a, b \in Registered : Host[a] = Host[b] => a = b
      /\ \A a, b \in Registered' : Host[a] = Host[b] => a = b
  BY DEF OwnershipInv, TypeOK, OneOwnerPerHostname, Registered
<1>3. /\ SpentIds \subseteq SpentIds' /\ SpentIds' \subseteq Owners
  BY SpentGrows DEF OwnershipInv, TypeOK, SpentIds
<1>4. CASE UNCHANGED <<aliases, leases>>
  <2> DEFINE ids == SpentIds' \ SpentIds
  <2>1. RecordedOwner' = RecordedOwner
    BY <1>1, <1>4 DEF Registered
  <2>2. ids \in SUBSET Owners /\ SpentIds' = SpentIds \cup ids
    BY <1>3
  <2>3. Ownership!GiveUp(ids)
    BY <2>1, <2>2 DEF Ownership!GiveUp
  <2> QED
    BY <2>2, <2>3 DEF Ownership!Next
<1>5. ASSUME NEW p \in Procs, Records(p)
      PROVE  [Ownership!Next]_<<RecordedOwner, SpentIds>>
  <2> DEFINE apps == local[p].apps
             displaced == local[p].displaced
  <2>1. /\ Registered' = (Registered \ displaced) \cup apps
        /\ displaced \subseteq Registered /\ apps \cap Registered = {}
        /\ \A d \in displaced : \E a \in apps : Host[a] = Host[d]
        /\ \A a \in apps, o \in Registered : Host[o] = Host[a] => o \in displaced
        /\ \A a, b \in apps : Host[a] = Host[b] => a = b
        /\ pc[p] \in Committing /\ used' = used /\ pc'[p] \notin Committing
    BY <1>5, RecordsTaken
  <2>2. /\ apps \subseteq Owners /\ apps \subseteq used
        /\ \A q \in Procs : q # p => apps \cap local[q].apps = {}
    BY MemoryTyped DEF OwnershipInv, CommandInv, OwnIds
  <2>3. \A q \in Procs : q # p => pc'[q] = pc[q] /\ local'[q] = local[q]
    BY <1>5, AliasSteps, CommitSteps DEF Records, StepOf, IdsKept
  <2>4. pc[p] \in BeforeWrite /\ pc'[p] \notin BeforeWrite
    BY <2>1 DEF BeforeWrite, Committing, StartLabels
  <2>5. SpentIds' = SpentIds \cup apps /\ apps \cap SpentIds = {}
    BY <2>1, <2>2, <2>3, <2>4 DEF SpentIds
  <2>6. CASE apps = {}
    <3>1. Registered' = Registered /\ SpentIds' = SpentIds
      BY <2>1, <2>5, <2>6
    <3> QED
      BY <1>1, <3>1
  <2>7. CASE apps # {}
    <3> DEFINE taken == [h \in Hosts |-> IF \E o \in apps : Host[o] = h
                                           THEN CHOOSE o \in apps : Host[o] = h
                                           ELSE RecordedOwner[h]]
    <3>1. ASSUME NEW h \in Hosts
          PROVE  RecordedOwner'[h] = taken[h]
      <4>1. CASE \E o \in apps : Host[o] = h
        <5>1. PICK o \in apps : Host[o] = h
          BY <4>1
        <5>2. (CHOOSE a \in apps : Host[a] = h) = o
          BY <2>1, <5>1
        <5>3. RecordedOwner'[h] = o
          BY <1>1, <1>2, <2>1, <5>1, OwnerOfRecord
        <5> QED
          BY <4>1, <5>2, <5>3
      <4>2. CASE \A o \in apps : Host[o] # h
        <5>1. \A o \in displaced : Host[o] # h
          BY <2>1, <4>2
        <5>2. CASE \E o \in Registered : Host[o] = h
          <6>1. PICK o \in Registered : Host[o] = h
            BY <5>2
          <6>2. o \in Registered'
            BY <2>1, <5>1, <6>1
          <6>3. OwnerAmong(Registered)[h] = o /\ OwnerAmong(Registered')[h] = o
            BY <1>2, <6>1, <6>2, OwnerOfRecord
          <6> QED
            BY <1>1, <4>2, <6>3
        <5>3. CASE \A o \in Registered : Host[o] # h
          <6>1. \A o \in Registered' : Host[o] # h
            BY <2>1, <4>2, <5>3
          <6>2. OwnerAmong(Registered)[h] = NoOwner /\ OwnerAmong(Registered')[h] = NoOwner
            BY <1>2, <5>3, <6>1, OwnerOfRecord
          <6> QED
            BY <1>1, <4>2, <6>2
        <5> QED
          BY <5>2, <5>3
      <4> QED
        BY <4>1, <4>2
    <3>2. RecordedOwner' = taken
      <4>1. RecordedOwner' = [h \in Hosts |-> RecordedOwner'[h]]
        BY DEF RecordedOwner
      <4> HIDE DEF taken
      <4>2. taken = [h \in Hosts |-> taken[h]]
        BY DEF taken
      <4> QED
        BY <3>1, <4>1, <4>2
    <3>3. Ownership!Take(apps)
      BY <2>1, <2>5, <2>7, <3>2 DEF Ownership!Take
    <3> QED
      BY <2>2, <3>3 DEF Ownership!Next
  <2> QED
    BY <2>6, <2>7
<1>6. ASSUME NEW p \in Procs, Drops(p)
      PROVE  [Ownership!Next]_<<RecordedOwner, SpentIds>>
  <2> DEFINE ids == Registered \ Registered'
  <2>1. /\ Registered' \subseteq Registered /\ used' = used
        /\ pc[p] \notin BeforeWrite /\ pc'[p] \notin BeforeWrite
    BY <1>6, DropsLeave DEF BeforeWrite, Committing, StartLabels
  <2>2. \A q \in Procs : q # p => pc'[q] = pc[q] /\ local'[q] = local[q]
    BY <1>6, UnaliasSteps, FinishSteps, ReplaySteps DEF Drops, StepOf, IdsKept
  <2>3. SpentIds' = SpentIds
    BY <2>1, <2>2 DEF SpentIds
  <2> DEFINE left == [h \in Hosts |-> IF RecordedOwner[h] \in ids THEN NoOwner
                                                             ELSE RecordedOwner[h]]
  <2>4. ASSUME NEW h \in Hosts
        PROVE  RecordedOwner'[h] = left[h]
    <3>1. CASE \E o \in Registered : Host[o] = h
      <4>1. PICK o \in Registered : Host[o] = h
        BY <3>1
      <4>2. RecordedOwner[h] = o
        BY <1>1, <1>2, <4>1, OwnerOfRecord
      <4>3. CASE o \in Registered'
        <5>1. RecordedOwner'[h] = o
          BY <1>1, <1>2, <4>1, <4>3, OwnerOfRecord
        <5> QED
          BY <4>2, <4>3, <5>1
      <4>4. CASE o \notin Registered'
        <5>1. \A a \in Registered' : Host[a] # h
          BY <1>2, <2>1, <4>1, <4>4
        <5>2. RecordedOwner'[h] = NoOwner
          BY <1>1, <1>2, <5>1, OwnerOfRecord
        <5> QED
          BY <4>1, <4>2, <4>4, <5>2
      <4> QED
        BY <4>3, <4>4
    <3>2. CASE \A o \in Registered : Host[o] # h
      <4>1. \A o \in Registered' : Host[o] # h
        BY <2>1, <3>2
      <4>2. RecordedOwner[h] = NoOwner /\ RecordedOwner'[h] = NoOwner
        BY <1>1, <1>2, <3>2, <4>1, OwnerOfRecord
      <4> QED
        BY <4>2
    <3> QED
      BY <3>1, <3>2
  <2>5. RecordedOwner' = left
    <3>1. RecordedOwner' = [h \in Hosts |-> RecordedOwner'[h]]
      BY DEF RecordedOwner
    <3> HIDE DEF left
    <3>2. left = [h \in Hosts |-> left[h]]
      BY DEF left
    <3> QED
      BY <2>4, <3>1, <3>2
  <2>6. Ownership!Release(ids)
    BY <2>3, <2>5 DEF Ownership!Release
  <2>7. ids \in SUBSET Owners
    BY <1>2
  <2> QED
    BY <2>6, <2>7 DEF Ownership!Next
<1> QED
  BY <1>4, <1>5, <1>6, RegistryWrites

\* Whatever the commands do, crash or retry, what the registry says of a
\* hostname changes as HostnameOwnership allows: taken with all the hostnames
\* of its command in one step, released, and never owned again by an id that
\* lost it.
THEOREM OwnershipIsAtomic == Spec => OwnershipSpec
<1>1. Init => Ownership!Init
  BY DEF Init, Ownership!Init, RecordedOwner, OwnersOf, Registered, SpentIds
<1>2. OwnershipInv /\ DepartureInv /\ OwnershipInv' /\ [Next]_vars =>
        [Ownership!Next]_<<RecordedOwner, SpentIds>>
  BY RefinementStep
<1>3. Ownership!ownership = <<RecordedOwner, SpentIds>>
  BY DEF Ownership!ownership
<1> QED
  BY <1>1, <1>2, <1>3, DeparturesAreKnown, PTL
  DEF Spec, CommandsStayRight, OwnershipSpec, Ownership!Spec, Ownership!ownership
=============================================================================
