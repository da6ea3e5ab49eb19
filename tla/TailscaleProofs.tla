-------------------------- MODULE TailscaleProofs --------------------------
(***************************************************************************)
(* Machine-checked proofs about module TailscaleServe, for any number of   *)
(* owners, ports, accounts, faults and changes. Another account can log in *)
(* at any step.                                                            *)
(***************************************************************************)
EXTENDS TailscaleServe, TLAPS

-----------------------------------------------------------------------------
(* What a call of tailscale does to the handlers.                          *)

RootsKeptBut(p) ==
  \A n \in Profiles, q \in Ports :
    n # profile \/ q # p => serve'[n][q].root = serve[n][q].root

LEMMA PortSet ==
  ASSUME TypeOK, NEW p \in Ports, NEW s \in Settings, Port(p, s)
  PROVE  /\ serve' \in [Profiles -> [Ports -> Settings]]
         /\ serve'[profile][p] = s
         /\ RootsKeptBut(p)
  BY DEF TypeOK, Port, RootsKeptBut

LEMMA TurnedOn ==
  ASSUME TypeOK, NEW p \in Ports, NEW o \in Owners, TurnOn(p, o)
  PROVE  /\ serve' \in [Profiles -> [Ports -> Settings]]
         /\ serve'[profile][p].root = o
         /\ RootsKeptBut(p)
<1>1. PICK funnel \in BOOLEAN :
        Port(p, [serve[profile][p] EXCEPT !.root = o, !.funnel = funnel])
  BY DEF TurnOn
<1> DEFINE s == [serve[profile][p] EXCEPT !.root = o, !.funnel = funnel]
<1>2. serve[profile][p] \in Settings
  BY DEF TypeOK
<1>3. s \in Settings /\ s.root = o
  BY <1>2 DEF Settings
<1> HIDE DEF s
<1>4. Port(p, s)
  BY <1>1 DEF s
<1> QED
  BY <1>3, <1>4, PortSet

LEMMA TurnedOff ==
  ASSUME TypeOK, NEW p \in Ports, TurnOff(p)
  PROVE  /\ serve' \in [Profiles -> [Ports -> Settings]]
         /\ serve'[profile][p].root = "none"
         /\ RootsKeptBut(p)
<1>1. PICK funnel \in BOOLEAN :
        Port(p, [serve[profile][p] EXCEPT !.root = "none", !.funnel = funnel])
  BY DEF TurnOff
<1> DEFINE s == [serve[profile][p] EXCEPT !.root = "none", !.funnel = funnel]
<1>2. serve[profile][p] \in Settings
  BY DEF TypeOK
<1>3. s \in Settings /\ s.root = "none"
  BY <1>2 DEF Settings
<1> HIDE DEF s
<1>4. Port(p, s)
  BY <1>1 DEF s
<1> QED
  BY <1>3, <1>4, PortSet

LEMMA Spent ==
  ASSUME TypeOK, Spend \/ NoFault
  PROVE  changes' \in 0..MaxChanges /\ faults' \in 0..MaxFaults /\ UNCHANGED crossed
  BY BoundsAreNatural DEF TypeOK, Spend, NoFault

\* After On: the owner is served, or nothing happened.
LEMMA OnIs ==
  ASSUME TypeOK, NEW p \in Ports, NEW o \in Owners, NEW ok \in BOOLEAN, On(p, o, ok)
  PROVE  /\ serve' \in [Profiles -> [Ports -> Settings]]
         /\ changes' \in 0..MaxChanges /\ faults' \in 0..MaxFaults /\ UNCHANGED crossed
         /\ RootsKeptBut(p)
         /\ serve'[profile][p].root \in {o, serve[profile][p].root}
<1>1. CASE TurnOn(p, o)
  BY <1>1, TurnedOn, Spent DEF On
<1>2. CASE UNCHANGED serve
  BY <1>2, Spent DEF On, TypeOK, RootsKeptBut
<1> QED
  BY <1>1, <1>2 DEF On

\* After Off: nobody is served, for certain if it succeeded.
LEMMA OffIs ==
  ASSUME TypeOK, NEW p \in Ports, NEW ok \in BOOLEAN, Off(p, ok)
  PROVE  /\ serve' \in [Profiles -> [Ports -> Settings]]
         /\ changes' \in 0..MaxChanges /\ faults' \in 0..MaxFaults /\ UNCHANGED crossed
         /\ RootsKeptBut(p)
         /\ serve'[profile][p].root \in {"none", serve[profile][p].root}
         /\ ok => serve'[profile][p].root = "none"
<1>1. CASE TurnOff(p)
  BY <1>1, TurnedOff, Spent DEF Off
<1>2. CASE ~ok /\ UNCHANGED serve
  BY <1>2, Spent DEF Off, TypeOK, RootsKeptBut
<1> QED
  BY <1>1, <1>2 DEF Off

-----------------------------------------------------------------------------
(* The parts of the invariant that steps leave alone.                      *)

\* The handlers stay where the registrations are.
LEMMA RootsStayRecorded ==
  ASSUME ServeInv, UNCHANGED <<registered, identity>>, crossed => crossed',
         \A n \in Profiles, p \in Ports :
           serve'[n][p].root \in Owners => serve'[n][p].root = serve[n][p].root
  PROVE  HandlersAreRecorded'
  BY DEF ServeInv, HandlersAreRecorded

LEMMA Goes ==
  ASSUME TypeOK, NEW label \in Labels, Goto(label)
  PROVE  /\ cmd'.at = label
         /\ cmd'.owner = cmd.owner /\ cmd'.name = cmd.name /\ cmd'.moved = cmd.moved
         /\ cmd'.config = cmd.config /\ cmd'.todo = cmd.todo /\ cmd'.forgotten = cmd.forgotten /\ cmd'.since = cmd.since
  BY DEF Goto, TypeOK

LEMMA IdleIs ==
  /\ Idle.at = "idle" /\ Idle.owner = NoOwner /\ Idle.name = NoProfile /\ ~Idle.moved
  /\ Idle.todo = {} /\ Idle.forgotten = {} /\ Idle.since = 0
  /\ Idle.config \in [Ports -> Settings]
  BY DEF Idle, Unused, Settings

CmdType ==
  [at : Labels, owner : Owners \cup {NoOwner}, name : Profiles \cup {NoProfile},
   moved : BOOLEAN, config : [Ports -> Settings], todo : SUBSET Ports, forgotten : SUBSET Ports,
   since : 0..MaxChanges + MaxFaults]

LEMMA IdleTyped == Idle \in CmdType
  BY IdleIs, BoundsAreNatural DEF Idle, CmdType, Labels

LEMMA GoesTyped ==
  ASSUME TypeOK, NEW label \in Labels, Goto(label)
  PROVE  cmd' \in CmdType
  BY DEF Goto, TypeOK, CmdType

LEMMA InitHolds ==
  ASSUME Init
  PROVE  ServeInv
<1>1. TypeOK
  <2>1. cmd \in CmdType /\ crossed \in BOOLEAN
    BY IdleTyped DEF Init
  <2> QED
    BY <2>1, BoundsAreNatural DEF Init, TypeOK, CmdType, Statuses, Unused, Settings
<1>2. HandlersAreRecorded
  BY NobodyIsServed DEF Init, HandlersAreRecorded, Unused
<1>3. OwnersRegisterOnce /\ WorksForCurrent /\ ForgetsUnserved
  BY IdleIs, NobodyIsNobody DEF Init, OwnersRegisterOnce, WorksForCurrent, ForgetsUnserved, Relying, Serving
<1> QED
  BY <1>1, <1>2, <1>3 DEF ServeInv

\* A command that ends leaves what is served and registered alone.
LEMMA EndHolds ==
  ASSUME ServeInv, End, changes' \in 0..MaxChanges, faults' \in 0..MaxFaults,
         UNCHANGED crossed,
         serve' \in [Profiles -> [Ports -> Settings]], UNCHANGED <<profile, identity>>,
         registered' \in [Ports -> Owners \cup {NoOwner}],
         \A p \in Ports : registered'[p] \in {registered[p], NoOwner},
         HandlersAreRecorded'
  PROVE  ServeInv'
<1>1. status' \in [Owners -> Statuses]
  BY DEF ServeInv, TypeOK, End, Statuses
<1>2. TypeOK'
  BY <1>1, IdleTyped DEF ServeInv, TypeOK, End, CmdType
<1>3. OwnersRegisterOnce'
  BY IdleIs, NobodyIsNobody DEF ServeInv, TypeOK, OwnersRegisterOnce, End, Serving
<1>4. WorksForCurrent' /\ ForgetsUnserved'
  BY IdleIs DEF WorksForCurrent, ForgetsUnserved, Relying, Serving, End
<1> QED
  BY <1>2, <1>3, <1>4 DEF ServeInv

LEMMA AbortHolds ==
  ASSUME ServeInv, Abort, Spend \/ NoFault
  PROVE  ServeInv'
<1>1. changes' \in 0..MaxChanges /\ faults' \in 0..MaxFaults /\ UNCHANGED crossed
  BY Spent DEF ServeInv
<1>2. HandlersAreRecorded'
  BY <1>1, RootsStayRecorded DEF Abort
<1> QED
  BY <1>1, <1>2, EndHolds DEF Abort, ServeInv, TypeOK

-----------------------------------------------------------------------------
(* One lemma per step of a command.                                        *)

LEMMA StartHolds ==
  ASSUME ServeInv, cmd.at = "idle", NEW o \in Owners \cup {NoOwner}, Start(o),
         UNCHANGED <<serve, profile, registered, identity, changes, faults, crossed>>,
         o = NoOwner => UNCHANGED status,
         o # NoOwner => status[o] = "unborn" /\ status' = [status EXCEPT ![o] = "starting"]
  PROVE  ServeInv'
<1>1. /\ cmd'.at = "diagnose" /\ cmd'.owner = o /\ cmd'.forgotten = {} /\ ~cmd'.moved
      /\ cmd' \in CmdType
  <2>1. changes + faults \in 0..MaxChanges + MaxFaults
    BY BoundsAreNatural DEF ServeInv, TypeOK
  <2> QED
    BY <2>1, IdleTyped, IdleIs DEF Start, CmdType, Labels
<1>2. TypeOK'
  BY <1>1 DEF ServeInv, TypeOK, CmdType, Statuses
<1>3. HandlersAreRecorded'
  BY RootsStayRecorded
<1>4. OwnersRegisterOnce'
  BY <1>1, NobodyIsNobody DEF ServeInv, TypeOK, OwnersRegisterOnce, Serving
<1>5. WorksForCurrent' /\ ForgetsUnserved'
  BY <1>1 DEF WorksForCurrent, ForgetsUnserved, Relying, Serving
<1> QED
  BY <1>2, <1>3, <1>4, <1>5 DEF ServeInv

LEMMA DiagnoseHolds ==
  ASSUME ServeInv, Diagnose
  PROVE  ServeInv'
<1>1. CASE /\ NoFault /\ cmd' = [cmd EXCEPT !.at = "config", !.name = profile]
           /\ UNCHANGED <<serve, profile, registry>>
  <2>1. /\ cmd'.at = "config" /\ cmd'.owner = cmd.owner /\ cmd'.name = profile
        /\ cmd'.moved = cmd.moved /\ cmd'.forgotten = cmd.forgotten
        /\ cmd' \in CmdType
    BY <1>1 DEF CmdType, ServeInv, TypeOK, Labels
  <2>2. TypeOK'
    BY <1>1, <2>1 DEF ServeInv, TypeOK, CmdType, registry, NoFault
  <2>3. HandlersAreRecorded'
    BY <1>1, RootsStayRecorded DEF registry, NoFault
  <2>4. OwnersRegisterOnce'
    BY <1>1, <2>1 DEF Diagnose, ServeInv, OwnersRegisterOnce, registry, Serving
  <2>5. WorksForCurrent' /\ ForgetsUnserved'
    BY <1>1, <2>1 DEF WorksForCurrent, ForgetsUnserved, Relying, Serving, ServeInv, Diagnose,
       NoFault
  <2> QED
    BY <2>2, <2>3, <2>4, <2>5 DEF ServeInv
<1>2. CASE Spend /\ Abort
  BY <1>2, AbortHolds
<1> QED
  BY <1>1, <1>2 DEF Diagnose

\* Reading configurations changes nothing but what the command knows.
LEMMA SeenIs ==
  ASSUME TypeOK
  PROVE  /\ Seen(cmd.name) \in [Ports -> Settings]
         /\ profile = cmd.name => Seen(cmd.name) = serve[profile]
<1>1. \A p \in Ports : serve[profile][p] \in Settings
  BY DEF TypeOK
<1>2. \A s \in Settings : [s EXCEPT !.root = "other"] \in Settings
  BY DEF Settings
<1>3. serve[profile] = [p \in Ports |-> serve[profile][p]]
  BY DEF TypeOK
<1> QED
  BY <1>1, <1>2, <1>3 DEF Seen

LEMMA ReadConfigHolds ==
  ASSUME ServeInv, ReadConfig
  PROVE  ServeInv'
<1>1. CASE /\ NoFault /\ SameIdentity(cmd.name)
           /\ cmd' = [cmd EXCEPT !.at = "converge", !.config = Seen(cmd.name),
                                 !.todo = {p \in Ports : registered[p] # NoOwner}]
           /\ UNCHANGED <<serve, profile, registry>>
  <2>1. /\ Seen(cmd.name) \in [Ports -> Settings]
        /\ ~crossed => Seen(cmd.name) = serve[profile]
    BY SeenIs DEF ReadConfig, ServeInv, WorksForCurrent, Relying
  <2>2. /\ cmd'.at = "converge" /\ cmd'.owner = cmd.owner /\ cmd'.name = cmd.name
        /\ cmd'.moved = cmd.moved /\ cmd'.config = Seen(cmd.name)
        /\ cmd'.todo = {p \in Ports : registered[p] # NoOwner}
        /\ cmd'.forgotten = cmd.forgotten
        /\ cmd' \in CmdType
    BY <1>1, <2>1 DEF CmdType, ServeInv, TypeOK, Labels
  <2>3. TypeOK'
    BY <1>1, <2>2 DEF ServeInv, TypeOK, CmdType, registry, NoFault
  <2>4. HandlersAreRecorded'
    BY <1>1, RootsStayRecorded DEF registry, NoFault
  <2>5. OwnersRegisterOnce'
    BY <1>1, <2>2 DEF ReadConfig, ServeInv, OwnersRegisterOnce, registry, Serving
  <2>6. WorksForCurrent'
    BY <1>1, <2>1, <2>2 DEF ReadConfig, NoFault, ServeInv, WorksForCurrent, SameIdentity, registry, Relying, Serving
  <2>7. ForgetsUnserved'
    BY <1>1, <2>1, <2>2 DEF ForgetsUnserved, ServeInv, ReadConfig, NoFault, registry
  <2> QED
    BY <2>3, <2>4, <2>5, <2>6, <2>7 DEF ServeInv
<1>2. CASE NoFault /\ ~SameIdentity(cmd.name) /\ Abort
  BY <1>2, AbortHolds
<1>3. CASE Spend /\ Abort
  BY <1>3, AbortHolds
<1> QED
  BY <1>1, <1>2, <1>3 DEF ReadConfig

LEMMA DoneIsNotForgotten ==
  ASSUME ServeInv, cmd.at = "converge", NEW p \in cmd.todo
  PROVE  Done(p) # Forgotten(p)
<1>1. p \notin Done(p).forgotten
  BY DEF ServeInv, ForgetsUnserved, TypeOK, Done
<1>2. Done(p) \in CmdType /\ p \in Ports
  BY DEF ServeInv, TypeOK, CmdType, Done
<1>3. p \in Forgotten(p).forgotten
  BY <1>2 DEF Forgotten, CmdType
<1> QED
  BY <1>1, <1>3

\* Converge takes one port off its list, and moves no other.
LEMMA ConvergedHolds ==
  ASSUME ServeInv, cmd.at = "converge", NEW p \in cmd.todo,
         serve' \in [Profiles -> [Ports -> Settings]],
         changes' \in 0..MaxChanges, faults' \in 0..MaxFaults,
         RootsKeptBut(p), UNCHANGED <<profile, registry, crossed>>,
         serve'[profile][p].root \in {registered[p], "none", serve[profile][p].root},
         cmd' \in {Done(p), Forgotten(p)},
         cmd' = Forgotten(p) /\ ~crossed => serve'[profile][p].root \notin Owners
  PROVE  ServeInv'
<1> DEFINE kept == /\ cmd'.at = "converge" /\ cmd'.owner = cmd.owner /\ cmd'.name = cmd.name
                   /\ cmd'.moved = cmd.moved /\ cmd'.config = cmd.config
                   /\ cmd'.todo = cmd.todo \ {p}
<1>0. cmd \in CmdType
  BY DEF ServeInv, TypeOK, CmdType
<1>1. Done(p) \in CmdType
  BY <1>0 DEF Done, CmdType
<1>2. cmd' = Done(p) => kept /\ cmd'.forgotten = cmd.forgotten
  BY <1>0 DEF Done, CmdType
<1>3. cmd' = Forgotten(p) => kept /\ cmd'.forgotten = cmd.forgotten \cup {p} /\ cmd' \in CmdType
  <2> DEFINE done == Done(p)
  <2>1. done \in CmdType /\ p \in Ports
    BY <1>0, <1>1 DEF CmdType
  <2>2. /\ done.at = cmd.at /\ done.owner = cmd.owner /\ done.name = cmd.name
        /\ done.moved = cmd.moved /\ done.config = cmd.config /\ done.todo = cmd.todo \ {p}
        /\ done.forgotten = cmd.forgotten
    BY <1>0 DEF Done, CmdType
  <2>3. Forgotten(p) = [done EXCEPT !.forgotten = @ \cup {p}]
    BY DEF Forgotten
  <2> HIDE DEF done
  <2> QED
    BY <2>1, <2>2, <2>3 DEF CmdType
<1>10. kept /\ cmd' \in CmdType
  BY <1>1, <1>2, <1>3
<1>4. /\ p \in Ports /\ registered[p] \in Owners
      /\ identity = cmd.name /\ (~crossed => identity = profile)
  BY DEF ServeInv, TypeOK, WorksForCurrent, SameIdentity, ForgetsUnserved, Relying
<1>5. TypeOK'
  BY <1>10 DEF ServeInv, TypeOK, CmdType, registry
<1>6. HandlersAreRecorded'
  BY <1>4, NobodyIsServed DEF ServeInv, TypeOK, HandlersAreRecorded, RootsKeptBut, registry
<1>7. OwnersRegisterOnce'
  BY <1>10 DEF ServeInv, OwnersRegisterOnce, registry, Serving
<1>8. WorksForCurrent'
  BY <1>10, <1>4 DEF ServeInv, WorksForCurrent, SameIdentity, registry, Relying, Serving
<1>9. ForgetsUnserved'
  <2>1. \A q \in cmd'.todo : q \in cmd.todo /\ q # p
    BY <1>10
  <2>2. \A q \in cmd'.forgotten : q \in cmd.forgotten \/ (q = p /\ cmd' = Forgotten(p))
    BY <1>2, <1>3
  <2>3. \A q \in cmd.todo \cup cmd.forgotten : q \in Ports /\ (q # p => serve'[profile][q].root = serve[profile][q].root)
    BY <1>0 DEF CmdType, RootsKeptBut, ServeInv, TypeOK
  <2>4. p \notin cmd.forgotten
    BY DEF ServeInv, ForgetsUnserved
  <2>5. \A q \in cmd'.todo :
          /\ registered'[q] # NoOwner
          /\ ~crossed' /\ serve'[profile'][q].root \in Owners =>
               cmd'.config[q].root = serve'[profile'][q].root
    BY <1>10, <2>1, <2>3 DEF ServeInv, ForgetsUnserved, registry
  <2>6. ~crossed' => \A q \in cmd'.forgotten : serve'[profile'][q].root \notin Owners
    BY <2>2, <2>3, <2>4 DEF ServeInv, ForgetsUnserved, registry
  <2>7. cmd'.todo \cap cmd'.forgotten = {} /\ cmd'.at = "converge"
    BY <1>2, <1>3, <1>10 DEF ServeInv, ForgetsUnserved
  <2> QED
    BY <2>5, <2>6, <2>7 DEF ForgetsUnserved
<1> QED
  BY <1>5, <1>6, <1>7, <1>8, <1>9 DEF ServeInv

\* What Plan decides: only what is not the owner's is forgotten, and only
\* owners that are there are restored.
LEMMA PlanIs ==
  ASSUME NEW o \in Owners, NEW owner \in {"alive", "unknown", "gone"}, NEW s \in Settings
  PROVE  /\ Plan(owner, s, o) \in {"keep", "forget", "restore", "hide", "remove"}
         /\ Plan(owner, s, o) = "forget" => s.root # o
<1>1. ObserveRegistration(s, o) \in {"public", "owned", "foreign", "absent"}
  BY DEF ObserveRegistration, Observe
<1> QED
  BY <1>1 DEF Plan, Owns

\* Nothing is done to a port that another tool serves.
LEMMA PlanSparesOthers ==
  ASSUME NEW o \in Owners, NEW owner \in {"alive", "unknown", "gone"}, NEW s \in Settings,
         Plan(owner, s, o) \in {"restore", "hide", "remove"}
  PROVE  s.root # "other"
<1>1. CASE Owns(s, o)
  BY <1>1, NobodyIsServed DEF Owns
<1>2. CASE ~Owns(s, o)
  <2>1. ObserveRegistration(s, o) = "public" => s.session # "none"
    BY <1>2 DEF ObserveRegistration, Observe
  <2>2. ObserveRegistration(s, o) = "absent"
    BY <1>2, <2>1 DEF Plan
  <2>3. s = Unused
    BY <1>2, <2>2 DEF ObserveRegistration, Observe, Occupied
  <2> QED
    BY <2>3 DEF Unused
<1> QED
  BY <1>1, <1>2

LEMMA ConvergeHolds ==
  ASSUME ServeInv, NEW p \in Ports, Converge(p)
  PROVE  ServeInv'
<1> DEFINE o == registered[p]
           action == Plan(OwnerState(o), cmd.config[p], o)
<1>1. /\ TypeOK /\ cmd.at = "converge" /\ p \in cmd.todo /\ UNCHANGED <<profile, registry>>
      /\ o \in Owners
      /\ ~crossed /\ serve[profile][p].root \in Owners =>
           cmd.config[p].root = serve[profile][p].root
  BY DEF Converge, ServeInv, ForgetsUnserved, TypeOK
<1>2. ~crossed /\ serve[profile][p].root \in Owners => serve[profile][p].root = o
  BY <1>1 DEF ServeInv, HandlersAreRecorded, TypeOK
<1>3. action = "forget" /\ ~crossed => serve[profile][p].root \notin Owners
  <2>1. cmd.config[p] \in Settings /\ OwnerState(o) \in {"alive", "unknown", "gone"}
    BY <1>1 DEF TypeOK, OwnerState
  <2> QED
    BY <1>1, <1>2, <2>1, PlanIs
<1>4. CASE NoFault /\ UNCHANGED serve /\ cmd' \in {Done(p), Forgotten(p)}
           /\ (cmd' = Done(p) \/ action = "forget")
  <2>1. serve' \in [Profiles -> [Ports -> Settings]] /\ RootsKeptBut(p)
    BY <1>1, <1>4 DEF TypeOK, RootsKeptBut
  <2>2. changes' \in 0..MaxChanges /\ faults' \in 0..MaxFaults /\ UNCHANGED crossed
    BY <1>1, <1>4, Spent
  <2>3. cmd' = Forgotten(p) /\ ~crossed => serve'[profile][p].root \notin Owners
    <3>1. CASE action = "forget"
      BY <1>3, <1>4, <3>1
    <3>2. CASE cmd' = Done(p)
      BY <1>1, <3>2, DoneIsNotForgotten
    <3> QED
      BY <1>4, <3>1, <3>2
  <2> QED
    BY <1>1, <1>4, <2>1, <2>2, <2>3, ConvergedHolds
<1>5. ASSUME NEW ok \in BOOLEAN, On(p, o, ok), cmd' = Done(p)
      PROVE  ServeInv'
  <2>1. /\ serve' \in [Profiles -> [Ports -> Settings]] /\ RootsKeptBut(p)
        /\ changes' \in 0..MaxChanges /\ faults' \in 0..MaxFaults /\ UNCHANGED crossed
        /\ serve'[profile][p].root \in {o, serve[profile][p].root}
    <3>1. TypeOK /\ o \in Owners /\ On(p, o, ok)
      BY <1>1, <1>5
    <3> HIDE DEF o
    <3> QED
      BY <3>1, OnIs
  <2>2. cmd' \in {Done(p), Forgotten(p)} /\ cmd' # Forgotten(p)
    BY <1>1, <1>5, DoneIsNotForgotten
  <2> QED
    BY <1>1, <2>1, <2>2, ConvergedHolds
<1>6. ASSUME NEW ok \in BOOLEAN, Off(p, ok), cmd' = Done(p) \/ (ok /\ cmd' = Forgotten(p))
      PROVE  ServeInv'
  <2>1. /\ serve' \in [Profiles -> [Ports -> Settings]] /\ RootsKeptBut(p)
        /\ changes' \in 0..MaxChanges /\ faults' \in 0..MaxFaults /\ UNCHANGED crossed
        /\ serve'[profile][p].root \in {o, "none", serve[profile][p].root}
        /\ ok => serve'[profile][p].root = "none"
    BY <1>1, <1>6, OffIs
  <2>2. cmd' = Forgotten(p) => ok
    BY <1>1, <1>6, DoneIsNotForgotten
  <2>3. cmd' \in {Done(p), Forgotten(p)}
    BY <1>6
  <2> QED
    BY <1>1, <2>1, <2>2, <2>3, NobodyIsServed, ConvergedHolds
<1>7. \/ NoFault /\ UNCHANGED serve /\ cmd' \in {Done(p), Forgotten(p)}
           /\ (cmd' = Done(p) \/ action = "forget")
      \/ \E ok \in BOOLEAN : On(p, o, ok) /\ cmd' = Done(p)
      \/ \E ok \in BOOLEAN : Off(p, ok) /\ (cmd' = Done(p) \/ (ok /\ cmd' = Forgotten(p)))
  BY DEF Converge
<1> QED
  BY <1>4, <1>5, <1>6, <1>7

\* The end of converge: what is forgotten is not served, and if the account
\* is a new one, nothing is.
LEMMA WriteHolds ==
  ASSUME ServeInv, Write
  PROVE  ServeInv'
<1>1. /\ TypeOK /\ SameIdentity(cmd.name)
      /\ (cmd.name = profile \/ cmd.moved) /\ (cmd.moved => crossed)
      /\ UNCHANGED <<serve, profile, status, changes, faults, crossed>> /\ identity' = cmd.name
  BY DEF Write, NoFault, ServeInv, WorksForCurrent, Relying
<1>2. registered' \in [Ports -> Owners \cup {NoOwner}]
  BY <1>1 DEF Write, TypeOK
<1>3. ASSUME ~crossed
      PROVE  \A n \in Profiles, p \in Ports :
               serve[n][p].root \in Owners => identity = n /\ n = profile /\ p \notin cmd.forgotten
  <2>1. \A n \in Profiles, p \in Ports :
          serve[n][p].root \in Owners => registered[p] # NoOwner /\ identity = n
    BY <1>3, NobodyIsNobody DEF ServeInv, HandlersAreRecorded
  <2>2. \A p \in cmd.forgotten : serve[profile][p].root \notin Owners
    BY <1>3 DEF Write, ServeInv, ForgetsUnserved
  <2> QED
    BY <1>1, <1>3, <2>1, <2>2 DEF SameIdentity
<1>4. HandlersAreRecorded'
  BY <1>1, <1>2, <1>3 DEF Write, ServeInv, HandlersAreRecorded
<1>5. CASE cmd.owner = NoOwner
  <2>1. cmd' = Idle
    BY <1>5 DEF Write
  <2>2. End
    BY <1>1, <1>5, <2>1, NobodyIsNobody DEF End, ServeInv, OwnersRegisterOnce, TypeOK
  <2>3. TypeOK' /\ ForgetsUnserved' /\ WorksForCurrent'
    BY <1>1, <1>2, <2>1, IdleIs, IdleTyped
       DEF TypeOK, CmdType, ForgetsUnserved, WorksForCurrent, Relying, Serving
  <2>4. OwnersRegisterOnce'
    BY <1>1, <1>2, <1>5, <2>1, IdleIs, NobodyIsNobody
       DEF Write, ServeInv, OwnersRegisterOnce, TypeOK, Serving
  <2> QED
    BY <1>4, <2>3, <2>4 DEF ServeInv
<1>6. CASE cmd.owner # NoOwner
  <2>1. PICK label \in {"allocate", "reread"} : Goto(label)
    BY <1>6 DEF Write
  <2>2. /\ cmd'.at \in {"allocate", "reread"} /\ cmd'.owner = cmd.owner /\ cmd'.name = cmd.name
        /\ cmd'.moved = cmd.moved /\ cmd' \in CmdType
    BY <1>1, <2>1, Goes, GoesTyped DEF Labels
  <2>3. TypeOK' /\ ForgetsUnserved' /\ WorksForCurrent'
    BY <1>1, <1>2, <2>2 DEF TypeOK, CmdType, ForgetsUnserved, WorksForCurrent, Relying, Serving
  <2>4. OwnersRegisterOnce'
    BY <1>1, <1>2, <1>6, <2>2, NobodyIsNobody
       DEF Write, ServeInv, OwnersRegisterOnce, TypeOK, Serving
  <2> QED
    BY <1>4, <2>3, <2>4 DEF ServeInv
<1> QED
  BY <1>5, <1>6

LEMMA RereadHolds ==
  ASSUME ServeInv, Reread
  PROVE  ServeInv'
<1>1. CASE /\ NoFault
           /\ cmd' = [cmd EXCEPT !.at = "allocate", !.config = Seen(cmd.name)]
           /\ UNCHANGED <<serve, profile, registry>>
  <2>1. Seen(cmd.name) \in [Ports -> Settings]
    BY SeenIs DEF ServeInv
  <2>2. /\ cmd'.at = "allocate" /\ cmd'.owner = cmd.owner /\ cmd'.name = cmd.name
        /\ cmd'.moved = cmd.moved /\ cmd' \in CmdType
    BY <1>1, <2>1 DEF CmdType, ServeInv, TypeOK, Labels
  <2>3. TypeOK' /\ ForgetsUnserved'
    BY <1>1, <2>2 DEF ServeInv, TypeOK, CmdType, registry, NoFault, ForgetsUnserved
  <2>4. HandlersAreRecorded'
    BY <1>1, RootsStayRecorded DEF registry, NoFault
  <2>5. OwnersRegisterOnce' /\ WorksForCurrent'
    BY <1>1, <2>2 DEF Reread, NoFault, ServeInv, OwnersRegisterOnce, WorksForCurrent, registry,
       Relying, Serving
  <2> QED
    BY <2>3, <2>4, <2>5 DEF ServeInv
<1>2. CASE Spend /\ Abort
  BY <1>2, AbortHolds
<1> QED
  BY <1>1, <1>2 DEF Reread

\* A port nobody has is not served by anybody: the owner's registration
\* comes first.
LEMMA AllocateHolds ==
  ASSUME ServeInv, NEW p \in Ports, Allocate(p)
  PROVE  ServeInv'
<1>1. /\ TypeOK /\ cmd.at = "allocate" /\ cmd.owner \in Owners /\ registered[p] = NoOwner
      /\ identity = cmd.name /\ (cmd.name = profile \/ cmd.moved) /\ (cmd.moved => crossed)
      /\ registered' = [registered EXCEPT ![p] = cmd.owner] /\ identity' = identity
      /\ UNCHANGED <<serve, profile, status, changes, faults, crossed>>
  BY DEF Allocate, Free, ServeInv, TypeOK, OwnersRegisterOnce, WorksForCurrent, Relying
<1>2. /\ cmd'.at = "serve" /\ cmd'.owner = cmd.owner /\ cmd'.name = cmd.name
      /\ cmd'.moved = cmd.moved /\ cmd' \in CmdType
  BY <1>1, Goes, GoesTyped DEF Allocate, Labels
<1>3. TypeOK' /\ ForgetsUnserved' /\ WorksForCurrent'
  BY <1>1, <1>2 DEF TypeOK, CmdType, ForgetsUnserved, WorksForCurrent, Relying, Serving
<1>4. HandlersAreRecorded'
  BY <1>1, NobodyIsNobody DEF ServeInv, HandlersAreRecorded, TypeOK
<1>5. OwnersRegisterOnce'
  <2>1. status[cmd.owner] = "starting"
    BY <1>1 DEF ServeInv, OwnersRegisterOnce
  <2>2. \A q \in Ports : registered'[q] = cmd.owner => q = p
    BY <1>1, NobodyIsNobody DEF ServeInv, OwnersRegisterOnce, TypeOK
  <2>3. \A q \in Ports : registered'[q] # NoOwner => status[registered'[q]] # "unborn"
    BY <1>1, <2>1 DEF ServeInv, OwnersRegisterOnce, TypeOK
  <2> QED
    BY <1>1, <1>2, <2>2, <2>3 DEF ServeInv, OwnersRegisterOnce, Serving
<1> QED
  BY <1>3, <1>4, <1>5 DEF ServeInv

LEMMA ServeOnHolds ==
  ASSUME ServeInv, NEW p \in Ports, ServeOn(p)
  PROVE  ServeInv'
<1>1. /\ TypeOK /\ cmd.at = "serve" /\ cmd.owner \in Owners /\ registered[p] = cmd.owner
      /\ identity = cmd.name /\ (cmd.name = profile \/ cmd.moved) /\ (cmd.moved => crossed)
      /\ UNCHANGED <<profile, registered, identity, status>>
  BY DEF ServeOn, ServeInv, TypeOK, OwnersRegisterOnce, WorksForCurrent, registry, Relying, Serving
<1>2. PICK ok \in BOOLEAN : On(p, cmd.owner, ok) /\ Goto(IF ok THEN "confirm" ELSE "release")
  BY DEF ServeOn
<1>3. /\ serve' \in [Profiles -> [Ports -> Settings]]
      /\ changes' \in 0..MaxChanges /\ faults' \in 0..MaxFaults /\ UNCHANGED crossed
      /\ RootsKeptBut(p)
      /\ serve'[profile][p].root \in {cmd.owner, serve[profile][p].root}
  BY <1>1, <1>2, OnIs
<1>4. PICK label \in {"confirm", "release"} : Goto(label)
  BY <1>2
<1>5. /\ cmd'.at \in {"confirm", "release"} /\ cmd'.owner = cmd.owner /\ cmd'.name = cmd.name
      /\ cmd'.moved = cmd.moved /\ cmd' \in CmdType
  BY <1>1, <1>4, Goes, GoesTyped DEF Labels
<1>6. TypeOK' /\ ForgetsUnserved' /\ WorksForCurrent'
  BY <1>1, <1>3, <1>5 DEF TypeOK, CmdType, ForgetsUnserved, WorksForCurrent, Relying, Serving
<1>7. HandlersAreRecorded'
  BY <1>1, <1>3 DEF ServeInv, HandlersAreRecorded, RootsKeptBut, TypeOK
<1>8. OwnersRegisterOnce'
  BY <1>1, <1>5 DEF ServeInv, OwnersRegisterOnce, Serving
<1> QED
  BY <1>6, <1>7, <1>8 DEF ServeInv

\* Going on between the calls that publish and release an owner.
LEMMA ServingHolds ==
  ASSUME ServeInv, cmd.at \in {"confirm", "publish"}, NEW label \in {"publish", "release"},
         Goto(label), UNCHANGED <<serve, profile, registry>>, Spend \/ NoFault
  PROVE  ServeInv'
<1>1. /\ cmd'.at \in {"publish", "release"} /\ cmd'.owner = cmd.owner /\ cmd'.name = cmd.name
      /\ cmd'.moved = cmd.moved /\ cmd' \in CmdType
  BY Goes, GoesTyped DEF Labels, ServeInv
<1>2. changes' \in 0..MaxChanges /\ faults' \in 0..MaxFaults /\ UNCHANGED crossed
  BY Spent DEF ServeInv
<1>3. TypeOK' /\ ForgetsUnserved' /\ WorksForCurrent'
  BY <1>1, <1>2 DEF ServeInv, TypeOK, CmdType, registry, ForgetsUnserved, WorksForCurrent, Relying, Serving
<1>4. HandlersAreRecorded'
  BY <1>2, RootsStayRecorded DEF registry
<1>5. OwnersRegisterOnce'
  BY <1>1 DEF ServeInv, OwnersRegisterOnce, registry, Serving
<1> QED
  BY <1>3, <1>4, <1>5 DEF ServeInv

LEMMA ConfirmHolds ==
  ASSUME ServeInv, NEW p \in Ports, Confirm(p)
  PROVE  ServeInv'
<1>1. PICK label \in {"publish", "release"} : Goto(label)
  BY DEF Confirm
<1> QED
  BY <1>1, ServingHolds DEF Confirm

LEMMA WithdrawHolds ==
  ASSUME ServeInv, Withdraw
  PROVE  ServeInv'
  BY ServingHolds DEF Withdraw

LEMMA RecordHolds ==
  ASSUME ServeInv, NEW replaced \in SUBSET {o \in Owners : status[o] \in Listed}, Record(replaced)
  PROVE  ServeInv'
<1>1. /\ TypeOK /\ cmd.at = "publish" /\ cmd.owner \in Owners /\ status[cmd.owner] = "starting"
      /\ UNCHANGED <<serve, profile, registered, identity, changes, faults, crossed>> /\ cmd' = Idle
  BY DEF Record, ServeInv, TypeOK, OwnersRegisterOnce, Serving, NoFault
<1>2. \A o \in Owners : status'[o] \in {status[o], "recorded", "gone"} /\ status'[o] # "starting"
  BY <1>1 DEF Record, ServeInv, TypeOK, OwnersRegisterOnce, Statuses
<1>3. status' \in [Owners -> Statuses]
  BY <1>1 DEF Record, TypeOK, Statuses
<1>4. TypeOK' /\ ForgetsUnserved' /\ WorksForCurrent'
  BY <1>1, <1>3, IdleIs, IdleTyped DEF TypeOK, CmdType, ForgetsUnserved, WorksForCurrent, Relying, Serving
<1>5. HandlersAreRecorded'
  BY <1>1, RootsStayRecorded
<1>6. OwnersRegisterOnce'
  <2>1. cmd'.at = "idle" /\ cmd'.owner = NoOwner
    BY <1>1, IdleIs
  <2>2. \A p \in Ports : registered'[p] # NoOwner => status'[registered'[p]] # "unborn"
    BY <1>1, <1>2 DEF ServeInv, TypeOK, OwnersRegisterOnce
  <2> QED
    BY <1>2, <2>1, <2>2, NobodyIsNobody DEF OwnersRegisterOnce, Serving
<1> QED
  BY <1>4, <1>5, <1>6 DEF ServeInv

\* Only the account that is registered is looked at: a handler that it does
\* not serve is served by no other.
LEMMA ReleaseHolds ==
  ASSUME ServeInv, NEW p \in Ports, Release(p)
  PROVE  ServeInv'
<1>1. CASE /\ NoFault /\ SameIdentity(profile)
           /\ cmd' = [cmd EXCEPT !.config = serve[profile], !.moved = FALSE,
                        !.at = IF Owns(serve[profile][p], cmd.owner) THEN "off" ELSE "forget"]
           /\ UNCHANGED <<serve, profile, registry>>
  <2>1. /\ TypeOK /\ cmd.at = "release" /\ cmd.owner \in Owners /\ registered[p] = cmd.owner
        /\ identity = profile
    BY <1>1, NobodyIsNobody DEF Release, ServeInv, TypeOK, OwnersRegisterOnce, SameIdentity, Serving
  <2>2. /\ cmd'.at \in {"off", "forget"} /\ cmd'.owner = cmd.owner /\ cmd'.name = cmd.name
        /\ ~cmd'.moved /\ (cmd'.at = "forget" => serve[profile][p].root # cmd.owner)
        /\ cmd' \in CmdType
    BY <1>1, <2>1 DEF CmdType, TypeOK, Labels, Owns
  <2>3. cmd.name = identity
    BY <2>1 DEF ServeInv, WorksForCurrent, Relying, Serving
  <2>4. TypeOK' /\ WorksForCurrent'
    BY <1>1, <2>1, <2>2, <2>3 DEF TypeOK, CmdType, registry, NoFault, WorksForCurrent, Relying, Serving
  <2>5. HandlersAreRecorded'
    BY <1>1, RootsStayRecorded DEF registry, NoFault
  <2>6. OwnersRegisterOnce'
    BY <1>1, <2>1, <2>2 DEF ServeInv, OwnersRegisterOnce, registry, Serving
  <2>7. ForgetsUnserved'
    <3>1. \A q \in Ports : registered[q] = cmd.owner => q = p
      BY <2>1, NobodyIsNobody DEF ServeInv, OwnersRegisterOnce
    <3>2. cmd'.at = "forget" /\ ~crossed => \A n \in Profiles : serve[n][p].root \notin Owners
      BY <2>1, <2>2 DEF ServeInv, HandlersAreRecorded
    <3> QED
      BY <1>1, <2>2, <3>1, <3>2 DEF ForgetsUnserved, registry, NoFault
  <2> QED
    BY <2>4, <2>5, <2>6, <2>7 DEF ServeInv
<1>2. CASE NoFault /\ ~SameIdentity(profile) /\ Abort
  BY <1>2, AbortHolds
<1>3. CASE Spend /\ Abort
  BY <1>3, AbortHolds
<1> QED
  BY <1>1, <1>2, <1>3 DEF Release

LEMMA ReleaseOffHolds ==
  ASSUME ServeInv, NEW p \in Ports, ReleaseOff(p)
  PROVE  ServeInv'
<1>1. /\ TypeOK /\ cmd.at = "off" /\ cmd.owner \in Owners /\ registered[p] = cmd.owner
      /\ identity = cmd.name /\ (cmd.name = profile \/ cmd.moved) /\ (cmd.moved => crossed)
      /\ UNCHANGED <<profile, registered, identity>>
  BY DEF ReleaseOff, ServeInv, TypeOK, OwnersRegisterOnce, WorksForCurrent, Relying, Serving
<1>2. PICK ok \in BOOLEAN :
        Off(p, ok) /\ IF ok THEN Goto("forget") /\ UNCHANGED status ELSE End
  BY DEF ReleaseOff
<1>3. /\ serve' \in [Profiles -> [Ports -> Settings]]
      /\ changes' \in 0..MaxChanges /\ faults' \in 0..MaxFaults /\ UNCHANGED crossed
      /\ RootsKeptBut(p)
      /\ serve'[profile][p].root \in {"none", serve[profile][p].root}
      /\ ok => serve'[profile][p].root = "none"
  BY <1>1, <1>2, OffIs
<1>4. HandlersAreRecorded'
  BY <1>1, <1>3, NobodyIsServed DEF ServeInv, HandlersAreRecorded, RootsKeptBut, TypeOK
<1>5. CASE ok
  <2>1. /\ cmd'.at = "forget" /\ cmd'.owner = cmd.owner /\ cmd'.name = cmd.name
        /\ cmd'.moved = cmd.moved /\ cmd' \in CmdType
    BY <1>1, <1>2, <1>5, Goes, GoesTyped DEF Labels
  <2>2. TypeOK' /\ WorksForCurrent'
    BY <1>1, <1>2, <1>3, <1>5, <2>1 DEF TypeOK, CmdType, WorksForCurrent, Relying, Serving
  <2>3. OwnersRegisterOnce'
    BY <1>1, <1>2, <1>5, <2>1 DEF ServeInv, OwnersRegisterOnce, Serving
  <2>4. ForgetsUnserved'
    <3>1. \A q \in Ports : registered[q] = cmd.owner => q = p
      BY <1>1, NobodyIsNobody DEF ServeInv, OwnersRegisterOnce
    <3>2. ~crossed => \A n \in Profiles : serve'[n][p].root \notin Owners
      BY <1>1, <1>3, <1>5, NobodyIsServed DEF ServeInv, HandlersAreRecorded, RootsKeptBut
    <3> QED
      BY <1>1, <1>3, <2>1, <3>1, <3>2 DEF ForgetsUnserved
  <2> QED
    BY <1>4, <2>2, <2>3, <2>4 DEF ServeInv
<1>6. CASE ~ok
  BY <1>1, <1>2, <1>3, <1>4, <1>6, EndHolds DEF TypeOK
<1> QED
  BY <1>5, <1>6

LEMMA ReleaseForgetHolds ==
  ASSUME ServeInv, NEW p \in Ports, ReleaseForget(p)
  PROVE  ServeInv'
<1>1. /\ TypeOK /\ registered' = [registered EXCEPT ![p] = NoOwner]
      /\ UNCHANGED <<serve, profile, identity, changes, faults, crossed>> /\ End
  BY DEF ReleaseForget, ServeInv, NoFault
<1>2. /\ registered' \in [Ports -> Owners \cup {NoOwner}]
      /\ \A q \in Ports : registered'[q] \in {registered[q], NoOwner}
  BY <1>1 DEF TypeOK
<1>3. ~crossed => \A n \in Profiles : serve[n][p].root \notin Owners
  BY DEF ReleaseForget, ServeInv, ForgetsUnserved
<1>4. HandlersAreRecorded'
  BY <1>1, <1>3 DEF ServeInv, HandlersAreRecorded, TypeOK
<1> QED
  BY <1>1, <1>2, <1>4, EndHolds DEF TypeOK

-----------------------------------------------------------------------------
(* The world around.                                                       *)

LEMMA MeddleHolds ==
  ASSUME ServeInv, NEW p \in Ports, Meddle(p)
  PROVE  ServeInv'
<1>1. /\ TypeOK /\ UNCHANGED <<profile, registered, identity, status, cmd>>
      /\ changes' \in 0..MaxChanges /\ faults' \in 0..MaxFaults /\ UNCHANGED crossed
  BY BoundsAreNatural DEF Meddle, Elsewhere, Change, ServeInv, TypeOK, registry
<1> DEFINE s == serve[profile][p]
<1>2. s \in Settings
  BY <1>1 DEF TypeOK
<1>3. PICK t \in Settings : Port(p, t) /\ t.root \in {"none", "other", s.root}
  <2>1. CASE \E root \in {"none", "other"} \ {s.root} : Port(p, [s EXCEPT !.root = root])
    BY <1>2, <2>1 DEF Settings
  <2>2. CASE Port(p, [s EXCEPT !.funnel = ~@])
    <3> DEFINE t == [s EXCEPT !.funnel = ~@]
    <3>1. t \in Settings /\ t.root = s.root
      BY <1>2 DEF Settings
    <3>2. Port(p, t)
      BY <2>2
    <3> HIDE DEF t
    <3> QED
      BY <3>1, <3>2
  <2>3. CASE \E session \in {"none", "private", "public"} \ {s.session} :
               Port(p, [s EXCEPT !.session = session])
    BY <1>2, <2>3 DEF Settings
  <2>4. \/ \E root \in {"none", "other"} \ {s.root} : Port(p, [s EXCEPT !.root = root])
        \/ Port(p, [s EXCEPT !.funnel = ~@])
        \/ \E session \in {"none", "private", "public"} \ {s.session} :
             Port(p, [s EXCEPT !.session = session])
    BY DEF Meddle
  <2> QED
    BY <2>1, <2>2, <2>3, <2>4
<1>4. /\ serve' \in [Profiles -> [Ports -> Settings]] /\ RootsKeptBut(p)
      /\ serve'[profile][p].root \in {"none", "other", serve[profile][p].root}
  BY <1>1, <1>3, PortSet
<1>5. \A n \in Profiles, q \in Ports :
        serve'[n][q].root \in Owners => serve'[n][q].root = serve[n][q].root
  BY <1>4, NobodyIsServed DEF RootsKeptBut
<1>6. TypeOK'
  BY <1>1, <1>4 DEF TypeOK
<1>7. HandlersAreRecorded'
  BY <1>1, <1>5, RootsStayRecorded
<1>8. OwnersRegisterOnce' /\ WorksForCurrent'
  BY <1>1 DEF ServeInv, OwnersRegisterOnce, WorksForCurrent, SameIdentity
<1>9. ForgetsUnserved'
  BY <1>1, <1>5 DEF ServeInv, ForgetsUnserved, TypeOK
<1> QED
  BY <1>6, <1>7, <1>8, <1>9 DEF ServeInv

\* A command that relies on what it has read is marked, and so is the run.
LEMMA SwitchHolds ==
  ASSUME ServeInv, SwitchProfile
  PROVE  ServeInv'
<1>1. /\ TypeOK /\ UNCHANGED <<serve, registered, identity, status>>
      /\ profile' \in Profiles /\ changes' \in 0..MaxChanges /\ faults' \in 0..MaxFaults
  BY BoundsAreNatural DEF SwitchProfile, Change, ServeInv, TypeOK, registry
<1>2. /\ cmd' \in CmdType /\ crossed' \in BOOLEAN
      /\ cmd'.at = cmd.at /\ cmd'.owner = cmd.owner /\ cmd'.name = cmd.name
      /\ cmd'.config = cmd.config /\ cmd'.todo = cmd.todo /\ cmd'.forgotten = cmd.forgotten
      /\ cmd'.moved => crossed'
      /\ crossed => crossed'
      /\ cmd.at \in Relying => cmd'.moved /\ crossed'
  BY DEF SwitchProfile, ServeInv, TypeOK, CmdType, WorksForCurrent
<1>3. TypeOK'
  BY <1>1, <1>2 DEF TypeOK, CmdType
<1>4. HandlersAreRecorded'
  BY <1>1, <1>2, RootsStayRecorded
<1>5. OwnersRegisterOnce'
  BY <1>1, <1>2 DEF ServeInv, OwnersRegisterOnce
<1>6. WorksForCurrent'
  BY <1>1, <1>2 DEF ServeInv, WorksForCurrent, SameIdentity
<1>7. ForgetsUnserved'
  BY <1>1, <1>2 DEF ServeInv, ForgetsUnserved, Relying
<1> QED
  BY <1>3, <1>4, <1>5, <1>6, <1>7 DEF ServeInv

LEMMA OwnerHolds ==
  ASSUME ServeInv, NEW o \in Owners, OwnerChanges(o) \/ OwnerLeaves(o)
  PROVE  ServeInv'
<1>1. /\ TypeOK /\ UNCHANGED <<serve, profile, registered, identity, cmd>>
      /\ changes' \in 0..MaxChanges /\ faults' \in 0..MaxFaults /\ UNCHANGED crossed
  BY BoundsAreNatural DEF OwnerChanges, OwnerLeaves, Elsewhere, Change, ServeInv, TypeOK
<1>2. PICK new \in {"recorded", "unclear", "dead", "gone"} : status' = [status EXCEPT ![o] = new]
  BY DEF OwnerChanges, OwnerLeaves
<1>3. status[o] \in {"recorded", "unclear", "dead"}
  BY DEF OwnerChanges, OwnerLeaves, Listed
<1>4. TypeOK'
  BY <1>1, <1>2 DEF TypeOK, Statuses
<1>5. HandlersAreRecorded'
  BY <1>1, RootsStayRecorded
<1>6. OwnersRegisterOnce'
  BY <1>1, <1>2, <1>3 DEF ServeInv, OwnersRegisterOnce, TypeOK
<1>7. WorksForCurrent' /\ ForgetsUnserved'
  BY <1>1 DEF ServeInv, WorksForCurrent, ForgetsUnserved, SameIdentity
<1> QED
  BY <1>4, <1>5, <1>6, <1>7 DEF ServeInv

LEMMA StutterHolds ==
  ASSUME ServeInv, UNCHANGED vars
  PROVE  ServeInv'
  BY DEF vars, ServeInv, TypeOK, HandlersAreRecorded, OwnersRegisterOnce, WorksForCurrent,
         ForgetsUnserved, SameIdentity

LEMMA NextHolds ==
  ASSUME ServeInv, [Next]_vars
  PROVE  ServeInv'
<1>1. CASE Reconcile
  BY <1>1, StartHolds DEF Reconcile, registry
<1>2. ASSUME NEW o \in Owners, Register(o)
      PROVE  ServeInv'
  BY <1>2, StartHolds, NobodyIsNobody DEF Register
<1>3. CASE Diagnose \/ ReadConfig \/ Write \/ Reread \/ Withdraw
  BY <1>3, DiagnoseHolds, ReadConfigHolds, WriteHolds, RereadHolds, WithdrawHolds
<1>4. CASE NoFreePort \/ WriteFails \/ Crash
  BY <1>4, AbortHolds DEF NoFreePort, WriteFails, Crash
<1>5. ASSUME NEW replaced \in SUBSET {o \in Owners : status[o] \in Listed}, Record(replaced)
      PROVE  ServeInv'
  BY <1>5, RecordHolds
<1>6. ASSUME NEW p \in Ports,
             \/ Converge(p) \/ Allocate(p) \/ ServeOn(p) \/ Confirm(p)
             \/ Release(p) \/ ReleaseOff(p) \/ ReleaseForget(p) \/ Meddle(p)
      PROVE  ServeInv'
  BY <1>6, ConvergeHolds, AllocateHolds, ServeOnHolds, ConfirmHolds, ReleaseHolds,
     ReleaseOffHolds, ReleaseForgetHolds, MeddleHolds
<1>7. CASE SwitchProfile
  BY <1>7, SwitchHolds
<1>8. ASSUME NEW o \in Owners, OwnerChanges(o) \/ OwnerLeaves(o)
      PROVE  ServeInv'
  BY <1>8, OwnerHolds
<1>9. CASE UNCHANGED vars
  BY <1>9, StutterHolds
<1>10. CASE Record({})
  BY <1>5, <1>10
<1> QED
  BY <1>1, <1>2, <1>3, <1>4, <1>5, <1>6, <1>7, <1>8, <1>9, <1>10 DEF Next, Proceed

-----------------------------------------------------------------------------
(* Steps that change the Serve configuration or the registrations.         *)

\* Steps of a command that change a handler: they work on one port of the
\* account that is registered, unless another logged in.
LEMMA CallsChangeHandlers ==
  ASSUME ServeInv, Next, cmd' # cmd, serve' # serve
  PROVE  /\ profile = identity \/ cmd.moved
         /\ \E p \in Ports : Converge(p) \/ ServeOn(p) \/ ReleaseOff(p)
<1>1. ASSUME NEW p \in Ports, Converge(p) PROVE profile = identity \/ cmd.moved
  <2>1. p \in cmd.todo /\ cmd.at = "converge" /\ registered[p] # NoOwner
    BY <1>1 DEF Converge, ServeInv, ForgetsUnserved
  <2> QED
    BY <2>1 DEF ServeInv, WorksForCurrent, SameIdentity, Relying
<1>2. ASSUME NEW p \in Ports, ServeOn(p) \/ ReleaseOff(p) PROVE profile = identity \/ cmd.moved
  BY <1>2 DEF ServeOn, ReleaseOff, ServeInv, WorksForCurrent, Relying, Serving
<1>3. \E p \in Ports : Converge(p) \/ ServeOn(p) \/ ReleaseOff(p)
  BY DEF Next, Proceed, Reconcile, Register, Diagnose, ReadConfig, Write, WriteFails, Reread,
         NoFreePort, Record, Withdraw, Allocate, Confirm, Release, ReleaseForget, Crash,
         Abort, SwitchProfile, OwnerChanges, OwnerLeaves, Meddle
<1> QED
  BY <1>1, <1>2, <1>3

\* A port is registered while nobody has it, and unregistered.
LEMMA PortsKept ==
  ASSUME ServeInv, Next, NEW p \in Ports, registered[p] # NoOwner
  PROVE  registered'[p] \in {registered[p], NoOwner}
<1>1. CASE UNCHANGED registered
  BY <1>1
<1>2. CASE Write
  BY <1>2 DEF Write, ServeInv, TypeOK
<1>3. ASSUME NEW q \in Ports, Allocate(q) \/ ReleaseForget(q)
      PROVE  registered'[p] \in {registered[p], NoOwner}
  BY <1>3 DEF Allocate, Free, ReleaseForget, ServeInv, TypeOK
<1>4. UNCHANGED registered \/ Write \/ \E q \in Ports : Allocate(q) \/ ReleaseForget(q)
  BY DEF Next, Proceed, Reconcile, Register, Diagnose, ReadConfig, WriteFails, Reread,
         NoFreePort, Record, Withdraw, Converge, ServeOn, Confirm, Release, ReleaseOff, Crash,
         Abort, SwitchProfile, OwnerChanges, OwnerLeaves, Meddle, registry
<1> QED
  BY <1>1, <1>2, <1>3, <1>4

-----------------------------------------------------------------------------
(* What a command knows of the ports it changes.                           *)

\* A port is published on while the command knows it unused, and turned off
\* while it knows it served for the owner.
KnowsThePort ==
  /\ cmd.at = "serve" =>
       \A p \in Ports : registered[p] = cmd.owner => cmd.config[p] = Unused
  /\ cmd.at = "off" =>
       \A p \in Ports : registered[p] = cmd.owner => cmd.config[p].root = cmd.owner

LEMMA OnlyPortKnown ==
  ASSUME ServeInv, NEW p \in Ports, NEW q \in Ports, cmd.at \in Serving,
         registered[p] = cmd.owner, registered[q] = cmd.owner
  PROVE  p = q
  BY DEF ServeInv, OwnersRegisterOnce

LEMMA AllocateKnows ==
  ASSUME ServeInv, NEW p \in Ports, Allocate(p)
  PROVE  KnowsThePort'
<1>1. /\ cmd'.at = "serve" /\ cmd'.owner = cmd.owner /\ cmd'.config = cmd.config
      /\ cmd.config[p] = Unused /\ cmd.owner \in Owners
  BY Goes DEF Allocate, Free, Occupied, Labels, ServeInv, TypeOK, OwnersRegisterOnce
<1>2. \A q \in Ports : registered'[q] = cmd.owner => q = p
  BY <1>1, NobodyIsNobody DEF Allocate, ServeInv, OwnersRegisterOnce, TypeOK
<1> QED
  BY <1>1, <1>2 DEF KnowsThePort

LEMMA ReleaseKnows ==
  ASSUME ServeInv, NEW p \in Ports, Release(p)
  PROVE  KnowsThePort'
<1>1. CASE Abort
  BY <1>1, IdleIs DEF Abort, End, KnowsThePort
<1>2. CASE /\ cmd' = [cmd EXCEPT !.config = serve[profile], !.moved = FALSE,
                        !.at = IF Owns(serve[profile][p], cmd.owner) THEN "off" ELSE "forget"]
           /\ UNCHANGED <<serve, profile, registry>>
  <2>1. /\ cmd'.owner = cmd.owner /\ cmd'.config = serve[profile] /\ cmd'.at # "serve"
        /\ cmd'.at = "off" => serve[profile][p].root = cmd.owner
    BY <1>2 DEF ServeInv, TypeOK, Owns
  <2>2. \A q \in Ports : registered[q] = cmd.owner => q = p
    BY OnlyPortKnown DEF Release, Serving
  <2> QED
    BY <1>2, <2>1, <2>2 DEF KnowsThePort, registry
<1> QED
  BY <1>1, <1>2 DEF Release

LEMMA KnowledgeHolds ==
  ASSUME ServeInv, KnowsThePort, [Next]_vars
  PROVE  KnowsThePort'
<1>1. CASE \E p \in Ports : Allocate(p) \/ Release(p)
  BY <1>1, AllocateKnows, ReleaseKnows
<1>2. CASE UNCHANGED <<cmd, registered>>
  BY <1>2 DEF KnowsThePort
<1>3. CASE cmd'.at \notin {"serve", "off"}
  BY <1>3 DEF KnowsThePort
<1>4. ASSUME NEW label \in Labels \ {"serve", "off"}, Goto(label)
      PROVE  cmd'.at \notin {"serve", "off"}
  BY <1>4, Goes DEF ServeInv
<1>5. End => cmd'.at \notin {"serve", "off"}
  BY IdleIs DEF End
<1>6. Diagnose \/ ReadConfig \/ Reread \/ Reconcile => cmd'.at \notin {"serve", "off"}
  BY <1>5, IdleIs DEF Diagnose, ReadConfig, Reread, Reconcile, Start, Idle, Abort, ServeInv, TypeOK
<1>7. ASSUME NEW o \in Owners, Register(o) PROVE cmd'.at \notin {"serve", "off"}
  BY <1>7, IdleIs DEF Register, Start, Idle
<1>8. Write => cmd'.at \notin {"serve", "off"}
  BY <1>4, IdleIs DEF Write, Labels
<1>9. Withdraw \/ NoFreePort \/ WriteFails \/ Crash => cmd'.at \notin {"serve", "off"}
  BY <1>4, <1>5 DEF Withdraw, NoFreePort, WriteFails, Crash, Abort, Labels
<1>10. ASSUME NEW p \in Ports, Converge(p) PROVE cmd'.at \notin {"serve", "off"}
  BY <1>10 DEF Converge, Done, Forgotten, ServeInv, TypeOK
<1>11. ASSUME NEW p \in Ports, ServeOn(p) \/ Confirm(p) \/ ReleaseOff(p) \/ ReleaseForget(p)
       PROVE  cmd'.at \notin {"serve", "off"}
  BY <1>4, <1>5, <1>11 DEF ServeOn, Confirm, ReleaseOff, ReleaseForget, Labels
<1>12. ASSUME NEW replaced, Record(replaced) PROVE cmd'.at \notin {"serve", "off"}
  BY <1>12, IdleIs DEF Record
<1>13. SwitchProfile => KnowsThePort'
  BY DEF SwitchProfile, KnowsThePort, registry, ServeInv, TypeOK
<1>16. UNCHANGED vars => UNCHANGED <<cmd, registered>>
  BY DEF vars
<1>14. ASSUME NEW o \in Owners, OwnerChanges(o) \/ OwnerLeaves(o)
       PROVE  UNCHANGED <<cmd, registered>>
  BY <1>14 DEF OwnerChanges, OwnerLeaves
<1>15. ASSUME NEW p \in Ports, Meddle(p) PROVE UNCHANGED <<cmd, registered>>
  BY <1>15 DEF Meddle, registry
<1> QED
  BY <1>1, <1>2, <1>3, <1>6, <1>7, <1>8, <1>9, <1>10, <1>11, <1>12, <1>13, <1>14, <1>15, <1>16
     DEF Next, Proceed

\* A port on which a command changes something is, as far as it knows, not
\* another tool's.
LEMMA OthersAreLeft ==
  ASSUME ServeInv, KnowsThePort, Next, cmd' # cmd, NEW p \in Ports,
         serve[profile][p].root = "other", serve'[profile][p].root # "other"
  PROVE  cmd.config[p] # serve[profile][p]
<1>1. CASE Converge(p)
  <2> DEFINE o == registered[p]
             action == Plan(OwnerState(o), cmd.config[p], o)
  <2>1. cmd.at = "converge" /\ p \in cmd.todo /\ o \in Owners /\ cmd.config[p] \in Settings
    BY <1>1 DEF Converge, ServeInv, ForgetsUnserved, TypeOK
  <2>2. action \in {"restore", "hide", "remove"}
    BY <1>1 DEF Converge
  <2>3. action \in {"restore", "hide", "remove"} => cmd.config[p].root # "other"
    BY <2>1, NobodyIsServed, PlanSparesOthers DEF OwnerState
  <2> QED
    BY <2>2, <2>3
<1>2. CASE ServeOn(p)
  <2>1. cmd.config[p] = Unused
    BY <1>2 DEF ServeOn, KnowsThePort
  <2> QED
    BY <2>1 DEF Unused
<1>3. CASE ReleaseOff(p)
  <2>1. cmd.config[p].root = cmd.owner /\ cmd.owner \in Owners
    BY <1>3 DEF ReleaseOff, KnowsThePort, ServeInv, OwnersRegisterOnce, TypeOK, Serving
  <2> QED
    BY <2>1, NobodyIsServed
<1>4. PICK q \in Ports : Converge(q) \/ ServeOn(q) \/ ReleaseOff(q)
  BY CallsChangeHandlers
<1>5. RootsKeptBut(q)
  <2>1. CASE Converge(q)
    <3>1. UNCHANGED serve \/ \E ok \in BOOLEAN : On(q, registered[q], ok) \/ Off(q, ok)
      BY <2>1 DEF Converge
    <3>2. registered[q] \in Owners
      BY <2>1 DEF Converge, ServeInv, ForgetsUnserved, TypeOK
    <3> QED
      BY <3>1, <3>2, OnIs, OffIs DEF ServeInv, RootsKeptBut
  <2>2. CASE ServeOn(q)
    BY <2>2, OnIs DEF ServeOn, ServeInv, OwnersRegisterOnce, TypeOK, Serving
  <2>3. CASE ReleaseOff(q)
    BY <2>3, OffIs DEF ReleaseOff, ServeInv
  <2> QED
    BY <1>4, <2>1, <2>2, <2>3
<1>6. q = p
  BY <1>5 DEF RootsKeptBut, ServeInv, TypeOK
<1> QED
  BY <1>1, <1>2, <1>3, <1>4, <1>6

-----------------------------------------------------------------------------
(* The theorems.                                                           *)

\* The invariant holds in every reachable state, whenever accounts change.
THEOREM ServeInvHolds == Spec => []ServeInv
<1>1. Init => ServeInv
  BY InitHolds
<1>2. ServeInv /\ [Next]_vars => ServeInv'
  BY NextHolds
<1> QED
  BY <1>1, <1>2, PTL DEF Spec

\* Whatever Nook publishes is on record for the account it is published in
\* (register journals before it serves, converge and release forget last), as
\* long as no other account has logged in while a command relied on what it
\* had read of the one before.
THEOREM HandlersStayRecorded == Spec => []HandlersAreRecorded
<1>1. ServeInv => HandlersAreRecorded
  BY DEF ServeInv
<1> QED
  BY <1>1, ServeInvHolds, PTL

\* No command is given a port that is registered already, whether Tailscale
\* serves it or not.
THEOREM PortsStayWithOwners == Spec => PortsKeepTheirOwner
<1>1. ServeInv /\ [Next]_vars =>
        [\A p \in Ports : registered[p] # NoOwner => registered'[p] \in {registered[p], NoOwner}]_vars
  BY PortsKept
<1> QED
  BY <1>1, ServeInvHolds, PTL DEF Spec, PortsKeepTheirOwner

\* Nook changes no other account's Serve configuration than the one its
\* registrations belong to, unless that other one logged in after the command
\* read which account it works for: nothing else gets it there.
THEOREM ChangesFollowTheCheck == Spec => ChangesFollowCheck
<1>1. ServeInv /\ [Next]_vars =>
        [cmd' # cmd /\ serve' # serve => profile = identity \/ cmd.moved]_vars
  BY CallsChangeHandlers DEF vars
<1> QED
  BY <1>1, ServeInvHolds, PTL DEF Spec, ChangesFollowCheck

\* Another tool's handler is only replaced or removed if it came after the
\* command read the configuration.
THEOREM ForeignHandlersStay == Spec => ForeignHandlersKept
<1>1. Init => KnowsThePort
  BY IdleIs DEF Init, KnowsThePort
<1>2. ServeInv /\ KnowsThePort /\ [Next]_vars => KnowsThePort'
  BY KnowledgeHolds
<1>3. ServeInv /\ KnowsThePort /\ [Next]_vars =>
        [\A p \in Ports :
           cmd' # cmd /\ serve[profile][p].root = "other" /\ serve'[profile][p].root # "other"
             => cmd.config[p] # serve[profile][p]]_vars
  BY OthersAreLeft
<1> QED
  BY <1>1, <1>2, <1>3, ServeInvHolds, PTL DEF Spec, ForeignHandlersKept
=============================================================================
