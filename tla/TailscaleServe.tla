--------------------------- MODULE TailscaleServe ---------------------------
(***************************************************************************)
(* The exposure of runs and aliases through Tailscale Serve and Funnel     *)
(* (tailscale.rs): Nook records a registration per HTTPS port in           *)
(* the registry and drives the tailscale command line, whose configuration *)
(* it shares with other tools, for whatever account is logged in.          *)
(*                                                                         *)
(* Everything here runs under the operations lock (every function takes    *)
(* the OperationGuard), so there is at most one nook command at work; what *)
(* moves besides it are other tools, the owners' processes, and faults.    *)
(***************************************************************************)
EXTENDS Naturals, FiniteSets

CONSTANTS
  Owners,
  NoOwner,
  Public,       \* the owners that asked for Funnel
  Ports,        \* HTTPS ports of candidate_ports
  FunnelPorts,  \* FUNNEL_PORTS
  Profiles,     \* identities this device can have in a tailnet
  NoProfile,
  MaxChanges,   \* bound on what other tools, accounts and dying owners do
  MaxFaults     \* bound on failed calls and crashes

ASSUME PublicOwnersAreOwners == Public \subseteq Owners
ASSUME FunnelPortsArePorts == FunnelPorts \subseteq Ports
ASSUME NobodyIsNobody == NoOwner \notin Owners /\ NoProfile \notin Profiles
ASSUME NobodyIsServed == Owners \cap {"none", "other"} = {}
ASSUME BoundsAreNatural == MaxChanges \in Nat /\ MaxFaults \in Nat

VARIABLES
  serve,       \* each profile's Serve configuration
  profile,     \* the current profile
  registered,  \* TailscaleState.registrations: the owner a port is registered for
  identity,    \* TailscaleState.dns_name
  status,      \* what the registry and the system say of each owner
  cmd,         \* the command at work
  changes, faults,
  crossed      \* history: another account once logged in while a command relied
               \* on what it had read of the one before

vars == <<serve, profile, registered, identity, status, cmd, changes, faults, crossed>>
registry == <<registered, identity, status>>

\* What a port serves: a root handler, which Nook tells by its target (an
\* owner's, or another), the Funnel permission, and a foreground session of
\* another tool, which hides the handler.
Settings ==
  [root : Owners \cup {"none", "other"}, funnel : BOOLEAN, session : {"none", "private", "public"}]
Unused == [root |-> "none", funnel |-> FALSE, session |-> "none"]

Statuses == {"unborn", "starting", "recorded", "unclear", "dead", "gone"}
Listed == {"recorded", "unclear", "dead"}

\* moved: history, another account logged in since the command read which it is
Idle == [at |-> "idle", owner |-> NoOwner, name |-> NoProfile, moved |-> FALSE,
         config |-> [p \in Ports |-> Unused], todo |-> {}, forgotten |-> {}, since |-> 0]

Init ==
  /\ serve = [n \in Profiles |-> [p \in Ports |-> Unused]]
  /\ profile \in Profiles
  /\ registered = [p \in Ports |-> NoOwner]
  /\ identity = NoProfile
  /\ status = [o \in Owners |-> "unborn"]
  /\ cmd = Idle
  /\ changes = 0
  /\ faults = 0
  /\ crossed = FALSE

-----------------------------------------------------------------------------
(* What Nook makes of a configuration.                                     *)

FunnelEnabled(s) == s.funnel \/ s.session = "public"
Occupied(s) == s # Unused
Owns(s, o) == s.root = o

\* Mutation of Observe: a port with another handler counts as free.
ObserveRootOnly(s, o) ==
  IF Owns(s, o) THEN IF FunnelEnabled(s) THEN "public" ELSE "owned"
  ELSE "absent"

\* ServeConfig::observe.
Observe(s, o) ==
  IF s.session # "none" THEN IF FunnelEnabled(s) THEN "public" ELSE "foreign"
  ELSE IF Owns(s, o) THEN IF s.funnel THEN "public" ELSE "owned"
  ELSE IF Occupied(s) THEN "foreign" ELSE "absent"

\* ServeConfig::observe_registration.
ObserveRegistration(s, o) ==
  LET seen == Observe(s, o) IN
  IF o \in Public /\ s.session = "none"
    THEN IF seen = "public" THEN "owned" ELSE IF seen = "owned" THEN "foreign" ELSE seen
    ELSE seen

\* plan, and what converge decides around it: a handler of an owner that is
\* gone is removed even if a foreground session hides it, and while that
\* session is public the registration stays ("hide").
Plan(owner, s, o) ==
  LET seen == ObserveRegistration(s, o) IN
  CASE seen = "public" /\ s.session = "none" -> "remove"
    [] seen = "public" /\ s.session # "none" ->
         IF owner = "gone" /\ Owns(s, o) THEN "hide" ELSE "keep"
    [] seen # "public" /\ owner = "gone" -> IF Owns(s, o) THEN "remove" ELSE "forget"
    [] seen = "absent" /\ owner = "alive" -> "restore"
    [] OTHER -> "keep"

\* Mutation of SameIdentity: whatever account is logged in will do.
AnyIdentity(name) == TRUE

\* check_identity.
SameIdentity(name) == identity = name \/ \A p \in Ports : registered[p] = NoOwner

-----------------------------------------------------------------------------
(* The tailscale command line.                                             *)

Spend == faults < MaxFaults /\ faults' = faults + 1 /\ UNCHANGED <<changes, crossed>>
NoFault == UNCHANGED <<faults, changes, crossed>>

Port(p, settings) == serve' = [serve EXCEPT ![profile][p] = settings]

\* `tailscale serve|funnel --bg --https=p`: replaces the root handler. Serve
\* may leave a Funnel permission, Funnel may not obtain it.
TurnOn(p, o) ==
  \E funnel \in BOOLEAN :
    /\ funnel \in {(o \in Public), serve[profile][p].funnel}
    /\ Port(p, [serve[profile][p] EXCEPT !.root = o, !.funnel = funnel])

\* `tailscale serve --https=p --set-path=/ off`: removes the root handler,
\* whose ever it is, and the permission unless other paths need it.
TurnOff(p) ==
  \E funnel \in BOOLEAN :
    /\ funnel => serve[profile][p].funnel
    /\ Port(p, [serve[profile][p] EXCEPT !.root = "none", !.funnel = funnel])

On(p, o, ok) ==
  \/ ok /\ NoFault /\ TurnOn(p, o)
  \/ ~ok /\ Spend /\ (UNCHANGED serve \/ TurnOn(p, o))

\* Turning off what is not there is an error.
Off(p, ok) ==
  \/ ok /\ NoFault /\ serve[profile][p].root # "none" /\ TurnOff(p)
  \/ ~ok /\ NoFault /\ serve[profile][p].root = "none" /\ UNCHANGED serve
  \/ ~ok /\ Spend /\ (UNCHANGED serve \/ TurnOff(p))

-----------------------------------------------------------------------------
(* Commands.                                                               *)

Goto(label) == cmd' = [cmd EXCEPT !.at = label]

\* The configuration as a command sees it that works for the account `name`:
\* the handlers of another account never look like Nook's.
Seen(name) ==
  [p \in Ports |->
     IF name = profile \/ serve[profile][p].root = "none" THEN serve[profile][p]
     ELSE [serve[profile][p] EXCEPT !.root = "other"]]

\* The command ends, and what it was starting will not be recorded.
End ==
  /\ cmd' = Idle
  /\ status' = [o \in Owners |-> IF status[o] = "starting" THEN "gone" ELSE status[o]]

Abort == End /\ UNCHANGED <<serve, profile, registered, identity>>

Start(o) ==
  cmd' = [Idle EXCEPT !.at = "diagnose", !.owner = o, !.since = changes + faults]

\* Client::reconcile.
Reconcile ==
  /\ cmd.at = "idle"
  /\ \E p \in Ports : registered[p] # NoOwner
  /\ Start(NoOwner)
  /\ UNCHANGED <<serve, profile, registry, changes, faults, crossed>>

\* Client::register, for a run or alias that is not on record yet.
Register(o) ==
  /\ cmd.at = "idle"
  /\ status[o] = "unborn"
  /\ status' = [status EXCEPT ![o] = "starting"]
  /\ Start(o)
  /\ UNCHANGED <<serve, profile, registered, identity, changes, faults, crossed>>

Diagnose ==
  /\ cmd.at = "diagnose"
  /\ \/ /\ NoFault
        /\ cmd' = [cmd EXCEPT !.at = "config", !.name = profile]
        /\ UNCHANGED <<serve, profile, registry>>
     \/ Spend /\ Abort

\* Read the Serve configuration, and check whose registrations these are.
ReadConfig ==
  /\ cmd.at = "config"
  /\ \/ /\ NoFault
        /\ SameIdentity(cmd.name)
        /\ cmd' = [cmd EXCEPT !.at = "converge", !.config = Seen(cmd.name),
                              !.todo = {p \in Ports : registered[p] # NoOwner}]
        /\ UNCHANGED <<serve, profile, registry>>
     \/ NoFault /\ ~SameIdentity(cmd.name) /\ Abort
     \/ Spend /\ Abort

\* owner_state: the process of a lease cannot always be read.
OwnerState(o) ==
  IF status[o] = "recorded" THEN "alive" ELSE IF status[o] = "unclear" THEN "unknown" ELSE "gone"

Done(p) == [cmd EXCEPT !.todo = @ \ {p}]
Forgotten(p) == [Done(p) EXCEPT !.forgotten = @ \cup {p}]

\* One registration in the loop of converge.
Converge(p) ==
  LET o == registered[p]
      action == Plan(OwnerState(o), cmd.config[p], o)
  IN
  /\ cmd.at = "converge" /\ p \in cmd.todo
  /\ \/ action = "keep" /\ cmd' = Done(p) /\ NoFault /\ UNCHANGED serve
     \/ action = "forget" /\ cmd' = Forgotten(p) /\ NoFault /\ UNCHANGED serve
     \/ action = "restore" /\ cmd' = Done(p) /\ \E ok \in BOOLEAN : On(p, o, ok)
     \/ /\ action \in {"hide", "remove"}
        /\ \E ok \in BOOLEAN :
             /\ Off(p, ok)
             /\ cmd' = IF ok /\ action = "remove" THEN Forgotten(p) ELSE Done(p)
  /\ UNCHANGED <<profile, registry>>

\* Mutation of Write: what was removed stays registered.
WriteKeepsAll ==
  /\ cmd.at = "converge" /\ cmd.todo = {}
  /\ NoFault
  /\ identity' = cmd.name
  /\ IF cmd.owner = NoOwner THEN cmd' = Idle ELSE Goto("reread")
  /\ UNCHANGED <<serve, profile, registered, status>>

\* The end of converge: one mutate drops what is done with.
Write ==
  /\ cmd.at = "converge" /\ cmd.todo = {}
  /\ NoFault
  /\ registered' = [p \in Ports |-> IF p \in cmd.forgotten THEN NoOwner ELSE registered[p]]
  /\ identity' = cmd.name
  /\ IF cmd.owner = NoOwner THEN cmd' = Idle
     ELSE Goto(IF cmd.forgotten = {} THEN "allocate" ELSE "reread")
  /\ UNCHANGED <<serve, profile, status>>

WriteFails ==
  /\ cmd.at = "converge" /\ cmd.todo = {}
  /\ Spend
  /\ Abort

-----------------------------------------------------------------------------
(* The rest of Client::register, and Client::release.                      *)

Reread ==
  /\ cmd.at = "reread"
  /\ \/ /\ NoFault
        /\ cmd' = [cmd EXCEPT !.at = "allocate", !.config = Seen(cmd.name)]
        /\ UNCHANGED <<serve, profile, registry>>
     \/ Spend /\ Abort

\* Mutation of Free: registrations that are not served do not count.
FreeInConfig(p, o) == ~Occupied(cmd.config[p]) /\ (o \in Public => p \in FunnelPorts)

Free(p, o) ==
  /\ ~Occupied(cmd.config[p])
  /\ registered[p] = NoOwner
  /\ o \in Public => p \in FunnelPorts

\* allocate_port. Any free port can be the first that no local server shadows.
Allocate(p) ==
  /\ cmd.at = "allocate"
  /\ Free(p, cmd.owner)
  /\ registered' = [registered EXCEPT ![p] = cmd.owner]
  /\ identity' = cmd.name
  /\ Goto("serve")
  /\ UNCHANGED <<serve, profile, status, changes, faults, crossed>>

\* No free port is left, or the registry cannot be written.
NoFreePort ==
  /\ cmd.at = "allocate"
  /\ NoFault
  /\ Abort

ServeOn(p) ==
  /\ cmd.at = "serve" /\ registered[p] = cmd.owner
  /\ \E ok \in BOOLEAN : On(p, cmd.owner, ok) /\ Goto(IF ok THEN "confirm" ELSE "release")
  /\ UNCHANGED <<profile, registry>>

Confirmed(s) ==
  /\ profile = cmd.name /\ Owns(s, cmd.owner)
  /\ s.session = "none" /\ s.funnel = (cmd.owner \in Public)

\* Read the configuration again: is the owner served, and as it asked?
Confirm(p) ==
  /\ cmd.at = "confirm" /\ registered[p] = cmd.owner
  /\ \/ NoFault /\ Goto(IF Confirmed(serve[profile][p]) THEN "publish" ELSE "release")
     \/ Spend /\ Goto("release")
  /\ UNCHANGED <<serve, profile, registry>>

\* The command records the new owner, and drops those it replaces.
Record(replaced) ==
  /\ cmd.at = "publish"
  /\ NoFault
  /\ status' = [o \in Owners |-> IF o = cmd.owner THEN "recorded"
                                 ELSE IF o \in replaced THEN "gone" ELSE status[o]]
  /\ cmd' = Idle
  /\ UNCHANGED <<serve, profile, registered, identity>>

\* It cannot: Client::withdraw.
Withdraw ==
  /\ cmd.at = "publish"
  /\ Spend
  /\ Goto("release")
  /\ UNCHANGED <<serve, profile, registry>>

\* Read the configuration of the profile that is registered, no other.
Release(p) ==
  /\ cmd.at = "release" /\ registered[p] = cmd.owner
  /\ \/ /\ NoFault /\ SameIdentity(profile)
        /\ cmd' = [cmd EXCEPT !.config = serve[profile], !.moved = FALSE,
                      !.at = IF Owns(serve[profile][p], cmd.owner) THEN "off" ELSE "forget"]
        /\ UNCHANGED <<serve, profile, registry>>
     \/ NoFault /\ ~SameIdentity(profile) /\ Abort
     \/ Spend /\ Abort

ReleaseOff(p) ==
  /\ cmd.at = "off" /\ registered[p] = cmd.owner
  /\ \E ok \in BOOLEAN :
       /\ Off(p, ok)
       /\ IF ok THEN Goto("forget") /\ UNCHANGED status ELSE End
  /\ UNCHANGED <<profile, registered, identity>>

\* forget.
ReleaseForget(p) ==
  /\ cmd.at = "forget" /\ registered[p] = cmd.owner
  /\ NoFault
  /\ registered' = [registered EXCEPT ![p] = NoOwner]
  /\ End
  /\ UNCHANGED <<serve, profile, identity>>

\* The command is killed, or cannot write the registry.
Crash ==
  /\ cmd.at # "idle"
  /\ Spend
  /\ Abort

-----------------------------------------------------------------------------
(* The world around.                                                       *)

Change == changes < MaxChanges /\ changes' = changes + 1 /\ UNCHANGED faults
Elsewhere == Change /\ UNCHANGED crossed

\* Another tool sets or removes the handler, grants or revokes Funnel, or
\* starts or stops a foreground session.
Meddle(p) ==
  LET s == serve[profile][p] IN
  /\ Elsewhere
  /\ \/ \E root \in {"none", "other"} \ {s.root} : Port(p, [s EXCEPT !.root = root])
     \/ Port(p, [s EXCEPT !.funnel = ~@])
     \/ \E session \in {"none", "private", "public"} \ {s.session} :
          Port(p, [s EXCEPT !.session = session])
  /\ UNCHANGED <<profile, registry, cmd>>

\* Where a command relies on what it has read of the account: the name,
\* the configuration, or the check of both.
Relying == {"config", "converge", "reread", "allocate", "serve", "off"}

\* Another account logs in, whatever a command is doing.
SwitchProfile ==
  /\ Change
  /\ profile' \in Profiles \ {profile}
  /\ IF cmd.at \in Relying
       THEN crossed' = TRUE /\ cmd' = [cmd EXCEPT !.moved = TRUE]
       ELSE UNCHANGED <<crossed, cmd>>
  /\ UNCHANGED <<serve, registry>>

\* An owner's process dies, or cannot be read for a while.
OwnerChanges(o) ==
  /\ status[o] \in {"recorded", "unclear"}
  /\ Elsewhere
  /\ \E new \in {"recorded", "unclear", "dead"} \ {status[o]} : status' = [status EXCEPT ![o] = new]
  /\ UNCHANGED <<serve, profile, registered, identity, cmd>>

\* A run's supervisor, alias remove or reconciliation drops the owner; all of
\* them hold the operations lock for it.
OwnerLeaves(o) ==
  /\ cmd.at = "idle"
  /\ status[o] \in Listed
  /\ status' = [status EXCEPT ![o] = "gone"]
  /\ UNCHANGED <<serve, profile, registered, identity, cmd, changes, faults, crossed>>

Proceed ==
  \/ Diagnose \/ ReadConfig \/ Write \/ Reread \/ NoFreePort
  \/ Record({}) \/ Withdraw
  \/ \E p \in Ports :
       \/ Converge(p) \/ Allocate(p) \/ ServeOn(p) \/ Confirm(p)
       \/ Release(p) \/ ReleaseOff(p) \/ ReleaseForget(p)

Next ==
  \/ Reconcile \/ Proceed \/ WriteFails \/ Crash \/ SwitchProfile
  \/ \E replaced \in SUBSET {o \in Owners : status[o] \in Listed} : Record(replaced)
  \/ \E o \in Owners : Register(o) \/ OwnerChanges(o) \/ OwnerLeaves(o)
  \/ \E p \in Ports : Meddle(p)

Spec == Init /\ [][Next]_vars

\* Commands go on, and nook is run now and then.
FairSpec == Spec /\ WF_vars(Proceed) /\ WF_vars(Reconcile)

-----------------------------------------------------------------------------

Labels == {"idle", "diagnose", "config", "converge", "reread", "allocate", "serve", "confirm",
           "publish", "release", "off", "forget"}

Serving == {"serve", "confirm", "publish", "release", "off", "forget"}

TypeOK ==
  /\ serve \in [Profiles -> [Ports -> Settings]]
  /\ profile \in Profiles
  /\ registered \in [Ports -> Owners \cup {NoOwner}]
  /\ identity \in Profiles \cup {NoProfile}
  /\ status \in [Owners -> Statuses]
  /\ cmd \in [at : Labels, owner : Owners \cup {NoOwner}, name : Profiles \cup {NoProfile},
              moved : BOOLEAN, config : [Ports -> Settings], todo : SUBSET Ports, forgotten : SUBSET Ports,
              since : 0..MaxChanges + MaxFaults]
  /\ changes \in 0..MaxChanges
  /\ faults \in 0..MaxFaults
  /\ crossed \in BOOLEAN

\* Whatever Nook has put into any account's Serve configuration is on record,
\* under that account: nothing stays published that no command would ever
\* take down (register journals before it serves, converge forgets last). It
\* is no more once another account has logged in while a command relied on
\* what it had read: the handler goes to an account that is not recorded.
HandlersAreRecorded ==
  \/ crossed
  \/ \A n \in Profiles, p \in Ports :
       serve[n][p].root \in Owners => registered[p] = serve[n][p].root /\ identity = n

\* Owners are registered once: an owner is starting while the command that
\* registers it is at work, and has no port before that command allocates one.
OwnersRegisterOnce ==
  /\ cmd.at = "idle" => cmd.owner = NoOwner
  /\ \A o \in Owners : status[o] = "starting" <=> cmd.owner = o
  /\ \A p \in Ports : registered[p] # NoOwner => status[registered[p]] # "unborn"
  /\ \A p, q \in Ports :
       registered[p] = cmd.owner /\ registered[q] = cmd.owner => cmd.owner = NoOwner \/ p = q
  /\ cmd.at \in {"diagnose", "config", "converge", "reread", "allocate"} =>
       \A p \in Ports : registered[p] = cmd.owner => cmd.owner = NoOwner
  /\ cmd.at \in {"reread", "allocate"} \cup Serving => cmd.owner # NoOwner

\* Where a command changes the Serve configuration, the registrations are
\* those of the account it works for, which is the current one unless another
\* logged in since the command read which one it is.
WorksForCurrent ==
  /\ cmd.at \in Relying => cmd.name = profile \/ cmd.moved
  /\ cmd.moved => crossed
  /\ cmd.at = "converge" => SameIdentity(cmd.name)
  /\ cmd.at \in {"reread", "allocate"} \cup Serving => identity = cmd.name

\* What a command is about to forget is not served, and it still knows what is.
ForgetsUnserved ==
  /\ cmd.at \in {"diagnose", "config"} => cmd.forgotten = {}
  /\ cmd.at = "converge" =>
       /\ \A p \in cmd.todo : registered[p] # NoOwner
       /\ cmd.todo \cap cmd.forgotten = {}
  /\ cmd.at = "converge" /\ ~crossed =>
       /\ \A p \in cmd.todo :
            serve[profile][p].root \in Owners => cmd.config[p].root = serve[profile][p].root
       /\ \A p \in cmd.forgotten : serve[profile][p].root \notin Owners
  /\ cmd.at = "forget" /\ ~crossed =>
       \A n \in Profiles, p \in Ports :
         registered[p] = cmd.owner => serve[n][p].root \notin Owners

\* Why it is: the inductive invariant.
ServeInv ==
  /\ TypeOK
  /\ HandlersAreRecorded
  /\ OwnersRegisterOnce
  /\ WorksForCurrent
  /\ ForgetsUnserved

\* A port stays with its owner until it is released: no command is ever
\* given a registered port, served or not (README.md:691-694).
PortsKeepTheirOwner ==
  [][\A p \in Ports : registered[p] # NoOwner => registered'[p] \in {registered[p], NoOwner}]_vars

\* Nook changes the Serve configuration of no account but the one its
\* registrations belong to (README.md:752-756, tests/tailscale_serve.rs:981).
\* It does not hold: the identity is checked when the configuration is read
\* (tailscale.rs:952, 1001), and the calls that change it go to whatever
\* account is logged in by then.
OtherAccountsUntouched ==
  [][cmd' # cmd /\ serve' # serve => profile = identity]_vars

\* What the check does give: a command that changes another account's
\* configuration read which account is current before that one logged in.
\* No command starts from an account that its registrations are not of, and
\* none that cleans up after its own failure does without checking anew.
ChangesFollowCheck ==
  [][cmd' # cmd /\ serve' # serve => profile = identity \/ cmd.moved]_vars

\* Another tool's handler is only replaced or removed if it came after Nook
\* read the configuration (README.md:691, 778): the command line of tailscale
\* has no conditional write that would close this window.
ForeignHandlersKept ==
  [][\A p \in Ports :
       cmd' # cmd /\ serve[profile][p].root = "other" /\ serve'[profile][p].root # "other"
         => cmd.config[p] # serve[profile][p]]_vars

\* Nothing is left to do on the current account: only living owners are
\* served, in public only if they asked for it or another tool's session
\* does it, and what is registered is served, hidden, or taken by others, or
\* kept although its owner is gone.
SettledBut(kept) ==
  \A p \in Ports :
    LET s == serve[profile][p]
        o == registered[p]
    IN /\ s.root \in Owners =>
            /\ OwnerState(s.root) # "gone"
            /\ s.funnel => s.root \in Public \/ s.session # "none"
       /\ o # NoOwner =>
            CASE OwnerState(o) = "alive" -> Occupied(s)
              [] OwnerState(o) = "gone" -> p \in kept
              [] OwnerState(o) = "unknown" -> TRUE

Hidden == {p \in Ports : serve[profile][p].session # "none"}
Settled == SettledBut({p \in Hidden : FunnelEnabled(serve[profile][p])})

\* Once faults and other tools have stopped, everything gets settled, unless
\* another account stays logged in (README.md:752-756), or once logged in
\* where a command relied on the one before.
EventuallySettled == <>[](crossed \/ profile # identity \/ Settled)
=============================================================================
