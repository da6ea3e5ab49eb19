-------------------------- MODULE HostnameOwnership --------------------------
(***************************************************************************)
(* What Nook promises about hostnames, without locks, journals, routes,    *)
(* crashes or retries: a hostname has one owner or none; an alias, a run   *)
(* or a whole workspace takes all of its hostnames in one step, whoever    *)
(* owned them before; an id that was given up or displaced never owns      *)
(* again.                                                                  *)
(***************************************************************************)
EXTENDS FiniteSets

CONSTANTS Hosts, Owners, Host, NoOwner

VARIABLES
  owner,  \* who owns each hostname
  spent   \* ids that have owned a hostname or never will

ownership == <<owner, spent>>

TypeOK ==
  /\ owner \in [Hosts -> Owners \cup {NoOwner}]
  /\ \A h \in Hosts : owner[h] # NoOwner => Host[owner[h]] = h /\ owner[h] \in spent
  /\ spent \subseteq Owners

Init == owner = [h \in Hosts |-> NoOwner] /\ spent = {}

\* New ids, one per hostname, become the owners of their hostnames together.
Take(ids) ==
  /\ ids # {} /\ ids \cap spent = {}
  /\ \A a, b \in ids : Host[a] = Host[b] => a = b
  /\ owner' = [h \in Hosts |-> IF \E o \in ids : Host[o] = h
                                 THEN CHOOSE o \in ids : Host[o] = h
                                 ELSE owner[h]]
  /\ spent' = spent \cup ids

\* Owners leave: an alias is removed, runs end or are found dead.
Release(ids) ==
  /\ owner' = [h \in Hosts |-> IF owner[h] \in ids THEN NoOwner ELSE owner[h]]
  /\ UNCHANGED spent

\* A command fails before it owns anything.
GiveUp(ids) == spent' = spent \cup ids /\ UNCHANGED owner

Next == \E ids \in SUBSET Owners : Take(ids) \/ Release(ids) \/ GiveUp(ids)

Spec == Init /\ [][Next]_ownership
=============================================================================
