------------------------------- MODULE MCNook -------------------------------
(* Small instances of module Nook for TLC.                                 *)
EXTENDS RouteInvariant, NookRefinement, TLC

CONSTANTS h1, h2, o1, o2, o3, p1, p2, p3

MCOwners == {o1, o2, o3}

\* o1 and o2 compete for h1; o3 claims h2, which a workspace claims with h1.
MCHost == [o \in {o1, o2, o3} |-> IF o = o3 THEN h2 ELSE h1]
MCLanName == (h1 :> "one") @@ (h2 :> "two")
MCNoLan == [o \in {o1, o2, o3} |-> FALSE]

\* The competitors are on different servers.
MCTlsCross == [o \in {o1, o2, o3} |-> o # o2]

\* o1 (HTTPS) and o3 (HTTP) are LAN runs of two hostnames with one mDNS name;
\* o2 (HTTP) competes with o1 without LAN.
MCLan == [o \in {o1, o2, o3} |-> o # o2]
MCLanTls == [o \in {o1, o2, o3} |-> o = o1]
MCSameLanName == (h1 :> "one") @@ (h2 :> "one")

\* Any two of the three, so that of three processes one can always reconcile.
MCRecoverySpec ==
    /\ Init /\ [][Next /\ Cardinality(used') <= 2]_vars
    /\ RecoveryFairness

Symmetry == Permutations(Procs)
=============================================================================
