---------------------------- MODULE MCCaddyAdmin ----------------------------
(* A small instance of module CaddyAdmin for TLC.                          *)
EXTENDS CaddyAdmin

CONSTANTS h1, o1, o2, catchall, other, p1, p2

\* Two owners of one hostname, and a foreign route of that name or a catch-all.
MCHost == [o \in {o1, o2} |-> h1]
MCPlain == [o \in {o1, o2} |-> FALSE]
MCLanName == [h \in {h1} |-> "one"]
MCClaimedBy == (other :> {h1}) @@ (catchall :> {})

\* Two parts of the state space: callers that race on the HTTPS server next to
\* a foreign route of the name they want, and one caller that works on both
\* containers of the HTTP server, without faults, next to a catch-all.
InUse == UNION ({call[p].transaction.in : p \in Callers} \cup {m.transaction.in : m \in sent})
Idling == {p \in Callers : call[p] = Idle("none", 0)}
HasRoute(f) == \E i \in DOMAIN server : server[i].id = f

Race == InUse \subseteq {"https"} /\ ~HasRoute(catchall) /\ ~HasRoute("http") /\ ~HasRoute("lan")
Calls == /\ "https" \notin InUse /\ ~HasRoute(other) /\ ~HasRoute("https")
         /\ Idling # {} /\ faults = 0

MCSpec == (Init /\ (Race \/ Calls)) /\ [][Next /\ (Race \/ Calls)']_vars

Symmetry == Permutations({p1, p2}) \cup Permutations({o1, o2})
=============================================================================
