----------------------------- MODULE CaddyRoutes -----------------------------
(***************************************************************************)
(* The route backend of Nook: what one `ensure` and one `remove_if_owned`  *)
(* of ManagedCaddyRoutes (src/src/caddy.rs) can do to the routes Caddy     *)
(* serves, and what the caller is told.                                    *)
(*                                                                         *)
(* A managed route is a pair <<container, owner>>.  The owner is the UUID  *)
(* of an alias or of a lease; an id never changes its hostname, protocol   *)
(* or LAN flag, so those are functions of the owner.  A call is one or two *)
(* transactions on a Caddy server; the set of outcomes of a call lists     *)
(* every way it can end, an answer lost after the write included.          *)
(***************************************************************************)
EXTENDS Naturals, FiniteSets

CONSTANTS
  Hosts,      \* hostnames a project or an alias can claim
  Owners,     \* ids (UUIDs) of aliases and leases
  LanNames,   \* mDNS names announced for --lan runs
  Host,       \* the hostname an owner claims
  Tls,        \* whether its route belongs to the HTTPS server
  Lan,        \* whether it is also published on the LAN
  LanName     \* lan::hostname: the mDNS name of a hostname

ASSUME OwnersAreTyped ==
  /\ Host \in [Owners -> Hosts]
  /\ Tls \in [Owners -> BOOLEAN]
  /\ Lan \in [Owners -> BOOLEAN]
  /\ LanName \in [Hosts -> LanNames]

Servers == {"HTTPS", "HTTP"}

\* The three route containers Nook keeps in Caddy's configuration.
Containers == {"https", "http", "lan"}

Routes == Containers \X Owners

\* ManagedCaddyRoutes::server: the server and container of a protocol.
Server(tls) == IF tls THEN "HTTPS" ELSE "HTTP"
Container(tls) == IF tls THEN "https" ELSE "http"

\* The hostname an owner claims in a container.
Claim(c, o) == IF c = "lan" THEN LanName[Host[o]] ELSE Host[o]

\* Every route a recorded owner must have.
RoutesOf(o) ==
  {<<Container(Tls[o]), o>>} \cup (IF Lan[o] THEN {<<"lan", o>>} ELSE {})

\* reject_managed_hostname_claim: another owner holds the name already.
ClaimedByOther(routes, c, o) ==
  \E d \in Owners : d # o /\ <<c, d>> \in routes /\ Claim(c, d) = Claim(c, o)

\* update_owned_route with a replacement: the owner's old entry goes, and so
\* does whatever claims the same name in this container.
PutRoute(routes, c, o) ==
  {r \in routes : ~(r[1] = c /\ (r[2] = o \/ Claim(c, r[2]) = Claim(c, o)))}
    \cup {<<c, o>>}

\* update_owned_route without a replacement.
DropRoutes(routes, cs, o) == {r \in routes : ~(r[1] \in cs /\ r[2] = o)}

Outcome(ok, routes, fault) == [ok |-> ok, routes |-> routes, fault |-> fault]

\* mutate_server_routes: an applied write, or a failure.  Caddy may be
\* unreachable, refuse the hostname of a foreign route, or lose every ETag
\* race (nothing written); or its answer is lost after the write.
Transaction(before, after) ==
  {Outcome(TRUE, after, FALSE), Outcome(FALSE, before, TRUE), Outcome(FALSE, after, TRUE)}

\* ensure_proxy: one transaction on one container.
EnsureProxy(routes, c, o, replace, sel) ==
  IF \/ Server(c = "https") \notin sel
     \/ ClaimedByOther(routes, c, o) /\ ~replace
    THEN {Outcome(FALSE, routes, FALSE)}
    ELSE Transaction(routes, PutRoute(routes, c, o))

\* RouteBackend::ensure: the LAN route first, then the main one, in a
\* transaction each.
Ensure(routes, o, replace, sel) ==
  IF ~Lan[o]
    THEN EnsureProxy(routes, Container(Tls[o]), o, replace, sel)
    ELSE UNION {IF first.ok
                  THEN EnsureProxy(first.routes, Container(Tls[o]), o, replace, sel)
                  ELSE {first} :
                first \in EnsureProxy(routes, "lan", o, replace, sel)}

\* Mutation of RemoveCompanion: the LAN companion is left in place.
CompanionKept(routes, o, sel) == {Outcome(TRUE, routes, FALSE)}

\* The LAN companion of an HTTPS route: on the selected HTTP server, or else
\* on whichever server a scan of the configuration finds it (the scan can fail).
RemoveCompanion(routes, o, sel) ==
  IF "HTTP" \in sel \/ <<"lan", o>> \in routes
    THEN Transaction(routes, DropRoutes(routes, {"lan"}, o))
    ELSE {Outcome(TRUE, routes, FALSE), Outcome(FALSE, routes, TRUE)}

\* RouteBackend::remove_if_owned.  For HTTP the main and the LAN container are
\* one transaction; for HTTPS the LAN companion is a second one.
RemoveIfOwned(routes, o, tls, sel) ==
  IF Server(tls) \notin sel
    THEN {Outcome(FALSE, routes, FALSE)}
    ELSE IF ~tls
      THEN Transaction(routes, DropRoutes(routes, {"http", "lan"}, o))
      ELSE UNION {IF first.ok THEN RemoveCompanion(first.routes, o, sel) ELSE {first} :
                    first \in Transaction(routes, DropRoutes(routes, {"https"}, o))}

=============================================================================
