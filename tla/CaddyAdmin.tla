----------------------------- MODULE CaddyAdmin -----------------------------
(***************************************************************************)
(* One route transaction of Nook against the Admin API of a running Caddy  *)
(* (src/src/caddy.rs): read a server's route list with its ETag, transform *)
(* it, write it back under If-Match, and read again when somebody else was *)
(* faster.  Other programs edit their own routes of the same list at any   *)
(* time; requests and answers can be lost, and the request of a process    *)
(* that dies is applied late or never.                                     *)
(*                                                                         *)
(* Module CaddyRoutes takes such a transaction for one atomic step; this   *)
(* module shows why that is right.                                         *)
(***************************************************************************)
EXTENDS CaddyRoutes, SequencesExt

CONSTANTS
  Served,     \* Nook's containers on this server
  NoOwner,
  Callers,    \* nook processes that talk to this server
  Foreign,    \* routes that other programs keep in this server
  ClaimedBy,  \* the names a foreign route claims, none for a catch-all
  Retries,    \* attempts after the first one (DELAYS of mutate_with_retry: 3)
  MaxFaults   \* bound on lost requests, lost answers and dead processes

\* A server's list is finite, and an "@id" of Nook's is nobody else's.
ASSUME ForeignRoutesAreTyped ==
  /\ ClaimedBy \in [Foreign -> SUBSET (Hosts \cup LanNames)]
  /\ IsFiniteSet(Foreign)
  /\ Foreign \cap Containers = {}
ASSUME ServedAreContainers == Served \subseteq Containers
ASSUME CountsAreNatural == Retries \in Nat /\ MaxFaults \in Nat

VARIABLES
  server,   \* the server's route list; its content determines the ETag
  call,     \* what each caller is doing
  sent,     \* write requests on their way to Caddy
  faults

vars == <<server, call, sent, faults>>

\* An entry of the list is a foreign route, or one of Nook's containers with
\* the owners of its routes.
Entries == [id : Foreign \cup Containers, owners : SUBSET Owners]

\* is_catch_all: no matcher at all.
IsCatchAll(route) == route.id \in Foreign /\ ClaimedBy[route.id] = {}

OwnersIn(list, c) == UNION {list[i].owners : i \in {j \in DOMAIN list : list[j].id = c}}
Managed(list) == {r \in Routes : r[2] \in OwnersIn(list, r[1])}

\* Vec::retain: the entries with one of these ids, in their order.
Retained(list, ids) ==
  LET keep[i \in 0..Len(list)] ==
        IF i = 0 THEN <<>>
        ELSE IF list[i].id \in ids THEN Append(keep[i - 1], list[i]) ELSE keep[i - 1]
  IN keep[Len(list)]

ForeignPart(list) == Retained(list, Foreign)

\* reject_foreign_hostname_claims.
ForeignClaims(list, name) ==
  \E i \in DOMAIN list : list[i].id \in Foreign /\ name \in ClaimedBy[list[i].id]

\* place_container: before the first catch-all, and nowhere when it is empty.
PlaceContainer(list, c, owners) ==
  LET others == Retained(list, Foreign \cup (Containers \ {c}))
      catchAll == SelectInSeq(others, IsCatchAll)
  IN IF owners = {} THEN others
     ELSE InsertAt(others, IF catchAll = 0 THEN Len(others) + 1 ELSE catchAll,
                   [id |-> c, owners |-> owners])

\* A transaction puts the route of an owner into a container, or drops it
\* from one or from both containers of the HTTP server.
Transactions ==
  [put : {TRUE}, in : {{c} : c \in Served}, owner : Owners, replace : BOOLEAN]
    \cup [put : {FALSE}, in : (SUBSET Served) \cap {{"https"}, {"lan"}, {"http", "lan"}},
          owner : Owners, replace : {FALSE}]

\* The transform is refused: a foreign route or another owner has the name.
Refused(list, t) ==
  t.put /\ \E c \in t.in :
             \/ ForeignClaims(list, Claim(c, t.owner))
             \/ ClaimedByOther(Managed(list), c, t.owner) /\ ~t.replace

\* update_owned_route on one container: the owner's route goes, and for a
\* replacement whatever has its name.
Rewritten(list, t, c) ==
  LET kept == {o \in OwnersIn(list, c) :
                 o # t.owner /\ (t.put => Claim(c, o) # Claim(c, t.owner))}
  IN PlaceContainer(list, c, IF t.put THEN kept \cup {t.owner} ELSE kept)

\* The closure handed to mutate_server_routes, over every container.
Transformed(list, t) ==
  IF t.in = {"http", "lan"} THEN Rewritten(Rewritten(list, t, "http"), t, "lan")
                            ELSE Rewritten(list, t, CHOOSE c \in t.in : TRUE)

-----------------------------------------------------------------------------
(* A call is idle, about to read, or waiting for the answer to its write.  *)
(* "landed" counts the writes of the call that Caddy applied.              *)

NoTransaction == [put |-> FALSE, in |-> {}, owner |-> NoOwner, replace |-> FALSE]
Idle(answer, landed) ==
  [at |-> "idle", attempt |-> 0, transaction |-> NoTransaction,
   landed |-> landed, answer |-> answer]

Becomes(p, c) == call' = [call EXCEPT ![p] = c]
Answer(p, answer, landed) == Becomes(p, Idle(answer, call[p].landed + landed))
Spend == faults < MaxFaults /\ faults' = faults + 1

\* Requests whose sender has given up or died are late.
Abandoned(p) == {[m EXCEPT !.late = @ \/ m.by = p] : m \in sent}

Init ==
  /\ \E present \in SUBSET Foreign :
       server \in SetToSeqs({[id |-> f, owners |-> {}] : f \in present})
  /\ call = [p \in Callers |-> Idle("none", 0)]
  /\ sent = {}
  /\ faults = 0

Begin(p, t) ==
  /\ call[p].at = "idle"
  /\ Becomes(p, [at |-> "read", attempt |-> 0, transaction |-> t, landed |-> 0,
                 answer |-> "none"])
  /\ UNCHANGED <<server, sent, faults>>

\* Read the list and its ETag; transform it; send the write under If-Match.
Read(p) ==
  LET t == call[p].transaction IN
  /\ call[p].at = "read"
  /\ IF Refused(server, t)
       THEN Answer(p, "refused", 0) /\ UNCHANGED sent
       ELSE /\ Becomes(p, [call[p] EXCEPT !.at = "write"])
            /\ sent' = sent \cup {[by |-> p, late |-> FALSE, transaction |-> t,
                                   etag |-> server, list |-> Transformed(server, t)]}
  /\ UNCHANGED <<server, faults>>

ReadFails(p) ==
  /\ call[p].at = "read"
  /\ Spend
  /\ Answer(p, "failed", 0)
  /\ UNCHANGED <<server, sent>>

\* Mutation of Matches: Caddy's answer 412 is not asked for.
MatchesAlways(m) == TRUE

\* The If-Match header.
Matches(m) == server = m.etag

\* Caddy applies a write whose ETag still matches, and its sender learns so.
Applied(m) ==
  /\ Matches(m)
  /\ server' = m.list
  /\ sent' = sent \ {m}
  /\ IF m.late THEN UNCHANGED call ELSE Answer(m.by, "ok", 1)
  /\ UNCHANGED faults

\* Caddy refuses it with 412: read again, a bounded number of times.
PreconditionFailed(m) ==
  /\ ~Matches(m)
  /\ sent' = sent \ {m}
  /\ IF m.late THEN UNCHANGED call
     ELSE IF call[m.by].attempt < Retries
       THEN Becomes(m.by, [call[m.by] EXCEPT !.at = "read", !.attempt = @ + 1])
       ELSE Answer(m.by, "exhausted", 0)
  /\ UNCHANGED <<server, faults>>

\* Mutation of AnswerLost: a write without an answer is tried again.
AnswerLostRetried(m) ==
  /\ ~m.late /\ Matches(m)
  /\ Spend
  /\ server' = m.list
  /\ sent' = sent \ {m}
  /\ Becomes(m.by, [call[m.by] EXCEPT !.at = "read", !.landed = @ + 1])

\* The write is applied and its answer lost: an error for the caller.
AnswerLost(m) ==
  /\ ~m.late /\ Matches(m)
  /\ Spend
  /\ server' = m.list
  /\ sent' = sent \ {m}
  /\ Answer(m.by, "failed", 1)

\* The read timeout passes while the request is still on its way.
TimesOut(p) ==
  /\ call[p].at = "write"
  /\ Spend
  /\ Answer(p, "failed", 0)
  /\ sent' = Abandoned(p)
  /\ UNCHANGED server

\* The process dies; its request may still arrive.
Crash(p) ==
  /\ call[p].at # "idle"
  /\ Spend
  /\ Becomes(p, Idle("none", 0))
  /\ sent' = Abandoned(p)
  /\ UNCHANGED server

\* A late request is lost for good.
Lost(m) == m.late /\ sent' = sent \ {m} /\ UNCHANGED <<server, call, faults>>

\* Another program adds or removes a route of its own, anywhere in the list.
ForeignAdds(f, i) ==
  /\ \A j \in DOMAIN server : server[j].id # f
  /\ server' = InsertAt(server, i, [id |-> f, owners |-> {}])
  /\ UNCHANGED <<call, sent, faults>>

ForeignRemoves(i) ==
  /\ server[i].id \in Foreign
  /\ server' = RemoveAt(server, i)
  /\ UNCHANGED <<call, sent, faults>>

Next ==
  \/ \E p \in Callers :
       \/ \E t \in Transactions : Begin(p, t)
       \/ Read(p) \/ ReadFails(p) \/ TimesOut(p) \/ Crash(p)
  \/ \E m \in sent : Applied(m) \/ PreconditionFailed(m) \/ AnswerLost(m) \/ Lost(m)
  \/ \E f \in Foreign, i \in 1..Len(server) + 1 : ForeignAdds(f, i)
  \/ \E i \in DOMAIN server : ForeignRemoves(i)

Spec == Init /\ [][Next]_vars

-----------------------------------------------------------------------------

TypeOK ==
  /\ server \in Seq(Entries)
  /\ call \in [Callers -> [at : {"idle", "read", "write"}, attempt : 0..Retries,
                           transaction : Transactions \cup {NoTransaction}, landed : 0..1,
                           answer : {"none", "ok", "refused", "failed", "exhausted"}]]
  /\ sent \subseteq [by : Callers, late : BOOLEAN, transaction : Transactions,
                   etag : Seq(Entries), list : Seq(Entries)]
  /\ faults \in 0..MaxFaults

\* A caller is told the truth: "ok" means that its transaction was applied
\* once, a refusal or too many retries that it was not applied at all; and
\* no call is ever applied twice.
AnswersAreTrue ==
  \A p \in Callers :
    /\ call[p].landed <= 1
    /\ call[p].answer = "ok" => call[p].landed = 1
    /\ call[p].answer \in {"refused", "exhausted"} => call[p].landed = 0

\* Nook never alters, moves or loses a foreign route, not even one that was
\* added after it read the list (docs/TRACEABILITY.md:19,20).
ForeignRoutesUntouched ==
  [][ForeignPart(server') # ForeignPart(server) => UNCHANGED <<call, sent>>]_vars

\* What a call does to the managed routes is the atomic transaction that
\* module CaddyRoutes takes it for, applied to what Caddy served at that
\* moment; its checks held at that moment too, and no catch-all hides what
\* it wrote.
WritesAreTransactions ==
  [][\A m \in sent \ sent' :
       server' # server =>
         LET t == m.transaction
             before == Managed(server)
         IN /\ ~Refused(server, t)
            /\ Managed(server') =
                 IF t.put THEN PutRoute(before, CHOOSE c \in t.in : TRUE, t.owner)
                          ELSE DropRoutes(before, t.in, t.owner)
            /\ \A i, j \in DOMAIN server' :
                 server'[i].id \in t.in /\ IsCatchAll(server'[j]) => i < j]_vars

-----------------------------------------------------------------------------
(* Why they hold: the parts of an inductive invariant.                     *)

\* A caller that has no answer yet has not changed anything.
CallInv ==
  \A p \in Callers : call[p].at # "idle" =>
    call[p].transaction \in Transactions /\ call[p].landed = 0 /\ call[p].answer = "none"

\* A request carries the transaction of the list it was read from, checked
\* against that list, and a caller waits for the answer to one at most.
RequestInv ==
  /\ \A m \in sent : /\ ~Refused(m.etag, m.transaction)
                     /\ m.list = Transformed(m.etag, m.transaction)
                     /\ ~m.late => call[m.by].at = "write"
  /\ \A m, n \in sent : ~m.late /\ ~n.late /\ m.by = n.by => m = n

AdminInv == TypeOK /\ CallInv /\ RequestInv /\ AnswersAreTrue
=============================================================================
