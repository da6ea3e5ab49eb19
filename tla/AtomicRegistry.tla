--------------------------- MODULE AtomicRegistry ---------------------------
(***************************************************************************)
(* The registry as the commands see it (and as module Nook models it): a   *)
(* value changed by one update at a time, never by half of one; an update  *)
(* that was acknowledged stays, even through a power failure.              *)
(***************************************************************************)
CONSTANT Updates

VARIABLES
  applied,  \* the updates the registry holds
  acked     \* the updates acknowledged to their callers

contents == <<applied, acked>>

TypeOK ==
  /\ applied \subseteq Updates
  /\ acked \subseteq applied

Init == applied \in SUBSET Updates /\ acked = applied

Apply(u) == applied' = applied \cup {u} /\ UNCHANGED acked

Acknowledge(u) == u \in applied /\ acked' = acked \cup {u} /\ UNCHANGED applied

\* A power failure can undo updates, but none that was acknowledged.
Undo == applied' \in SUBSET applied /\ acked \subseteq applied' /\ UNCHANGED acked

Next == Undo \/ \E u \in Updates : Apply(u) \/ Acknowledge(u)

Spec == Init /\ [][Next]_contents
=============================================================================
