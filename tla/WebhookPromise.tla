--------------------------- MODULE WebhookPromise ---------------------------
(***************************************************************************)
(* What the broker promises a partner of every delivery of an event to one *)
(* of its endpoints, whatever leases and workers are behind it: nothing    *)
(* that was captured is dropped before its retention ends or its endpoint  *)
(* is revoked, "delivered" is only said of what the partner acknowledged,  *)
(* "failed" only of what was tried, an end stays an end until an operator  *)
(* grants a new cycle, and a cycle has so many POSTs and no more.          *)
(*                                                                         *)
(* The same event may be POSTed after it ended: delivery is at least once. *)
(***************************************************************************)
EXTENDS Naturals

CONSTANTS Delivery, EventOf, EndpointOf, Attempts

VARIABLES
    said,       \* what the broker says of each delivery
    cycles,     \* how often it was granted a new cycle
    posted,     \* how often it was POSTed
    acked,      \* deliveries the partner acknowledged
    revoked,    \* endpoints
    old         \* events past retention

vars == <<said, cycles, posted, acked, revoked, old>>

Init ==
    /\ said = [d \in Delivery |-> "absent"]
    /\ cycles = [d \in Delivery |-> 0]
    /\ posted = [d \in Delivery |-> 0]
    /\ acked = {}

MayBecome ==
    [absent    |-> {"waiting"},
     waiting   |-> {"sending", "cancelled", "gone"},
     sending   |-> {"waiting", "delivered", "failed", "cancelled", "gone"},
     delivered |-> {"gone"},
     failed    |-> {"waiting", "gone"},
     cancelled |-> {"gone"},
     gone      |-> {}]

Keep(d) == said'[d] = said[d] /\ cycles'[d] = cycles[d]

\* An operator reopens what failed.
Reopen(d) ==
    /\ said[d] = "failed" /\ said'[d] = "waiting"
    /\ EndpointOf[d] \notin revoked
    /\ cycles'[d] = cycles[d] + 1

Move(d) ==
    /\ said[d] # "failed" \/ said'[d] = "gone"
    /\ said'[d] \in MayBecome[said[d]]
    /\ said'[d] = "sending" => EndpointOf[d] \notin revoked
    /\ said'[d] = "delivered" => d \in acked
    /\ said'[d] = "cancelled" => EndpointOf[d] \in revoked'
    /\ said'[d] = "gone" => EventOf[d] \in old
    /\ cycles'[d] = cycles[d]

Quiet(d) == posted'[d] = posted[d] /\ (d \in acked' <=> d \in acked)

Post(d) ==
    /\ said[d] # "absent"
    /\ posted[d] < Attempts * (cycles[d] + 1)
    /\ posted'[d] = posted[d] + 1
    /\ d \in acked => d \in acked'

Next == \A d \in Delivery : (Keep(d) \/ Reopen(d) \/ Move(d)) /\ (Quiet(d) \/ Post(d))

Spec == Init /\ [][Next]_vars

===========================================================================
