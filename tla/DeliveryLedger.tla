-------------------------- MODULE DeliveryLedger --------------------------
(***************************************************************************)
(* What the broker promises for every admitted message, whatever queue,    *)
(* worker or provider is behind it: it is accepted by the provider at most *)
(* once, "accepted" and "failed" are only said when they are true and stay *)
(* true, and what cannot be known is called unsure and never tried again.  *)
(*                                                                         *)
(* Messages move independently, and one step may move several of them.     *)
(***************************************************************************)
EXTENDS Naturals

CONSTANT Message

VARIABLES
    promise,     \* what the broker says of each message
    delivered    \* how often the provider accepted it

vars == <<promise, delivered>>

Promises == {"absent", "queued", "trying", "deferred", "accepted", "failed", "unsure"}

Init ==
    /\ promise = [m \in Message |-> "absent"]
    /\ delivered = [m \in Message |-> 0]

\* What may become of a promise while nothing was delivered, and once it was.
MayBecome ==
    [absent   |-> {"queued"},
     queued   |-> {"trying", "deferred", "failed"},
     trying   |-> {"deferred", "failed", "unsure"},
     deferred |-> {"queued", "failed"},
     accepted |-> {},
     failed   |-> {},
     unsure   |-> {}]

Keep(m)    == promise'[m] = promise[m] /\ delivered'[m] = delivered[m]

Move(m)    == /\ promise'[m] \in MayBecome[promise[m]]
              /\ delivered[m] = 0 \/ promise'[m] = "unsure"
              /\ delivered'[m] = delivered[m]

Deliver(m) == /\ promise[m] \in {"trying", "unsure"}
              /\ delivered[m] = 0
              /\ delivered'[m] = 1
              /\ promise'[m] = promise[m]

Confirm(m) == /\ promise[m] = "trying"
              /\ delivered[m] = 1
              /\ promise'[m] = "accepted"
              /\ delivered'[m] = delivered[m]

Next == \A m \in Message : Keep(m) \/ Move(m) \/ Deliver(m) \/ Confirm(m)

Spec == Init /\ [][Next]_vars

===========================================================================
