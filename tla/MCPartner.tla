----------------------------- MODULE MCPartner -----------------------------
(***************************************************************************)
(* Small fan-outs for TLC: a delivery is named by its event and endpoint.  *)
(***************************************************************************)
EXTENDS PartnerDeliveries, TLC

MCDelivery == Event \X Endpoint
MCEventOf == [d \in Delivery |-> d[1]]
MCEndpointOf == [d \in Delivery |-> d[2]]

\* The turns of the workers are interchangeable.
Turns == Permutations(Worker)

===========================================================================
