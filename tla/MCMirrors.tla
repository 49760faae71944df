----------------------------- MODULE MCMirrors -----------------------------
(***************************************************************************)
(* Small inboxes for TLC.                                                  *)
(***************************************************************************)
EXTENDS IntegrationJobs, TLC

CONSTANTS c1, c2

OneContact  == [m \in Message |-> c1]
TwoContacts == [m \in Message |-> IF m % 2 = 1 THEN c1 ELSE c2]

\* The turns of the workers are interchangeable.
Turns == Permutations(Worker)

===========================================================================
