---------------------------- MODULE MCInstances ----------------------------
(***************************************************************************)
(* One instance with a few operations, for TLC.                            *)
(***************************************************************************)
EXTENDS InstanceOperations, TLC

\* The operations of a kind, and the polls, are interchangeable.
Kinds == Permutations(Connect) \cup Permutations(Disconnect) \cup Permutations(Poll)

===========================================================================
