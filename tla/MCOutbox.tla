----------------------------- MODULE MCOutbox -----------------------------
(***************************************************************************)
(* Small tenants for TLC: one or two conversations on one channel.         *)
(***************************************************************************)
EXTENDS MessagingOutbox, TLC

CONSTANTS
    Split     \* messages with a number above this are in the second conversation

\* The first conversation holds the messages up to Split.
MCConvOf == [m \in Message |-> IF m <= Split THEN "c1" ELSE "c2"]

\* Everything typed on the phone belongs to the first conversation.
MCPhoneConv == [p \in Phone |-> "c1"]

\* Worker turns are interchangeable.
Turns == Permutations(Worker)

===========================================================================
