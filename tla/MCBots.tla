------------------------------- MODULE MCBots -------------------------------
(***************************************************************************)
(* Small channels for TLC: messages are numbered; the odd ones belong to   *)
(* the conversation c1 when there are two.                                 *)
(***************************************************************************)
EXTENDS BotTurns, TLC

CONSTANTS typebot, flow, automation, c1, c2, w1, w2

MCEngineOf == [b \in Bot |-> CASE b = typebot -> "TYPEBOT" [] b = flow -> "FLOW"
                                [] b = automation -> "AUTOMATION"]
OneConversation == [m \in Message |-> c1]
TwoConversations == [m \in Message |-> IF m % 2 = 1 THEN c1 ELSE c2]

\* The turns of the workers are interchangeable.
Turns == Permutations(Worker)

===========================================================================
