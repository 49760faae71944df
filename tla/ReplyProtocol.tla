--------------------------- MODULE ReplyProtocol ---------------------------
(***************************************************************************)
(* What the bot turns and the outbox may do to an automated message they   *)
(* share, whoever has the conversation: it is admitted and sent only while *)
(* the bot has it, a takeover takes back what waits to be sent, and only a *)
(* safe failure is ever tried again - also after the takeover.             *)
(*                                                                         *)
(* One step may move several messages.                                     *)
(***************************************************************************)

CONSTANTS Message, ConvOf

VARIABLES
    reply,      \* where each automated message is
    mode,       \* who has each conversation: "BOT" or "HUMAN"
    blocked     \* conversations with an unsettled echo

vars == <<reply, mode, blocked>>

\* "over": accepted, failed or canceled; "unsure": nobody knows.
Init == reply = [m \in Message |-> "absent"]

MayBecome ==
    [absent   |-> {"queued"},
     queued   |-> {"trying", "deferred", "over"},
     trying   |-> {"deferred", "unsure", "over"},
     deferred |-> {"queued", "over"},
     unsure   |-> {"over"},
     over     |-> {}]

OfBot(m) == mode[ConvOf[m]] = "BOT"

Keep(m) == reply'[m] = reply[m]

Move(m) ==
    /\ reply'[m] \in MayBecome[reply[m]]
    /\ reply[m] = "absent" => OfBot(m)
    /\ reply'[m] = "trying" => OfBot(m) /\ ConvOf[m] \notin blocked

\* Whatever the takeover is part of, nothing of the bot stays in the queue.
TakenBack(m) == OfBot(m) /\ mode'[ConvOf[m]] = "HUMAN" => reply'[m] # "queued"

Next == \A m \in Message : (Keep(m) \/ Move(m)) /\ TakenBack(m)

Spec == Init /\ [][Next]_vars

===========================================================================
