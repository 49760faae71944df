--------------------------- MODULE MessageState ---------------------------
(***************************************************************************)
(* The message states of the broker and the transition table of            *)
(* messaging/message-state.ts, which every path that applies a provider    *)
(* status goes through.  Pure operators: no variables.                     *)
(***************************************************************************)

MessageStates ==
    {"ACCEPTED", "SENDING", "SENT", "DELIVERED", "READ", "FAILED", "UNKNOWN"}

\* States a provider may report for a message it has accepted.
ReceiptStates == {"SENT", "DELIVERED", "READ", "FAILED"}

\* `transitions`: the states each state may advance to.
Transitions ==
    [ACCEPTED  |-> {"ACCEPTED", "SENDING", "FAILED"},
     SENDING   |-> {"SENDING", "SENT", "FAILED", "UNKNOWN"},
     SENT      |-> {"SENT", "DELIVERED", "READ", "FAILED"},
     DELIVERED |-> {"DELIVERED", "READ"},
     READ      |-> {"READ"},
     FAILED    |-> {"FAILED"},
     UNKNOWN   |-> {"UNKNOWN", "SENT", "DELIVERED", "READ", "FAILED"}]

CanAdvance(from, to) == to \in Transitions[from]

\* A status the table does not allow leaves the message where it is.
Advanced(from, to) == IF CanAdvance(from, to) THEN to ELSE from

\* One turn of the loop over the stored status events: only recorded states
\* count, and each one only if the table allows it.
Replay(from, to, recorded) ==
    IF to \in recorded THEN Advanced(from, to) ELSE from

\* The loop of completeSend (and of settleQrOutboundObservation) over the
\* status events that were stored before the upstream id was known.  They are
\* unique per state and read ORDER BY occurred_at; the provider reports sent
\* before delivered before read, and a failure last.
Reconciled(recorded) ==
    Replay(Replay(Replay(Replay("SENT",
        "SENT", recorded), "DELIVERED", recorded), "READ", recorded), "FAILED", recorded)

===========================================================================
