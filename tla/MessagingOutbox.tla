-------------------------- MODULE MessagingOutbox --------------------------
(***************************************************************************)
(* The durable send queue of one tenant on one channel: messaging_messages *)
(* and messaging_outbox, the workers that lease, validate, POST and        *)
(* complete a message, the provider behind the POST, and the QR dispatch   *)
(* ledger (qr_dispatch_attempts, qr_outbound_observations) that every      *)
(* completion settles.                                                     *)
(*                                                                         *)
(* Each action is one database transaction, one HTTP exchange, or one      *)
(* event of the environment.  A message stands for its idempotency key:    *)
(* a replayed request finds the row and changes nothing.                   *)
(***************************************************************************)
EXTENDS MessageState, Integers, FiniteSets

CONSTANTS
    Message,        \* outgoing messages; the number is the sequence_number
    Conversation,   \* conversations of the channel
    Worker,         \* worker turns; a worker stands for its lease token
    ConvOf,         \* the conversation of each message
    Automation,     \* messages whose source is AUTOMATION
    OptIn,          \* messages with requires_opt_in (every template has it)
    Template,       \* messages whose content is a TEMPLATE
    Phone,          \* messages typed on the paired phone (QR only)
    PhoneConv,      \* the conversation of each of those
    Qr,             \* TRUE: the channel is BAILEYS; FALSE: META
    MaxAttempts,    \* automatic retries stop at this attempt_count
    PendingLimit,   \* organization_limits.max_pending_messages, initially
    MaxFaults,      \* bound on what the environment may disturb
    None

ASSUME MessageAssumption   == Message \subseteq Nat /\ IsFiniteSet(Message)
ASSUME ConvAssumption      == ConvOf \in [Message -> Conversation]
ASSUME KindAssumption      == Automation \subseteq Message /\ OptIn \subseteq Message
                              /\ Template \subseteq OptIn
ASSUME PhoneAssumption     == /\ PhoneConv \in [Phone -> Conversation]
                              /\ Phone \cap Message = {}
                              /\ Qr \in BOOLEAN
ASSUME BoundAssumption     == /\ MaxAttempts \in Nat \ {0}
                              /\ PendingLimit \in Nat \ {0}
                              /\ MaxFaults \in Nat
ASSUME NoneAssumption      == None \notin Worker \cup Message

VARIABLES
    state,        \* messaging_messages.state; "NEW" before the row exists
    outbox,       \* messaging_outbox, one row per message
    upstream,     \* messages whose upstream_message_id is stored
    receipts,     \* messaging_status_events: the states recorded per message
    mode,         \* messaging_conversations.mode
    contact,      \* consent of the contact and its 24 h service window
    tenant,       \* organization status and pending limit
    channel,      \* readiness of the instance / identity, and of the credential
    revoked,      \* messages whose campaign, partner key or flow was revoked
    worker,       \* where each worker turn is in dispatchClaim
    wire,         \* POSTs whose fate is open, and acceptances, per message
    attempt,      \* the latest qr_dispatch_attempts row of a message
    observation,  \* qr_outbound_observations by provider message id
    faults        \* how often the environment has disturbed the system

vars == <<state, outbox, upstream, receipts, mode, contact, tenant, channel,
          revoked, worker, wire, attempt, observation, faults>>

environment == <<mode, contact, tenant, channel, revoked>>
qrLedger    == <<attempt, observation>>

Echo == Message \cup Phone
EchoConv(e) == IF e \in Message THEN ConvOf[e] ELSE PhoneConv[e]

Row == [queued: BOOLEAN, holder: Worker \cup {None}, expired: BOOLEAN,
        retrySafe: BOOLEAN, rested: BOOLEAN, attempts: Nat]

NoRow    == [queued |-> FALSE, holder |-> None, expired |-> FALSE,
             retrySafe |-> FALSE, rested |-> FALSE, attempts |-> 0]
FreshRow == [NoRow EXCEPT !.queued = TRUE]

Phases   == {"claimed", "validated", "waiting", "answered"}
Outcomes == {"none", "SENT", "FAILED", "FAILED_SAFE", "UNKNOWN"}
Idle     == [phase |-> "idle", msg |-> None, outcome |-> "none"]
Turn     == {Idle} \cup [phase: Phases, msg: Message, outcome: Outcomes]
At(phase, m)     == [phase |-> phase, msg |-> m, outcome |-> "none"]
Answered(m, out) == [phase |-> "answered", msg |-> m, outcome |-> out]

AttemptStates == {"NONE", "DISPATCHED", "CONFIRMED", "REJECTED", "UNKNOWN", "ABANDONED"}
Dispositions  == {"NONE", "RECONCILE", "BROKER_ECHO", "EXTERNAL_OBSERVED", "ABANDONED"}
Observed(disposition, blocking) ==
    [disposition |-> disposition, blocking |-> blocking]

TypeOK ==
    /\ state \in [Message -> MessageStates \cup {"NEW"}]
    /\ outbox \in [Message -> Row]
    /\ upstream \in SUBSET Message
    /\ receipts \in [Message -> SUBSET ReceiptStates]
    /\ mode \in [Conversation -> {"BOT", "HUMAN"}]
    /\ contact \in [Conversation ->
           [consent: {"UNKNOWN", "OPTED_IN", "OPTED_OUT"}, window: BOOLEAN]]
    /\ tenant \in [active: BOOLEAN, limit: Nat]
    /\ channel \in [ready: BOOLEAN, credential: BOOLEAN]
    /\ revoked \in SUBSET Message
    /\ worker \in [Worker -> Turn]
    /\ wire \in [Message -> [open: Nat, accepted: Nat]]
    /\ attempt \in [Message -> AttemptStates]
    /\ observation \in [Echo -> [disposition: Dispositions, blocking: BOOLEAN]]
    /\ faults \in 0..MaxFaults

Init ==
    /\ state = [m \in Message |-> "NEW"]
    /\ outbox = [m \in Message |-> NoRow]
    /\ upstream = {}
    /\ receipts = [m \in Message |-> {}]
    /\ mode = [c \in Conversation |-> "BOT"]
    /\ contact = [c \in Conversation |-> [consent |-> "OPTED_IN", window |-> TRUE]]
    /\ tenant = [active |-> TRUE, limit |-> PendingLimit]
    /\ channel = [ready |-> TRUE, credential |-> TRUE]
    /\ revoked = {}
    /\ worker = [w \in Worker |-> Idle]
    /\ wire = [m \in Message |-> [open |-> 0, accepted |-> 0]]
    /\ attempt = [m \in Message |-> "NONE"]
    /\ observation = [e \in Echo |-> Observed("NONE", FALSE)]
    /\ faults = 0

\* The environment disturbs the system, at most MaxFaults times in all.
Disturb == faults < MaxFaults /\ faults' = faults + 1

---------------------------------------------------------------------------
(* What the SQL of the repository asks about messages and conversations.   *)

Undecided == {"ACCEPTED", "SENDING", "UNKNOWN"}
PendingIn(st) == {m \in Message : st[m] \in Undecided}

\* enforce_tenant_operational_limits: `extra` more messages may be pending.
Admits(extra) ==
    Cardinality(PendingIn(state)) + extra <= tenant.limit

ContactAllows(m) ==
    LET consent == contact[ConvOf[m]].consent IN
    /\ consent # "OPTED_OUT"
    /\ m \in OptIn => consent = "OPTED_IN"

WindowAllows(m) == Qr \/ m \in Template \/ contact[ConvOf[m]].window
PolicyAllows(m) == ContactAllows(m) /\ WindowAllows(m)

Paused(m) == m \in Automation /\ mode[ConvOf[m]] = "HUMAN"

ObservationBlocks(c) ==
    \E e \in Echo : EchoConv(e) = c /\ observation[e].blocking

Earlier(n) == {m \in Message : ConvOf[m] = ConvOf[n] /\ m < n}

\* Mutant of HoldsBack: a failed message waiting for its retry is overtaken.
HoldsBackUndecidedOnly(m, st, ob) ==
    \/ st[m] \in {"ACCEPTED", "SENDING"}
    \/ st[m] = "UNKNOWN" /\ attempt[m] # "ABANDONED"

\* An earlier message that keeps the ones behind it from being claimed.
HoldsBack(m, st, ob) ==
    \/ st[m] \in {"ACCEPTED", "SENDING"}
    \/ st[m] = "UNKNOWN" /\ attempt[m] # "ABANDONED"
    \/ ob[m].queued

---------------------------------------------------------------------------
(* Admission and the operator's retry.                                     *)

Enqueue(m) ==
    /\ state[m] = "NEW"
    /\ \A k \in Earlier(m) : state[k] # "NEW"
    /\ tenant.active
    /\ Admits(1)
    /\ ContactAllows(m)
    /\ ~Paused(m)
    /\ state' = [state EXCEPT ![m] = "ACCEPTED"]
    /\ outbox' = [outbox EXCEPT ![m] = FreshRow]
    /\ UNCHANGED <<upstream, receipts, worker, wire, faults>>
    /\ UNCHANGED environment /\ UNCHANGED qrLedger

RetryMessage(m) ==
    /\ tenant.active
    /\ outbox[m].retrySafe
    /\ state[m] = "FAILED"
    /\ Admits(1)
    /\ Disturb
    /\ state' = [state EXCEPT ![m] = "ACCEPTED"]
    /\ outbox' = [outbox EXCEPT ![m] = FreshRow]
    /\ UNCHANGED <<upstream, receipts, worker, wire>>
    /\ UNCHANGED environment /\ UNCHANGED qrLedger

---------------------------------------------------------------------------
(* claimOutgoing: one transaction that retries, expires, releases and      *)
(* bars what it finds, and then leases at most one candidate.              *)

\* Safe failures whose backoff is over.
Due == {m \in Message :
          /\ state[m] = "FAILED"
          /\ outbox[m].retrySafe
          /\ outbox[m].attempts < MaxAttempts
          /\ outbox[m].holder = None
          /\ outbox[m].rested}

\* Mutant of Lapsed: nobody looks at expired sends.
LapsedNever == {m \in Message : FALSE}

\* A lease that ran out after the POST was authorised: the outcome is unknown.
Lapsed == {m \in Message : ~Qr /\ state[m] = "SENDING" /\ outbox[m].expired}

\* Mutant of Released: a lease that ran out is never given back.
ReleasedNever == {m \in Message : FALSE}

\* A lease that ran out before: the message is simply free again.
Released == {m \in Message : state[m] = "ACCEPTED" /\ outbox[m].expired}

Waiting == {m \in Message :
              /\ state[m] = "ACCEPTED"
              /\ outbox[m].queued
              /\ outbox[m].holder = None}

Barred == {m \in Due \cup Released \cup Waiting : ~PolicyAllows(m)}

SweptState ==
    [m \in Message |->
        CASE m \in Barred -> "FAILED"
          [] m \in Due \ Barred -> "ACCEPTED"
          [] m \in Lapsed -> "UNKNOWN"
          [] OTHER -> state[m]]

Rearmed(row)  == [row EXCEPT !.retrySafe = FALSE, !.rested = FALSE]
GiveBack(row) == [row EXCEPT !.holder = None, !.expired = FALSE]

SweptOutbox ==
    [m \in Message |->
        CASE m \in Barred \cup Lapsed -> NoRow
          [] m \in Due \ Barred -> Rearmed(outbox[m])
          [] m \in Released \ Barred -> GiveBack(outbox[m])
          [] OTHER -> outbox[m]]

\* Mutant of ClaimAdmitted: the retry bypasses the pending limit.
ClaimUnlimited == tenant.active

\* The admission trigger fires for every retried row; one refusal aborts the
\* whole transaction, sweeps and lease included.
ClaimAdmitted == tenant.active /\ (Due = {} \/ Admits(Cardinality(Due)))

Candidates ==
    {m \in Message :
        /\ SweptState[m] = "ACCEPTED"
        /\ SweptOutbox[m].queued
        /\ SweptOutbox[m].holder = None
        /\ ~Paused(m)
        /\ ~ObservationBlocks(ConvOf[m])
        /\ channel.ready
        /\ \A k \in Earlier(m) : ~HoldsBack(k, SweptState, SweptOutbox)}

Leased(row, w) == [row EXCEPT !.holder = w, !.attempts = @ + 1]

Claim(w, m) ==
    /\ worker[w] = Idle
    /\ ClaimAdmitted
    /\ m \in Candidates
    /\ state' = SweptState
    /\ outbox' = [SweptOutbox EXCEPT ![m] = Leased(@, w)]
    /\ worker' = [worker EXCEPT ![w] = At("claimed", m)]
    /\ UNCHANGED <<upstream, receipts, wire, faults>>
    /\ UNCHANGED environment /\ UNCHANGED qrLedger

\* The same transaction when nothing can be leased.
Sweep(w) ==
    /\ worker[w] = Idle
    /\ ClaimAdmitted
    /\ Candidates = {}
    /\ state' = SweptState
    /\ outbox' = SweptOutbox
    /\ UNCHANGED <<upstream, receipts, worker, wire, faults>>
    /\ UNCHANGED environment /\ UNCHANGED qrLedger

---------------------------------------------------------------------------
(* dispatchClaim: preflight, then validateClaim right before the POST.     *)

\* The client, the media or the templates could not be prepared.
PreflightFails(w, out) ==
    /\ worker[w].phase = "claimed"
    /\ out \in {"FAILED", "FAILED_SAFE"}
    /\ worker' = [worker EXCEPT ![w] = Answered(worker[w].msg, out)]
    /\ UNCHANGED <<state, outbox, upstream, receipts, wire, faults>>
    /\ UNCHANGED environment /\ UNCHANGED qrLedger

\* The row validateClaim selects FOR UPDATE.
Selected(w) ==
    LET m == worker[w].msg IN
    /\ worker[w].phase = "claimed"
    /\ tenant.active
    /\ outbox[m].holder = w
    /\ ~outbox[m].expired
    /\ state[m] = "ACCEPTED"

\* The reasons of validateClaim in their order: some fail the message, some
\* only give the lease back.
Held(m) == ObservationBlocks(ConvOf[m]) \/ ~channel.ready

MustFail(m) ==
    \/ m \in revoked \ Automation
    \/ /\ ~Held(m)
       /\ \/ ~Qr /\ ~channel.credential
          \/ ~PolicyAllows(m)
          \/ ~Paused(m) /\ m \in revoked

MustHold(m) ==
    /\ m \notin revoked \ Automation
    /\ \/ Held(m)
       \/ (Qr \/ channel.credential) /\ PolicyAllows(m) /\ Paused(m)

ValidateEligible(w) ==
    LET m == worker[w].msg IN
    /\ Selected(w)
    /\ ~MustFail(m) /\ ~MustHold(m)
    /\ state' = [state EXCEPT ![m] = "SENDING"]
    /\ attempt' = [attempt EXCEPT ![m] = IF Qr THEN "DISPATCHED" ELSE @]
    /\ worker' = [worker EXCEPT ![w] = At("validated", m)]
    /\ UNCHANGED <<outbox, upstream, receipts, wire, observation, faults>>
    /\ UNCHANGED environment

ValidateFails(w) ==
    LET m == worker[w].msg IN
    /\ Selected(w)
    /\ MustFail(m)
    /\ state' = [state EXCEPT ![m] = "FAILED"]
    /\ outbox' = [outbox EXCEPT ![m] = NoRow]
    /\ worker' = [worker EXCEPT ![w] = Idle]
    /\ UNCHANGED <<upstream, receipts, wire, faults>>
    /\ UNCHANGED environment /\ UNCHANGED qrLedger

\* Not now: the lease is cleared and the message stays ACCEPTED.  A suspended
\* organization clears it by token alone.
ValidateHolds(w) ==
    LET m == worker[w].msg IN
    /\ worker[w].phase = "claimed"
    /\ \/ Selected(w) /\ MustHold(m)
       \/ ~tenant.active /\ outbox[m].holder = w
    /\ outbox' = [outbox EXCEPT ![m] = GiveBack(@)]
    /\ worker' = [worker EXCEPT ![w] = Idle]
    /\ UNCHANGED <<state, upstream, receipts, wire, faults>>
    /\ UNCHANGED environment /\ UNCHANGED qrLedger

\* INVALID_OUTBOX_CLAIM, or suspended after the lease was already gone.
ValidateLost(w) ==
    /\ worker[w].phase = "claimed"
    /\ ~Selected(w)
    /\ tenant.active \/ outbox[worker[w].msg].holder # w
    /\ worker' = [worker EXCEPT ![w] = Idle]
    /\ UNCHANGED <<state, outbox, upstream, receipts, wire, faults>>
    /\ UNCHANGED environment /\ UNCHANGED qrLedger

---------------------------------------------------------------------------
(* The POST and the provider behind it.                                    *)

Post(w) ==
    LET m == worker[w].msg IN
    /\ worker[w].phase = "validated"
    /\ worker' = [worker EXCEPT ![w] = At("waiting", m)]
    /\ wire' = [wire EXCEPT ![m].open = @ + 1]
    /\ UNCHANGED <<state, outbox, upstream, receipts, faults>>
    /\ UNCHANGED environment /\ UNCHANGED qrLedger

\* The provider decides a POST while the worker waits: accepted, rejected for
\* good, or (QR only) refused with a promise that it was not sent.
ProviderAnswers(w, out) ==
    LET m == worker[w].msg IN
    /\ worker[w].phase = "waiting"
    /\ wire[m].open > 0
    /\ out \in {"SENT", "FAILED"} \cup (IF Qr THEN {"FAILED_SAFE"} ELSE {})
    /\ wire' = [wire EXCEPT ![m] =
                  [open |-> @.open - 1,
                   accepted |-> @.accepted + (IF out = "SENT" THEN 1 ELSE 0)]]
    /\ worker' = [worker EXCEPT ![w] = Answered(m, out)]
    /\ UNCHANGED <<state, outbox, upstream, receipts, faults>>
    /\ UNCHANGED environment /\ UNCHANGED qrLedger

\* Mutants of AnswerUncertain: a timeout taken for a failure, to be retried or not.
TimeoutRetried(w) ==
    /\ worker[w].phase = "waiting"
    /\ worker' = [worker EXCEPT ![w] = Answered(worker[w].msg, "FAILED_SAFE")]
    /\ UNCHANGED <<state, outbox, upstream, receipts, wire, faults>>
    /\ UNCHANGED environment /\ UNCHANGED qrLedger

TimeoutFailed(w) ==
    /\ worker[w].phase = "waiting"
    /\ worker' = [worker EXCEPT ![w] = Answered(worker[w].msg, "FAILED")]
    /\ UNCHANGED <<state, outbox, upstream, receipts, wire, faults>>
    /\ UNCHANGED environment /\ UNCHANGED qrLedger

\* providerOutcome of anything else (deadline, 5xx, unreadable answer): the
\* request may still be accepted.
AnswerUncertain(w) ==
    /\ worker[w].phase = "waiting"
    /\ worker' = [worker EXCEPT ![w] = Answered(worker[w].msg, "UNKNOWN")]
    /\ UNCHANGED <<state, outbox, upstream, receipts, wire, faults>>
    /\ UNCHANGED environment /\ UNCHANGED qrLedger

\* The provider accepts a request nobody waits for any more.
ProviderAcceptsLate(m) ==
    /\ wire[m].open > 0
    /\ ~\E w \in Worker : worker[w].phase = "waiting" /\ worker[w].msg = m
    /\ wire' = [wire EXCEPT ![m] = [open |-> @.open - 1, accepted |-> @.accepted + 1]]
    /\ UNCHANGED <<state, outbox, upstream, receipts, worker, faults>>
    /\ UNCHANGED environment /\ UNCHANGED qrLedger

---------------------------------------------------------------------------
(* settleQrOutboundObservation, for each observation of E still RECONCILE, *)
(* in the state st, ob, up, at the surrounding transaction has reached.    *)

AttemptIn(c, at, states) ==
    \E m \in Message : ConvOf[m] = c /\ at[m] \in states

\* Exact provider id is the only positive correlation.
Correlated(e, up) == e \in Message /\ e \in up

\* Mutant of Settlement: an abandoned attempt is forgotten.
SettlementForgetful(e, up, at) ==
    CASE Correlated(e, up) -> Observed("BROKER_ECHO", FALSE)
      [] ~Correlated(e, up) /\ AttemptIn(EchoConv(e), at, {"DISPATCHED", "UNKNOWN"}) ->
            Observed("RECONCILE", TRUE)
      [] OTHER -> Observed("EXTERNAL_OBSERVED", FALSE)

Settlement(e, up, at) ==
    CASE Correlated(e, up) -> Observed("BROKER_ECHO", FALSE)
      [] ~Correlated(e, up) /\ AttemptIn(EchoConv(e), at, {"DISPATCHED", "UNKNOWN"}) ->
            Observed("RECONCILE", TRUE)
      [] ~Correlated(e, up) /\ ~AttemptIn(EchoConv(e), at, {"DISPATCHED", "UNKNOWN"})
            /\ AttemptIn(EchoConv(e), at, {"ABANDONED"}) -> Observed("RECONCILE", FALSE)
      [] OTHER -> Observed("EXTERNAL_OBSERVED", FALSE)

\* interruptChatwootAttendance pauses the executors of these conversations.
Interrupted(E, up, at) ==
    {EchoConv(e) : e \in {f \in E : Settlement(f, up, at).disposition = "EXTERNAL_OBSERVED"}}

\* Mutant of Canceled: what a worker has leased is left to it.
CanceledUnleased(C, st) ==
    {m \in Automation : ConvOf[m] \in C /\ st[m] = "ACCEPTED" /\ outbox[m].holder = None}

\* ... and cancels their automation output that has not been validated.
Canceled(C, st) ==
    {m \in Automation : ConvOf[m] \in C /\ st[m] = "ACCEPTED"}

Settle(E, st, ob, up, at) ==
    LET C == Interrupted(E, up, at)
        gone == Canceled(C, st)
    IN  /\ observation' = [e \in Echo |-> IF e \in E THEN Settlement(e, up, at)
                                                     ELSE observation[e]]
        /\ mode' = [c \in Conversation |-> IF c \in C THEN "HUMAN" ELSE mode[c]]
        /\ state' = [m \in Message |-> IF m \in gone THEN "FAILED" ELSE st[m]]
        /\ outbox' = [m \in Message |-> IF m \in gone THEN NoRow ELSE ob[m]]

Unreconciled(c) ==
    {e \in Echo : EchoConv(e) = c /\ observation[e].disposition = "RECONCILE"}

---------------------------------------------------------------------------
(* completeSend.                                                           *)

\* Mutant of Owned: the lease token is not compared.
OwnedByAnyone(w) ==
    LET m == worker[w].msg IN
    /\ outbox[m].holder # None
    /\ \/ state[m] = "SENDING"
       \/ state[m] = "ACCEPTED" /\ worker[w].outcome \in {"FAILED", "FAILED_SAFE"}

Owned(w) ==
    LET m == worker[w].msg IN
    /\ outbox[m].holder = w
    /\ \/ state[m] = "SENDING"
       \/ state[m] = "ACCEPTED" /\ worker[w].outcome \in {"FAILED", "FAILED_SAFE"}

\* Mutant of FinalState: receipts that came first are not replayed.
FinalStateNoReplay(m, out) ==
    CASE out = "SENT" -> "SENT"
      [] out \in {"FAILED", "FAILED_SAFE"} -> "FAILED"
      [] OTHER -> "UNKNOWN"

FinalState(m, out) ==
    CASE out = "SENT" -> Reconciled(receipts[m])
      [] out \in {"FAILED", "FAILED_SAFE"} -> "FAILED"
      [] OTHER -> "UNKNOWN"

\* Only a failure that is safe to retry keeps its row, and its attempt count.
FinalRow(row, out) ==
    IF out = "FAILED_SAFE"
    THEN [GiveBack(row) EXCEPT !.retrySafe = TRUE, !.rested = FALSE]
    ELSE NoRow

FinalAttempt(now, out) ==
    CASE now # "DISPATCHED" -> now
      [] now = "DISPATCHED" /\ out = "SENT" -> "CONFIRMED"
      [] now = "DISPATCHED" /\ out \in {"FAILED", "FAILED_SAFE"} -> "REJECTED"
      [] OTHER -> "UNKNOWN"

CompleteSend(w) ==
    LET m   == worker[w].msg
        out == worker[w].outcome
        up  == upstream \cup (IF out = "SENT" THEN {m} ELSE {})
        at  == [attempt EXCEPT ![m] = FinalAttempt(@, out)]
    IN  /\ worker[w].phase = "answered"
        /\ Owned(w)
        /\ upstream' = up
        /\ attempt' = at
        /\ Settle(Unreconciled(ConvOf[m]),
                  [state EXCEPT ![m] = FinalState(m, out)],
                  [outbox EXCEPT ![m] = FinalRow(@, out)], up, at)
        /\ worker' = [worker EXCEPT ![w] = Idle]
        /\ UNCHANGED <<receipts, contact, tenant, channel, revoked, wire, faults>>

\* INVALID_OUTBOX_CLAIM: the answer comes after the lease was taken away.
CompleteLost(w) ==
    /\ worker[w].phase = "answered"
    /\ ~Owned(w)
    /\ worker' = [worker EXCEPT ![w] = Idle]
    /\ UNCHANGED <<state, outbox, upstream, receipts, wire, faults>>
    /\ UNCHANGED environment /\ UNCHANGED qrLedger

---------------------------------------------------------------------------
(* Receipts of the provider.                                               *)

\* The provider reports a failure instead of a delivery, never after one.
Plausible(recorded) == ~("FAILED" \in recorded /\ recorded \cap {"DELIVERED", "READ"} # {})

\* Mutant of RecordStatus: the transition table is not asked.
RecordStatusBlindly(m, s) ==
    /\ wire[m].accepted > 0
    /\ s \in ReceiptStates
    /\ Plausible(receipts[m] \cup {s})
    /\ receipts' = [receipts EXCEPT ![m] = @ \cup {s}]
    /\ state' = [state EXCEPT ![m] = IF m \in upstream THEN s ELSE @]
    /\ UNCHANGED <<outbox, upstream, worker, wire, faults>>
    /\ UNCHANGED environment /\ UNCHANGED qrLedger

RecordStatus(m, s) ==
    /\ wire[m].accepted > 0
    /\ s \in ReceiptStates
    /\ Plausible(receipts[m] \cup {s})
    /\ receipts' = [receipts EXCEPT ![m] = @ \cup {s}]
    /\ state' = [state EXCEPT ![m] = IF m \in upstream THEN Advanced(@, s) ELSE @]
    /\ UNCHANGED <<outbox, upstream, worker, wire, faults>>
    /\ UNCHANGED environment /\ UNCHANGED qrLedger

---------------------------------------------------------------------------
(* The QR ledger.                                                          *)

\* recordQrOutboundObservation: the phone reports a message that left the
\* account, one of ours or one typed by hand, possibly more than once.
ObserveOutbound(e) ==
    /\ Qr
    /\ e \in Message => wire[e].accepted > 0
    /\ observation[e].disposition \in {"NONE", "RECONCILE"}
    /\ Settle({e}, state, outbox, upstream, attempt)
    /\ UNCHANGED <<upstream, receipts, contact, tenant, channel, revoked,
                   worker, wire, attempt, faults>>

\* Mutant of Overdue: expired dispatches are left alone.
OverdueNever == {m \in Message : FALSE}

\* recoverQrOutboundObservations: expired dispatches become UNKNOWN under the
\* channel lock, then every open observation is looked at again.
Overdue == {m \in Message : attempt[m] = "DISPATCHED" /\ outbox[m].expired}

\* Mutant of RecoverQr: open observations wait for the next completion.
RecoverQrDispatchOnly(w) ==
    LET at == [m \in Message |-> IF m \in Overdue THEN "UNKNOWN" ELSE attempt[m]]
        st == [m \in Message |->
                 IF m \in Overdue /\ state[m] = "SENDING" THEN "UNKNOWN" ELSE state[m]]
        ob == [m \in Message |-> IF st[m] = "UNKNOWN" THEN NoRow ELSE outbox[m]]
    IN  /\ Qr
        /\ worker[w] = Idle
        /\ tenant.active
        /\ Overdue # {}
        /\ attempt' = at /\ state' = st /\ outbox' = ob
        /\ UNCHANGED <<upstream, receipts, mode, contact, tenant, channel, revoked,
                       worker, wire, observation, faults>>

RecoverQr(w) ==
    LET at == [m \in Message |-> IF m \in Overdue THEN "UNKNOWN" ELSE attempt[m]]
        st == [m \in Message |->
                 IF m \in Overdue /\ state[m] = "SENDING" THEN "UNKNOWN" ELSE state[m]]
        ob == [m \in Message |-> IF st[m] = "UNKNOWN" THEN NoRow ELSE outbox[m]]
    IN  /\ Qr
        /\ worker[w] = Idle
        /\ tenant.active
        /\ Overdue # {} \/ \E c \in Conversation : Unreconciled(c) # {}
        /\ attempt' = at
        /\ Settle(UNION {Unreconciled(c) : c \in Conversation}, st, ob, upstream, at)
        /\ UNCHANGED <<upstream, receipts, contact, tenant, channel, revoked,
                       worker, wire, faults>>

\* abandonQrDispatchAttempt: an administrator gives up on one uncertain send.
AbandonAttempt(m) ==
    LET at == [attempt EXCEPT ![m] = "ABANDONED"] IN
    /\ tenant.active
    /\ attempt[m] = "UNKNOWN"
    /\ state[m] = "UNKNOWN"
    /\ m \notin upstream
    /\ ~outbox[m].queued
    /\ Disturb
    /\ attempt' = at
    /\ Settle(Unreconciled(ConvOf[m]), state, outbox, upstream, at)
    /\ UNCHANGED <<upstream, receipts, contact, tenant, channel, revoked, worker, wire>>

\* abandonQrOutboundObservation: gives up on an observation and on every
\* uncertain attempt of its conversation; none may still be in flight.
AbandonObservation(e) ==
    LET c == EchoConv(e) IN
    /\ tenant.active
    /\ observation[e].disposition = "RECONCILE"
    /\ ~AttemptIn(c, attempt, {"DISPATCHED"})
    /\ Disturb
    /\ attempt' = [m \in Message |->
                     IF ConvOf[m] = c /\ attempt[m] = "UNKNOWN" THEN "ABANDONED"
                                                                ELSE attempt[m]]
    /\ observation' = [observation EXCEPT ![e] = Observed("ABANDONED", FALSE)]
    /\ UNCHANGED <<state, outbox, upstream, receipts, worker, wire>>
    /\ UNCHANGED environment

---------------------------------------------------------------------------
(* People and the world around the queue.                                  *)

\* setConversationMode: taking over, or taking over again, cancels the
\* automation output still queued.
TakeOver(c) ==
    LET gone == Canceled({c}, state) IN
    /\ mode[c] = "BOT" \/ gone # {}
    /\ Disturb
    /\ mode' = [mode EXCEPT ![c] = "HUMAN"]
    /\ state' = [m \in Message |-> IF m \in gone THEN "FAILED" ELSE state[m]]
    /\ outbox' = [m \in Message |-> IF m \in gone THEN NoRow ELSE outbox[m]]
    /\ UNCHANGED <<upstream, receipts, contact, tenant, channel, revoked, worker, wire>>
    /\ UNCHANGED qrLedger

ResumeBot(c) ==
    /\ mode[c] = "HUMAN"
    /\ mode' = [mode EXCEPT ![c] = "BOT"]
    /\ UNCHANGED <<state, outbox, upstream, receipts, contact, tenant, channel,
                   revoked, worker, wire, faults>>
    /\ UNCHANGED qrLedger

\* What setContactMessagingPolicy and the passing of 24 hours take away, and
\* what a new incoming message gives back.
SetConsent(c, consent) ==
    /\ consent \in {"UNKNOWN", "OPTED_IN", "OPTED_OUT"} \ {contact[c].consent}
    /\ Disturb
    /\ contact' = [contact EXCEPT ![c].consent = consent]
    /\ UNCHANGED <<state, outbox, upstream, receipts, mode, tenant, channel,
                   revoked, worker, wire>>
    /\ UNCHANGED qrLedger

CloseWindow(c) ==
    /\ ~Qr /\ contact[c].window
    /\ Disturb
    /\ contact' = [contact EXCEPT ![c].window = FALSE]
    /\ UNCHANGED <<state, outbox, upstream, receipts, mode, tenant, channel,
                   revoked, worker, wire>>
    /\ UNCHANGED qrLedger

RecordIncoming(c) ==
    /\ ~contact[c].window
    /\ contact' = [contact EXCEPT ![c].window = TRUE]
    /\ UNCHANGED <<state, outbox, upstream, receipts, mode, tenant, channel,
                   revoked, worker, wire, faults>>
    /\ UNCHANGED qrLedger

\* Suspension, or a smaller plan: what is there is kept.
Suspend ==
    /\ tenant.active
    /\ Disturb
    /\ tenant' = [tenant EXCEPT !.active = FALSE]
    /\ UNCHANGED <<state, outbox, upstream, receipts, mode, contact, channel,
                   revoked, worker, wire>>
    /\ UNCHANGED qrLedger

Reactivate ==
    /\ ~tenant.active
    /\ tenant' = [tenant EXCEPT !.active = TRUE]
    /\ UNCHANGED <<state, outbox, upstream, receipts, mode, contact, channel,
                   revoked, worker, wire, faults>>
    /\ UNCHANGED qrLedger

LowerLimit ==
    /\ tenant.limit > 1
    /\ Disturb
    /\ tenant' = [tenant EXCEPT !.limit = @ - 1]
    /\ UNCHANGED <<state, outbox, upstream, receipts, mode, contact, channel,
                   revoked, worker, wire>>
    /\ UNCHANGED qrLedger

\* The instance disconnects or its identity has to be confirmed again; a META
\* connection loses its token.
LoseChannel(part) ==
    /\ channel[part]
    /\ part = "credential" => ~Qr
    /\ Disturb
    /\ channel' = [channel EXCEPT ![part] = FALSE]
    /\ UNCHANGED <<state, outbox, upstream, receipts, mode, contact, tenant,
                   revoked, worker, wire>>
    /\ UNCHANGED qrLedger

RestoreChannel(part) ==
    /\ ~channel[part]
    /\ channel' = [channel EXCEPT ![part] = TRUE]
    /\ UNCHANGED <<state, outbox, upstream, receipts, mode, contact, tenant,
                   revoked, worker, wire, faults>>
    /\ UNCHANGED qrLedger

RevokeAuthority(m) ==
    /\ m \notin revoked
    /\ state[m] \in {"ACCEPTED", "FAILED"}
    /\ Disturb
    /\ revoked' = revoked \cup {m}
    /\ UNCHANGED <<state, outbox, upstream, receipts, mode, contact, tenant,
                   channel, worker, wire>>
    /\ UNCHANGED qrLedger

\* A worker dies, or the database refuses one of its transactions: the turn is
\* over and the rows stay as they are.
Crash(w) ==
    /\ worker[w] # Idle
    /\ Disturb
    /\ worker' = [worker EXCEPT ![w] = Idle]
    /\ UNCHANGED <<state, outbox, upstream, receipts, wire>>
    /\ UNCHANGED environment /\ UNCHANGED qrLedger

\* 120 seconds pass.  Only the lease of a worker that is still at it counts as
\* a disturbance (a worker that stalls).
Attended(m) == outbox[m].holder # None /\ worker[outbox[m].holder].msg = m

LeaseElapses(m) ==
    /\ outbox[m].holder # None
    /\ ~outbox[m].expired
    /\ IF Attended(m) THEN Disturb ELSE UNCHANGED faults
    /\ outbox' = [outbox EXCEPT ![m].expired = TRUE]
    /\ UNCHANGED <<state, upstream, receipts, worker, wire>>
    /\ UNCHANGED environment /\ UNCHANGED qrLedger

BackoffElapses(m) ==
    /\ outbox[m].retrySafe
    /\ ~outbox[m].rested
    /\ outbox' = [outbox EXCEPT ![m].rested = TRUE]
    /\ UNCHANGED <<state, upstream, receipts, worker, wire, faults>>
    /\ UNCHANGED environment /\ UNCHANGED qrLedger

---------------------------------------------------------------------------

WorkerStep(w) ==
    \/ \E m \in Message : Claim(w, m)
    \/ Sweep(w)
    \/ \E out \in {"FAILED", "FAILED_SAFE"} : PreflightFails(w, out)
    \/ ValidateEligible(w)
    \/ ValidateFails(w)
    \/ ValidateHolds(w)
    \/ ValidateLost(w)
    \/ Post(w)
    \/ AnswerUncertain(w)
    \/ CompleteSend(w)
    \/ CompleteLost(w)
    \/ RecoverQr(w)

ProviderStep ==
    \/ \E w \in Worker, out \in Outcomes : ProviderAnswers(w, out)
    \/ \E m \in Message : ProviderAcceptsLate(m)
    \/ \E m \in Message, s \in ReceiptStates : RecordStatus(m, s)
    \/ \E e \in Echo : ObserveOutbound(e)

OperatorStep ==
    \/ \E m \in Message : Enqueue(m) \/ RetryMessage(m) \/ AbandonAttempt(m)
                          \/ RevokeAuthority(m)
    \/ \E e \in Echo : AbandonObservation(e)
    \/ \E c \in Conversation : TakeOver(c) \/ ResumeBot(c)

WorldStep ==
    \/ \E c \in Conversation :
          \/ CloseWindow(c) \/ RecordIncoming(c)
          \/ \E consent \in {"UNKNOWN", "OPTED_IN", "OPTED_OUT"} : SetConsent(c, consent)
    \/ Suspend \/ Reactivate \/ LowerLimit
    \/ \E part \in {"ready", "credential"} : LoseChannel(part) \/ RestoreChannel(part)
    \/ \E w \in Worker : Crash(w)
    \/ \E m \in Message : LeaseElapses(m) \/ BackoffElapses(m)

Next ==
    \/ \E w \in Worker : WorkerStep(w)
    \/ ProviderStep
    \/ OperatorStep
    \/ WorldStep

Spec == Init /\ [][Next]_vars

---------------------------------------------------------------------------
(* What must hold.                                                         *)

\* The provider never accepts a message twice, and never could: of all the
\* POSTs of a message at most one was not definitely refused.  This is what
\* the leases of claimOutgoing, the SENDING mark of validateClaim and the
\* UNKNOWN of expired or ambiguous sends are for.
AtMostOnce == \A m \in Message : wire[m].open + wire[m].accepted <= 1

\* A message reported FAILED that never got a provider id was not delivered
\* and cannot be any more, whatever the worker and the provider still do:
\* an operator may type it again.
FailedIsFinal ==
    \A m \in Message :
        state[m] = "FAILED" /\ m \notin upstream => wire[m].open = 0 /\ wire[m].accepted = 0

\* The NOT EXISTS(earlier) of claimOutgoing keeps a conversation in order even
\* though it is evaluated before the lease and never again: while a message is
\* being sent nothing ahead of it can still be sent or is still uncertain.
ConversationOrder ==
    \A n \in Message : state[n] = "SENDING" =>
        \A k \in Earlier(n) : ~HoldsBack(k, state, outbox)

\* What the customer sees keeps the order of the conversation: once a message
\* was handed to the provider, nothing ahead of it is still on its way or will
\* be - no late acceptance, no retry, no stalled worker - except what an
\* administrator gave up (abandonQrDispatchAttempt).
ArrivesInOrder ==
    \A n \in Message : wire[n].open + wire[n].accepted > 0 =>
        \A k \in Earlier(n) : wire[k].open = 0 \/ attempt[k] = "ABANDONED"

\* The outbox holds exactly the messages that still have to be handled: a
\* missing row loses a message, a stray row blocks its conversation.
RowsFollowState ==
    \A m \in Message :
        /\ outbox[m].queued <=>
              \/ state[m] \in {"ACCEPTED", "SENDING"}
              \/ state[m] = "FAILED" /\ outbox[m].retrySafe
        /\ state[m] = "SENDING" => outbox[m].holder # None

\* Receipts may come before the upstream id is stored, late, twice or out of
\* order: once both are there the state is the one of the provider's history.
ReceiptsConverge ==
    \A m \in upstream : state[m] = Reconciled(receipts[m])

\* No step takes a message back: a state changes along the transition table
\* (a completed send may jump over SENT), and FAILED is left only by a failure
\* that was stored as safe to retry.
StateFollowsTable ==
    [][\A m \in Message : state'[m] # state[m] =>
          \/ state[m] = "NEW"
          \/ CanAdvance(state[m], state'[m])
          \/ state[m] = "SENDING" /\ CanAdvance("SENT", state'[m])
          \/ state[m] = "FAILED" /\ state'[m] = "ACCEPTED" /\ outbox[m].retrySafe
      ]_vars

\* enforce_tenant_operational_limits on every path by which a message becomes
\* pending: a step may add pending messages only up to the current limit, and
\* a plan lowered below the backlog keeps the backlog.
AdmissionRespectsLimit ==
    [][Cardinality(PendingIn(state')) > Cardinality(PendingIn(state))
          => Cardinality(PendingIn(state')) <= tenant.limit]_vars

\* One of our own messages reported by the phone is never taken for a message
\* typed by hand (which would pause the bot and add a second message), however
\* echo, answer, expiry and abandonment interleave.
OwnEchoNeverExternal ==
    \A m \in Message : observation[m].disposition # "EXTERNAL_OBSERVED"

\* The QR ledger and the message agree: what is DISPATCHED is being sent, what
\* is UNKNOWN or ABANDONED is an uncertain message without a provider id.
LedgerAgrees ==
    Qr => \A m \in Message :
        /\ attempt[m] = "DISPATCHED" <=> state[m] = "SENDING"
        /\ attempt[m] \in {"UNKNOWN", "ABANDONED"} <=> state[m] = "UNKNOWN"
        /\ attempt[m] = "CONFIRMED" <=> m \in upstream

---------------------------------------------------------------------------
(* Why it holds: the invariant that every step preserves on its own.       *)

\* A turn whose POST was authorised and was not definitely refused.
Authorised(w) ==
    \/ worker[w].phase \in {"validated", "waiting"}
    \/ worker[w].phase = "answered" /\ worker[w].outcome \in {"SENT", "UNKNOWN"}

Untouched(m) == wire[m].open = 0 /\ wire[m].accepted = 0
InFlight(m)  == wire[m].open = 1 /\ wire[m].accepted = 0
Taken(m)     == wire[m].open = 0 /\ wire[m].accepted = 1

\* Rows, leases and stored ids only where the state of the message has them.
LeasesAgree ==
    \A m \in Message :
        /\ outbox[m].holder # None => state[m] \in {"ACCEPTED", "SENDING"}
        /\ outbox[m].retrySafe => state[m] = "FAILED" /\ m \notin upstream
        /\ m \in upstream => state[m] \in ReceiptStates
        /\ state[m] \in ReceiptStates \ {"FAILED"} => m \in upstream

\* What may be on the wire in each state of a message.
WireAgrees ==
    \A m \in Message :
        /\ m \in upstream => Taken(m)
        /\ state[m] \in {"NEW", "ACCEPTED", "FAILED"} /\ m \notin upstream
              => Untouched(m)
        /\ Untouched(m) \/ InFlight(m) \/ Taken(m)

\* What a worker in the middle of a turn may rely on, however long ago it
\* looked: its message is leased to it, or was given up as UNKNOWN, and nobody
\* else was authorised to send it.
TurnsAgree ==
    /\ \A w \in Worker : worker[w].phase # "idle" =>
          LET m == worker[w].msg IN
          /\ worker[w].phase = "claimed" /\ outbox[m].holder = w => state[m] = "ACCEPTED"
          /\ Authorised(w) => \/ state[m] = "SENDING" /\ outbox[m].holder = w
                              \/ state[m] = "UNKNOWN"
          /\ worker[w].phase = "validated" => Untouched(m)
          /\ worker[w].phase = "waiting" => InFlight(m)
          /\ worker[w].phase = "answered" =>
                /\ worker[w].outcome # "none"
                /\ worker[w].outcome = "SENT" => Taken(m)
                /\ worker[w].outcome \in {"FAILED", "FAILED_SAFE"} /\ outbox[m].holder = w
                      => Untouched(m)
    /\ \A v, w \in Worker :
          Authorised(v) /\ Authorised(w) /\ worker[v].msg = worker[w].msg => v = w

\* Admission is in order, and what is ahead of a leased message is settled.
OrderKept ==
    \A n \in Message : \A k \in Earlier(n) :
        /\ state[k] = "NEW" => state[n] = "NEW"
        /\ outbox[n].holder # None => ~HoldsBack(k, state, outbox)

Inductive ==
    /\ TypeOK
    /\ RowsFollowState
    /\ LeasesAgree
    /\ WireAgrees
    /\ TurnsAgree
    /\ OrderKept
    /\ LedgerAgrees
    /\ Qr \/ \A m \in Message : attempt[m] = "NONE"

---------------------------------------------------------------------------
(* Liveness.  Workers run in a loop and their HTTP clients have deadlines; *)
(* leases and backoffs end with time.  ORDER BY available_at lets every    *)
(* waiting candidate become the oldest one.  Nothing is assumed of         *)
(* operators, of the provider's late decisions or of receipts.             *)

TurnStep(w) ==
    \/ ValidateEligible(w) \/ ValidateFails(w) \/ ValidateHolds(w) \/ ValidateLost(w)
    \/ Post(w)
    \/ AnswerUncertain(w) \/ \E out \in Outcomes : ProviderAnswers(w, out)
    \/ CompleteSend(w) \/ CompleteLost(w)

Fairness ==
    /\ \A w \in Worker : WF_vars(TurnStep(w))
    /\ \A m \in Message : SF_vars(\E w \in Worker : Claim(w, m))
    /\ WF_vars(\E w \in Worker : Sweep(w))
    /\ WF_vars(\E w \in Worker : RecoverQr(w))
    /\ \A m \in Message : /\ WF_vars(~Attended(m) /\ LeaseElapses(m))
                          /\ WF_vars(BackoffElapses(m))

FairSpec == Spec /\ Fairness

\* A message that nothing holds back: not suspended, not paused, not behind an
\* unsettled message, channel up.
Front(m) ==
    /\ tenant.active
    /\ channel.ready
    /\ ~Paused(m)
    /\ ~ObservationBlocks(ConvOf[m])
    /\ \A k \in Earlier(m) : ~HoldsBack(k, state, outbox)

\* A message that nothing holds back is sent, fails or becomes uncertain, also
\* when the workers that leased it died or stalled.
FrontMoves ==
    \A m \in Message :
        (state[m] = "ACCEPTED" /\ Front(m)) ~> (state[m] # "ACCEPTED" \/ ~Front(m))

\* No message stays SENDING: whatever happened to the worker that validated it,
\* completion, expiry or recovery decides it (once the tenant is not suspended).
SendingEnds ==
    <>[]tenant.active => \A m \in Message : state[m] = "SENDING" ~> state[m] # "SENDING"

\* An observation stops blocking its conversation once no attempt of it is
\* uncertain any more, even if it was another observation that was abandoned.
BlockEnds ==
    <>[]tenant.active =>
        \A e \in Echo :
            observation[e].blocking /\ ~AttemptIn(EchoConv(e), attempt, {"DISPATCHED", "UNKNOWN"})
            ~> ~observation[e].blocking \/ AttemptIn(EchoConv(e), attempt, {"DISPATCHED", "UNKNOWN"})

---------------------------------------------------------------------------
(* The queue keeps the promise of DeliveryLedger.                          *)

PromiseOf(m) ==
    CASE state[m] = "NEW" -> "absent"
      [] state[m] = "ACCEPTED" -> "queued"
      [] state[m] = "SENDING" -> "trying"
      [] state[m] = "UNKNOWN" -> "unsure"
      [] m \in upstream -> "accepted"
      [] OTHER -> IF outbox[m].retrySafe THEN "deferred" ELSE "failed"

Ledger == INSTANCE DeliveryLedger
          WITH promise   <- [m \in Message |-> PromiseOf(m)],
               delivered <- [m \in Message |-> wire[m].accepted]

\* Every step of the queue, its sweeps included, is a step of the ledger or
\* changes nothing the ledger sees.
KeepsPromise == Ledger!Spec

---------------------------------------------------------------------------
(* The queue keeps the ReplyProtocol of its automated messages.            *)

ReplyOf(m) ==
    CASE state[m] = "NEW" -> "absent"
      [] state[m] = "ACCEPTED" -> "queued"
      [] state[m] = "SENDING" -> "trying"
      [] state[m] = "UNKNOWN" -> "unsure"
      [] OTHER -> IF state[m] = "FAILED" /\ outbox[m].retrySafe THEN "deferred" ELSE "over"

Replies == INSTANCE ReplyProtocol
           WITH Message <- Automation,
                reply   <- [m \in Automation |-> ReplyOf(m)],
                blocked <- {c \in Conversation : ObservationBlocks(c)}

\* What the outbox does to an automated message is what BotTurns expects of it:
\* the outbox and the bot turns are two views of one conversation.
KeepsReplyProtocol == Replies!Spec

---------------------------------------------------------------------------
(* What the repository says and the code does not do.                      *)

\* "cancela replies automaticas pendentes ao assumir HUMAN sem bloquear template
\* do operador": after a takeover no automated message that may not be sent
\* stands in the way of the operator's.  setConversationMode cancels what is
\* ACCEPTED; a safe failure waiting for its retry becomes ACCEPTED afterwards.
TakeoverFreesOperator ==
    \A n \in Message \ Automation : \A m \in Earlier(n) \cap Automation :
        state[n] = "ACCEPTED" /\ Paused(m) =>
            ~(state[m] = "ACCEPTED" /\ outbox[m].holder = None)

\* "Reduzir um plano abaixo do uso atual preserva os registros e bloqueia novas
\* admissoes": the pending limit stops admissions, never what was admitted.
\* The retry of a safe failure is an admission inside claimOutgoing: refused,
\* it takes every claim of the tenant with it, at every tick.
LimitStopsOnlyAdmissions ==
    \A m \in Message :
        (state[m] = "ACCEPTED" /\ Front(m)) ~> (state[m] # "ACCEPTED" \/ ~Front(m))

===========================================================================
