------------------------- MODULE PartnerDeliveries -------------------------
(***************************************************************************)
(* Webhook deliveries of one tenant (modules/partner-events): the fan-out  *)
(* of an event to the active endpoints, the workers that claim, authorise, *)
(* POST and settle a delivery under a lease, revocation, explicit replay   *)
(* of a failed delivery, and the maintenance that every claim runs first.  *)
(*                                                                         *)
(* A worker is one processOne and its lease token.  Each action is one     *)
(* database transaction, one HTTP exchange, or an event of the environment.*)
(***************************************************************************)
EXTENDS Integers, FiniteSets

CONSTANTS
    Event,
    Endpoint,
    Delivery,       \* one per event and endpoint
    EventOf,
    EndpointOf,
    Confirming,     \* endpoints with ack_mode PERSISTENCE_RECEIPT_V1
    Worker,
    MaxAttempts,    \* claims of a delivery before it is FAILED: 10
    MaxReplays,     \* bound on explicit replays per delivery
    MaxFaults,      \* bound on crashes, stalls, revocations and suspensions
    None

ASSUME DeliveryAssumption == /\ EventOf \in [Delivery -> Event]
                             /\ EndpointOf \in [Delivery -> Endpoint]
                             /\ Confirming \subseteq Endpoint
ASSUME LimitAssumption    == /\ MaxAttempts \in Nat \ {0}
                             /\ MaxReplays \in Nat
                             /\ MaxFaults \in Nat
ASSUME NobodyAssumption   == None \notin Worker \cup Delivery

VARIABLES
    row,         \* partner_event_deliveries
    endpoint,    \* partner_webhook_endpoints.status
    active,      \* organizations.status = 'ACTIVE'
    old,         \* events past the retention of 30 days
    worker,      \* where each processOne is
    posts,       \* per delivery, the claims that were POSTed (history)
    accepted,    \* deliveries the partner acknowledged at least once (history)
    faults

vars == <<row, endpoint, active, old, worker, posts, accepted, faults>>

\* "NEW": not captured; "OPEN": inserted by a source transaction that has not
\* committed; "GONE": pruned.  claims is lifetime_attempts.
Statuses == {"NEW", "OPEN", "PENDING", "RUNNING", "DELIVERED", "FAILED", "CANCELLED", "GONE"}

Row == [status: Statuses, attempts: Nat, holder: Worker \cup {None},
        lapsed: BOOLEAN, due: BOOLEAN, replays: Nat, claims: Nat]

NoRow == [status |-> "NEW", attempts |-> 0, holder |-> None, lapsed |-> FALSE,
          due |-> FALSE, replays |-> 0, claims |-> 0]

\* processOne: claimed, authorised to POST, answered with the settlement to make.
Results == {"DELIVERED", "PENDING", "FAILED"}
Turn == [phase: {"idle", "claimed", "authorised", "answered"}, delivery: Delivery \cup {None},
         attempt: Nat, claim: Nat, result: Results \cup {"NONE"}]
Idle == [phase |-> "idle", delivery |-> None, attempt |-> 0, claim |-> 0, result |-> "NONE"]

Init ==
    /\ row = [d \in Delivery |-> NoRow]
    /\ endpoint = [p \in Endpoint |-> "ACTIVE"]
    /\ active = TRUE
    /\ old = {}
    /\ worker = [w \in Worker |-> Idle]
    /\ posts = [d \in Delivery |-> {}]
    /\ accepted = {}
    /\ faults = 0

Disturb == faults < MaxFaults /\ faults' = faults + 1

Live(d)   == endpoint[EndpointOf[d]] = "ACTIVE"
Queued(r) == r.status \in {"PENDING", "RUNNING"}

\* A row that nobody holds, in the given status.
Put(r, s) == [r EXCEPT !.status = s, !.holder = None, !.lapsed = FALSE, !.due = FALSE]

---------------------------------------------------------------------------
(* Capture, revocation, replay, retention.                                 *)

\* partner_capture_event fans out to the endpoints its transaction sees ACTIVE...
Capture(e) ==
    /\ \A d \in Delivery : EventOf[d] = e => row[d].status = "NEW"
    /\ row' = [d \in Delivery |->
                 IF EventOf[d] = e /\ Live(d) THEN [row[d] EXCEPT !.status = "OPEN"] ELSE row[d]]
    /\ UNCHANGED <<endpoint, active, old, worker, posts, accepted, faults>>

\* ...and the source transaction commits later, perhaps after a revocation.
CommitSource(e) ==
    /\ \E d \in Delivery : EventOf[d] = e /\ row[d].status = "OPEN"
    /\ row' = [d \in Delivery |->
                 IF EventOf[d] = e /\ row[d].status = "OPEN"
                 THEN [row[d] EXCEPT !.status = "PENDING", !.due = TRUE] ELSE row[d]]
    /\ UNCHANGED <<endpoint, active, old, worker, posts, accepted, faults>>

\* Mutant: revocation forgets what a worker has already claimed.
RevokePendingOnly(p) ==
    /\ Disturb
    /\ active
    /\ endpoint' = [endpoint EXCEPT ![p] = "REVOKED"]
    /\ row' = [d \in Delivery |->
                 IF EndpointOf[d] = p /\ row[d].status = "PENDING"
                 THEN Put(row[d], "CANCELLED") ELSE row[d]]
    /\ UNCHANGED <<active, old, worker, posts, accepted>>

\* service.revoke: the endpoint and what is queued or claimed for it; repeated,
\* it cancels what fanned out late.
Revoke(p) ==
    /\ Disturb
    /\ active
    /\ endpoint' = [endpoint EXCEPT ![p] = "REVOKED"]
    /\ row' = [d \in Delivery |->
                 IF EndpointOf[d] = p /\ Queued(row[d]) THEN Put(row[d], "CANCELLED")
                                                        ELSE row[d]]
    /\ UNCHANGED <<active, old, worker, posts, accepted>>

\* partner_replay_delivery: a new cycle of attempts for a failed delivery.
Replay(d) ==
    /\ row[d].replays < MaxReplays
    /\ active /\ Live(d) /\ EventOf[d] \notin old
    /\ row[d].status = "FAILED"
    /\ row' = [row EXCEPT ![d] = [Put(@, "PENDING") EXCEPT !.attempts = 0, !.due = TRUE,
                                                           !.replays = row[d].replays + 1]]
    /\ UNCHANGED <<endpoint, active, old, worker, posts, accepted, faults>>

\* Mutant: the late fan-out of a revoked endpoint stays in the queue.
CanceledNever(d) == row[d]

\* partner_publish_events, as far as it concerns deliveries: cancel the late
\* fan-out of revoked endpoints, then prune events past retention unless one
\* of their deliveries is being sent.  It runs first in every claim, and on its
\* own (also for suspended tenants) once per scan of the worker.
Canceled(d) ==
    IF Queued(row[d]) /\ ~Live(d) THEN Put(row[d], "CANCELLED") ELSE row[d]

Prunable(e) ==
    /\ e \in old
    /\ \A k \in Delivery : EventOf[k] = e => Canceled(k).status # "RUNNING" \/ Canceled(k).lapsed

Maintained(d) ==
    IF Prunable(EventOf[d]) /\ row[d].status # "NEW" THEN Put(row[d], "GONE") ELSE Canceled(d)

Publish ==
    /\ row' = [d \in Delivery |-> Maintained(d)]
    /\ UNCHANGED <<endpoint, active, old, worker, posts, accepted, faults>>

---------------------------------------------------------------------------
(* The worker.                                                             *)

\* Mutant: a last claim that was never settled stays RUNNING.
ExhaustedNever(r) == FALSE

\* claimDelivery first gives up what used its attempts and was never settled.
Exhausted(r) == r.status = "RUNNING" /\ r.lapsed /\ r.attempts >= MaxAttempts
Swept(d)     == LET r == Maintained(d) IN IF Exhausted(r) THEN Put(r, "FAILED") ELSE r

Claimable(d) ==
    LET r == Swept(d) IN
    /\ r.attempts < MaxAttempts
    /\ \/ r.status = "PENDING" /\ r.due
       \/ r.status = "RUNNING" /\ r.lapsed
    /\ Live(d)

\* Mutant: a claim is only counted when it is settled.
ClaimUncounted(w, d) ==
    /\ active /\ worker[w] = Idle
    /\ Claimable(d)
    /\ row' = [k \in Delivery |->
                 IF k = d
                 THEN [Put(Swept(d), "RUNNING") EXCEPT !.holder = w, !.claims = @ + 1]
                 ELSE Swept(k)]
    /\ worker' = [worker EXCEPT ![w] =
                    [Idle EXCEPT !.phase = "claimed", !.delivery = d,
                                 !.attempt = row[d].attempts + 1,
                                 !.claim = row[d].claims + 1]]
    /\ UNCHANGED <<endpoint, active, old, posts, accepted, faults>>

\* claimDelivery: the attempt is counted with the lease.
Claim(w, d) ==
    /\ active /\ worker[w] = Idle
    /\ Claimable(d)
    /\ row' = [k \in Delivery |->
                 IF k = d
                 THEN [Put(Swept(d), "RUNNING") EXCEPT !.holder = w,
                          !.attempts = @ + 1, !.claims = @ + 1]
                 ELSE Swept(k)]
    /\ worker' = [worker EXCEPT ![w] =
                    [Idle EXCEPT !.phase = "claimed", !.delivery = d,
                                 !.attempt = row[d].attempts + 1,
                                 !.claim = row[d].claims + 1]]
    /\ UNCHANGED <<endpoint, active, old, posts, accepted, faults>>

\* A claim that finds nothing still commits what it swept.
Sweep ==
    /\ active /\ \A d \in Delivery : ~Claimable(d)
    /\ row' = [d \in Delivery |-> Swept(d)]
    /\ UNCHANGED <<endpoint, active, old, worker, posts, accepted, faults>>

\* The lease that authorizeDelivery and settleDelivery ask for.
Holds(w, d) == row[d].status = "RUNNING" /\ row[d].holder = w /\ ~row[d].lapsed

Authorize(w) ==
    /\ worker[w].phase = "claimed"
    /\ active /\ Holds(w, worker[w].delivery) /\ Live(worker[w].delivery)
    /\ worker' = [worker EXCEPT ![w].phase = "authorised"]
    /\ UNCHANGED <<row, endpoint, active, old, posts, accepted, faults>>

\* Not authorised, or the tenant is suspended: the turn ends, the claim counts.
Refused(w) ==
    /\ worker[w].phase = "claimed"
    /\ ~(active /\ Holds(w, worker[w].delivery) /\ Live(worker[w].delivery))
    /\ worker' = [worker EXCEPT ![w] = Idle]
    /\ UNCHANGED <<row, endpoint, active, old, posts, accepted, faults>>

\* Mutant: the last failure is stored under a status of its own.
VerdictUnlisted(w, answer) ==
    IF answer = "PENDING" /\ worker[w].attempt >= MaxAttempts THEN "EXHAUSTED" ELSE answer

\* What settleDelivery is told: an answer that may be tried again becomes a
\* failure with the last attempt.
Verdict(w, answer) ==
    IF answer = "PENDING" /\ worker[w].attempt >= MaxAttempts THEN "FAILED" ELSE answer

Answered(w, answer) ==
    worker' = [worker EXCEPT ![w].phase = "answered", ![w].result = Verdict(w, answer)]

\* The POST is never sent: PAYLOAD_LIMIT (permanent), an unreadable secret, DNS.
NotSent(w) ==
    /\ worker[w].phase = "authorised"
    /\ \E answer \in {"PENDING", "FAILED"} : Answered(w, answer)
    /\ UNCHANGED <<row, endpoint, active, old, posts, accepted, faults>>

Posted(w) ==
    LET d == worker[w].delivery IN posts' = [posts EXCEPT ![d] = @ \cup {worker[w].claim}]

\* A 2xx, in receipt mode with a receipt of this very delivery.
PostAccepted(w) ==
    /\ worker[w].phase = "authorised"
    /\ Posted(w) /\ accepted' = accepted \cup {worker[w].delivery}
    /\ Answered(w, "DELIVERED")
    /\ UNCHANGED <<row, endpoint, active, old, faults>>

\* Mutant: an invalid receipt is as good as a valid one.
PostTrusted(w) ==
    /\ worker[w].phase = "authorised"
    /\ Posted(w)
    /\ \E answer \in Results : Answered(w, answer)
    /\ UNCHANGED <<row, endpoint, active, old, accepted, faults>>

\* Any other answer or none: 4xx is permanent, 5xx, 408, 425, 429, a timeout
\* and an invalid receipt are tried again; the partner may have stored it.
PostRefused(w) ==
    /\ worker[w].phase = "authorised"
    /\ Posted(w)
    /\ \E answer \in {"PENDING", "FAILED"} : Answered(w, answer)
    /\ UNCHANGED <<row, endpoint, active, old, accepted, faults>>

\* Mutant: the completion is not fenced by the lease.
SettleUnfenced(w) ==
    LET d == worker[w].delivery IN
    /\ worker[w].phase = "answered"
    /\ row' = [row EXCEPT ![d] = [Put(@, worker[w].result) EXCEPT !.attempts = worker[w].attempt]]
    /\ worker' = [worker EXCEPT ![w] = Idle]
    /\ UNCHANGED <<endpoint, active, old, posts, accepted, faults>>

\* settleDelivery of the holder of the unexpired lease, suspended tenant or not.
Settle(w) ==
    LET d == worker[w].delivery IN
    /\ worker[w].phase = "answered"
    /\ Holds(w, d)
    /\ row' = [row EXCEPT ![d] = [Put(@, worker[w].result) EXCEPT !.attempts = worker[w].attempt]]
    /\ worker' = [worker EXCEPT ![w] = Idle]
    /\ UNCHANGED <<endpoint, active, old, posts, accepted, faults>>

\* The answer came too late, or the delivery was cancelled or pruned meanwhile:
\* no row is updated.
SettleLost(w) ==
    /\ worker[w].phase = "answered"
    /\ ~Holds(w, worker[w].delivery)
    /\ worker' = [worker EXCEPT ![w] = Idle]
    /\ UNCHANGED <<row, endpoint, active, old, posts, accepted, faults>>

\* partner_delivery_receipt_identity: the endpoint answers with a receipt it gave
\* for another delivery, of this model or not, and the settlement is rolled back.
ReceiptReused(w) ==
    LET d == worker[w].delivery IN
    /\ worker[w].phase = "answered" /\ worker[w].result = "DELIVERED"
    /\ Holds(w, d) /\ EndpointOf[d] \in Confirming
    /\ worker' = [worker EXCEPT ![w] = Idle]
    /\ UNCHANGED <<row, endpoint, active, old, posts, accepted, faults>>

---------------------------------------------------------------------------
(* The environment.                                                        *)

Crash(w) ==
    /\ Disturb /\ worker[w] # Idle
    /\ worker' = [worker EXCEPT ![w] = Idle]
    /\ UNCHANGED <<row, endpoint, active, old, posts, accepted>>

Attended(d) == \E w \in Worker : worker[w] # Idle /\ Holds(w, d)

\* lease_expires_at passes; with its worker still at it, that is a stall.
LeaseElapses(d) ==
    /\ row[d].status = "RUNNING" /\ ~row[d].lapsed
    /\ IF Attended(d) THEN Disturb ELSE UNCHANGED faults
    /\ row' = [row EXCEPT ![d].lapsed = TRUE]
    /\ UNCHANGED <<endpoint, active, old, worker, posts, accepted>>

\* available_at passes (retryDelayMs).
BackoffElapses(d) ==
    /\ row[d].status = "PENDING" /\ ~row[d].due
    /\ row' = [row EXCEPT ![d].due = TRUE]
    /\ UNCHANGED <<endpoint, active, old, worker, posts, accepted, faults>>

\* 30 days pass since the event occurred.
Age(e) ==
    /\ Disturb
    /\ e \notin old
    /\ \E d \in Delivery : EventOf[d] = e /\ row[d].status # "NEW"
    /\ \A d \in Delivery : EventOf[d] = e => row[d].status # "OPEN"
    /\ old' = old \cup {e}
    /\ UNCHANGED <<row, endpoint, active, worker, posts, accepted>>

Suspend ==
    /\ Disturb /\ active /\ active' = FALSE
    /\ UNCHANGED <<row, endpoint, old, worker, posts, accepted>>

Reactivate ==
    /\ ~active /\ active' = TRUE
    /\ UNCHANGED <<row, endpoint, old, worker, posts, accepted, faults>>

TurnStep(w) ==
    \/ Authorize(w) \/ Refused(w) \/ NotSent(w) \/ PostAccepted(w) \/ PostRefused(w)
    \/ Settle(w) \/ SettleLost(w) \/ ReceiptReused(w)

Next ==
    \/ \E e \in Event : Capture(e) \/ CommitSource(e) \/ Age(e)
    \/ \E d \in Delivery : \/ Replay(d) \/ LeaseElapses(d) \/ BackoffElapses(d)
                           \/ \E w \in Worker : Claim(w, d)
    \/ \E p \in Endpoint : Revoke(p)
    \/ \E w \in Worker : TurnStep(w) \/ Crash(w)
    \/ Publish \/ Sweep \/ Suspend \/ Reactivate

Spec == Init /\ [][Next]_vars

TypeOK ==
    /\ row \in [Delivery -> Row]
    /\ endpoint \in [Endpoint -> {"ACTIVE", "REVOKED"}]
    /\ active \in BOOLEAN
    /\ old \subseteq Event
    /\ worker \in [Worker -> Turn]
    /\ posts \in [Delivery -> SUBSET Nat]
    /\ accepted \subseteq Delivery
    /\ faults \in 0..MaxFaults

---------------------------------------------------------------------------
(* What must hold.                                                         *)

\* "Retry up to ten total claims": every POST belongs to a claim of its own,
\* also when a stalled worker POSTs after others claimed the delivery, and an
\* explicit replay grants one more cycle and no more.
PostsAreCounted ==
    /\ \A d \in Delivery :
          /\ posts[d] \subseteq 1..row[d].claims
          /\ row[d].claims <= MaxAttempts * (row[d].replays + 1)
    /\ \A w \in Worker :
          worker[w].phase = "authorised" => worker[w].claim \notin posts[worker[w].delivery]

\* Whoever may settle a delivery settles the claim that the row counts, for an
\* endpoint that is not revoked: partner_delivery_attempt_fence never refuses a
\* settlement, and a stale completion never counts attempts back.
HolderIsCurrent ==
    \A w \in Worker : \A d \in Delivery :
        worker[w].delivery = d /\ Holds(w, d) =>
            /\ worker[w].attempt = row[d].attempts
            /\ worker[w].claim = row[d].claims
            /\ Live(d)

\* What every action preserves.  A turn has a claim of its own, which nobody
\* else can POST; the counters of a row never exceed what its replays granted.
RowsAgree ==
    \A d \in Delivery :
        /\ row[d].attempts <= MaxAttempts
        /\ row[d].claims <= MaxAttempts * row[d].replays + row[d].attempts
        /\ posts[d] \subseteq 1..row[d].claims
        /\ row[d].status = "RUNNING" => Live(d)
        /\ row[d].status = "CANCELLED" => ~Live(d)
        /\ row[d].status = "DELIVERED" => d \in accepted

TurnsAgree ==
    \A w \in Worker :
        LET t == worker[w] IN
        /\ t.phase = "idle" => t.delivery = None
        /\ t.phase # "idle" => /\ t.delivery \in Delivery
                               /\ t.claim \in 1..row[t.delivery].claims
                               /\ t.attempt \in 1..MaxAttempts
        /\ t.phase \in {"claimed", "authorised"} => t.claim \notin posts[t.delivery]
        /\ t.phase = "answered" => t.result # "NONE"
        /\ t.result = "DELIVERED" => t.delivery \in accepted

TurnsApart ==
    \A v, w \in Worker :
        v # w /\ worker[v].phase # "idle" /\ worker[w].phase # "idle"
              /\ worker[v].delivery = worker[w].delivery
            => worker[v].claim # worker[w].claim

HolderCounts ==
    \A w \in Worker : \A d \in Delivery :
        worker[w].delivery = d /\ Holds(w, d) =>
            worker[w].attempt = row[d].attempts /\ worker[w].claim = row[d].claims

PartnerInductive == TypeOK /\ RowsAgree /\ TurnsAgree /\ TurnsApart /\ HolderCounts

---------------------------------------------------------------------------
(* The queue keeps the WebhookPromise.                                     *)

Said(d) ==
    CASE row[d].status \in {"NEW", "OPEN"} -> "absent"
      [] row[d].status = "PENDING"   -> "waiting"
      [] row[d].status = "RUNNING"   -> "sending"
      [] row[d].status = "DELIVERED" -> "delivered"
      [] row[d].status = "FAILED"    -> "failed"
      [] row[d].status = "CANCELLED" -> "cancelled"
      [] OTHER -> "gone"

Promise == INSTANCE WebhookPromise
           WITH Attempts <- MaxAttempts,
                said     <- [d \in Delivery |-> Said(d)],
                cycles   <- [d \in Delivery |-> row[d].replays],
                posted   <- [d \in Delivery |-> Cardinality(posts[d])],
                acked    <- accepted,
                revoked  <- {p \in Endpoint : endpoint[p] = "REVOKED"}

\* No crash, stall, late answer, revocation, replay or suspension makes the
\* queue say of a delivery what is not so, drop it, or POST it more often than
\* its cycles allow ("Retry up to ten total claims").
KeepsWebhookPromise == Promise!Spec

---------------------------------------------------------------------------
(* Liveness.  The worker scans in a loop, its POST and its transactions    *)
(* have deadlines, ORDER BY available_at lets every delivery become the    *)
(* oldest one, leases and backoffs end with time.                          *)

Fairness ==
    /\ \A w \in Worker : WF_vars(TurnStep(w))
    /\ \A d \in Delivery : /\ SF_vars(\E w \in Worker : Claim(w, d))
                           /\ WF_vars(~Attended(d) /\ LeaseElapses(d))
                           /\ WF_vars(BackoffElapses(d))
    /\ WF_vars(Sweep)
    /\ WF_vars(Publish)

FairSpec == Spec /\ Fairness

\* Every delivery of a tenant that is not suspended ends, also one that fanned
\* out late to a revoked endpoint or whose workers died with the last attempt.
DeliveryEnds ==
    <>[]active =>
        \A d \in Delivery : Queued(row[d]) ~> ~Queued(row[d])

===========================================================================
