---------------------- MODULE PartnerDeliveriesProofs ----------------------
(***************************************************************************)
(* Theorems about PartnerDeliveries for every set of deliveries and        *)
(* workers and every number of attempts, replays and disturbances.         *)
(***************************************************************************)
EXTENDS PartnerDeliveries, FiniteSetTheorems, TLAPS

---------------------------------------------------------------------------
(* Rows and turns.                                                         *)

LEMMA Values ==
    /\ NoRow \in Row
    /\ Idle \in Turn
    /\ \A r \in Row, s \in Statuses : Put(r, s) \in Row
<1>1. NoRow \in Row
  BY DEF NoRow, Row, Statuses
<1>2. Idle \in Turn
  BY DEF Idle, Turn
<1>3. ASSUME NEW r \in Row, NEW s \in Statuses PROVE Put(r, s) \in Row
  BY DEF Put, Row
<1> QED
  BY <1>1, <1>2, <1>3

\* A row that is closed by maintenance, or left alone.
Closed(d, r) ==
    \/ r = row[d]
    \/ r = Put(row[d], "CANCELLED") /\ Queued(row[d]) /\ ~Live(d)
    \/ r = Put(row[d], "FAILED") /\ row[d].status = "RUNNING"
    \/ r = Put(row[d], "GONE") /\ row[d].status # "NEW" /\ EventOf[d] \in old

LEMMA PutTwice ==
    ASSUME NEW r \in Row, NEW s, NEW t
    PROVE  Put(Put(r, s), t) = Put(r, t)
BY DEF Put, Row

LEMMA MaintenanceCloses ==
    ASSUME TypeOK, NEW d \in Delivery
    PROVE  Closed(d, Maintained(d)) /\ Closed(d, Swept(d))
<1>1. row[d] \in Row
  BY DEF TypeOK
<1>2. Canceled(d) = row[d] \/ (Canceled(d) = Put(row[d], "CANCELLED") /\ Queued(row[d]) /\ ~Live(d))
  BY DEF Canceled
<1>3. Closed(d, Maintained(d))
  BY <1>2 DEF Closed, Maintained, Prunable
<1>4. CASE Exhausted(Maintained(d))
  <2>1. Maintained(d) = row[d]
    BY <1>1, <1>3, <1>4 DEF Closed, Exhausted, Put, Row
  <2> QED
    BY <1>3, <1>4, <2>1 DEF Closed, Swept, Exhausted
<1>5. CASE ~Exhausted(Maintained(d))
  BY <1>3, <1>5 DEF Swept
<1> QED
  BY <1>3, <1>4, <1>5

\* What closing a row leaves alone.
Quiet(d, r) ==
    /\ r \in Row
    /\ r.attempts = row[d].attempts
    /\ r.claims = row[d].claims
    /\ r.replays = row[d].replays
    /\ r.holder \in {row[d].holder, None}
    /\ r.status = "RUNNING" => row[d].status = "RUNNING"
    /\ r.status = "DELIVERED" => row[d].status = "DELIVERED"
    /\ r.status = "RUNNING" /\ ~r.lapsed => ~row[d].lapsed

LEMMA PutIsQuiet ==
    ASSUME TypeOK, NEW d \in Delivery, NEW s \in Statuses \ {"RUNNING", "DELIVERED"}
    PROVE  Quiet(d, Put(row[d], s)) /\ Put(row[d], s).status = s
<1>1. row[d] \in Row
  BY DEF TypeOK
<1>2. Put(row[d], s) \in Row
  BY <1>1, Values
<1> QED
  BY <1>1, <1>2 DEF Quiet, Put, Row

LEMMA ClosingIsQuiet ==
    ASSUME TypeOK, NEW d \in Delivery, NEW r, Closed(d, r)
    PROVE  /\ Quiet(d, r)
           /\ r.status = "CANCELLED" => row[d].status = "CANCELLED" \/ ~Live(d)
           /\ row[d].status \in {"DELIVERED", "CANCELLED", "GONE", "FAILED"} =>
                 r.status \in {row[d].status, "GONE"}
<1>1. row[d] \in Row
  BY DEF TypeOK
<1>2. CASE r = row[d]
  BY <1>1, <1>2 DEF Quiet
<1>3. CASE r = Put(row[d], "CANCELLED") /\ Queued(row[d]) /\ ~Live(d)
  BY <1>3, PutIsQuiet DEF Queued, Statuses
<1>4. CASE r = Put(row[d], "FAILED") /\ row[d].status = "RUNNING"
  BY <1>4, PutIsQuiet DEF Statuses
<1>5. CASE r = Put(row[d], "GONE")
  BY <1>5, PutIsQuiet DEF Statuses
<1> QED
  BY <1>2, <1>3, <1>4, <1>5 DEF Closed

---------------------------------------------------------------------------
(* Steps that only close rows, and steps that only end a turn.             *)

LEMMA QuietStep ==
    ASSUME PartnerInductive, TypeOK',
           UNCHANGED <<worker, posts, accepted>>,
           \A d \in Delivery : /\ Quiet(d, row'[d])
                               /\ row'[d].status = "RUNNING" => Live(d)'
                               /\ row'[d].status = "CANCELLED" => ~Live(d)'
    PROVE  PartnerInductive'
<1>1. RowsAgree'
  BY DEF PartnerInductive, RowsAgree, Quiet
<1>2. TurnsAgree'
  BY DEF PartnerInductive, TurnsAgree, Quiet
<1>3. TurnsApart'
  BY DEF PartnerInductive, TurnsApart
<1>4. HolderCounts'
  <2> SUFFICES ASSUME NEW w \in Worker, NEW d \in Delivery,
                      worker[w].delivery = d, Holds(w, d)'
               PROVE  worker[w].attempt = row'[d].attempts /\ worker[w].claim = row'[d].claims
    BY DEF HolderCounts
  <2>1. Holds(w, d)
    BY NobodyAssumption DEF Holds, Quiet
  <2> QED
    BY <2>1 DEF PartnerInductive, HolderCounts, Quiet
<1> QED
  BY <1>1, <1>2, <1>3, <1>4 DEF PartnerInductive

LEMMA TurnEnds ==
    ASSUME PartnerInductive, NEW w \in Worker,
           worker' = [worker EXCEPT ![w] = Idle], faults' \in 0..MaxFaults,
           UNCHANGED <<row, endpoint, active, old, posts, accepted>>
    PROVE  PartnerInductive'
<1>1. worker \in [Worker -> Turn]
  BY DEF PartnerInductive, TypeOK
<1>2. \A v \in Worker : worker'[v] = IF v = w THEN Idle ELSE worker[v]
  BY <1>1
<1>3. TypeOK'
  BY <1>1, Values DEF PartnerInductive, TypeOK
<1>4. RowsAgree'
  BY DEF PartnerInductive, RowsAgree, Live
<1>5. TurnsAgree'
  BY <1>2 DEF PartnerInductive, TurnsAgree, Idle
<1>6. TurnsApart'
  BY <1>2 DEF PartnerInductive, TurnsApart, Idle
<1>7. HolderCounts'
  BY <1>2, NobodyAssumption DEF PartnerInductive, HolderCounts, Holds, Idle
<1> QED
  BY <1>3, <1>4, <1>5, <1>6, <1>7 DEF PartnerInductive

\* A step of a turn that neither starts nor ends it: only the rest of the
\* premises says what it may do with the history.
LEMMA TurnGoesOn ==
    ASSUME PartnerInductive, NEW w \in Worker, NEW t \in Turn,
           worker' = [worker EXCEPT ![w] = t], UNCHANGED <<row, endpoint, active, old, faults>>,
           worker[w].phase # "idle", t.phase # "idle",
           t.delivery = worker[w].delivery, t.claim = worker[w].claim,
           t.attempt = worker[w].attempt,
           \A d \in Delivery : \/ posts'[d] = posts[d]
                               \/ /\ d = t.delivery
                                  /\ posts'[d] = posts[d] \cup {t.claim},
           posts' \in [Delivery -> SUBSET Nat],
           accepted \subseteq accepted', accepted' \subseteq Delivery,
           t.phase \in {"claimed", "authorised"} => t.claim \notin posts'[t.delivery],
           t.phase = "answered" => t.result # "NONE",
           t.result = "DELIVERED" => t.delivery \in accepted'
    PROVE  PartnerInductive'
<1>1. worker \in [Worker -> Turn]
  BY DEF PartnerInductive, TypeOK
<1>2. \A v \in Worker : worker'[v] = IF v = w THEN t ELSE worker[v]
  BY <1>1
<1>3. TypeOK'
  BY <1>1 DEF PartnerInductive, TypeOK
<1>4. /\ t.delivery \in Delivery
      /\ t.claim \in 1..row[t.delivery].claims
      /\ t.attempt \in 1..MaxAttempts
  BY DEF PartnerInductive, TurnsAgree
<1>5. RowsAgree'
  BY <1>4 DEF PartnerInductive, RowsAgree, Live
<1>6. TurnsAgree'
  <2> SUFFICES ASSUME NEW v \in Worker
               PROVE  LET u == worker'[v] IN
                      /\ u.phase = "idle" => u.delivery = None
                      /\ u.phase # "idle" => /\ u.delivery \in Delivery
                                             /\ u.claim \in 1..row[u.delivery].claims
                                             /\ u.attempt \in 1..MaxAttempts
                      /\ u.phase \in {"claimed", "authorised"} =>
                            u.claim \notin posts'[u.delivery]
                      /\ u.phase = "answered" => u.result # "NONE"
                      /\ u.result = "DELIVERED" => u.delivery \in accepted'
    BY DEF TurnsAgree
  <2>1. CASE v = w
    BY <1>2, <1>4, <2>1
  <2>2. CASE v # w
    <3>1. worker'[v] = worker[v]
      BY <1>2, <2>2
    <3>2. worker[v].phase # "idle" /\ worker[v].delivery = t.delivery =>
             worker[v].claim # t.claim
      BY <2>2 DEF PartnerInductive, TurnsApart
    <3>3. worker[v].phase \in {"claimed", "authorised"} =>
             worker[v].claim \notin posts'[worker[v].delivery]
      BY <3>2 DEF PartnerInductive, TurnsAgree
    <3> QED
      BY <3>1, <3>3 DEF PartnerInductive, TurnsAgree
  <2> QED
    BY <2>1, <2>2
<1>7. TurnsApart'
  BY <1>2 DEF PartnerInductive, TurnsApart
<1>8. HolderCounts'
  BY <1>2 DEF PartnerInductive, HolderCounts, Holds
<1> QED
  BY <1>3, <1>5, <1>6, <1>7, <1>8 DEF PartnerInductive

---------------------------------------------------------------------------
(* Every action preserves the invariant.                                   *)

LEMMA InvInit == Init => PartnerInductive
<1> SUFFICES ASSUME Init PROVE PartnerInductive
  OBVIOUS
<1>1. TypeOK
  BY Values, LimitAssumption DEF Init, TypeOK
<1>2. RowsAgree
  BY LimitAssumption DEF Init, RowsAgree, NoRow
<1>3. TurnsAgree /\ TurnsApart
  BY DEF Init, TurnsAgree, TurnsApart, Idle
<1>4. HolderCounts
  BY DEF Init, HolderCounts, Holds, NoRow
<1> QED
  BY <1>1, <1>2, <1>3, <1>4 DEF PartnerInductive

LEMMA CaptureInv ==
    ASSUME PartnerInductive, NEW e \in Event, Capture(e) PROVE PartnerInductive'
<1>1. row \in [Delivery -> Row]
  BY DEF PartnerInductive, TypeOK
<1>2. \A d \in Delivery : row'[d] = IF EventOf[d] = e /\ Live(d)
                                    THEN [row[d] EXCEPT !.status = "OPEN"] ELSE row[d]
  BY DEF Capture
<1>3. \A d \in Delivery : Quiet(d, row'[d])
  BY <1>1, <1>2 DEF Quiet, Row, Statuses
<1>4. TypeOK'
  BY <1>3 DEF PartnerInductive, TypeOK, Capture, Quiet
<1>5. \A d \in Delivery : row'[d].status \in {row[d].status, "OPEN"} /\ Live(d)' = Live(d)
  BY <1>1, <1>2 DEF Row, Live, Capture
<1>6. \A d \in Delivery : /\ row'[d].status = "RUNNING" => Live(d)'
                          /\ row'[d].status = "CANCELLED" => ~Live(d)'
  BY <1>5 DEF PartnerInductive, RowsAgree
<1> QED
  BY <1>3, <1>4, <1>6, QuietStep DEF Capture

LEMMA CommitSourceInv ==
    ASSUME PartnerInductive, NEW e \in Event, CommitSource(e) PROVE PartnerInductive'
<1>1. row \in [Delivery -> Row]
  BY DEF PartnerInductive, TypeOK
<1>2. \A d \in Delivery : row'[d] = IF EventOf[d] = e /\ row[d].status = "OPEN"
                                    THEN [row[d] EXCEPT !.status = "PENDING", !.due = TRUE]
                                    ELSE row[d]
  BY DEF CommitSource
<1>3. ASSUME NEW d \in Delivery PROVE Quiet(d, row'[d])
  <2>1. PICK r \in Row : r = row[d]
    BY <1>1
  <2>2. [r EXCEPT !.status = "PENDING", !.due = TRUE] \in Row
    BY DEF Row, Statuses
  <2>3. CASE row'[d] = row[d]
    BY <2>1, <2>3 DEF Quiet
  <2>4. CASE row'[d] = [r EXCEPT !.status = "PENDING", !.due = TRUE]
    BY <2>1, <2>2, <2>4 DEF Quiet, Row
  <2> QED
    BY <1>2, <2>1, <2>3, <2>4
<1>4. TypeOK'
  BY <1>3 DEF PartnerInductive, TypeOK, CommitSource, Quiet
<1>5. \A d \in Delivery : row'[d].status \in {row[d].status, "PENDING"} /\ Live(d)' = Live(d)
  BY <1>1, <1>2 DEF Row, Live, CommitSource
<1>6. \A d \in Delivery : /\ row'[d].status = "RUNNING" => Live(d)'
                          /\ row'[d].status = "CANCELLED" => ~Live(d)'
  BY <1>5 DEF PartnerInductive, RowsAgree
<1> QED
  BY <1>3, <1>4, <1>6, QuietStep DEF CommitSource

\* A revocation cancels every row that would need the endpoint.
LEMMA RevokeInv ==
    ASSUME PartnerInductive, NEW p \in Endpoint, Revoke(p) PROVE PartnerInductive'
<1>1. row \in [Delivery -> Row] /\ endpoint \in [Endpoint -> {"ACTIVE", "REVOKED"}]
  BY DEF PartnerInductive, TypeOK
<1>2. \A d \in Delivery : row'[d] = IF EndpointOf[d] = p /\ Queued(row[d])
                                    THEN Put(row[d], "CANCELLED") ELSE row[d]
  BY DEF Revoke
<1>3. \A d \in Delivery : Quiet(d, row'[d])
  <2> SUFFICES ASSUME NEW d \in Delivery PROVE Quiet(d, row'[d])
    OBVIOUS
  <2>1. Quiet(d, row[d])
    BY <1>1 DEF Quiet
  <2> QED
    BY <1>2, <2>1, PutIsQuiet DEF PartnerInductive, Statuses
<1>4. row' \in [Delivery -> Row] /\ endpoint' \in [Endpoint -> {"ACTIVE", "REVOKED"}]
  BY <1>1, <1>3 DEF Revoke, Quiet
<1>5. faults' \in 0..MaxFaults
  BY LimitAssumption DEF PartnerInductive, TypeOK, Revoke, Disturb
<1>6. TypeOK'
  BY <1>4, <1>5 DEF PartnerInductive, TypeOK, Revoke
<1>7. \A d \in Delivery : Live(d)' <=> Live(d) /\ EndpointOf[d] # p
  BY <1>1, DeliveryAssumption DEF Live, Revoke
<1>8. ASSUME NEW d \in Delivery
      PROVE  /\ row'[d].status = "RUNNING" => Live(d)'
             /\ row'[d].status = "CANCELLED" => ~Live(d)'
  <2>1. CASE EndpointOf[d] = p /\ Queued(row[d])
    <3>1. row'[d].status = "CANCELLED"
      BY <1>2, <2>1, PutIsQuiet DEF PartnerInductive, Statuses
    <3> QED
      BY <1>7, <2>1, <3>1
  <2>2. CASE ~(EndpointOf[d] = p /\ Queued(row[d]))
    BY <1>2, <1>7, <2>2 DEF PartnerInductive, RowsAgree, Queued
  <2> QED
    BY <2>1, <2>2
<1> QED
  BY <1>3, <1>6, <1>8, QuietStep DEF Revoke

LEMMA MaintenanceInv ==
    ASSUME PartnerInductive, Publish \/ Sweep PROVE PartnerInductive'
<1>1. ASSUME NEW d \in Delivery
      PROVE  Closed(d, row'[d])
  BY MaintenanceCloses DEF PartnerInductive, Publish, Sweep
<1>2. \A d \in Delivery : /\ Quiet(d, row'[d])
                          /\ row'[d].status = "CANCELLED" =>
                                row[d].status = "CANCELLED" \/ ~Live(d)
  BY <1>1, ClosingIsQuiet DEF PartnerInductive
<1>3. row' \in [Delivery -> Row]
  BY <1>2 DEF Publish, Sweep, Quiet
<1>4. TypeOK'
  BY <1>3 DEF PartnerInductive, TypeOK, Publish, Sweep
<1>5. \A d \in Delivery : Live(d)' = Live(d)
  BY DEF Live, Publish, Sweep
<1>6. \A d \in Delivery : /\ row'[d].status = "RUNNING" => Live(d)'
                          /\ row'[d].status = "CANCELLED" => ~Live(d)'
  BY <1>2, <1>5 DEF PartnerInductive, RowsAgree, Quiet
<1> QED
  BY <1>2, <1>4, <1>6, QuietStep DEF Publish, Sweep

LEMMA TimeInv ==
    ASSUME PartnerInductive, NEW d \in Delivery, LeaseElapses(d) \/ BackoffElapses(d)
    PROVE  PartnerInductive'
<1>1. row \in [Delivery -> Row]
  BY DEF PartnerInductive, TypeOK
<1>2. \/ row' = [row EXCEPT ![d].lapsed = TRUE]
      \/ row' = [row EXCEPT ![d].due = TRUE]
  BY DEF LeaseElapses, BackoffElapses
<1>3. row' \in [Delivery -> Row]
  <2>1. \A r \in Row : [r EXCEPT !.lapsed = TRUE] \in Row /\ [r EXCEPT !.due = TRUE] \in Row
    BY DEF Row
  <2> QED
    BY <1>1, <1>2, <2>1
<1>4. \A k \in Delivery :
         \/ row'[k] = row[k]
         \/ row'[k] = [row[k] EXCEPT !.lapsed = TRUE]
         \/ row'[k] = [row[k] EXCEPT !.due = TRUE]
  BY <1>1, <1>2
<1>5. \A k \in Delivery : Quiet(k, row'[k]) /\ row'[k].status = row[k].status
  BY <1>1, <1>3, <1>4 DEF Quiet, Row
<1>6. Disturb \/ faults' = faults
  BY DEF LeaseElapses, BackoffElapses
<1>7. faults' \in 0..MaxFaults
  BY <1>6, LimitAssumption DEF PartnerInductive, TypeOK, Disturb
<1>8. TypeOK'
  BY <1>3, <1>7 DEF PartnerInductive, TypeOK, LeaseElapses, BackoffElapses
<1>9. \A k \in Delivery : Live(k)' = Live(k)
  BY DEF Live, LeaseElapses, BackoffElapses
<1>10. \A k \in Delivery : /\ row'[k].status = "RUNNING" => Live(k)'
                           /\ row'[k].status = "CANCELLED" => ~Live(k)'
  BY <1>5, <1>9 DEF PartnerInductive, RowsAgree
<1> QED
  BY <1>5, <1>8, <1>10, QuietStep DEF LeaseElapses, BackoffElapses

LEMMA TenantInv ==
    ASSUME PartnerInductive, Suspend \/ Reactivate \/ \E e \in Event : Age(e)
    PROVE  PartnerInductive'
<1>1. UNCHANGED <<row, endpoint, worker, posts, accepted>>
  BY DEF Suspend, Reactivate, Age
<1>2. active' \in BOOLEAN /\ old' \subseteq Event
  BY DEF PartnerInductive, TypeOK, Suspend, Reactivate, Age
<1>3. faults' \in 0..MaxFaults
  BY LimitAssumption DEF PartnerInductive, TypeOK, Suspend, Reactivate, Age, Disturb
<1>4. TypeOK'
  BY <1>1, <1>2, <1>3 DEF PartnerInductive, TypeOK
<1>5. \A d \in Delivery : /\ Quiet(d, row'[d])
                          /\ row'[d].status = "RUNNING" => Live(d)'
                          /\ row'[d].status = "CANCELLED" => ~Live(d)'
  BY <1>1 DEF PartnerInductive, TypeOK, RowsAgree, Quiet, Live
<1> QED
  BY <1>1, <1>4, <1>5, QuietStep

\* A replay grants MaxAttempts more claims and starts counting again.
LEMMA ReplayInv ==
    ASSUME PartnerInductive, NEW d \in Delivery, Replay(d) PROVE PartnerInductive'
<1> DEFINE new == [Put(row[d], "PENDING") EXCEPT !.attempts = 0, !.due = TRUE,
                                                 !.replays = row[d].replays + 1]
<1>1. row \in [Delivery -> Row] /\ row[d] \in Row
  BY DEF PartnerInductive, TypeOK
<1>2. row' = [row EXCEPT ![d] = new]
  BY DEF Replay
<1>3. /\ new \in Row /\ new.status = "PENDING" /\ new.attempts = 0 /\ new.holder = None
      /\ new.replays = row[d].replays + 1 /\ new.claims = row[d].claims
  <2> DEFINE base == Put(row[d], "PENDING")
  <2>1. /\ base \in Row /\ base.status = "PENDING" /\ base.holder = None
        /\ base.replays = row[d].replays /\ base.claims = row[d].claims
    BY <1>1, PutIsQuiet DEF PartnerInductive, Quiet, Put, Row, Statuses
  <2>2. base.replays + 1 \in Nat
    BY <2>1 DEF Row
  <2> QED
    BY <2>1, <2>2 DEF Row
<1>4. \A k \in Delivery : row'[k] = IF k = d THEN new ELSE row[k]
  BY <1>1, <1>2
<1> HIDE DEF new
<1>5. TypeOK'
  BY <1>1, <1>2, <1>3 DEF PartnerInductive, TypeOK, Replay
<1>6. RowsAgree'
  <2> SUFFICES ASSUME NEW k \in Delivery
               PROVE  /\ row'[k].attempts <= MaxAttempts
                      /\ row'[k].claims <= MaxAttempts * row'[k].replays + row'[k].attempts
                      /\ posts[k] \subseteq 1..row'[k].claims
                      /\ row'[k].status = "RUNNING" => Live(k)
                      /\ row'[k].status = "CANCELLED" => ~Live(k)
                      /\ row'[k].status = "DELIVERED" => k \in accepted
    BY DEF RowsAgree, Replay, Live
  <2>1. CASE k # d
    BY <1>4, <2>1 DEF PartnerInductive, RowsAgree
  <2>2. CASE k = d
    <3>1. /\ row[d].claims <= MaxAttempts * row[d].replays + row[d].attempts
          /\ row[d].attempts <= MaxAttempts
          /\ posts[d] \subseteq 1..row[d].claims
      BY DEF PartnerInductive, RowsAgree
    <3>2. /\ row[d].claims \in Nat /\ row[d].replays \in Nat
          /\ row[d].attempts \in Nat /\ MaxAttempts \in Nat
      BY <1>1, LimitAssumption DEF Row
    <3>3. MaxAttempts * (row[d].replays + 1) = MaxAttempts * row[d].replays + MaxAttempts
      BY <3>2
    <3>4. row[d].claims <= MaxAttempts * (row[d].replays + 1) + 0
      BY <3>1, <3>2, <3>3
    <3> QED
      BY <1>3, <1>4, <2>2, <3>1, <3>2, <3>4
  <2> QED
    BY <2>1, <2>2
<1>7. TurnsAgree'
  <2>1. \A k \in Delivery : row'[k].claims = row[k].claims
    BY <1>3, <1>4
  <2>2. UNCHANGED <<worker, posts, accepted>>
    BY DEF Replay
  <2> HIDE DEF Replay
  <2> QED
    BY <2>1, <2>2 DEF PartnerInductive, TurnsAgree
<1>8. TurnsApart'
  BY DEF PartnerInductive, TurnsApart, Replay
<1>9. HolderCounts'
  <2>1. \A k \in Delivery, w \in Worker : Holds(w, k)' => k # d /\ Holds(w, k)
    BY <1>3, <1>4 DEF Holds
  <2> QED
    BY <1>4, <2>1 DEF PartnerInductive, HolderCounts, Replay
<1> QED
  BY <1>5, <1>6, <1>7, <1>8, <1>9 DEF PartnerInductive

\* A claim takes a number that no turn has and that was never POSTed.
LEMMA ClaimInv ==
    ASSUME PartnerInductive, NEW w \in Worker, NEW d \in Delivery, Claim(w, d)
    PROVE  PartnerInductive'
<1> DEFINE new == [Put(Swept(d), "RUNNING") EXCEPT !.holder = w, !.attempts = Swept(d).attempts + 1,
                                                   !.claims = Swept(d).claims + 1]
           turn == [Idle EXCEPT !.phase = "claimed", !.delivery = d,
                                !.attempt = row[d].attempts + 1, !.claim = row[d].claims + 1]
<1>1. row \in [Delivery -> Row] /\ row[d] \in Row /\ worker \in [Worker -> Turn]
  BY DEF PartnerInductive, TypeOK
<1>2. \A k \in Delivery : Quiet(k, Swept(k)) /\ Closed(k, Swept(k))
  BY MaintenanceCloses, ClosingIsQuiet DEF PartnerInductive
<1>3. /\ new \in Row /\ new.status = "RUNNING" /\ new.holder = w
      /\ new.attempts = row[d].attempts + 1 /\ new.claims = row[d].claims + 1
      /\ new.replays = row[d].replays
  <2> DEFINE base == Put(Swept(d), "RUNNING")
  <2>1. Swept(d) \in Row /\ "RUNNING" \in Statuses
    BY <1>2 DEF Quiet, Statuses
  <2>2. base \in Row
    BY <2>1, Values
  <2>3. /\ base.status = "RUNNING"
        /\ base.replays = row[d].replays
    BY <1>2, <2>1 DEF Put, Quiet, Row
  <2>4. /\ Swept(d).attempts = row[d].attempts /\ Swept(d).attempts + 1 \in Nat
        /\ Swept(d).claims = row[d].claims /\ Swept(d).claims + 1 \in Nat
    BY <1>2, <2>1 DEF Quiet, Row
  <2> QED
    BY <2>2, <2>3, <2>4 DEF Row
<1>4. /\ turn \in Turn /\ turn.phase = "claimed" /\ turn.delivery = d
      /\ turn.attempt = row[d].attempts + 1 /\ turn.claim = row[d].claims + 1
      /\ turn.result = "NONE"
  <2>1. row[d].attempts + 1 \in Nat /\ row[d].claims + 1 \in Nat
    BY <1>1 DEF Row
  <2> QED
    BY <2>1 DEF Turn, Idle
<1>5. \A k \in Delivery : row'[k] = IF k = d THEN new ELSE Swept(k)
  BY DEF Claim, Put
<1>6. \A v \in Worker : worker'[v] = IF v = w THEN turn ELSE worker[v]
  BY <1>1 DEF Claim
<1>7. worker[w].phase = "idle" /\ Live(d) /\ row[d].attempts < MaxAttempts
  BY <1>2 DEF Claim, Claimable, Idle, Quiet
<1>8. \A k \in Delivery : Swept(k).status = "CANCELLED" => ~Live(k)
  BY <1>2, ClosingIsQuiet DEF PartnerInductive, RowsAgree
<1>9. row' \in [Delivery -> Row] /\ worker' \in [Worker -> Turn]
  <2>1. \A k \in Delivery : row'[k] \in Row
    BY <1>2, <1>3, <1>5 DEF Quiet
  <2>2. row' \in [Delivery -> Row]
    BY <2>1 DEF Claim
  <2>3. worker' = [worker EXCEPT ![w] = turn]
    BY DEF Claim
  <2> QED
    BY <1>1, <1>4, <2>2, <2>3
<1> HIDE DEF new, turn
<1>10. TypeOK'
  BY <1>9 DEF PartnerInductive, TypeOK, Claim
<1>11. RowsAgree'
  <2> SUFFICES ASSUME NEW k \in Delivery
               PROVE  /\ row'[k].attempts <= MaxAttempts
                      /\ row'[k].claims <= MaxAttempts * row'[k].replays + row'[k].attempts
                      /\ posts[k] \subseteq 1..row'[k].claims
                      /\ row'[k].status = "RUNNING" => Live(k)
                      /\ row'[k].status = "CANCELLED" => ~Live(k)
                      /\ row'[k].status = "DELIVERED" => k \in accepted
    BY DEF RowsAgree, Claim, Live
  <2>1. CASE k # d
    BY <1>2, <1>5, <1>8, <2>1 DEF PartnerInductive, RowsAgree, Quiet
  <2>2. CASE k = d
    <3>1. /\ row[d].claims <= MaxAttempts * row[d].replays + row[d].attempts
          /\ posts[d] \subseteq 1..row[d].claims
      BY DEF PartnerInductive, RowsAgree
    <3>2. /\ row[d].claims \in Nat /\ row[d].attempts \in Nat /\ MaxAttempts \in Nat
          /\ row[d].replays \in Nat
      BY <1>1, LimitAssumption DEF Row
    <3>3. row'[d] = new
      BY <1>5
    <3>4. row[d].attempts + 1 <= MaxAttempts /\ posts[d] \subseteq 1..(row[d].claims + 1)
      BY <1>7, <3>1, <3>2
    <3>5. MaxAttempts * row[d].replays \in Nat
      BY <3>2
    <3>6. row[d].claims + 1 <= MaxAttempts * row[d].replays + (row[d].attempts + 1)
      BY <3>1, <3>2, <3>5
    <3> QED
      BY <1>3, <1>7, <2>2, <3>3, <3>4, <3>6
  <2> QED
    BY <2>1, <2>2
<1>12. \A k \in Delivery : row[k].claims \in Nat /\ row'[k].claims \in Nat
                           /\ row[k].claims <= row'[k].claims
  <2>1. \A k \in Delivery : row[k].claims \in Nat /\ row'[k].claims \in Nat
    BY <1>1, <1>9 DEF Row
  <2> QED
    BY <1>2, <1>3, <1>5, <2>1 DEF Quiet
<1>13. TurnsAgree'
  <2> SUFFICES ASSUME NEW v \in Worker
               PROVE  LET u == worker'[v] IN
                      /\ u.phase = "idle" => u.delivery = None
                      /\ u.phase # "idle" => /\ u.delivery \in Delivery
                                             /\ u.claim \in 1..row'[u.delivery].claims
                                             /\ u.attempt \in 1..MaxAttempts
                      /\ u.phase \in {"claimed", "authorised"} =>
                            u.claim \notin posts[u.delivery]
                      /\ u.phase = "answered" => u.result # "NONE"
                      /\ u.result = "DELIVERED" => u.delivery \in accepted
    BY DEF TurnsAgree, Claim
  <2>1. CASE v # w
    <3>1. worker'[v] = worker[v]
      BY <1>6, <2>1
    <3> QED
      BY <1>12, <3>1 DEF PartnerInductive, TurnsAgree
  <2>2. CASE v = w
    <3>1. worker'[v] = turn
      BY <1>6, <2>2
    <3>2. posts[d] \subseteq 1..row[d].claims /\ row[d].claims \in Nat /\ row[d].attempts \in Nat
      BY <1>1 DEF PartnerInductive, RowsAgree, Row
    <3>3. row[d].claims + 1 \notin posts[d]
      BY <3>2
    <3>4. turn.attempt \in 1..MaxAttempts /\ turn.claim \in 1..row'[d].claims
      BY <1>3, <1>4, <1>5, <1>7, <3>2, LimitAssumption
    <3> QED
      BY <1>4, <3>1, <3>3, <3>4
  <2> QED
    BY <2>1, <2>2
<1>14. ASSUME NEW v \in Worker, v # w, worker[v].phase # "idle", worker[v].delivery = d
       PROVE  worker[v].claim # turn.claim
  BY <1>1, <1>4, <1>14 DEF PartnerInductive, TurnsAgree, Row
<1>15. TurnsApart'
  BY <1>4, <1>6, <1>14 DEF PartnerInductive, TurnsApart
<1>16. HolderCounts'
  <2> SUFFICES ASSUME NEW v \in Worker, NEW k \in Delivery,
                      worker'[v].delivery = k, Holds(v, k)'
               PROVE  worker'[v].attempt = row'[k].attempts /\ worker'[v].claim = row'[k].claims
    BY DEF HolderCounts
  <2>1. CASE k = d
    <3>1. v = w
      BY <1>3, <1>5, <2>1 DEF Holds
    <3> QED
      BY <1>3, <1>4, <1>5, <1>6, <2>1, <3>1
  <2>2. CASE k # d
    <3>1. v # w /\ worker'[v] = worker[v]
      BY <1>4, <1>6, <2>2
    <3>2. Holds(v, k)
      BY <1>2, <1>5, <2>2, NobodyAssumption DEF Holds, Quiet
    <3> QED
      BY <1>2, <1>5, <2>2, <3>1, <3>2 DEF PartnerInductive, HolderCounts, Quiet
  <2> QED
    BY <2>1, <2>2
<1> QED
  BY <1>10, <1>11, <1>13, <1>15, <1>16 DEF PartnerInductive

\* A turn that is dropped, whatever the reason, leaves nothing behind.
LEMMA TurnEndsInv ==
    ASSUME PartnerInductive, NEW w \in Worker,
           Refused(w) \/ SettleLost(w) \/ ReceiptReused(w) \/ Crash(w)
    PROVE  PartnerInductive'
<1>1. /\ worker' = [worker EXCEPT ![w] = Idle]
      /\ UNCHANGED <<row, endpoint, active, old, posts, accepted>>
      /\ Disturb \/ faults' = faults
  BY DEF Refused, SettleLost, ReceiptReused, Crash
<1>2. faults' \in 0..MaxFaults
  BY <1>1, LimitAssumption DEF PartnerInductive, TypeOK, Disturb
<1> QED
  BY <1>1, <1>2, TurnEnds

LEMMA AuthorizeInv ==
    ASSUME PartnerInductive, NEW w \in Worker, Authorize(w) PROVE PartnerInductive'
<1> DEFINE t == [worker[w] EXCEPT !.phase = "authorised"]
<1>1. worker \in [Worker -> Turn] /\ worker[w] \in Turn /\ worker[w].phase = "claimed"
  BY DEF PartnerInductive, TypeOK, Authorize
<1>2. /\ t \in Turn /\ t.phase = "authorised" /\ t.delivery = worker[w].delivery
      /\ t.claim = worker[w].claim /\ t.attempt = worker[w].attempt
      /\ t.result = worker[w].result
  BY <1>1 DEF Turn
<1>3. worker' = [worker EXCEPT ![w] = t]
  BY <1>1 DEF Authorize
<1>4. /\ t.claim \notin posts[t.delivery]
      /\ t.result = "DELIVERED" => t.delivery \in accepted
  BY <1>1, <1>2 DEF PartnerInductive, TurnsAgree
<1>5. posts \in [Delivery -> SUBSET Nat] /\ accepted \subseteq Delivery
  BY DEF PartnerInductive, TypeOK
<1> HIDE DEF t
<1> QED
  BY <1>1, <1>2, <1>3, <1>4, <1>5, TurnGoesOn DEF Authorize

\* An answer, whether or not it was POSTed for and whoever accepted.
LEMMA AnswerInv ==
    ASSUME PartnerInductive, NEW w \in Worker,
           NotSent(w) \/ PostAccepted(w) \/ PostRefused(w)
    PROVE  PartnerInductive'
<1>1. PICK answer \in Results : /\ Answered(w, answer)
                                /\ answer = "DELIVERED" => worker[w].delivery \in accepted'
  BY DEF NotSent, PostAccepted, PostRefused, Results
<1> DEFINE t == [worker[w] EXCEPT !.phase = "answered", !.result = Verdict(w, answer)]
<1>2. worker \in [Worker -> Turn] /\ worker[w] \in Turn /\ worker[w].phase = "authorised"
  BY DEF PartnerInductive, TypeOK, NotSent, PostAccepted, PostRefused
<1>3. /\ Verdict(w, answer) \in Results
      /\ Verdict(w, answer) = "DELIVERED" => answer = "DELIVERED"
  BY DEF Verdict, Results
<1>4. /\ t \in Turn /\ t.phase = "answered" /\ t.delivery = worker[w].delivery
      /\ t.claim = worker[w].claim /\ t.attempt = worker[w].attempt
      /\ t.result = Verdict(w, answer)
  BY <1>2, <1>3 DEF Turn
<1>5. worker' = [worker EXCEPT ![w] = t]
  BY <1>1, <1>2 DEF Answered
<1>6. /\ worker[w].delivery \in Delivery
      /\ worker[w].claim \in Nat
      /\ posts \in [Delivery -> SUBSET Nat] /\ accepted \subseteq Delivery
  BY <1>2 DEF PartnerInductive, TypeOK, TurnsAgree, Turn
<1>7. /\ posts' = posts \/ Posted(w)
      /\ accepted' = accepted \/ accepted' = accepted \cup {worker[w].delivery}
      /\ UNCHANGED <<row, endpoint, active, old, faults>>
  BY DEF NotSent, PostAccepted, PostRefused
<1>8. /\ posts' \in [Delivery -> SUBSET Nat]
      /\ \A d \in Delivery : \/ posts'[d] = posts[d]
                             \/ /\ d = worker[w].delivery
                                /\ posts'[d] = posts[d] \cup {worker[w].claim}
  BY <1>6, <1>7 DEF Posted
<1>9. accepted \subseteq accepted' /\ accepted' \subseteq Delivery
  BY <1>6, <1>7
<1>10. /\ t.result # "NONE"
       /\ t.result = "DELIVERED" => t.delivery \in accepted'
  BY <1>1, <1>3, <1>4 DEF Results
<1> HIDE DEF t
<1> QED
  BY <1>2, <1>4, <1>5, <1>7, <1>8, <1>9, <1>10, TurnGoesOn

\* Who still holds the lease counted the claim that the row counts.
LEMMA SettleInv ==
    ASSUME PartnerInductive, NEW w \in Worker, Settle(w) PROVE PartnerInductive'
<1> DEFINE d == worker[w].delivery
           new == [Put(row[d], worker[w].result) EXCEPT !.attempts = worker[w].attempt]
<1>1. row \in [Delivery -> Row] /\ worker \in [Worker -> Turn] /\ worker[w] \in Turn
  BY DEF PartnerInductive, TypeOK
<1>2. /\ d \in Delivery
      /\ worker[w].result \in Results
      /\ worker[w].result = "DELIVERED" => d \in accepted
  BY <1>1 DEF PartnerInductive, TurnsAgree, Settle, Turn
<1>3. row[d] \in Row /\ worker[w].attempt = row[d].attempts
  BY <1>1, <1>2 DEF PartnerInductive, HolderCounts, Settle
<1>4. row' = [row EXCEPT ![d] = new]
  BY DEF Settle
<1>5. Put(row[d], worker[w].result) \in Row
  BY <1>2, <1>3, Values DEF Results, Statuses
<1>6. /\ new \in Row /\ new.status = worker[w].result /\ new.holder = None
      /\ new.attempts = row[d].attempts /\ new.claims = row[d].claims
      /\ new.replays = row[d].replays
  BY <1>3, <1>5 DEF Put, Row
<1>7. /\ \A k \in Delivery : row'[k] = IF k = d THEN new ELSE row[k]
      /\ row' \in [Delivery -> Row]
  BY <1>1, <1>2, <1>4, <1>6
<1>8. \A v \in Worker : worker'[v] = IF v = w THEN Idle ELSE worker[v]
  BY <1>1 DEF Settle
<1>9. UNCHANGED <<endpoint, active, old, posts, accepted, faults>>
  BY DEF Settle
<1> HIDE DEF new, d
<1>10. TypeOK'
  BY <1>1, <1>7, Values DEF PartnerInductive, TypeOK, Settle
<1>11. RowsAgree'
  BY <1>2, <1>6, <1>7, <1>9 DEF PartnerInductive, RowsAgree, Live, Results
<1>12. TurnsAgree'
  BY <1>6, <1>7, <1>8, <1>9 DEF PartnerInductive, TurnsAgree, Idle
<1>13. TurnsApart'
  BY <1>8 DEF PartnerInductive, TurnsApart, Idle
<1>14. HolderCounts'
  <2>1. \A k \in Delivery, v \in Worker : Holds(v, k)' => k # d /\ Holds(v, k)
    BY <1>6, <1>7, <1>2 DEF Holds, Results
  <2> QED
    BY <1>7, <1>8, <2>1, NobodyAssumption DEF PartnerInductive, HolderCounts, Idle
<1> QED
  BY <1>10, <1>11, <1>12, <1>13, <1>14 DEF PartnerInductive

LEMMA InvStep == PartnerInductive /\ [Next]_vars => PartnerInductive'
<1> SUFFICES ASSUME PartnerInductive, [Next]_vars PROVE PartnerInductive'
  OBVIOUS
<1>1. ASSUME NEW e \in Event, Capture(e) \/ CommitSource(e) \/ Age(e) PROVE PartnerInductive'
  BY <1>1, CaptureInv, CommitSourceInv, TenantInv
<1>2. ASSUME NEW d \in Delivery, Replay(d) \/ LeaseElapses(d) \/ BackoffElapses(d)
      PROVE  PartnerInductive'
  BY <1>2, ReplayInv, TimeInv
<1>3. ASSUME NEW d \in Delivery, NEW w \in Worker, Claim(w, d) PROVE PartnerInductive'
  BY <1>3, ClaimInv
<1>4. ASSUME NEW p \in Endpoint, Revoke(p) PROVE PartnerInductive'
  BY <1>4, RevokeInv
<1>5. ASSUME NEW w \in Worker, TurnStep(w) \/ Crash(w) PROVE PartnerInductive'
  BY <1>5, AuthorizeInv, AnswerInv, SettleInv, TurnEndsInv DEF TurnStep
<1>6. CASE Publish \/ Sweep
  BY <1>6, MaintenanceInv
<1>7. CASE Suspend \/ Reactivate
  BY <1>7, TenantInv
<1>8. CASE UNCHANGED vars
  BY <1>8 DEF vars, PartnerInductive, TypeOK, RowsAgree, TurnsAgree, TurnsApart, HolderCounts,
              Live, Holds
<1> QED
  BY <1>1, <1>2, <1>3, <1>4, <1>5, <1>6, <1>7, <1>8 DEF Next

---------------------------------------------------------------------------
(* The theorems.                                                           *)

\* The invariant that makes the others hold: whatever workers, maintenance,
\* revocation, replay and time do, rows and turns agree.
THEOREM PartnerInductiveHolds == Spec => []PartnerInductive
BY InvInit, InvStep, PTL DEF Spec

\* Rows, turns and history keep their types.
THEOREM PartnerTypeCorrect == Spec => []TypeOK
<1>1. PartnerInductive => TypeOK
  BY DEF PartnerInductive
<1> QED
  BY <1>1, PartnerInductiveHolds, PTL

\* No claim is POSTed twice, and a delivery is claimed at most MaxAttempts
\* times for each cycle that a replay granted.
THEOREM PostsCounted == Spec => []PostsAreCounted
<1>1. PartnerInductive => PostsAreCounted
  <2> SUFFICES ASSUME PartnerInductive PROVE PostsAreCounted
    OBVIOUS
  <2>1. ASSUME NEW d \in Delivery
        PROVE  posts[d] \subseteq 1..row[d].claims
               /\ row[d].claims <= MaxAttempts * (row[d].replays + 1)
    <3>1. /\ row[d].claims \in Nat /\ row[d].replays \in Nat /\ row[d].attempts \in Nat
          /\ MaxAttempts \in Nat
      BY LimitAssumption DEF PartnerInductive, TypeOK, Row
    <3>2. MaxAttempts * (row[d].replays + 1) = MaxAttempts * row[d].replays + MaxAttempts
      BY <3>1
    <3>3. MaxAttempts * row[d].replays \in Nat
      BY <3>1
    <3>4. /\ row[d].attempts <= MaxAttempts
          /\ row[d].claims <= MaxAttempts * row[d].replays + row[d].attempts
          /\ posts[d] \subseteq 1..row[d].claims
      BY DEF PartnerInductive, RowsAgree
    <3> QED
      BY <3>1, <3>2, <3>3, <3>4
  <2>2. \A w \in Worker :
           worker[w].phase = "authorised" => worker[w].claim \notin posts[worker[w].delivery]
    BY DEF PartnerInductive, TurnsAgree
  <2> QED
    BY <2>1, <2>2 DEF PostsAreCounted
<1> QED
  BY <1>1, PartnerInductiveHolds, PTL

\* The holder of a lease settles the claim its row counts, for a live endpoint.
THEOREM HolderIsRight == Spec => []HolderIsCurrent
<1>1. PartnerInductive => HolderIsCurrent
  BY DEF PartnerInductive, HolderIsCurrent, HolderCounts, RowsAgree, Holds
<1> QED
  BY <1>1, PartnerInductiveHolds, PTL

---------------------------------------------------------------------------
(* The promise: what a step may do to one delivery.                        *)

Uncaptured(e) == \A k \in Delivery : EventOf[k] = e => row[k].status = "NEW"

Reopened(d) == row[d].status = "FAILED" /\ row'[d].status = "PENDING"

RowStep(d) ==
    /\ \/ row'[d].status = row[d].status
       \/ row[d].status = "NEW" /\ row'[d].status = "OPEN" /\ Uncaptured(EventOf[d])
       \/ row[d].status = "OPEN" /\ row'[d].status = "PENDING"
       \/ row[d].status = "PENDING" /\ row'[d].status = "RUNNING" /\ Live(d)
       \/ row[d].status = "RUNNING" /\ row'[d].status \in {"PENDING", "FAILED"}
       \/ row[d].status = "RUNNING" /\ row'[d].status = "DELIVERED" /\ d \in accepted
       \/ Queued(row[d]) /\ row'[d].status = "CANCELLED" /\ endpoint'[EndpointOf[d]] = "REVOKED"
       \/ row[d].status # "NEW" /\ row'[d].status = "GONE" /\ EventOf[d] \in old
       \/ Reopened(d) /\ Live(d)
    /\ row'[d].replays = row[d].replays + (IF Reopened(d) THEN 1 ELSE 0)
    /\ row'[d].claims = row[d].claims \/ row'[d].status = "RUNNING"

LEMMA ClosingSteps ==
    ASSUME PartnerInductive, [Next]_vars, NEW d \in Delivery, Closed(d, row'[d])
    PROVE  RowStep(d)
<1>1. /\ row[d] \in Row
      /\ endpoint' \in [Endpoint -> {"ACTIVE", "REVOKED"}]
      /\ EndpointOf[d] \in Endpoint
  BY InvStep, DeliveryAssumption DEF PartnerInductive, TypeOK
<1>2. /\ row'[d].replays = row[d].replays
      /\ row'[d].claims = row[d].claims
      /\ row[d].replays \in Nat
  BY <1>1, ClosingIsQuiet DEF PartnerInductive, Quiet, Row
<1>3. CASE row'[d] = row[d]
  BY <1>2, <1>3 DEF RowStep, Reopened
<1>4. CASE row'[d] = Put(row[d], "CANCELLED") /\ Queued(row[d])
  <2>1. row'[d].status = "CANCELLED"
    BY <1>1, <1>4 DEF Put, Row
  <2>2. endpoint'[EndpointOf[d]] = "REVOKED"
    BY <1>1, <2>1, InvStep DEF PartnerInductive, RowsAgree, Live
  <2> QED
    BY <1>2, <1>4, <2>1, <2>2 DEF RowStep, Reopened, Queued
<1>5. CASE row'[d] = Put(row[d], "FAILED") /\ row[d].status = "RUNNING"
  <2>1. row'[d].status = "FAILED"
    BY <1>1, <1>5 DEF Put, Row
  <2> QED
    BY <1>2, <1>5, <2>1 DEF RowStep, Reopened
<1>6. CASE row'[d] = Put(row[d], "GONE") /\ row[d].status # "NEW" /\ EventOf[d] \in old
  <2>1. row'[d].status = "GONE"
    BY <1>1, <1>6 DEF Put, Row
  <2> QED
    BY <1>2, <1>6, <2>1 DEF RowStep, Reopened
<1> QED
  BY <1>3, <1>4, <1>5, <1>6 DEF Closed

LEMMA EachRow ==
    ASSUME PartnerInductive, [Next]_vars, NEW d \in Delivery
    PROVE  RowStep(d)
<1>1. /\ row \in [Delivery -> Row] /\ row[d] \in Row
      /\ endpoint \in [Endpoint -> {"ACTIVE", "REVOKED"}]
      /\ EndpointOf[d] \in Endpoint
      /\ row[d].replays \in Nat
  BY DeliveryAssumption DEF PartnerInductive, TypeOK, Row
<1>2. ASSUME row'[d] = row[d] PROVE RowStep(d)
  BY <1>1, <1>2 DEF RowStep, Reopened
<1>3. ASSUME NEW e \in Event, Capture(e) PROVE RowStep(d)
  <2>1. CASE EventOf[d] = e /\ Live(d)
    <3>1. /\ row'[d] = [row[d] EXCEPT !.status = "OPEN"]
          /\ row[d].status = "NEW" /\ Uncaptured(e)
      BY <1>3, <2>1 DEF Capture, Uncaptured
    <3>2. /\ row'[d].status = "OPEN" /\ row'[d].replays = row[d].replays
          /\ row'[d].claims = row[d].claims
      BY <1>1, <3>1 DEF Row
    <3> QED
      BY <1>1, <2>1, <3>1, <3>2 DEF RowStep, Reopened
  <2>2. CASE ~(EventOf[d] = e /\ Live(d))
    BY <1>2, <1>3, <2>2 DEF Capture
  <2> QED
    BY <2>1, <2>2
<1>4. ASSUME NEW e \in Event, CommitSource(e) PROVE RowStep(d)
  <2>1. CASE EventOf[d] = e /\ row[d].status = "OPEN"
    <3>1. row'[d] = [row[d] EXCEPT !.status = "PENDING", !.due = TRUE]
      BY <1>4, <2>1 DEF CommitSource
    <3>2. /\ row'[d].status = "PENDING" /\ row'[d].replays = row[d].replays
          /\ row'[d].claims = row[d].claims
      BY <1>1, <3>1 DEF Row
    <3> QED
      BY <1>1, <2>1, <3>2 DEF RowStep, Reopened
  <2>2. CASE ~(EventOf[d] = e /\ row[d].status = "OPEN")
    BY <1>2, <1>4, <2>2 DEF CommitSource
  <2> QED
    BY <2>1, <2>2
<1>5. ASSUME NEW p \in Endpoint, Revoke(p) PROVE RowStep(d)
  <2>1. CASE EndpointOf[d] = p /\ Queued(row[d])
    <3>1. row'[d] = Put(row[d], "CANCELLED") /\ endpoint'[EndpointOf[d]] = "REVOKED"
      BY <1>1, <1>5, <2>1 DEF Revoke
    <3>2. /\ row'[d].status = "CANCELLED" /\ row'[d].replays = row[d].replays
          /\ row'[d].claims = row[d].claims
      BY <1>1, <3>1 DEF Put, Row
    <3> QED
      BY <1>1, <2>1, <3>1, <3>2 DEF RowStep, Reopened
  <2>2. CASE ~(EndpointOf[d] = p /\ Queued(row[d]))
    BY <1>2, <1>5, <2>2 DEF Revoke
  <2> QED
    BY <2>1, <2>2
<1>6. ASSUME NEW k \in Delivery, Replay(k) PROVE RowStep(d)
  <2>1. CASE k # d
    BY <1>1, <1>2, <1>6, <2>1 DEF Replay
  <2>2. CASE k = d
    <3>1. /\ row'[d].status = "PENDING" /\ row'[d].replays = row[d].replays + 1
          /\ row'[d].claims = row[d].claims
          /\ row[d].status = "FAILED" /\ Live(d)
      BY <1>1, <1>6, <2>2 DEF Replay, Put, Row
    <3> QED
      BY <1>1, <3>1 DEF RowStep, Reopened
  <2> QED
    BY <2>1, <2>2
<1>7. ASSUME NEW k \in Delivery, LeaseElapses(k) \/ BackoffElapses(k) PROVE RowStep(d)
  <2>1. /\ row'[d].status = row[d].status /\ row'[d].replays = row[d].replays
        /\ row'[d].claims = row[d].claims
    BY <1>1, <1>7 DEF LeaseElapses, BackoffElapses, Row
  <2> QED
    BY <1>1, <2>1 DEF RowStep, Reopened
<1>8. ASSUME NEW k \in Delivery, NEW w \in Worker, Claim(w, k) PROVE RowStep(d)
  <2>1. Closed(d, Swept(d))
    BY MaintenanceCloses DEF PartnerInductive
  <2>2. CASE k # d
    BY <1>8, <2>1, <2>2, ClosingSteps DEF Claim
  <2>3. CASE k = d
    <3>1. Swept(d).status \in {"PENDING", "RUNNING"} /\ Live(d)
      BY <1>8, <2>3 DEF Claim, Claimable
    <3>2. ASSUME NEW s, Swept(d) = Put(row[d], s) PROVE Swept(d).status = s
      BY <1>1, <3>2 DEF Put, Row
    <3>3. Swept(d) = row[d]
      BY <2>1, <3>1, <3>2 DEF Closed
    <3>4. row'[d] = [Put(row[d], "RUNNING") EXCEPT !.holder = w, !.attempts = @ + 1,
                                                   !.claims = @ + 1]
      BY <1>8, <2>3, <3>3 DEF Claim
    <3>5. row'[d].status = "RUNNING" /\ row'[d].replays = row[d].replays
      BY <1>1, <3>4 DEF Put, Row
    <3> QED
      BY <1>1, <3>1, <3>3, <3>5 DEF RowStep, Reopened
  <2> QED
    BY <2>2, <2>3
<1>9. ASSUME NEW w \in Worker, Settle(w) PROVE RowStep(d)
  <2>1. CASE worker[w].delivery # d
    BY <1>1, <1>2, <1>9, <2>1 DEF Settle
  <2>2. CASE worker[w].delivery = d
    <3>1. /\ row[d].status = "RUNNING"
          /\ worker[w] \in Turn /\ worker[w].result # "NONE"
          /\ worker[w].result = "DELIVERED" => d \in accepted
      BY <1>9, <2>2 DEF Settle, Holds, PartnerInductive, TurnsAgree, TypeOK
    <3>2. /\ row'[d].status = worker[w].result /\ row'[d].replays = row[d].replays
          /\ row'[d].claims = row[d].claims
      BY <1>1, <1>9, <2>2 DEF Settle, Put, Row
    <3>3. worker[w].result \in {"DELIVERED", "PENDING", "FAILED"}
      BY <3>1 DEF Turn, Results
    <3> QED
      BY <1>1, <3>1, <3>2, <3>3 DEF RowStep, Reopened
  <2> QED
    BY <2>1, <2>2
<1>10. ASSUME NEW w \in Worker, TurnStep(w) \/ Crash(w), ~Settle(w) PROVE RowStep(d)
  BY <1>2, <1>10 DEF TurnStep, Authorize, Refused, NotSent, PostAccepted, PostRefused,
                     SettleLost, ReceiptReused, Crash
<1>11. CASE Publish \/ Sweep
  <2>1. Closed(d, row'[d])
    BY <1>11, MaintenanceCloses DEF PartnerInductive, Publish, Sweep
  <2> QED
    BY <2>1, ClosingSteps
<1>12. CASE UNCHANGED vars \/ Suspend \/ Reactivate \/ \E e \in Event : Age(e)
  BY <1>2, <1>12 DEF vars, Suspend, Reactivate, Age
<1> QED
  BY <1>3, <1>4, <1>5, <1>6, <1>7, <1>8, <1>9, <1>10, <1>11, <1>12 DEF Next

\* What a step may do to the POSTs of one delivery.
PostStep(d) ==
    \/ posts'[d] = posts[d] /\ (d \in accepted' <=> d \in accepted)
    \/ /\ \E n \in 1..row[d].claims : n \notin posts[d] /\ posts'[d] = posts[d] \cup {n}
       /\ d \in accepted => d \in accepted'
       /\ row'[d] = row[d]

LEMMA EachPost ==
    ASSUME PartnerInductive, [Next]_vars, NEW d \in Delivery
    PROVE  PostStep(d)
<1>1. CASE UNCHANGED <<posts, accepted>>
  BY <1>1 DEF PostStep
<1>2. ASSUME NEW w \in Worker, PostAccepted(w) \/ PostRefused(w) PROVE PostStep(d)
  <2>1. /\ worker[w].claim \in 1..row[worker[w].delivery].claims
        /\ worker[w].claim \notin posts[worker[w].delivery]
        /\ posts \in [Delivery -> SUBSET Nat]
    BY <1>2 DEF PostAccepted, PostRefused, PartnerInductive, TurnsAgree, TypeOK
  <2>2. /\ posts' = [posts EXCEPT ![worker[w].delivery] = @ \cup {worker[w].claim}]
        /\ row' = row
        /\ accepted' \in {accepted, accepted \cup {worker[w].delivery}}
    BY <1>2 DEF PostAccepted, PostRefused, Posted
  <2>3. CASE worker[w].delivery = d
    BY <2>1, <2>2, <2>3 DEF PostStep
  <2>4. CASE worker[w].delivery # d
    BY <2>1, <2>2, <2>4 DEF PostStep
  <2> QED
    BY <2>3, <2>4
<1>3. ASSUME NEW w \in Worker, TurnStep(w) \/ Crash(w), ~PostAccepted(w), ~PostRefused(w)
      PROVE  PostStep(d)
  BY <1>1, <1>3 DEF TurnStep, Authorize, Refused, NotSent, Settle, SettleLost, ReceiptReused, Crash
<1>4. CASE \/ \E e \in Event : Capture(e) \/ CommitSource(e) \/ Age(e)
           \/ \E k \in Delivery : \/ Replay(k) \/ LeaseElapses(k) \/ BackoffElapses(k)
                                  \/ \E w \in Worker : Claim(w, k)
           \/ \E p \in Endpoint : Revoke(p)
           \/ Publish \/ Sweep \/ Suspend \/ Reactivate \/ UNCHANGED vars
  BY <1>1, <1>4 DEF Capture, CommitSource, Age, Replay, LeaseElapses, BackoffElapses, Claim,
                    Revoke, Publish, Sweep, Suspend, Reactivate, vars
<1> QED
  BY <1>2, <1>3, <1>4 DEF Next

\* Only what was committed grows old, and only what was committed is claimed.
Committed ==
    \A d \in Delivery :
        /\ EventOf[d] \in old => row[d].status # "OPEN" /\ ~Uncaptured(EventOf[d])
        /\ row[d].status \in {"NEW", "OPEN"} => row[d].claims = 0

LEMMA CommittedStep == PartnerInductive /\ Committed /\ [Next]_vars => Committed'
<1> SUFFICES ASSUME PartnerInductive, Committed, [Next]_vars, NEW d \in Delivery
             PROVE  /\ EventOf[d] \in old' => row'[d].status # "OPEN" /\ ~Uncaptured(EventOf[d])'
                    /\ row'[d].status \in {"NEW", "OPEN"} => row'[d].claims = 0
  BY DEF Committed
<1>1. \A k \in Delivery : RowStep(k)
  BY EachRow
<1>2. row'[d].status \in {"NEW", "OPEN"} =>
         row[d].status \in {"NEW", "OPEN"} /\ row'[d].claims = row[d].claims
  BY <1>1 DEF RowStep, Reopened
<1>3. ASSUME ~Uncaptured(EventOf[d]) PROVE ~Uncaptured(EventOf[d])'
  <2>1. PICK k \in Delivery : EventOf[k] = EventOf[d] /\ row[k].status # "NEW"
    BY <1>3 DEF Uncaptured
  <2>2. row'[k].status # "NEW"
    BY <1>1, <2>1 DEF RowStep, Reopened
  <2> QED
    BY <2>1, <2>2 DEF Uncaptured
<1>4. CASE EventOf[d] \in old
  <2>1. row[d].status # "OPEN" /\ ~Uncaptured(EventOf[d])
    BY <1>4 DEF Committed
  <2>2. row'[d].status # "OPEN"
    BY <1>1, <2>1 DEF RowStep, Reopened
  <2> QED
    BY <1>2, <1>3, <2>1, <2>2 DEF Committed
<1>5. CASE EventOf[d] \notin old /\ EventOf[d] \in old'
  <2>1. PICK e \in Event : Age(e)
    BY <1>5 DEF Next, vars, Capture, CommitSource, Replay, LeaseElapses, BackoffElapses, Claim,
                Revoke, TurnStep, Authorize, Refused, NotSent, PostAccepted, PostRefused,
                Settle, SettleLost, ReceiptReused, Crash, Publish, Sweep, Suspend, Reactivate
  <2>2. e = EventOf[d] /\ row' = row /\ row[d].status # "OPEN" /\ ~Uncaptured(e)
    BY <1>5, <2>1 DEF Age, Uncaptured
  <2> QED
    BY <1>2, <1>3, <2>2 DEF Committed
<1>6. CASE EventOf[d] \notin old'
  BY <1>2, <1>6 DEF Committed
<1> QED
  BY <1>4, <1>5, <1>6

LEMMA CommittedHolds == Spec => []Committed
<1>1. Init => Committed
  BY DEF Init, Committed, NoRow
<1> QED
  BY <1>1, CommittedStep, PartnerInductiveHolds, PTL DEF Spec

LEMMA CountUpTo ==
    ASSUME NEW n \in Nat, NEW S \in SUBSET (1..n)
    PROVE  IsFiniteSet(S) /\ Cardinality(S) \in Nat /\ Cardinality(S) <= n
<1>1. IsFiniteSet(1..n) /\ Cardinality(1..n) = n
  BY FS_Interval
<1>2. IsFiniteSet(S) /\ Cardinality(S) <= Cardinality(1..n)
  BY <1>1, FS_Subset
<1> QED
  BY <1>1, <1>2, FS_CardinalityType

\* Whatever workers, crashes, revocations, replays and time do to a delivery is
\* a step of the WebhookPromise.
THEOREM PromiseIsKept == Spec => KeepsWebhookPromise
<1>1. Init => Promise!Init
  <2> SUFFICES ASSUME Init PROVE Promise!Init
    OBVIOUS
  <2>1. \A d \in Delivery : Said(d) = "absent" /\ row[d].replays = 0
    BY DEF Init, Said, NoRow
  <2>2. \A d \in Delivery : Cardinality(posts[d]) = 0
    BY FS_EmptySet DEF Init
  <2> QED
    BY <2>1, <2>2 DEF Init, Promise!Init
<1>2. PartnerInductive /\ PartnerInductive' /\ Committed /\ PostsAreCounted /\ [Next]_vars
         => Promise!Next
  <2> SUFFICES ASSUME PartnerInductive, PartnerInductive', Committed, PostsAreCounted,
                      [Next]_vars, NEW d \in Delivery
               PROVE  /\ Promise!Keep(d) \/ Promise!Reopen(d) \/ Promise!Move(d)
                      /\ Promise!Quiet(d) \/ Promise!Post(d)
    BY DEF Promise!Next
  <2>1. /\ row[d].status \in Statuses /\ row'[d].status \in Statuses
        /\ row[d].replays \in Nat /\ row'[d].replays \in Nat
        /\ endpoint \in [Endpoint -> {"ACTIVE", "REVOKED"}]
        /\ endpoint' \in [Endpoint -> {"ACTIVE", "REVOKED"}]
        /\ EndpointOf[d] \in Endpoint
    BY DeliveryAssumption DEF PartnerInductive, TypeOK, Row
  <2>2. /\ EndpointOf[d] \in {p \in Endpoint : endpoint[p] = "REVOKED"} <=> ~Live(d)
        /\ EndpointOf[d] \in {p \in Endpoint : endpoint[p] = "REVOKED"}'
              <=> endpoint'[EndpointOf[d]] = "REVOKED"
    BY <2>1 DEF Live
  <2>3. RowStep(d) /\ PostStep(d)
    BY EachRow, EachPost
  <2>4. Promise!Keep(d) \/ Promise!Reopen(d) \/ Promise!Move(d)
    <3> DEFINE r == Said(d)
               rr == Said(d)'
    <3>1. (rr = r /\ row'[d].replays = row[d].replays) => Promise!Keep(d)
      BY DEF Promise!Keep
    <3>2. r = "failed" /\ rr = "waiting" /\ Live(d) /\ row'[d].replays = row[d].replays + 1
             => Promise!Reopen(d)
      BY <2>2 DEF Promise!Reopen
    <3>3. ASSUME r # "failed" \/ rr = "gone",
                 rr \in Promise!MayBecome[r],
                 rr = "sending" => Live(d),
                 rr = "delivered" => d \in accepted,
                 rr = "cancelled" => endpoint'[EndpointOf[d]] = "REVOKED",
                 rr = "gone" => EventOf[d] \in old,
                 row'[d].replays = row[d].replays
          PROVE  Promise!Move(d)
      BY <2>2, <3>3 DEF Promise!Move
    <3> SUFFICES Promise!Keep(d) \/ Promise!Reopen(d) \/ Promise!Move(d)
      OBVIOUS
    <3>4. CASE row'[d].status = row[d].status
      BY <2>1, <2>3, <3>1, <3>4 DEF RowStep, Reopened, Said
    <3>5. CASE Reopened(d)
      BY <2>3, <3>2, <3>5 DEF RowStep, Reopened, Said, Queued
    <3>6. CASE row'[d].status # row[d].status /\ ~Reopened(d)
      <4>1. row'[d].replays = row[d].replays
        BY <2>1, <2>3, <3>6 DEF RowStep
      <4>2. CASE row[d].status \in {"NEW", "OPEN"}
        <5>1. EventOf[d] \in old => row[d].status = "NEW"
          BY <4>2 DEF Committed
        <5> QED
          BY <2>3, <3>1, <3>3, <3>6, <4>1, <4>2, <5>1 DEF RowStep, Reopened, Said, Queued,
             Promise!MayBecome
      <4>3. CASE row[d].status \notin {"NEW", "OPEN"}
        BY <2>1, <2>3, <3>3, <3>6, <4>1, <4>3 DEF RowStep, Reopened, Said, Queued, Statuses,
           Promise!MayBecome
      <4> QED
        BY <4>2, <4>3
    <3> QED
      BY <3>4, <3>5, <3>6
  <2>5. Promise!Quiet(d) \/ Promise!Post(d)
    <3> DEFINE n == Cardinality(posts[d])
               nn == Cardinality(posts'[d])
               most == MaxAttempts * (row[d].replays + 1)
    <3>1. n = nn /\ (d \in accepted' <=> d \in accepted) => Promise!Quiet(d)
      BY DEF Promise!Quiet
    <3>2. ASSUME Said(d) # "absent", n < most, nn = n + 1, d \in accepted => d \in accepted'
          PROVE  Promise!Post(d)
      BY <3>2 DEF Promise!Post
    <3>3. CASE posts'[d] = posts[d] /\ (d \in accepted' <=> d \in accepted)
      BY <3>1, <3>3
    <3>4. ASSUME NEW k \in 1..row[d].claims, k \notin posts[d], posts'[d] = posts[d] \cup {k},
                 d \in accepted => d \in accepted', row'[d] = row[d]
          PROVE  Promise!Post(d)
      <4>1. /\ row[d].claims \in Nat /\ row[d].claims <= most
            /\ posts[d] \subseteq 1..row[d].claims
            /\ posts[d] \cup {k} \subseteq 1..row[d].claims
        BY DEF PostsAreCounted, PartnerInductive, TypeOK, Row
      <4>2. most \in Nat
        BY <2>1, LimitAssumption
      <4>3. IsFiniteSet(posts[d]) /\ n \in Nat /\ nn <= row[d].claims
        BY <3>4, <4>1, CountUpTo
      <4>4. nn = n + 1
        BY <3>4, <4>3, FS_AddElement
      <4>5. n < most
        <5> HIDE DEF n, nn, most
        <5> QED
          BY <4>1, <4>2, <4>3, <4>4
      <4>6. row[d].status \notin {"NEW", "OPEN"}
        BY <3>4 DEF Committed
      <4>7. Said(d) # "absent"
        BY <2>1, <4>6 DEF Said, Statuses
      <4> HIDE DEF n, nn, most
      <4> QED
        BY <3>2, <3>4, <4>4, <4>5, <4>7
    <3> QED
      BY <2>3, <3>3, <3>4 DEF PostStep
  <2> QED
    BY <2>4, <2>5
<1> QED
  BY <1>1, <1>2, PartnerInductiveHolds, CommittedHolds, PostsCounted, PTL
  DEF Spec, KeepsWebhookPromise, Promise!Spec

===========================================================================
