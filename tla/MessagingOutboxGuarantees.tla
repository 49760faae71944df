---------------------- MODULE MessagingOutboxGuarantees ----------------------
(***************************************************************************)
(* What the queue guarantees to those around it, for every set of messages *)
(* and workers: the tenant's pending limit, and the order in which the     *)
(* customer sees the messages of a conversation.                           *)
(***************************************************************************)
EXTENDS MessagingOutboxPromise, FiniteSetTheorems

---------------------------------------------------------------------------
(* The pending limit: counting.                                            *)

LEMMA PendingIsFinite == \A st : IsFiniteSet(PendingIn(st)) /\ Cardinality(PendingIn(st)) \in Nat
BY MessageAssumption, FS_Subset, FS_CardinalityType DEF PendingIn

\* A step whose new pending messages are all in S, and S was admitted.
LEMMA AdmittedSet ==
    ASSUME TypeOK, NEW S \in SUBSET Message, Admits(Cardinality(S)),
           PendingIn(state') \subseteq PendingIn(state) \cup S
    PROVE  Cardinality(PendingIn(state')) <= tenant.limit
<1>1. IsFiniteSet(S) /\ Cardinality(S) \in Nat
  BY MessageAssumption, FS_Subset, FS_CardinalityType
<1>2. IsFiniteSet(PendingIn(state) \cup S)
  BY <1>1, PendingIsFinite, FS_Union
<1>3. Cardinality(PendingIn(state')) <= Cardinality(PendingIn(state) \cup S)
  BY <1>2, FS_Subset
<1>4. Cardinality(PendingIn(state) \cup S) <= Cardinality(PendingIn(state)) + Cardinality(S)
  <2>1. IsFiniteSet(PendingIn(state) \cap S)
    BY <1>1, FS_Subset
  <2>2. Cardinality(PendingIn(state) \cap S) \in Nat
    BY <2>1, FS_CardinalityType
  <2>3. Cardinality(PendingIn(state) \cup S)
          = Cardinality(PendingIn(state)) + Cardinality(S) - Cardinality(PendingIn(state) \cap S)
    BY <1>1, PendingIsFinite, FS_Union
  <2> QED
    BY <1>1, <2>2, <2>3, PendingIsFinite
<1>5. tenant.limit \in Nat /\ Cardinality(PendingIn(state) \cup S) \in Nat
  BY <1>2, FS_CardinalityType DEF TypeOK
<1> QED
  BY <1>1, <1>3, <1>4, <1>5, PendingIsFinite DEF Admits

\* A step that adds no pending message does not raise their number.
LEMMA NothingAdded ==
    ASSUME PendingIn(state') \subseteq PendingIn(state)
    PROVE  ~(Cardinality(PendingIn(state')) > Cardinality(PendingIn(state)))
BY PendingIsFinite, FS_Subset

---------------------------------------------------------------------------
(* The pending limit: which steps add.                                     *)

\* A message becomes pending only from NEW or from FAILED, and as ACCEPTED.
LEMMA BecomesPending ==
    ASSUME Inductive, [Next]_vars, NEW k \in Message,
           state'[k] \in Undecided, state[k] \notin Undecided
    PROVE  state[k] \in {"NEW", "FAILED"} /\ state'[k] = "ACCEPTED"
<1>1. MessageStep(k)
  BY EachMessage
<1>2. CASE Receipt(k)
  BY <1>2 DEF Receipt, Advanced, Undecided, ReceiptStates
<1> QED
  BY <1>1, <1>2, ReconciledIsReceipt
  DEF MessageStep, Stays, Admitted, Begun, Failed, Rearms, GivenUp, Completed, Arrives,
      Undecided, ReceiptStates

\* A settlement accepts nothing.
LEMMA SettledAdds ==
    ASSUME NEW E, NEW st, NEW ob, NEW up, NEW at, Settle(E, st, ob, up, at),
           \A k \in Message : st[k] = "ACCEPTED" => state[k] = "ACCEPTED"
    PROVE  \A k \in Message : state'[k] = "ACCEPTED" => state[k] = "ACCEPTED"
BY SettledMessage

\* Every path on which messages become pending passes the admission: the one of
\* an enqueued or retried message, or that of the due retries of a claim.
LEMMA StepAdmits ==
    ASSUME Inductive, [Next]_vars
    PROVE  \/ PendingIn(state') \subseteq PendingIn(state)
           \/ \E S \in SUBSET Message :
                 /\ Admits(Cardinality(S))
                 /\ PendingIn(state') \subseteq PendingIn(state) \cup S
<1> DEFINE AcceptsNothing == \A k \in Message : state'[k] = "ACCEPTED" => state[k] = "ACCEPTED"
<1>0. TypeOK /\ TypeOK'
  BY TypeStep DEF Inductive
<1>1. ASSUME AcceptsNothing PROVE PendingIn(state') \subseteq PendingIn(state)
  BY <1>1, BecomesPending DEF PendingIn, Undecided
<1>2. ASSUME NEW m \in Message, Enqueue(m) \/ RetryMessage(m)
      PROVE  \E S \in SUBSET Message :
                 /\ Admits(Cardinality(S))
                 /\ PendingIn(state') \subseteq PendingIn(state) \cup S
  <2>1. Admits(1) /\ state' = [state EXCEPT ![m] = "ACCEPTED"]
    BY <1>2 DEF Enqueue, RetryMessage
  <2>2. Cardinality({m}) = 1
    BY FS_Singleton
  <2>3. PendingIn(state') \subseteq PendingIn(state) \cup {m}
    BY <1>0, <2>1 DEF PendingIn, TypeOK
  <2> QED
    BY <2>1, <2>2, <2>3
<1>3. ASSUME ClaimAdmitted, state' = SweptState
      PROVE  \/ PendingIn(state') \subseteq PendingIn(state)
             \/ \E S \in SUBSET Message :
                 /\ Admits(Cardinality(S))
                 /\ PendingIn(state') \subseteq PendingIn(state) \cup S
  <2>1. ASSUME NEW k \in Message, state'[k] \in Undecided, state[k] \notin Undecided
        PROVE  k \in Due
    BY <1>3, <2>1 DEF SweptState, Barred, Lapsed, Undecided
  <2>2. PendingIn(state') \subseteq PendingIn(state) \cup Due
    BY <2>1 DEF PendingIn
  <2>3. Due \in SUBSET Message
    BY DEF Due
  <2> QED
    BY <1>3, <2>2, <2>3 DEF ClaimAdmitted
<1>4. ASSUME NEW w \in Worker, ValidateEligible(w) \/ ValidateFails(w) PROVE AcceptsNothing
  BY <1>0, <1>4 DEF ValidateEligible, ValidateFails, TypeOK
<1>5. ASSUME NEW w \in Worker, CompleteSend(w) PROVE AcceptsNothing
  <2> DEFINE m   == worker[w].msg
             out == worker[w].outcome
             st  == [state EXCEPT ![m] = FinalState(m, out)]
  <2>1. PICK E, ob, up, at : Settle(E, st, ob, up, at)
    BY <1>5 DEF CompleteSend
  <2>2. FinalState(m, out) # "ACCEPTED"
    BY ReconciledIsReceipt DEF FinalState, ReceiptStates
  <2>3. \A k \in Message : st[k] = "ACCEPTED" => state[k] = "ACCEPTED"
    BY <1>0, <2>2 DEF TypeOK
  <2> QED
    BY <2>1, <2>3, SettledAdds
<1>6. ASSUME NEW w \in Worker, RecoverQr(w) PROVE AcceptsNothing
  <2> DEFINE st == [m \in Message |->
                      IF m \in Overdue /\ state[m] = "SENDING" THEN "UNKNOWN" ELSE state[m]]
  <2>1. PICK E, ob, up, at : Settle(E, st, ob, up, at)
    BY <1>6 DEF RecoverQr
  <2>2. \A k \in Message : st[k] = "ACCEPTED" => state[k] = "ACCEPTED"
    OBVIOUS
  <2> QED
    BY <2>1, <2>2, SettledAdds
<1>7. ASSUME NEW m \in Message, NEW s \in ReceiptStates, RecordStatus(m, s) PROVE AcceptsNothing
  BY <1>0, <1>7 DEF RecordStatus, Advanced, TypeOK, ReceiptStates
<1>8. ASSUME NEW e \in Echo, ObserveOutbound(e) PROVE AcceptsNothing
  BY <1>8, SettledAdds DEF ObserveOutbound
<1>9. ASSUME NEW m \in Message, AbandonAttempt(m) PROVE AcceptsNothing
  BY <1>9, SettledAdds DEF AbandonAttempt
<1>10. ASSUME NEW c \in Conversation, TakeOver(c) PROVE AcceptsNothing
  BY <1>10 DEF TakeOver
<1>11. ASSUME NEW w \in Worker,
              \/ \E out \in {"FAILED", "FAILED_SAFE"} : PreflightFails(w, out)
              \/ ValidateHolds(w) \/ ValidateLost(w) \/ Post(w) \/ AnswerUncertain(w)
              \/ CompleteLost(w) \/ Crash(w)
              \/ \E out \in Outcomes : ProviderAnswers(w, out)
       PROVE  AcceptsNothing
  BY <1>11 DEF PreflightFails, ValidateHolds, ValidateLost, Post, AnswerUncertain,
     CompleteLost, Crash, ProviderAnswers
<1>12. ASSUME NEW m \in Message,
              ProviderAcceptsLate(m) \/ RevokeAuthority(m) \/ LeaseElapses(m) \/ BackoffElapses(m)
       PROVE  AcceptsNothing
  BY <1>12 DEF ProviderAcceptsLate, RevokeAuthority, LeaseElapses, BackoffElapses
<1>13. ASSUME NEW c \in Conversation,
              ResumeBot(c) \/ CloseWindow(c) \/ RecordIncoming(c)
              \/ \E consent \in {"UNKNOWN", "OPTED_IN", "OPTED_OUT"} : SetConsent(c, consent)
       PROVE  AcceptsNothing
  BY <1>13 DEF ResumeBot, CloseWindow, RecordIncoming, SetConsent
<1>14. ASSUME NEW part \in {"ready", "credential"}, LoseChannel(part) \/ RestoreChannel(part)
       PROVE  AcceptsNothing
  BY <1>14 DEF LoseChannel, RestoreChannel
<1>15. ASSUME \/ Suspend \/ Reactivate \/ LowerLimit \/ UNCHANGED vars
              \/ \E e \in Echo : AbandonObservation(e)
       PROVE  AcceptsNothing
  BY <1>15 DEF Suspend, Reactivate, LowerLimit, AbandonObservation, vars
<1>16. ASSUME NEW w \in Worker, Sweep(w) \/ \E m \in Message : Claim(w, m)
       PROVE  ClaimAdmitted /\ state' = SweptState
  BY <1>16 DEF Sweep, Claim
<1> HIDE DEF AcceptsNothing
<1> QED
  BY <1>1, <1>2, <1>3, <1>4, <1>5, <1>6, <1>7, <1>8, <1>9, <1>10, <1>11, <1>12, <1>13, <1>14,
     <1>15, <1>16
  DEF Next, WorkerStep, ProviderStep, OperatorStep, WorldStep

\* enforce_tenant_operational_limits holds on every path by which a message
\* becomes pending, the retries inside claimOutgoing included: however workers
\* and operators interleave and however far a plan was lowered below the
\* backlog, a step that raises the number of pending messages ends at or below
\* the limit in force.
THEOREM AdmissionIsBounded == Spec => AdmissionRespectsLimit
<1>1. ASSUME Inductive, [Next]_vars
      PROVE  Cardinality(PendingIn(state')) > Cardinality(PendingIn(state))
                => Cardinality(PendingIn(state')) <= tenant.limit
  <2>1. TypeOK
    BY <1>1 DEF Inductive
  <2> QED
    BY <1>1, <2>1, StepAdmits, NothingAdded, AdmittedSet
<1>2. Inductive /\ [Next]_vars
        => [Cardinality(PendingIn(state')) > Cardinality(PendingIn(state))
               => Cardinality(PendingIn(state')) <= tenant.limit]_vars
  BY <1>1
<1> QED
  BY <1>2, InductiveHolds, PTL DEF Spec, AdmissionRespectsLimit

---------------------------------------------------------------------------
(* The order at the provider.                                              *)

\* A message that was ever validated, and may have left.
Handed(n) == state[n] \in {"SENDING", "UNKNOWN"} \/ wire[n].open + wire[n].accepted > 0

\* A message that will not be sent any more.
Past(k) == state[k] # "NEW" /\ ~HoldsBack(k, state, outbox)

\* ArrivesInOrder is not inductive: that nothing ahead of a message comes back
\* must be known from the moment it is validated, long before its POST.
HandedInOrder == \A n \in Message : Handed(n) => \A k \in Earlier(n) : Past(k)

\* The steps that neither send, nor POST, nor touch an attempt.
Quiet == /\ attempt' = attempt /\ wire' = wire
         /\ \A n \in Message : state'[n] = "SENDING" => state[n] = "SENDING"

\* A message becomes SENDING under its lease, only a validated message is
\* POSTed, and what was abandoned stays abandoned.
LEMMA OnlyLeasedIsHanded ==
    ASSUME Inductive, [Next]_vars, NEW n \in Message
    PROVE  /\ state'[n] = "SENDING" => state[n] = "SENDING" \/ outbox[n].holder # None
           /\ wire'[n].open + wire'[n].accepted > 0 => Handed(n)
           /\ state[n] = "UNKNOWN" /\ attempt[n] = "ABANDONED" => attempt'[n] = "ABANDONED"
<1> DEFINE Fine == /\ state'[n] = "SENDING" => state[n] = "SENDING" \/ outbox[n].holder # None
                   /\ wire'[n].open + wire'[n].accepted > 0 => Handed(n)
                   /\ state[n] = "UNKNOWN" /\ attempt[n] = "ABANDONED"
                        => attempt'[n] = "ABANDONED"
<1>0. TypeOK /\ TypeOK'
  BY TypeStep DEF Inductive
<1>a. ASSUME Quiet PROVE Fine
  BY <1>a DEF Quiet, Handed
<1> USE DEF environment, qrLedger
<1>1. ASSUME NEW m \in Message, Enqueue(m) \/ RetryMessage(m) PROVE Quiet
  BY <1>0, <1>1 DEF Enqueue, RetryMessage, Quiet, TypeOK
<1>2. ASSUME NEW w \in Worker, Sweep(w) \/ \E m \in Message : Claim(w, m) PROVE Quiet
  BY <1>2 DEF Sweep, Claim, SweptState, Quiet
<1>3. ASSUME NEW w \in Worker, ValidateEligible(w) PROVE Fine
  <2> DEFINE m == worker[w].msg
  <2>1. /\ m \in Message /\ state[m] = "ACCEPTED" /\ outbox[m].holder = w
        /\ state' = [state EXCEPT ![m] = "SENDING"] /\ wire' = wire
        /\ \A k \in Message : k # m => attempt'[k] = attempt[k]
    BY <1>0, <1>3 DEF ValidateEligible, Selected, TypeOK, Turn, Idle
  <2>2. w # None
    BY NoneAssumption
  <2> QED
    BY <1>0, <2>1, <2>2 DEF Handed, TypeOK
<1>4. ASSUME NEW w \in Worker, ValidateFails(w) PROVE Quiet
  BY <1>0, <1>4 DEF ValidateFails, Quiet, TypeOK
<1>5. ASSUME NEW w \in Worker,
             \/ \E out \in {"FAILED", "FAILED_SAFE"} : PreflightFails(w, out)
             \/ ValidateHolds(w) \/ ValidateLost(w) \/ AnswerUncertain(w)
             \/ CompleteLost(w) \/ Crash(w)
      PROVE  Quiet
  BY <1>5 DEF PreflightFails, ValidateHolds, ValidateLost, AnswerUncertain, CompleteLost,
     Crash, Quiet
<1>6. ASSUME NEW w \in Worker, Post(w) PROVE Fine
  <2> DEFINE m == worker[w].msg
  <2>1. /\ m \in Message /\ state[m] \in {"SENDING", "UNKNOWN"}
        /\ wire' = [wire EXCEPT ![m].open = @ + 1] /\ UNCHANGED <<state, attempt>>
    BY <1>0, <1>6 DEF Post, Inductive, TypeOK, TurnsAgree, Authorised, Turn, Idle
  <2> QED
    BY <1>0, <2>1 DEF Handed, TypeOK
<1>7. ASSUME NEW w \in Worker, NEW out \in Outcomes, ProviderAnswers(w, out) PROVE Fine
  <2> DEFINE m == worker[w].msg
  <2>1. /\ m \in Message /\ wire[m].open > 0 /\ UNCHANGED <<state, attempt>>
        /\ wire' = [wire EXCEPT ![m] =
                      [open |-> @.open - 1,
                       accepted |-> @.accepted + (IF out = "SENT" THEN 1 ELSE 0)]]
    BY <1>0, <1>7 DEF ProviderAnswers, TypeOK, Turn, Idle
  <2> QED
    BY <1>0, <2>1 DEF Handed, TypeOK
<1>8. ASSUME NEW m \in Message, ProviderAcceptsLate(m) PROVE Fine
  BY <1>0, <1>8 DEF ProviderAcceptsLate, Handed, TypeOK
<1>9. ASSUME NEW m \in Message, NEW s \in ReceiptStates, RecordStatus(m, s) PROVE Quiet
  BY <1>0, <1>9 DEF RecordStatus, Advanced, Quiet, TypeOK, ReceiptStates
<1>10. ASSUME NEW e \in Echo, ObserveOutbound(e) PROVE Quiet
  BY <1>10, SettledMessage DEF ObserveOutbound, Quiet
<1>11. ASSUME NEW w \in Worker, CompleteSend(w) PROVE Fine
  <2> DEFINE m   == worker[w].msg
             out == worker[w].outcome
             st  == [state EXCEPT ![m] = FinalState(m, out)]
  <2>1. /\ m \in Message /\ wire' = wire
        /\ attempt' = [attempt EXCEPT ![m] = FinalAttempt(@, out)]
    BY <1>0, <1>11 DEF CompleteSend, TypeOK, Turn, Idle
  <2>2. PICK E, ob, up, at : Settle(E, st, ob, up, at)
    BY <1>11 DEF CompleteSend
  <2>3. FinalState(m, out) # "SENDING"
    BY ReconciledIsReceipt DEF FinalState, ReceiptStates
  <2>4. \A k \in Message : st[k] = "SENDING" => state[k] = "SENDING"
    BY <1>0, <2>3 DEF TypeOK
  <2>5. \A k \in Message : state'[k] = "SENDING" => state[k] = "SENDING"
    BY <2>2, <2>4, SettledMessage
  <2>6. attempt[n] = "ABANDONED" => attempt'[n] = "ABANDONED"
    BY <1>0, <2>1 DEF FinalAttempt, TypeOK
  <2> QED
    BY <2>1, <2>5, <2>6 DEF Handed
<1>12. ASSUME NEW w \in Worker, RecoverQr(w) PROVE Fine
  <2> DEFINE st == [m \in Message |->
                      IF m \in Overdue /\ state[m] = "SENDING" THEN "UNKNOWN" ELSE state[m]]
  <2>1. PICK E, ob, up, at : Settle(E, st, ob, up, at)
    BY <1>12 DEF RecoverQr
  <2>2. \A k \in Message : state'[k] = "SENDING" => state[k] = "SENDING"
    BY <2>1, SettledMessage
  <2>3. /\ wire' = wire
        /\ attempt' = [m \in Message |-> IF m \in Overdue THEN "UNKNOWN" ELSE attempt[m]]
    BY <1>12 DEF RecoverQr
  <2>4. attempt[n] = "ABANDONED" => attempt'[n] = "ABANDONED"
    BY <2>3 DEF Overdue
  <2> QED
    BY <2>2, <2>3, <2>4 DEF Handed
<1>13. ASSUME NEW m \in Message, AbandonAttempt(m) PROVE Fine
  <2>1. \A k \in Message : state'[k] = "SENDING" => state[k] = "SENDING"
    BY <1>13, SettledMessage DEF AbandonAttempt
  <2> QED
    BY <1>0, <1>13, <2>1 DEF AbandonAttempt, Handed, TypeOK
<1>14. ASSUME NEW e \in Echo, AbandonObservation(e) PROVE Fine
  BY <1>14 DEF AbandonObservation, Handed
<1>15. ASSUME NEW c \in Conversation, TakeOver(c) PROVE Quiet
  BY <1>15 DEF TakeOver, Quiet
<1>16. ASSUME NEW m \in Message, RevokeAuthority(m) \/ LeaseElapses(m) \/ BackoffElapses(m)
       PROVE  Quiet
  BY <1>16 DEF RevokeAuthority, LeaseElapses, BackoffElapses, Quiet
<1>17. ASSUME NEW c \in Conversation,
              ResumeBot(c) \/ CloseWindow(c) \/ RecordIncoming(c)
              \/ \E consent \in {"UNKNOWN", "OPTED_IN", "OPTED_OUT"} : SetConsent(c, consent)
       PROVE  Quiet
  BY <1>17 DEF ResumeBot, CloseWindow, RecordIncoming, SetConsent, Quiet
<1>18. ASSUME NEW part \in {"ready", "credential"}, LoseChannel(part) \/ RestoreChannel(part)
       PROVE  Quiet
  BY <1>18 DEF LoseChannel, RestoreChannel, Quiet
<1>19. ASSUME Suspend \/ Reactivate \/ LowerLimit \/ UNCHANGED vars PROVE Quiet
  BY <1>19 DEF Suspend, Reactivate, LowerLimit, vars, Quiet
<1> HIDE DEF Fine
<1>20. Fine
  BY <1>a, <1>1, <1>2, <1>3, <1>4, <1>5, <1>6, <1>7, <1>8, <1>9, <1>10, <1>11, <1>12, <1>13,
     <1>14, <1>15, <1>16, <1>17, <1>18, <1>19
  DEF Next, WorkerStep, ProviderStep, OperatorStep, WorldStep
<1> QED
  BY <1>20 DEF Fine

\* What is past stays past: no retry, no takeover and no late answer brings a
\* settled message back.
LEMMA PastStays ==
    ASSUME Inductive, [Next]_vars, NEW k \in Message, Past(k)
    PROVE  Past(k)'
<1>1. Inductive'
  BY InductiveStep
<1>2. /\ state[k] \notin {"NEW", "ACCEPTED", "SENDING"}
      /\ state[k] = "UNKNOWN" => attempt[k] = "ABANDONED"
      /\ ~(state[k] = "FAILED" /\ outbox[k].retrySafe)
  BY DEF Past, HoldsBack, Inductive, RowsFollowState
<1>3. MessageStep(k)
  BY EachMessage
<1>4. /\ k \in upstream => state[k] \in ReceiptStates
      /\ state[k] = "UNKNOWN" => attempt'[k] = "ABANDONED"
  BY <1>2, OnlyLeasedIsHanded DEF Inductive, LeasesAgree
<1>5. /\ state'[k] \notin {"NEW", "ACCEPTED", "SENDING"}
      /\ state'[k] = "UNKNOWN" => attempt'[k] = "ABANDONED"
      /\ ~(state'[k] = "FAILED" /\ outbox'[k].retrySafe)
  <2>1. CASE Stays(k) \/ Arrives(k)
    BY <1>2, <1>4, <2>1 DEF Stays, Arrives, SameFlags
  <2>2. CASE Receipt(k)
    <3>1. ~outbox[k].retrySafe
      BY <1>2 DEF Inductive, LeasesAgree
    <3> QED
      BY <1>2, <1>4, <2>2, <3>1 DEF Receipt, SameFlags, Advanced, ReceiptStates
  <2> QED
    BY <1>2, <1>3, <2>1, <2>2
    DEF MessageStep, Admitted, Begun, Failed, Rearms, GivenUp, Completed
<1> QED
  BY <1>1, <1>5 DEF Past, HoldsBack, Inductive, RowsFollowState

LEMMA HandedStaysInOrder == Inductive /\ HandedInOrder /\ [Next]_vars => HandedInOrder'
<1> SUFFICES ASSUME Inductive, HandedInOrder, [Next]_vars,
                    NEW n \in Message, Handed(n)', NEW k \in Earlier(n)
             PROVE  Past(k)'
  BY DEF HandedInOrder, Earlier
<1>1. k \in Message
  BY DEF Earlier
<1>2. CASE Handed(n)
  BY <1>1, <1>2, PastStays DEF HandedInOrder
<1>3. CASE ~Handed(n)
  <2>1. MessageStep(n)
    BY EachMessage
  <2>2. state'[n] \in {"SENDING", "UNKNOWN"}
    BY <1>3, OnlyLeasedIsHanded DEF Handed
  <2>3. state[n] = "ACCEPTED" /\ state'[n] = "SENDING"
    <3>1. CASE Receipt(n)
      BY <1>3, <2>2, <3>1 DEF Receipt, Advanced, Handed, ReceiptStates
    <3> QED
      BY <1>3, <2>1, <2>2, <3>1, ReconciledIsReceipt
      DEF MessageStep, Stays, Admitted, Begun, Failed, Rearms, GivenUp, Completed, Arrives,
          Handed, ReceiptStates
  <2>4. outbox[n].holder # None
    BY <2>3, OnlyLeasedIsHanded
  <2>5. Past(k)
    BY <2>3, <2>4 DEF Inductive, OrderKept, Past
  <2> QED
    BY <1>1, <2>5, PastStays
<1> QED
  BY <1>2, <1>3

\* The customer sees a conversation in order: once a message was handed to the
\* provider, whatever was ahead of it arrived, failed for good or was given up
\* by an administrator - although its place in the queue is looked at only in
\* claimOutgoing, and the POST may leave after the lease is gone.
THEOREM CustomerSeesOrder == Spec => []ArrivesInOrder
<1>1. Init => HandedInOrder
  BY DEF Init, HandedInOrder, Handed
<1>2. Inductive /\ HandedInOrder => ArrivesInOrder
  <2> SUFFICES ASSUME Inductive, HandedInOrder, NEW n \in Message,
                      wire[n].open + wire[n].accepted > 0, NEW k \in Earlier(n)
               PROVE  wire[k].open = 0 \/ attempt[k] = "ABANDONED"
    BY DEF ArrivesInOrder
  <2>1. k \in Message /\ Past(k)
    BY DEF HandedInOrder, Handed, Earlier
  <2>2. state[k] \in ReceiptStates \/ attempt[k] = "ABANDONED"
    BY <2>1 DEF Past, HoldsBack, Inductive, TypeOK, MessageStates, ReceiptStates
  <2>3. state[k] \in ReceiptStates => Untouched(k) \/ Taken(k)
    BY <2>1 DEF Inductive, LeasesAgree, WireAgrees, ReceiptStates
  <2> QED
    BY <2>2, <2>3 DEF Untouched, Taken
<1> QED
  BY <1>1, <1>2, HandedStaysInOrder, InductiveHolds, PTL DEF Spec

---------------------------------------------------------------------------
(* What bot turns may rely on: the queue keeps the ReplyProtocol.          *)

\* Who has the conversation of n when n is admitted, validated or left queued.
BotDecides(n) ==
    /\ state[n] = "NEW" /\ state'[n] # "NEW" => ~Paused(n)
    /\ state'[n] = "SENDING" /\ state[n] # "SENDING" => ~Paused(n) /\ ~ObservationBlocks(ConvOf[n])
    /\ mode[ConvOf[n]] = "BOT" /\ mode'[ConvOf[n]] = "HUMAN" => state'[n] # "ACCEPTED"

\* A settlement that pauses a conversation cancels what it has in the queue.
LEMMA SettledDecides ==
    ASSUME NEW E, NEW st, NEW ob, NEW up, NEW at, Settle(E, st, ob, up, at),
           TypeOK, NEW n \in Automation,
           \A k \in Message : /\ state[k] = "NEW" => st[k] = "NEW"
                              /\ st[k] = "SENDING" => state[k] = "SENDING"
    PROVE  BotDecides(n)
<1>1. n \in Message /\ ConvOf[n] \in Conversation
  BY KindAssumption, ConvAssumption
<1>2. \/ state'[n] = st[n]
      \/ st[n] = "ACCEPTED" /\ state'[n] = "FAILED"
  BY <1>1, SettledMessage
<1>3. mode[ConvOf[n]] = "BOT" /\ mode'[ConvOf[n]] = "HUMAN" => state'[n] # "ACCEPTED"
  BY <1>1 DEF Settle, Canceled
<1> QED
  BY <1>1, <1>2, <1>3 DEF BotDecides

\* Whatever the step, the bot admits, sends and leaves queued only what is its
\* to send.
LEMMA StepDecides ==
    ASSUME Inductive, [Next]_vars, NEW n \in Automation
    PROVE  BotDecides(n)
<1> DEFINE Silent == /\ mode' = mode
                     /\ state[n] = "NEW" => state'[n] = "NEW"
                     /\ state'[n] = "SENDING" => state[n] = "SENDING"
<1>0. TypeOK /\ n \in Message /\ ConvOf[n] \in Conversation
  BY KindAssumption, ConvAssumption DEF Inductive
<1>a. ASSUME Silent PROVE BotDecides(n)
  BY <1>0, <1>a DEF BotDecides, TypeOK
<1> USE DEF environment
<1>1. ASSUME NEW m \in Message, Enqueue(m) PROVE BotDecides(n)
  BY <1>0, <1>1 DEF Enqueue, BotDecides, TypeOK
<1>2. ASSUME NEW m \in Message, RetryMessage(m) PROVE Silent
  BY <1>0, <1>2 DEF RetryMessage, TypeOK
<1>3. ASSUME NEW w \in Worker, Sweep(w) \/ \E m \in Message : Claim(w, m) PROVE Silent
  BY <1>0, <1>3 DEF Sweep, Claim, SweptState, Barred, Due, Released, Waiting, Lapsed
<1>4. ASSUME NEW w \in Worker, ValidateEligible(w) PROVE BotDecides(n)
  <2> DEFINE m == worker[w].msg
  <2>1. /\ state[m] = "ACCEPTED" /\ state' = [state EXCEPT ![m] = "SENDING"] /\ mode' = mode
        /\ ~Paused(m) /\ ~ObservationBlocks(ConvOf[m])
    BY <1>4 DEF ValidateEligible, Selected, MustFail, MustHold, Held
  <2> QED
    BY <1>0, <2>1 DEF BotDecides, TypeOK
<1>5. ASSUME NEW w \in Worker, ValidateFails(w) PROVE Silent
  BY <1>0, <1>5 DEF ValidateFails, Selected, TypeOK
<1>6. ASSUME NEW w \in Worker,
             \/ \E out \in {"FAILED", "FAILED_SAFE"} : PreflightFails(w, out)
             \/ ValidateHolds(w) \/ ValidateLost(w) \/ Post(w) \/ AnswerUncertain(w)
             \/ CompleteLost(w) \/ Crash(w)
             \/ \E out \in Outcomes : ProviderAnswers(w, out)
      PROVE  Silent
  BY <1>6 DEF PreflightFails, ValidateHolds, ValidateLost, Post, AnswerUncertain,
     CompleteLost, Crash, ProviderAnswers
<1>7. ASSUME NEW m \in Message,
             ProviderAcceptsLate(m) \/ RevokeAuthority(m) \/ LeaseElapses(m) \/ BackoffElapses(m)
      PROVE  Silent
  BY <1>7 DEF ProviderAcceptsLate, RevokeAuthority, LeaseElapses, BackoffElapses
<1>8. ASSUME NEW m \in Message, NEW s \in ReceiptStates, RecordStatus(m, s) PROVE Silent
  <2>1. m \in upstream => state[m] \in ReceiptStates
    BY DEF Inductive, LeasesAgree
  <2> QED
    BY <1>0, <1>8, <2>1 DEF RecordStatus, Advanced, TypeOK, ReceiptStates
<1>9. ASSUME NEW e \in Echo, ObserveOutbound(e) PROVE BotDecides(n)
  BY <1>0, <1>9, SettledDecides DEF ObserveOutbound
<1>10. ASSUME NEW m \in Message, AbandonAttempt(m) PROVE BotDecides(n)
  BY <1>0, <1>10, SettledDecides DEF AbandonAttempt
<1>11. ASSUME NEW w \in Worker, CompleteSend(w) PROVE BotDecides(n)
  <2> DEFINE m   == worker[w].msg
             out == worker[w].outcome
             st  == [state EXCEPT ![m] = FinalState(m, out)]
  <2>1. Owned(w) /\ \E E, ob, up, at : Settle(E, st, ob, up, at)
    BY <1>11 DEF CompleteSend
  <2>2. FinalState(m, out) # "SENDING" /\ state[m] # "NEW"
    BY <2>1, ReconciledIsReceipt DEF FinalState, ReceiptStates, Owned
  <2>3. \A k \in Message : /\ state[k] = "NEW" => st[k] = "NEW"
                           /\ st[k] = "SENDING" => state[k] = "SENDING"
    BY <1>0, <2>2 DEF TypeOK
  <2> HIDE DEF st
  <2> QED
    BY <1>0, <2>1, <2>3, SettledDecides
<1>12. ASSUME NEW w \in Worker, RecoverQr(w) PROVE BotDecides(n)
  <2> DEFINE st == [m \in Message |->
                      IF m \in Overdue /\ state[m] = "SENDING" THEN "UNKNOWN" ELSE state[m]]
  <2>1. \E E, ob, up, at : Settle(E, st, ob, up, at)
    BY <1>12 DEF RecoverQr
  <2>2. \A k \in Message : /\ state[k] = "NEW" => st[k] = "NEW"
                           /\ st[k] = "SENDING" => state[k] = "SENDING"
    OBVIOUS
  <2> HIDE DEF st
  <2> QED
    BY <1>0, <2>1, <2>2, SettledDecides
<1>13. ASSUME NEW e \in Echo, AbandonObservation(e) PROVE Silent
  BY <1>13 DEF AbandonObservation
<1>14. ASSUME NEW c \in Conversation, TakeOver(c) PROVE BotDecides(n)
  BY <1>0, <1>14 DEF TakeOver, Canceled, BotDecides, TypeOK
<1>15. ASSUME NEW c \in Conversation, ResumeBot(c) PROVE BotDecides(n)
  BY <1>0, <1>15 DEF ResumeBot, BotDecides, TypeOK
<1>16. ASSUME NEW c \in Conversation,
              CloseWindow(c) \/ RecordIncoming(c)
              \/ \E consent \in {"UNKNOWN", "OPTED_IN", "OPTED_OUT"} : SetConsent(c, consent)
       PROVE  Silent
  BY <1>16 DEF CloseWindow, RecordIncoming, SetConsent
<1>17. ASSUME NEW part \in {"ready", "credential"}, LoseChannel(part) \/ RestoreChannel(part)
       PROVE  Silent
  BY <1>17 DEF LoseChannel, RestoreChannel
<1>18. ASSUME Suspend \/ Reactivate \/ LowerLimit \/ UNCHANGED vars PROVE Silent
  BY <1>18 DEF Suspend, Reactivate, LowerLimit, vars
<1> HIDE DEF Silent
<1> QED
  BY <1>a, <1>1, <1>2, <1>3, <1>4, <1>5, <1>6, <1>7, <1>8, <1>9, <1>10, <1>11, <1>12, <1>13,
     <1>14, <1>15, <1>16, <1>17, <1>18
  DEF Next, WorkerStep, ProviderStep, OperatorStep, WorldStep

\* The queue keeps the contract it shares with the bot turns: an automated
\* message is admitted and validated only while the bot has the conversation
\* and no echo blocks it, a pause leaves none of them queued, and of the
\* messages the queue gave up only a safe failure comes back.
THEOREM RepliesAreProtected == Spec => KeepsReplyProtocol
<1>1. Init => Replies!Init
  BY KindAssumption DEF Init, Replies!Init, ReplyOf
<1>2. ASSUME Inductive, Inductive', [Next]_vars PROVE Replies!Next
  <2> SUFFICES ASSUME NEW n \in Automation
               PROVE  (Replies!Keep(n) \/ Replies!Move(n)) /\ Replies!TakenBack(n)
    BY DEF Replies!Next
  <2>0. /\ n \in Message /\ ConvOf[n] \in Conversation
        /\ TypeOK /\ TypeOK' /\ state[n] \in MessageStates \cup {"NEW"}
        /\ state'[n] \in MessageStates \cup {"NEW"}
    BY <1>2, KindAssumption, ConvAssumption DEF Inductive, TypeOK
  <2>1. MessageStep(n) /\ BotDecides(n)
    BY <1>2, <2>0, EachMessage, StepDecides
  <2>2. Replies!TakenBack(n)
    BY <2>0, <2>1 DEF BotDecides, ReplyOf, Replies!TakenBack, Replies!OfBot, MessageStates
  <2>3. /\ ~Paused(n) => Replies!OfBot(n)
        /\ ~ObservationBlocks(ConvOf[n]) =>
               ConvOf[n] \notin {c \in Conversation : ObservationBlocks(c)}
    BY <2>0 DEF Paused, Replies!OfBot, TypeOK
  <2> DEFINE r  == ReplyOf(n)
             rr == ReplyOf(n)'
  <2>a. /\ rr = r => Replies!Keep(n)
        /\ /\ rr \in Replies!MayBecome[r]
           /\ r = "absent" => ~Paused(n)
           /\ rr = "trying" => ~Paused(n) /\ ~ObservationBlocks(ConvOf[n])
           => Replies!Move(n)
    BY <2>0, <2>3 DEF Replies!Keep, Replies!Move
  <2> SUFFICES Replies!Keep(n) \/ Replies!Move(n)
    BY <2>2
  <2> USE <2>0 DEF ReplyOf, Replies!MayBecome
  <2>4. CASE Stays(n) \/ Arrives(n)
    BY <2>a, <2>4 DEF Stays, Arrives, SameFlags
  <2>5. CASE Admitted(n)
    BY <2>1, <2>5, <2>a DEF Admitted, BotDecides
  <2>6. CASE Begun(n)
    BY <2>1, <2>6, <2>a DEF Begun, BotDecides
  <2>7. CASE Failed(n) \/ Rearms(n) \/ GivenUp(n)
    BY <2>a, <2>7 DEF Failed, Rearms, GivenUp
  <2>8. CASE Completed(n)
    <3>1. state'[n] \in ReceiptStates /\ ~outbox'[n].retrySafe
      BY <1>2, <2>8, ReconciledIsReceipt DEF Completed, Inductive, LeasesAgree
    <3> QED
      BY <2>8, <2>a, <3>1 DEF Completed, ReceiptStates
  <2>9. CASE Receipt(n)
    <3>1. CASE n \in upstream
      <4>1. /\ state[n] \in ReceiptStates /\ state'[n] \in ReceiptStates
            /\ ~outbox[n].retrySafe /\ ~outbox'[n].retrySafe
        BY <1>2, <2>9, <3>1 DEF Receipt, SameFlags, Advanced, Inductive, LeasesAgree
      <4> QED
        BY <2>a, <4>1 DEF ReceiptStates
    <3>2. CASE n \notin upstream
      BY <2>9, <2>a, <3>2 DEF Receipt, SameFlags
    <3> QED
      BY <3>1, <3>2
  <2> QED
    BY <2>1, <2>4, <2>5, <2>6, <2>7, <2>8, <2>9 DEF MessageStep
<1> QED
  BY <1>1, <1>2, InductiveHolds, PTL DEF Spec, KeepsReplyProtocol, Replies!Spec

===========================================================================
