----------------------- MODULE MessagingOutboxPromise -----------------------
(***************************************************************************)
(* What one step of the queue may do to one message, and what follows from *)
(* it: the transition table, the convergence of receipts and the promise   *)
(* of DeliveryLedger, for every set of messages and workers.               *)
(***************************************************************************)
EXTENDS MessagingOutboxProofs

---------------------------------------------------------------------------
(* One message in one step.                                                *)

\* Nothing of k changes that the properties below look at.
SameFlags(k) == /\ outbox'[k].retrySafe <=> outbox[k].retrySafe
                /\ k \in upstream' <=> k \in upstream

SameWorld(k) == wire'[k].accepted = wire[k].accepted /\ receipts'[k] = receipts[k]

Stays(k)    == state'[k] = state[k] /\ SameFlags(k) /\ SameWorld(k)

Admitted(k) == /\ state[k] = "NEW" /\ state'[k] = "ACCEPTED"
               /\ ~outbox'[k].retrySafe /\ k \notin upstream' /\ SameWorld(k)

Begun(k)    == /\ state[k] = "ACCEPTED" /\ state'[k] = "SENDING"
               /\ SameFlags(k) /\ SameWorld(k)

\* Canceled, barred or refused, before the provider was asked or after it said no.
Failed(k)   == /\ state[k] \in {"ACCEPTED", "SENDING"} \/ (state[k] = "FAILED" /\ outbox[k].retrySafe)
               /\ state'[k] = "FAILED"
               /\ k \notin upstream' /\ wire[k].accepted = 0 /\ SameWorld(k)

Rearms(k)   == /\ state[k] = "FAILED" /\ outbox[k].retrySafe
               /\ state'[k] = "ACCEPTED" /\ k \notin upstream' /\ SameWorld(k)

GivenUp(k)  == /\ state[k] = "SENDING" /\ state'[k] = "UNKNOWN"
               /\ k \notin upstream' /\ SameWorld(k)

Completed(k) == /\ state[k] = "SENDING" /\ state'[k] = Reconciled(receipts[k])
                /\ k \in upstream' /\ wire[k].accepted = 1 /\ SameWorld(k)

Arrives(k)  == /\ state[k] \in {"SENDING", "UNKNOWN"} /\ state'[k] = state[k]
               /\ wire[k].accepted = 0 /\ wire'[k].accepted = 1
               /\ SameFlags(k) /\ receipts'[k] = receipts[k]

Receipt(k)  == \E s \in ReceiptStates :
                  /\ receipts'[k] = receipts[k] \cup {s}
                  /\ Plausible(receipts[k] \cup {s})
                  /\ state'[k] = IF k \in upstream THEN Advanced(state[k], s) ELSE state[k]
                  /\ SameFlags(k) /\ wire'[k].accepted = wire[k].accepted

MessageStep(k) ==
    \/ Stays(k) \/ Admitted(k) \/ Begun(k) \/ Failed(k) \/ Rearms(k) \/ GivenUp(k)
    \/ Completed(k) \/ Arrives(k) \/ Receipt(k)

\* A message on which nothing was decided yet is not at the provider.
LEMMA NothingYet ==
    ASSUME Inductive, NEW k \in Message
    PROVE  /\ state[k] \in {"NEW", "ACCEPTED"} => k \notin upstream /\ wire[k].accepted = 0
           /\ state[k] = "FAILED" /\ outbox[k].retrySafe
                 => k \notin upstream /\ wire[k].accepted = 0
           /\ state[k] \in {"SENDING", "UNKNOWN"} => k \notin upstream /\ ~outbox[k].retrySafe
BY DEF Inductive, LeasesAgree, WireAgrees, Untouched, ReceiptStates

\* A settlement, or a takeover, after an otherwise quiet step.
LEMMA CanceledStep ==
    ASSUME Inductive, NEW k \in Message, UNCHANGED <<upstream, wire, receipts>>,
           \/ state'[k] = state[k] /\ outbox'[k] = outbox[k]
           \/ state[k] = "ACCEPTED" /\ state'[k] = "FAILED"
    PROVE  MessageStep(k)
BY NothingYet DEF MessageStep, Stays, SameFlags, SameWorld, Failed

\* The sweeps of claimOutgoing.
LEMMA SweptStep ==
    ASSUME Inductive, NEW k \in Message, UNCHANGED <<upstream, wire, receipts>>,
           SweptAs(k, state'[k], outbox'[k])
    PROVE  MessageStep(k)
<1> USE NothingYet DEF SameFlags, SameWorld, Gone
<1>1. CASE state'[k] = state[k] /\ outbox'[k] = outbox[k]
  BY <1>1 DEF MessageStep, Stays
<1>2. CASE /\ state'[k] = "FAILED" /\ Gone(outbox'[k])
           /\ \/ state[k] = "ACCEPTED"
              \/ state[k] = "FAILED" /\ outbox[k].retrySafe
  BY <1>2 DEF MessageStep, Failed
<1>3. CASE /\ state[k] = "FAILED" /\ outbox[k].retrySafe
           /\ state'[k] = "ACCEPTED"
  BY <1>3 DEF MessageStep, Rearms
<1>4. CASE state[k] = "SENDING" /\ state'[k] = "UNKNOWN"
  BY <1>4 DEF MessageStep, GivenUp
<1>5. CASE /\ state[k] = "ACCEPTED" /\ state'[k] = "ACCEPTED"
           /\ outbox'[k].retrySafe <=> outbox[k].retrySafe
  <2>1. ~outbox[k].retrySafe /\ ~outbox'[k].retrySafe
    BY <1>5 DEF Inductive, LeasesAgree
  <2> QED
    BY <1>5, <2>1 DEF MessageStep, Stays
<1> QED
  BY <1>1, <1>2, <1>3, <1>4, <1>5 DEF SweptAs

\* Every step of the queue is, for each message, one of the above.
LEMMA EachMessage ==
    ASSUME Inductive, [Next]_vars, NEW k \in Message
    PROVE  MessageStep(k)
<1>0. TypeOK /\ TypeOK'
  BY TypeStep DEF Inductive
<1> USE DEF environment, qrLedger
<1>1. ASSUME NEW m \in Message, Enqueue(m) PROVE MessageStep(k)
  BY <1>0, <1>1, NothingYet
  DEF Enqueue, FreshRow, NoRow, TypeOK, MessageStep, Stays, Admitted, SameFlags, SameWorld
<1>2. ASSUME NEW m \in Message, RetryMessage(m) PROVE MessageStep(k)
  BY <1>0, <1>2, NothingYet
  DEF RetryMessage, TypeOK, MessageStep, Stays, Rearms, SameFlags, SameWorld
<1>3. ASSUME NEW w \in Worker, NEW m \in Message, Claim(w, m) PROVE MessageStep(k)
  <2>1. /\ state' = SweptState
        /\ outbox' = [SweptOutbox EXCEPT ![m] = Leased(SweptOutbox[m], w)]
        /\ SweptState[m] = "ACCEPTED"
        /\ UNCHANGED <<upstream, wire, receipts>>
    BY <1>3 DEF Claim, Candidates
  <2>2. SweptOutbox \in [Message -> Row] /\ SweptAs(k, SweptState[k], SweptOutbox[k])
    BY <1>0, SweptType, SweptMessage
  <2>3. CASE k # m
    BY <2>1, <2>2, <2>3, SweptStep
  <2>4. CASE k = m
    <3>1. outbox'[k].retrySafe = SweptOutbox[k].retrySafe
      BY <2>1, <2>2, <2>4, RowFields
    <3>2. CASE state[k] = "ACCEPTED"
      <4>1. ~outbox[k].retrySafe
        BY <3>2 DEF Inductive, LeasesAgree
      <4>2. ~SweptOutbox[k].retrySafe
        BY <4>1, <3>2, <2>1, <2>2, <2>4 DEF SweptAs
      <4> QED
        BY <2>1, <2>4, <3>1, <3>2, <4>1, <4>2 DEF MessageStep, Stays, SameFlags, SameWorld
    <3>3. CASE state[k] = "FAILED" /\ outbox[k].retrySafe
      BY <2>1, <2>4, <3>3, NothingYet DEF MessageStep, Rearms, SameWorld
    <3> QED
      BY <2>1, <2>2, <2>4, <3>2, <3>3 DEF SweptAs
  <2> QED
    BY <2>3, <2>4
<1>4. ASSUME NEW w \in Worker, Sweep(w) PROVE MessageStep(k)
  BY <1>0, <1>4, SweptMessage, SweptStep DEF Sweep
<1>5. ASSUME NEW w \in Worker,
             \/ \E out \in {"FAILED", "FAILED_SAFE"} : PreflightFails(w, out)
             \/ ValidateLost(w) \/ AnswerUncertain(w) \/ CompleteLost(w) \/ Crash(w)
      PROVE  MessageStep(k)
  BY <1>5 DEF PreflightFails, ValidateLost, AnswerUncertain, CompleteLost, Crash,
     MessageStep, Stays, SameFlags, SameWorld
<1>6. ASSUME NEW w \in Worker, ValidateEligible(w) PROVE MessageStep(k)
  BY <1>0, <1>6 DEF ValidateEligible, Selected, TypeOK, Turn, Idle,
     MessageStep, Stays, Begun, SameFlags, SameWorld
<1>7. ASSUME NEW w \in Worker, ValidateFails(w) PROVE MessageStep(k)
  BY <1>0, <1>7, CanceledStep DEF ValidateFails, Selected, TypeOK
<1>8. ASSUME NEW w \in Worker, ValidateHolds(w) PROVE MessageStep(k)
  BY <1>0, <1>8 DEF ValidateHolds, GiveBack, TypeOK, MessageStep, Stays, SameFlags, SameWorld
<1>9. ASSUME NEW w \in Worker, Post(w) PROVE MessageStep(k)
  BY <1>0, <1>9 DEF Post, TypeOK, MessageStep, Stays, SameFlags, SameWorld
<1>10. ASSUME NEW w \in Worker, NEW out \in Outcomes, ProviderAnswers(w, out)
       PROVE  MessageStep(k)
  <2> DEFINE m == worker[w].msg
  <2>1. /\ m \in Message /\ InFlight(m) /\ state[m] \in {"SENDING", "UNKNOWN"}
    BY <1>0, <1>10 DEF ProviderAnswers, Inductive, TypeOK, TurnsAgree, Authorised, Turn, Idle
  <2>2. /\ UNCHANGED <<state, outbox, upstream, receipts>>
        /\ wire' = [wire EXCEPT ![m] =
                      [open |-> @.open - 1,
                       accepted |-> @.accepted + (IF out = "SENT" THEN 1 ELSE 0)]]
    BY <1>10 DEF ProviderAnswers
  <2> HIDE DEF m
  <2>3. CASE k = m /\ out = "SENT"
    BY <1>0, <2>1, <2>2, <2>3 DEF TypeOK, InFlight, MessageStep, Arrives, SameFlags
  <2>4. CASE k # m \/ out # "SENT"
    BY <1>0, <2>1, <2>2, <2>4 DEF TypeOK, InFlight, MessageStep, Stays, SameFlags, SameWorld
  <2> QED
    BY <2>3, <2>4
<1>11. ASSUME NEW m \in Message, ProviderAcceptsLate(m) PROVE MessageStep(k)
  <2>1. InFlight(m) /\ m \notin upstream /\ state[m] \in {"SENDING", "UNKNOWN"}
    BY <1>0, <1>11
    DEF ProviderAcceptsLate, Inductive, LeasesAgree, WireAgrees, Untouched, InFlight, Taken,
        TypeOK, MessageStates, ReceiptStates
  <2>2. CASE k = m
    BY <1>0, <1>11, <2>1, <2>2
    DEF ProviderAcceptsLate, InFlight, TypeOK, MessageStep, Arrives, SameFlags
  <2>3. CASE k # m
    BY <1>0, <1>11, <2>3 DEF ProviderAcceptsLate, TypeOK, MessageStep, Stays, SameFlags, SameWorld
  <2> QED
    BY <2>2, <2>3
<1>12. ASSUME NEW m \in Message, NEW s \in ReceiptStates, RecordStatus(m, s)
       PROVE  MessageStep(k)
  <2>1. CASE k = m
    BY <1>0, <1>12, <2>1 DEF RecordStatus, TypeOK, MessageStep, Receipt, SameFlags
  <2>2. CASE k # m
    BY <1>0, <1>12, <2>2 DEF RecordStatus, TypeOK, MessageStep, Stays, SameFlags, SameWorld
  <2> QED
    BY <2>1, <2>2
<1>13. ASSUME NEW e \in Echo, ObserveOutbound(e) PROVE MessageStep(k)
  BY <1>13, SettledMessage, CanceledStep DEF ObserveOutbound
<1>14. ASSUME NEW m \in Message, AbandonAttempt(m) PROVE MessageStep(k)
  BY <1>14, SettledMessage, CanceledStep DEF AbandonAttempt
<1>15. ASSUME NEW w \in Worker, CompleteSend(w) PROVE MessageStep(k)
  <2> DEFINE m   == worker[w].msg
             out == worker[w].outcome
             up  == upstream \cup (IF out = "SENT" THEN {m} ELSE {})
             at  == [attempt EXCEPT ![m] = FinalAttempt(@, out)]
             st  == [state EXCEPT ![m] = FinalState(m, out)]
             ob  == [outbox EXCEPT ![m] = FinalRow(@, out)]
  <2>1. /\ worker[w].phase = "answered" /\ Owned(w) /\ upstream' = up
        /\ Settle(Unreconciled(ConvOf[m]), st, ob, up, at)
        /\ UNCHANGED <<wire, receipts>>
    BY <1>15 DEF CompleteSend
  <2>2. m \in Message /\ out \in Outcomes \ {"none"}
    BY <2>1, <1>0 DEF Inductive, TypeOK, TurnsAgree, Turn, Idle
  <2>3. /\ state[m] \in {"SENDING", "ACCEPTED"}
        /\ state[m] = "ACCEPTED" => out \in {"FAILED", "FAILED_SAFE"}
        /\ outbox[m].holder = w
    BY <2>1 DEF Owned
  <2>4. /\ m \notin upstream
        /\ out = "SENT" => Taken(m)
        /\ out \in {"FAILED", "FAILED_SAFE"} => Untouched(m)
    BY <2>1, <2>2, <2>3 DEF Inductive, TurnsAgree, LeasesAgree, ReceiptStates
  <2>5. /\ st \in [Message -> {state[n] : n \in Message} \cup {FinalState(m, out)}]
        /\ st[m] = FinalState(m, out)
        /\ k # m => st[k] = state[k] /\ ob[k] = outbox[k]
    BY <1>0, <2>2 DEF TypeOK
  <2> HIDE DEF st, ob, at
  <2>6. \/ state'[k] = st[k] /\ outbox'[k] = ob[k]
        \/ st[k] = "ACCEPTED" /\ state'[k] = "FAILED" /\ outbox'[k] = NoRow
    BY <2>1, SettledMessage
  <2>7. CASE k # m
    <3>1. k \in upstream' <=> k \in upstream
      BY <2>1, <2>7
    <3>2. CASE state'[k] = state[k] /\ outbox'[k] = outbox[k]
      BY <2>1, <3>1, <3>2 DEF MessageStep, Stays, SameFlags, SameWorld
    <3>3. CASE state[k] = "ACCEPTED" /\ state'[k] = "FAILED"
      BY <2>1, <3>1, <3>3, NothingYet DEF MessageStep, Failed, SameWorld
    <3> QED
      BY <2>5, <2>6, <2>7, <3>2, <3>3
  <2>8. CASE k = m
    <3>1. FinalState(m, out) # "ACCEPTED"
      BY ReconciledIsReceipt DEF FinalState, ReceiptStates
    <3>2. state'[m] = FinalState(m, out)
      BY <2>5, <2>6, <2>8, <3>1
    <3>3. CASE out = "SENT"
      BY <2>1, <2>3, <2>4, <2>8, <3>2, <3>3
      DEF FinalState, Taken, MessageStep, Completed, SameWorld
    <3>4. CASE out \in {"FAILED", "FAILED_SAFE"}
      BY <2>1, <2>3, <2>4, <2>8, <3>2, <3>4
      DEF FinalState, Untouched, MessageStep, Failed, SameWorld
    <3>5. CASE out = "UNKNOWN"
      BY <2>1, <2>3, <2>4, <2>8, <3>2, <3>5 DEF FinalState, MessageStep, GivenUp, SameWorld
    <3> QED
      BY <2>2, <3>3, <3>4, <3>5 DEF Outcomes
  <2> QED
    BY <2>7, <2>8
<1>16. ASSUME NEW w \in Worker, RecoverQr(w) PROVE MessageStep(k)
  <2> DEFINE at == [m \in Message |-> IF m \in Overdue THEN "UNKNOWN" ELSE attempt[m]]
             st == [m \in Message |->
                      IF m \in Overdue /\ state[m] = "SENDING" THEN "UNKNOWN" ELSE state[m]]
             ob == [m \in Message |-> IF st[m] = "UNKNOWN" THEN NoRow ELSE outbox[m]]
             E  == UNION {Unreconciled(c) : c \in Conversation}
  <2>1. Settle(E, st, ob, upstream, at) /\ UNCHANGED <<upstream, wire, receipts>>
    BY <1>16 DEF RecoverQr
  <2>2. \/ st[k] = state[k] /\ ob[k] = outbox[k]
        \/ st[k] = state[k] /\ state[k] = "UNKNOWN" /\ ob[k] = NoRow
        \/ st[k] = "UNKNOWN" /\ state[k] = "SENDING"
    OBVIOUS
  <2> HIDE DEF at, st, ob, E
  <2>3. \/ state'[k] = st[k] /\ outbox'[k] = ob[k]
        \/ st[k] = "ACCEPTED" /\ state'[k] = "FAILED"
    BY <2>1, SettledMessage
  <2>4. CASE state[k] = "SENDING" /\ state'[k] = "UNKNOWN"
    BY <2>1, <2>4, NothingYet DEF MessageStep, GivenUp, SameWorld
  <2>5. CASE state[k] = "UNKNOWN" /\ state'[k] = "UNKNOWN" /\ outbox'[k] = NoRow
    BY <2>1, <2>5, NothingYet, RowFields DEF Gone, MessageStep, Stays, SameFlags, SameWorld
  <2> QED
    BY <2>1, <2>2, <2>3, <2>4, <2>5, CanceledStep
<1>17. ASSUME NEW e \in Echo, AbandonObservation(e) PROVE MessageStep(k)
  BY <1>17 DEF AbandonObservation, MessageStep, Stays, SameFlags, SameWorld
<1>18. ASSUME NEW c \in Conversation, TakeOver(c) PROVE MessageStep(k)
  BY <1>18, CanceledStep DEF TakeOver, Canceled
<1>19. ASSUME UNCHANGED <<state, outbox, upstream, wire, receipts>> PROVE MessageStep(k)
  BY <1>19 DEF MessageStep, Stays, SameFlags, SameWorld
<1>20. ASSUME NEW c \in Conversation,
              ResumeBot(c) \/ CloseWindow(c) \/ RecordIncoming(c)
              \/ \E consent \in {"UNKNOWN", "OPTED_IN", "OPTED_OUT"} : SetConsent(c, consent)
       PROVE  MessageStep(k)
  BY <1>19, <1>20 DEF ResumeBot, CloseWindow, RecordIncoming, SetConsent
<1>21. ASSUME Suspend \/ Reactivate \/ LowerLimit PROVE MessageStep(k)
  BY <1>19, <1>21 DEF Suspend, Reactivate, LowerLimit
<1>22. ASSUME NEW part \in {"ready", "credential"}, LoseChannel(part) \/ RestoreChannel(part)
       PROVE  MessageStep(k)
  BY <1>19, <1>22 DEF LoseChannel, RestoreChannel
<1>23. ASSUME NEW m \in Message, RevokeAuthority(m) PROVE MessageStep(k)
  BY <1>19, <1>23 DEF RevokeAuthority
<1>24. ASSUME NEW m \in Message, LeaseElapses(m) \/ BackoffElapses(m) PROVE MessageStep(k)
  <2>1. CASE LeaseElapses(m)
    BY <1>0, <2>1 DEF LeaseElapses, TypeOK, Row, MessageStep, Stays, SameFlags, SameWorld
  <2>2. CASE BackoffElapses(m)
    BY <1>0, <2>2 DEF BackoffElapses, TypeOK, Row, MessageStep, Stays, SameFlags, SameWorld
  <2> QED
    BY <1>24, <2>1, <2>2
<1>25. CASE UNCHANGED vars
  BY <1>19, <1>25 DEF vars
<1> QED
  BY <1>1, <1>2, <1>3, <1>4, <1>5, <1>6, <1>7, <1>8, <1>9, <1>10, <1>11, <1>12, <1>13, <1>14,
     <1>15, <1>16, <1>17, <1>18, <1>20, <1>21, <1>22, <1>23, <1>24, <1>25
  DEF Next, WorkerStep, ProviderStep, OperatorStep, WorldStep

---------------------------------------------------------------------------
(* What follows for every message.                                         *)

LEMMA ReconciledAdvances == \A recorded : CanAdvance("SENT", Reconciled(recorded))
BY DEF CanAdvance, Reconciled, Replay, Advanced, Transitions

\* No interleaving takes a message back: message-state.ts is respected on every
\* path, also on those that write the state without asking it.
THEOREM TableIsFollowed == Spec => StateFollowsTable
<1> DEFINE Follows(m) ==
             \/ state[m] = "NEW"
             \/ CanAdvance(state[m], state'[m])
             \/ state[m] = "SENDING" /\ CanAdvance("SENT", state'[m])
             \/ state[m] = "FAILED" /\ state'[m] = "ACCEPTED" /\ outbox[m].retrySafe
<1>1. ASSUME Inductive, [Next]_vars, NEW m \in Message, state'[m] # state[m]
      PROVE  Follows(m)
  <2>1. MessageStep(m)
    BY <1>1, EachMessage
  <2>2. CASE Admitted(m) \/ Begun(m) \/ Failed(m) \/ Rearms(m) \/ GivenUp(m)
    BY <1>1, <2>2
    DEF Admitted, Begun, Failed, Rearms, GivenUp, CanAdvance, Transitions
  <2>3. CASE Completed(m)
    BY <2>3, ReconciledAdvances DEF Completed
  <2>4. CASE Receipt(m)
    BY <1>1, <2>4 DEF Receipt, Advanced
  <2> QED
    BY <1>1, <2>1, <2>2, <2>3, <2>4 DEF MessageStep, Stays, Arrives
<1>2. Inductive /\ [Next]_vars => [\A m \in Message : state'[m] # state[m] => Follows(m)]_vars
  BY <1>1
<1> QED
  BY <1>2, InductiveHolds, PTL DEF Spec, StateFollowsTable

\* One more receipt on a reconciled message gives the reconciled message of one
\* more receipt, in whatever order they come.
LEMMA OneMoreReceipt ==
    ASSUME NEW recorded, NEW s \in ReceiptStates, Plausible(recorded \cup {s})
    PROVE  Advanced(Reconciled(recorded), s) = Reconciled(recorded \cup {s})
BY DEF Plausible, ReceiptStates, Reconciled, Replay, Advanced, CanAdvance, Transitions

\* The state of a message with a provider id is the one its receipts tell.
THEOREM ReceiptsDoConverge == Spec => []ReceiptsConverge
<1>1. Init => ReceiptsConverge
  BY DEF Init, ReceiptsConverge
<1>2. ASSUME Inductive, ReceiptsConverge, [Next]_vars PROVE ReceiptsConverge'
  <2> SUFFICES ASSUME NEW m \in upstream' PROVE state'[m] = Reconciled(receipts'[m])
    BY DEF ReceiptsConverge
  <2>1. m \in Message
    BY <1>2, TypeStep DEF Inductive, TypeOK
  <2>2. MessageStep(m)
    BY <1>2, <2>1, EachMessage
  <2>3. m \in upstream => state[m] = Reconciled(receipts[m]) /\ state[m] \in ReceiptStates
    BY <1>2, <2>1 DEF ReceiptsConverge, Inductive, LeasesAgree
  <2>4. CASE Stays(m) \/ Begun(m) \/ Arrives(m) \/ Completed(m)
    BY <2>3, <2>4
    DEF Stays, Begun, Arrives, Completed, SameFlags, SameWorld, ReceiptStates
  <2>5. CASE Receipt(m)
    BY <2>3, <2>5, OneMoreReceipt DEF Receipt, SameFlags
  <2> QED
    BY <2>2, <2>4, <2>5 DEF MessageStep, Admitted, Failed, Rearms, GivenUp
<1> QED
  BY <1>1, <1>2, InductiveHolds, PTL DEF Spec

\* The queue implements DeliveryLedger: whatever its sweeps, workers, recovery
\* and operators do, the broker never says "accepted" or "failed" of a message
\* for which it is not true, and never tries an unsure one again.
THEOREM PromiseIsKept == Spec => KeepsPromise
<1>1. Init => Ledger!Init
  BY DEF Init, Ledger!Init, PromiseOf
<1>2. ASSUME Inductive, [Next]_vars PROVE Ledger!Next
  <2> SUFFICES ASSUME NEW m \in Message
               PROVE  Ledger!Keep(m) \/ Ledger!Move(m) \/ Ledger!Deliver(m) \/ Ledger!Confirm(m)
    BY DEF Ledger!Next
  <2>1. MessageStep(m)
    BY <1>2, EachMessage
  <2>2. CASE Stays(m)
    BY <2>2 DEF Stays, SameFlags, SameWorld, PromiseOf, Ledger!Keep
  <2>3. /\ state[m] \in {"NEW", "ACCEPTED", "SENDING", "UNKNOWN"} => m \notin upstream
        /\ state[m] \in {"NEW", "ACCEPTED"} => wire[m].accepted = 0
        /\ state[m] = "FAILED" /\ outbox[m].retrySafe => m \notin upstream /\ wire[m].accepted = 0
    BY <1>2, NothingYet
  <2>4. CASE Admitted(m)
    BY <2>3, <2>4 DEF Admitted, SameWorld, PromiseOf, Ledger!Move, Ledger!MayBecome
  <2>5. CASE Begun(m)
    BY <2>3, <2>5 DEF Begun, SameFlags, SameWorld, PromiseOf, Ledger!Move, Ledger!MayBecome
  <2>6. CASE Failed(m)
    BY <2>3, <2>6 DEF Failed, SameWorld, PromiseOf, Ledger!Keep, Ledger!Move, Ledger!MayBecome
  <2>7. CASE Rearms(m)
    BY <2>3, <2>7 DEF Rearms, SameWorld, PromiseOf, Ledger!Move, Ledger!MayBecome
  <2>8. CASE GivenUp(m)
    BY <2>3, <2>8 DEF GivenUp, SameWorld, PromiseOf, Ledger!Move, Ledger!MayBecome
  <2>9. CASE Completed(m)
    BY <2>3, <2>9, ReconciledIsReceipt
    DEF Completed, SameWorld, PromiseOf, ReceiptStates, Ledger!Confirm
  <2>10. CASE Arrives(m)
    BY <2>3, <2>10 DEF Arrives, SameFlags, PromiseOf, Ledger!Deliver
  <2>11. CASE Receipt(m)
    <3>1. m \in upstream => state[m] \in ReceiptStates /\ state'[m] \in ReceiptStates
      BY <1>2, <2>11 DEF Receipt, Advanced, Inductive, LeasesAgree
    <3> QED
      BY <2>11, <3>1 DEF Receipt, SameFlags, PromiseOf, ReceiptStates, Ledger!Keep
  <2> QED
    BY <2>1, <2>2, <2>4, <2>5, <2>6, <2>7, <2>8, <2>9, <2>10, <2>11 DEF MessageStep
<1> QED
  BY <1>1, <1>2, InductiveHolds, PTL DEF Spec, KeepsPromise, Ledger!Spec

---------------------------------------------------------------------------
(* Our own echoes.                                                         *)

\* What the phone reports of a message of ours was accepted by the provider.
EchoesAccepted ==
    \A m \in Message : observation[m].disposition = "RECONCILE" => Qr /\ wire[m].accepted = 1

\* An echo whose provider id is stored, or whose dispatch is on record, is ours.
LEMMA OwnEchoSettles ==
    ASSUME NEW m \in Message, NEW up, NEW at,
           m \in up \/ at[m] \in {"DISPATCHED", "UNKNOWN", "ABANDONED"}
    PROVE  Settlement(m, up, at).disposition # "EXTERNAL_OBSERVED"
<1>1. EchoConv(m) = ConvOf[m] /\ (Correlated(m, up) <=> m \in up)
  BY DEF EchoConv, Correlated
<1>2. CASE m \in up
  BY <1>1, <1>2 DEF Settlement, Observed
<1>3. CASE m \notin up /\ AttemptIn(EchoConv(m), at, {"DISPATCHED", "UNKNOWN"})
  BY <1>1, <1>3 DEF Settlement, Observed
<1>4. CASE /\ m \notin up /\ at[m] = "ABANDONED"
           /\ ~AttemptIn(EchoConv(m), at, {"DISPATCHED", "UNKNOWN"})
  <2>1. AttemptIn(EchoConv(m), at, {"ABANDONED"})
    BY <1>1, <1>4 DEF AttemptIn
  <2> QED
    BY <1>1, <1>4, <2>1 DEF Settlement, Observed
<1>5. at[m] \in {"DISPATCHED", "UNKNOWN"}
         => AttemptIn(EchoConv(m), at, {"DISPATCHED", "UNKNOWN"})
  BY <1>1 DEF AttemptIn
<1> QED
  BY <1>2, <1>3, <1>4, <1>5

\* However echo, answer, expiry and abandonment interleave, the bot is never
\* paused because of the broker's own message.
THEOREM OwnEchoesAreKnown == Spec => []OwnEchoNeverExternal
<1> DEFINE Known == OwnEchoNeverExternal /\ EchoesAccepted
<1>1. Init => Known
  BY DEF Init, Echo, Observed, OwnEchoNeverExternal, EchoesAccepted
<1>2. ASSUME Inductive, Inductive', Known, [Next]_vars PROVE Known'
  <2>1. ASSUME NEW m \in Message, wire[m].accepted = 1 PROVE wire'[m].accepted = 1
    BY <1>2, <2>1, EachMessage
    DEF MessageStep, Stays, Admitted, Begun, Failed, Rearms, GivenUp, Completed, Arrives, Receipt,
        SameWorld
  <2>2. CASE UNCHANGED observation
    BY <1>2, <2>1, <2>2 DEF OwnEchoNeverExternal, EchoesAccepted
  <2>3. ASSUME NEW E \in SUBSET Echo, UNCHANGED wire,
               \A m \in Message : m \in E => Qr /\ wire[m].accepted = 1,
               observation' = [e \in Echo |-> IF e \in E THEN Settlement(e, upstream', attempt')
                                                          ELSE observation[e]]
        PROVE  Known'
    <3>1. \A m \in Message : m \in E => observation'[m].disposition # "EXTERNAL_OBSERVED"
      <4> SUFFICES ASSUME NEW m \in Message, m \in E
                   PROVE  observation'[m].disposition # "EXTERNAL_OBSERVED"
        OBVIOUS
      <4>1. observation'[m] = Settlement(m, upstream', attempt')
        BY <2>3 DEF Echo
      <4>2. wire'[m].accepted = 1
        BY <2>3
      <4>3. m \in upstream' \/ state'[m] \in {"SENDING", "UNKNOWN"}
        <5>1. state'[m] \in MessageStates \cup {"NEW"}
          BY <1>2 DEF Inductive, TypeOK
        <5>2. state'[m] \in {"SENT", "DELIVERED", "READ"} => m \in upstream'
          BY <1>2 DEF Inductive, LeasesAgree, ReceiptStates
        <5>3. state'[m] \in {"NEW", "ACCEPTED", "FAILED"} => m \in upstream'
          BY <1>2, <4>2 DEF Inductive, WireAgrees, Untouched
        <5> QED
          BY <5>1, <5>2, <5>3 DEF MessageStates
      <4>4. m \in upstream' \/ attempt'[m] \in {"DISPATCHED", "UNKNOWN", "ABANDONED"}
        BY <1>2, <2>3, <4>3 DEF Inductive, LedgerAgrees
      <4> QED
        BY <4>1, <4>4, OwnEchoSettles
    <3>2. \A m \in Message : m \notin E => observation'[m] = observation[m]
      BY <2>3 DEF Echo
    <3> QED
      BY <1>2, <2>3, <3>1, <3>2 DEF OwnEchoNeverExternal, EchoesAccepted
  <2>4. ASSUME NEW w \in Worker, CompleteSend(w) PROVE Known'
    <3> DEFINE E == Unreconciled(ConvOf[worker[w].msg])
    <3>1. /\ observation' = [e \in Echo |-> IF e \in E THEN Settlement(e, upstream', attempt')
                                                        ELSE observation[e]]
          /\ UNCHANGED wire
      BY <2>4 DEF CompleteSend, Settle
    <3>2. E \in SUBSET Echo /\ \A m \in Message : m \in E => Qr /\ wire[m].accepted = 1
      BY <1>2 DEF Unreconciled, EchoesAccepted
    <3> HIDE DEF E
    <3> QED
      BY <2>3, <3>1, <3>2
  <2>5. ASSUME NEW e \in Echo, ObserveOutbound(e) PROVE Known'
    <3>1. /\ Qr /\ UNCHANGED <<wire, upstream, attempt>>
          /\ e \in Message => wire[e].accepted > 0
          /\ observation' = [f \in Echo |-> IF f \in {e} THEN Settlement(f, upstream', attempt')
                                                        ELSE observation[f]]
      BY <2>5 DEF ObserveOutbound, Settle
    <3>2. \A m \in Message : m \in {e} => Qr /\ wire[m].accepted = 1
      BY <1>2, <3>1 DEF Inductive, WireAgrees, Untouched, InFlight, Taken
    <3> QED
      BY <2>3, <3>1, <3>2
  <2>6. ASSUME NEW w \in Worker, RecoverQr(w) PROVE Known'
    <3> DEFINE E == UNION {Unreconciled(c) : c \in Conversation}
    <3>1. /\ observation' = [e \in Echo |-> IF e \in E THEN Settlement(e, upstream', attempt')
                                                        ELSE observation[e]]
          /\ UNCHANGED wire
      BY <2>6 DEF RecoverQr, Settle
    <3>2. E \in SUBSET Echo /\ \A m \in Message : m \in E => Qr /\ wire[m].accepted = 1
      BY <1>2 DEF Unreconciled, EchoesAccepted
    <3> HIDE DEF E
    <3> QED
      BY <2>3, <3>1, <3>2
  <2>7. ASSUME NEW m \in Message, AbandonAttempt(m) PROVE Known'
    <3> DEFINE E == Unreconciled(ConvOf[m])
    <3>1. /\ observation' = [e \in Echo |-> IF e \in E THEN Settlement(e, upstream', attempt')
                                                        ELSE observation[e]]
          /\ UNCHANGED wire
      BY <2>7 DEF AbandonAttempt, Settle
    <3>2. E \in SUBSET Echo /\ \A n \in Message : n \in E => Qr /\ wire[n].accepted = 1
      BY <1>2 DEF Unreconciled, EchoesAccepted
    <3> HIDE DEF E
    <3> QED
      BY <2>3, <3>1, <3>2
  <2>8. ASSUME NEW e \in Echo, AbandonObservation(e) PROVE Known'
    BY <1>2, <2>8 DEF AbandonObservation, Observed, Echo, OwnEchoNeverExternal, EchoesAccepted
  <2>9. \/ UNCHANGED observation
        \/ \E w \in Worker : CompleteSend(w) \/ RecoverQr(w)
        \/ \E e \in Echo : ObserveOutbound(e) \/ AbandonObservation(e)
        \/ \E m \in Message : AbandonAttempt(m)
    BY <1>2
    DEF vars, qrLedger, Next, WorkerStep, ProviderStep, OperatorStep, WorldStep, Claim, Sweep,
        PreflightFails, ValidateEligible, ValidateFails, ValidateHolds, ValidateLost, Post,
        AnswerUncertain, CompleteLost, ProviderAnswers, ProviderAcceptsLate, RecordStatus,
        Enqueue, RetryMessage, RevokeAuthority, TakeOver, ResumeBot, CloseWindow, RecordIncoming,
        SetConsent, Suspend, Reactivate, LowerLimit, LoseChannel, RestoreChannel, Crash,
        LeaseElapses, BackoffElapses
  <2> QED
    BY <2>2, <2>4, <2>5, <2>6, <2>7, <2>8, <2>9
<1> QED
  BY <1>1, <1>2, InductiveHolds, PTL DEF Spec

===========================================================================
