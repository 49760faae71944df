----------------------- MODULE MessagingOutboxProofs -----------------------
(***************************************************************************)
(* Theorems about MessagingOutbox for every set of messages, conversations *)
(* and workers.                                                            *)
(***************************************************************************)
EXTENDS MessagingOutbox, TLAPS

---------------------------------------------------------------------------
(* The values the variables take are typed.                                *)

LEMMA RowValues ==
    /\ NoRow \in Row
    /\ FreshRow \in Row
    /\ \A row \in Row :
          /\ Rearmed(row) \in Row
          /\ GiveBack(row) \in Row
          /\ [row EXCEPT !.expired = TRUE] \in Row
          /\ [row EXCEPT !.rested = TRUE] \in Row
          /\ \A w \in Worker : Leased(row, w) \in Row
          /\ \A out \in Outcomes : FinalRow(row, out) \in Row
<1>1. NoRow \in Row /\ FreshRow \in Row
  BY DEF NoRow, FreshRow, Row
<1>2. ASSUME NEW row \in Row
      PROVE  /\ Rearmed(row) \in Row
             /\ GiveBack(row) \in Row
             /\ [row EXCEPT !.expired = TRUE] \in Row
             /\ [row EXCEPT !.rested = TRUE] \in Row
  BY DEF Rearmed, GiveBack, Row
<1>3. ASSUME NEW row \in Row, NEW w \in Worker PROVE Leased(row, w) \in Row
  <2>1. row.attempts + 1 \in Nat
    BY DEF Row
  <2> QED
    BY <2>1 DEF Leased, Row
<1>4. ASSUME NEW row \in Row, NEW out \in Outcomes PROVE FinalRow(row, out) \in Row
  <2>1. PICK r \in Row : r = GiveBack(row)
    BY <1>2
  <2>2. [r EXCEPT !.retrySafe = TRUE, !.rested = FALSE] \in Row
    BY DEF Row
  <2> QED
    BY <1>1, <2>1, <2>2 DEF FinalRow
<1> QED
  BY <1>1, <1>2, <1>3, <1>4

LEMMA TurnValues ==
    /\ Idle \in Turn
    /\ \A m \in Message :
          /\ \A phase \in Phases : At(phase, m) \in Turn
          /\ \A out \in Outcomes : Answered(m, out) \in Turn
BY DEF Idle, At, Answered, Turn, Phases, Outcomes

LEMMA ObservationValues ==
    \A disposition \in Dispositions, blocking \in BOOLEAN :
        Observed(disposition, blocking) \in [disposition: Dispositions, blocking: BOOLEAN]
BY DEF Observed

LEMMA TypeInit == Init => TypeOK
<1> SUFFICES ASSUME Init PROVE TypeOK
  OBVIOUS
<1>1. /\ outbox \in [Message -> Row]
      /\ worker \in [Worker -> Turn]
  BY RowValues, TurnValues DEF Init
<1>2. /\ state \in [Message -> MessageStates \cup {"NEW"}]
      /\ attempt \in [Message -> AttemptStates]
      /\ mode \in [Conversation -> {"BOT", "HUMAN"}]
  BY DEF Init, AttemptStates
<1>3. /\ contact \in [Conversation ->
             [consent: {"UNKNOWN", "OPTED_IN", "OPTED_OUT"}, window: BOOLEAN]]
      /\ tenant \in [active: BOOLEAN, limit: Nat]
      /\ channel \in [ready: BOOLEAN, credential: BOOLEAN]
      /\ wire \in [Message -> [open: Nat, accepted: Nat]]
  BY BoundAssumption DEF Init
<1>4. observation \in [Echo -> [disposition: Dispositions, blocking: BOOLEAN]]
  BY ObservationValues DEF Init, Dispositions
<1>5. /\ upstream \in SUBSET Message
      /\ receipts \in [Message -> SUBSET ReceiptStates]
      /\ revoked \in SUBSET Message
      /\ faults \in 0..MaxFaults
  BY BoundAssumption DEF Init
<1> QED
  BY <1>1, <1>2, <1>3, <1>4, <1>5 DEF TypeOK

LEMMA SweptType ==
    ASSUME TypeOK
    PROVE  /\ SweptState \in [Message -> MessageStates \cup {"NEW"}]
           /\ SweptOutbox \in [Message -> Row]
<1>1. ASSUME NEW m \in Message PROVE SweptState[m] \in MessageStates \cup {"NEW"}
  BY DEF SweptState, TypeOK, MessageStates
<1>2. ASSUME NEW m \in Message PROVE SweptOutbox[m] \in Row
  <2>1. outbox[m] \in Row
    BY DEF TypeOK
  <2> QED
    BY <2>1, RowValues DEF SweptOutbox
<1> QED
  BY <1>1, <1>2 DEF SweptState, SweptOutbox

LEMMA SettleType ==
    ASSUME TypeOK, NEW E \in SUBSET Echo, NEW st \in [Message -> MessageStates \cup {"NEW"}],
           NEW ob \in [Message -> Row], NEW up \in SUBSET Message,
           NEW at \in [Message -> AttemptStates], Settle(E, st, ob, up, at)
    PROVE  /\ state' \in [Message -> MessageStates \cup {"NEW"}]
           /\ outbox' \in [Message -> Row]
           /\ mode' \in [Conversation -> {"BOT", "HUMAN"}]
           /\ observation' \in [Echo -> [disposition: Dispositions, blocking: BOOLEAN]]
<1> DEFINE C == Interrupted(E, up, at)
           gone == Canceled(C, st)
<1>1. \A e \in Echo : Settlement(e, up, at) \in [disposition: Dispositions, blocking: BOOLEAN]
  BY ObservationValues DEF Settlement, Dispositions
<1> HIDE DEF C, gone
<1> QED
  BY <1>1, RowValues DEF Settle, TypeOK, MessageStates, C, gone

\* Every step keeps every variable in its type.
LEMMA TypeStep == TypeOK /\ [Next]_vars => TypeOK'
<1> SUFFICES ASSUME TypeOK, [Next]_vars PROVE TypeOK'
  OBVIOUS
<1> USE DEF TypeOK, environment, qrLedger
<1>1. ASSUME NEW m \in Message, Enqueue(m) PROVE TypeOK'
  BY <1>1, RowValues DEF Enqueue, MessageStates
<1>2. ASSUME NEW m \in Message, RetryMessage(m) PROVE TypeOK'
  BY <1>2, RowValues, BoundAssumption DEF RetryMessage, Disturb, MessageStates
<1>3. ASSUME NEW w \in Worker, NEW m \in Message, Claim(w, m) PROVE TypeOK'
  BY <1>3, SweptType, RowValues, TurnValues DEF Claim, Phases
<1>4. ASSUME NEW w \in Worker, Sweep(w) PROVE TypeOK'
  BY <1>4, SweptType DEF Sweep
<1>5. ASSUME NEW w \in Worker, worker[w].phase # "idle" PROVE worker[w].msg \in Message
  BY <1>5 DEF Turn, Idle
<1>6. ASSUME NEW w \in Worker, NEW out \in {"FAILED", "FAILED_SAFE"}, PreflightFails(w, out)
      PROVE  TypeOK'
  BY <1>5, <1>6, TurnValues DEF PreflightFails, Outcomes
<1>7. ASSUME NEW w \in Worker, ValidateEligible(w) PROVE TypeOK'
  BY <1>5, <1>7, TurnValues DEF ValidateEligible, Selected, Phases, MessageStates, AttemptStates
<1>8. ASSUME NEW w \in Worker, ValidateFails(w) PROVE TypeOK'
  BY <1>5, <1>8, RowValues, TurnValues DEF ValidateFails, Selected, MessageStates
<1>9. ASSUME NEW w \in Worker, ValidateHolds(w) PROVE TypeOK'
  BY <1>5, <1>9, RowValues, TurnValues DEF ValidateHolds
<1>10. ASSUME NEW w \in Worker, ValidateLost(w) PROVE TypeOK'
  BY <1>5, <1>10, TurnValues DEF ValidateLost
<1>11. ASSUME NEW w \in Worker, Post(w) PROVE TypeOK'
  BY <1>5, <1>11, TurnValues DEF Post, Phases
<1>12. ASSUME NEW w \in Worker, NEW out \in Outcomes, ProviderAnswers(w, out) PROVE TypeOK'
  BY <1>5, <1>12, TurnValues DEF ProviderAnswers
<1>13. ASSUME NEW w \in Worker, AnswerUncertain(w) PROVE TypeOK'
  BY <1>5, <1>13, TurnValues DEF AnswerUncertain, Outcomes
<1>14. ASSUME NEW m \in Message, ProviderAcceptsLate(m) PROVE TypeOK'
  BY <1>14 DEF ProviderAcceptsLate
<1>16. ASSUME NEW w \in Worker, CompleteLost(w) PROVE TypeOK'
  BY <1>5, <1>16, TurnValues DEF CompleteLost
<1>17. ASSUME NEW m \in Message, NEW s \in ReceiptStates, RecordStatus(m, s) PROVE TypeOK'
  BY <1>17 DEF RecordStatus, Advanced, ReceiptStates, MessageStates
<1>18. ASSUME NEW c \in Conversation, TakeOver(c) PROVE TypeOK'
  BY <1>18, RowValues, BoundAssumption DEF TakeOver, Disturb, MessageStates
<1>19. ASSUME NEW c \in Conversation, ResumeBot(c) PROVE TypeOK'
  BY <1>19 DEF ResumeBot
<1>20. ASSUME NEW c \in Conversation, NEW consent \in {"UNKNOWN", "OPTED_IN", "OPTED_OUT"},
              SetConsent(c, consent)
       PROVE  TypeOK'
  BY <1>20, BoundAssumption DEF SetConsent, Disturb
<1>21. ASSUME NEW c \in Conversation, CloseWindow(c) \/ RecordIncoming(c) PROVE TypeOK'
  <2>1. contact' \in [Conversation ->
             [consent: {"UNKNOWN", "OPTED_IN", "OPTED_OUT"}, window: BOOLEAN]]
    <3> DEFINE Contact == [consent: {"UNKNOWN", "OPTED_IN", "OPTED_OUT"}, window: BOOLEAN]
    <3>0. \A b \in BOOLEAN : [contact[c] EXCEPT !.window = b] \in Contact
      OBVIOUS
    <3>1. CASE CloseWindow(c)
      <4>1. contact' = [contact EXCEPT ![c] = [contact[c] EXCEPT !.window = FALSE]]
        BY <3>1 DEF CloseWindow
      <4> HIDE DEF Contact
      <4> QED
        BY <3>0, <4>1 DEF Contact
    <3>2. CASE RecordIncoming(c)
      <4>1. contact' = [contact EXCEPT ![c] = [contact[c] EXCEPT !.window = TRUE]]
        BY <3>2 DEF RecordIncoming
      <4> HIDE DEF Contact
      <4> QED
        BY <3>0, <4>1 DEF Contact
    <3> QED
      BY <1>21, <3>1, <3>2
  <2> QED
    BY <1>21, <2>1, BoundAssumption DEF CloseWindow, RecordIncoming, Disturb
<1>22. ASSUME Suspend \/ Reactivate \/ LowerLimit PROVE TypeOK'
  <2>1. tenant' \in [active: BOOLEAN, limit: Nat]
    <3>1. CASE Suspend
      BY <3>1 DEF Suspend
    <3>2. CASE Reactivate
      BY <3>2 DEF Reactivate
    <3>3. CASE LowerLimit
      BY <3>3 DEF LowerLimit
    <3> QED
      BY <1>22, <3>1, <3>2, <3>3
  <2> QED
    BY <1>22, <2>1, BoundAssumption DEF Suspend, Reactivate, LowerLimit, Disturb
<1>23. ASSUME NEW part \in {"ready", "credential"}, LoseChannel(part) \/ RestoreChannel(part)
       PROVE  TypeOK'
  <2>1. channel' \in [ready: BOOLEAN, credential: BOOLEAN]
    BY <1>23 DEF LoseChannel, RestoreChannel
  <2> QED
    BY <1>23, <2>1, BoundAssumption DEF LoseChannel, RestoreChannel, Disturb
<1>24. ASSUME NEW m \in Message, RevokeAuthority(m) PROVE TypeOK'
  BY <1>24, BoundAssumption DEF RevokeAuthority, Disturb
<1>25. ASSUME NEW w \in Worker, Crash(w) PROVE TypeOK'
  BY <1>25, TurnValues, BoundAssumption DEF Crash, Disturb
<1>26. ASSUME NEW m \in Message, LeaseElapses(m) PROVE TypeOK'
  <2>1. faults' \in 0..MaxFaults
    BY <1>26, BoundAssumption DEF LeaseElapses, Attended, Disturb
  <2>2. outbox' \in [Message -> Row]
    BY <1>26, RowValues DEF LeaseElapses
  <2> QED
    BY <1>26, <2>1, <2>2 DEF LeaseElapses
<1>27. ASSUME NEW m \in Message, BackoffElapses(m) PROVE TypeOK'
  BY <1>27, RowValues DEF BackoffElapses
<1>28. ASSUME NEW w \in Worker, CompleteSend(w) PROVE TypeOK'
  <2> DEFINE m   == worker[w].msg
             out == worker[w].outcome
             up  == upstream \cup (IF out = "SENT" THEN {m} ELSE {})
             at  == [attempt EXCEPT ![m] = FinalAttempt(@, out)]
             st  == [state EXCEPT ![m] = FinalState(m, out)]
             ob  == [outbox EXCEPT ![m] = FinalRow(@, out)]
  <2>1. m \in Message /\ out \in Outcomes
    BY <1>28 DEF CompleteSend, Turn, Idle
  <2>2. Reconciled(receipts[m]) \in MessageStates
    BY DEF Reconciled, Replay, Advanced, MessageStates
  <2>3. st \in [Message -> MessageStates \cup {"NEW"}]
    BY <2>1, <2>2 DEF FinalState, MessageStates
  <2>4. ob \in [Message -> Row]
    BY <2>1, RowValues
  <2>5. at \in [Message -> AttemptStates]
    BY <2>1 DEF FinalAttempt, AttemptStates
  <2>6. up \in SUBSET Message
    BY <2>1
  <2>7. Unreconciled(ConvOf[m]) \in SUBSET Echo
    BY DEF Unreconciled
  <2>8. Settle(Unreconciled(ConvOf[m]), st, ob, up, at)
    BY <1>28 DEF CompleteSend
  <2> HIDE DEF m, out, up, at, st, ob
  <2>9. /\ state' \in [Message -> MessageStates \cup {"NEW"}]
        /\ outbox' \in [Message -> Row]
        /\ mode' \in [Conversation -> {"BOT", "HUMAN"}]
        /\ observation' \in [Echo -> [disposition: Dispositions, blocking: BOOLEAN]]
    BY <2>3, <2>4, <2>5, <2>6, <2>7, <2>8, SettleType
  <2>10. upstream' = up /\ attempt' = at
    BY <1>28 DEF CompleteSend, up, at, m, out
  <2> QED
    BY <1>28, <2>5, <2>6, <2>9, <2>10, TurnValues DEF CompleteSend
<1>29. ASSUME NEW e \in Echo, ObserveOutbound(e) PROVE TypeOK'
  <2>1. {e} \in SUBSET Echo
    OBVIOUS
  <2> QED
    BY <1>29, <2>1, SettleType DEF ObserveOutbound
<1>30. ASSUME NEW w \in Worker, RecoverQr(w) PROVE TypeOK'
  <2> DEFINE at == [m \in Message |-> IF m \in Overdue THEN "UNKNOWN" ELSE attempt[m]]
             st == [m \in Message |->
                      IF m \in Overdue /\ state[m] = "SENDING" THEN "UNKNOWN" ELSE state[m]]
             ob == [m \in Message |-> IF st[m] = "UNKNOWN" THEN NoRow ELSE outbox[m]]
             E  == UNION {Unreconciled(c) : c \in Conversation}
  <2>1. /\ at \in [Message -> AttemptStates]
        /\ st \in [Message -> MessageStates \cup {"NEW"}]
    BY DEF AttemptStates, MessageStates
  <2>2. ob \in [Message -> Row]
    BY RowValues
  <2>3. E \in SUBSET Echo
    BY DEF Unreconciled
  <2>4. Settle(E, st, ob, upstream, at) /\ attempt' = at
    BY <1>30 DEF RecoverQr
  <2> HIDE DEF at, st, ob, E
  <2> QED
    BY <1>30, <2>1, <2>2, <2>3, <2>4, SettleType DEF RecoverQr
<1>31. ASSUME NEW m \in Message, AbandonAttempt(m) PROVE TypeOK'
  <2> DEFINE at == [attempt EXCEPT ![m] = "ABANDONED"]
  <2>1. at \in [Message -> AttemptStates]
    BY DEF AttemptStates
  <2>2. Unreconciled(ConvOf[m]) \in SUBSET Echo
    BY DEF Unreconciled
  <2>3. Settle(Unreconciled(ConvOf[m]), state, outbox, upstream, at) /\ attempt' = at
    BY <1>31 DEF AbandonAttempt
  <2>4. faults' \in 0..MaxFaults
    BY <1>31, BoundAssumption DEF AbandonAttempt, Disturb
  <2> HIDE DEF at
  <2>5. /\ state' \in [Message -> MessageStates \cup {"NEW"}]
        /\ outbox' \in [Message -> Row]
        /\ mode' \in [Conversation -> {"BOT", "HUMAN"}]
        /\ observation' \in [Echo -> [disposition: Dispositions, blocking: BOOLEAN]]
    BY <2>1, <2>2, <2>3, SettleType
  <2> QED
    BY <1>31, <2>1, <2>3, <2>4, <2>5 DEF AbandonAttempt
<1>32. ASSUME NEW e \in Echo, AbandonObservation(e) PROVE TypeOK'
  <2>1. attempt' \in [Message -> AttemptStates]
    BY <1>32 DEF AbandonObservation, AttemptStates
  <2>2. observation' \in [Echo -> [disposition: Dispositions, blocking: BOOLEAN]]
    BY <1>32, ObservationValues DEF AbandonObservation, Dispositions
  <2>3. faults' \in 0..MaxFaults
    BY <1>32, BoundAssumption DEF AbandonObservation, Disturb
  <2> QED
    BY <1>32, <2>1, <2>2, <2>3 DEF AbandonObservation
<1>33. CASE UNCHANGED vars
  BY <1>33 DEF vars
<1> HIDE DEF TypeOK, environment, qrLedger
<1> QED
  BY <1>1, <1>2, <1>3, <1>4, <1>6, <1>7, <1>8, <1>9, <1>10, <1>11, <1>12, <1>13, <1>14,
     <1>16, <1>17, <1>18, <1>19, <1>20, <1>21, <1>22, <1>23, <1>24, <1>25, <1>26, <1>27,
     <1>28, <1>29, <1>30, <1>31, <1>32, <1>33
  DEF Next, WorkerStep, ProviderStep, OperatorStep, WorldStep

\* Every variable keeps its type, in every instance of the queue.
THEOREM TypeCorrect == Spec => []TypeOK
<1>1. Init => TypeOK
  BY TypeInit
<1>2. TypeOK /\ [Next]_vars => TypeOK'
  BY TypeStep
<1> QED
  BY <1>1, <1>2, PTL DEF Spec

---------------------------------------------------------------------------
(* What the sweeps of claimOutgoing and the settlement of observations do  *)
(* to one message.                                                         *)

Gone(row) == ~row.queued /\ row.holder = None /\ ~row.retrySafe

LEMMA RowFields ==
    /\ Gone(NoRow)
    /\ \A row \in Row :
          /\ Rearmed(row).queued = row.queued
          /\ Rearmed(row).holder = row.holder
          /\ ~Rearmed(row).retrySafe
          /\ GiveBack(row).queued = row.queued
          /\ GiveBack(row).holder = None
          /\ GiveBack(row).retrySafe = row.retrySafe
          /\ \A w \in Worker : /\ Leased(row, w).queued = row.queued
                              /\ Leased(row, w).holder = w
                              /\ Leased(row, w).retrySafe = row.retrySafe
BY DEF Gone, NoRow, Row, Rearmed, GiveBack, Leased

SweptAs(k, st, row) ==
    \/ st = state[k] /\ row = outbox[k]
    \/ /\ st = "FAILED" /\ Gone(row)
       /\ \/ state[k] = "ACCEPTED"
          \/ state[k] = "FAILED" /\ outbox[k].retrySafe
    \/ /\ state[k] = "FAILED" /\ outbox[k].retrySafe /\ outbox[k].holder = None
       /\ st = "ACCEPTED"
       /\ (row.queued = outbox[k].queued) /\ row.holder = None /\ ~row.retrySafe
    \/ /\ state[k] = "SENDING" /\ ~Qr
       /\ st = "UNKNOWN" /\ Gone(row)
    \/ /\ state[k] = "ACCEPTED" /\ st = "ACCEPTED"
       /\ (row.queued = outbox[k].queued) /\ row.holder = None
       /\ row.retrySafe = outbox[k].retrySafe

LEMMA SweptMessage ==
    ASSUME TypeOK, NEW k \in Message PROVE SweptAs(k, SweptState[k], SweptOutbox[k])
<1>0. outbox[k] \in Row
  BY DEF TypeOK
<1>1. CASE k \in Barred
  <2>1. SweptState[k] = "FAILED" /\ SweptOutbox[k] = NoRow
    BY <1>1 DEF SweptState, SweptOutbox, Barred, Lapsed, Due, Released, Waiting
  <2>2. k \in Due \/ k \in Released \/ k \in Waiting
    BY <1>1 DEF Barred
  <2>3. k \in Due => state[k] = "FAILED" /\ outbox[k].retrySafe
    BY DEF Due
  <2>4. k \in Released \/ k \in Waiting => state[k] = "ACCEPTED"
    BY DEF Released, Waiting
  <2> QED
    BY <2>1, <2>2, <2>3, <2>4, RowFields DEF SweptAs
<1>2. CASE k \in Due \ Barred
  <2>1. SweptState[k] = "ACCEPTED" /\ SweptOutbox[k] = Rearmed(outbox[k])
    BY <1>2 DEF SweptState, SweptOutbox, Lapsed, Due, Released, Waiting
  <2>2. state[k] = "FAILED" /\ outbox[k].retrySafe /\ outbox[k].holder = None
    BY <1>2 DEF Due
  <2> QED
    BY <1>0, <2>1, <2>2, RowFields DEF SweptAs
<1>3. CASE k \in Lapsed \ Barred
  <2>1. SweptState[k] = "UNKNOWN" /\ SweptOutbox[k] = NoRow
    BY <1>3 DEF SweptState, SweptOutbox, Lapsed, Due, Released, Waiting
  <2>2. state[k] = "SENDING" /\ ~Qr
    BY <1>3 DEF Lapsed
  <2> QED
    BY <2>1, <2>2, RowFields DEF SweptAs
<1>4. CASE k \in Released \ Barred
  <2>1. SweptState[k] = state[k] /\ SweptOutbox[k] = GiveBack(outbox[k])
    BY <1>4 DEF SweptState, SweptOutbox, Lapsed, Due, Released, Waiting
  <2>2. state[k] = "ACCEPTED"
    BY <1>4 DEF Released
  <2> QED
    BY <1>0, <2>1, <2>2, RowFields DEF SweptAs
<1>5. CASE k \notin Barred \cup Due \cup Lapsed \cup Released
  BY <1>5 DEF SweptState, SweptOutbox, SweptAs
<1> QED
  BY <1>1, <1>2, <1>3, <1>4, <1>5

LEMMA SettledMessage ==
    ASSUME NEW E, NEW st, NEW ob, NEW up, NEW at, Settle(E, st, ob, up, at),
           NEW k \in Message
    PROVE  \/ state'[k] = st[k] /\ outbox'[k] = ob[k]
           \/ st[k] = "ACCEPTED" /\ state'[k] = "FAILED" /\ outbox'[k] = NoRow
BY DEF Settle, Canceled

LEMMA ReconciledIsReceipt == \A recorded : Reconciled(recorded) \in ReceiptStates
BY DEF Reconciled, Replay, Advanced, CanAdvance, Transitions, ReceiptStates

---------------------------------------------------------------------------
(* The inductive invariant.                                                *)

LEMMA InductiveInit == Init => Inductive
<1> SUFFICES ASSUME Init PROVE Inductive
  OBVIOUS
<1>1. TypeOK
  BY TypeInit
<1>2. RowsFollowState /\ LeasesAgree /\ WireAgrees /\ OrderKept /\ LedgerAgrees
  BY DEF Init, RowsFollowState, LeasesAgree, WireAgrees, OrderKept, Earlier, LedgerAgrees,
         NoRow, ReceiptStates, Untouched
<1>3. TurnsAgree
  BY DEF Init, TurnsAgree, Idle, Authorised
<1> QED
  BY <1>1, <1>2, <1>3 DEF Init, Inductive

\* TurnsAgree of one worker.
TurnHolds(w) ==
    worker[w].phase # "idle" =>
        LET m == worker[w].msg IN
        /\ worker[w].phase = "claimed" /\ outbox[m].holder = w => state[m] = "ACCEPTED"
        /\ Authorised(w) => \/ state[m] = "SENDING" /\ outbox[m].holder = w
                            \/ state[m] = "UNKNOWN"
        /\ worker[w].phase = "validated" => Untouched(m)
        /\ worker[w].phase = "waiting" => InFlight(m)
        /\ worker[w].phase = "answered" =>
              /\ worker[w].outcome # "none"
              /\ worker[w].outcome = "SENT" => Taken(m)
              /\ worker[w].outcome \in {"FAILED", "FAILED_SAFE"} /\ outbox[m].holder = w
                    => Untouched(m)

\* A step that leaves a worker where it is and takes nothing it relies on.
Undisturbed(w) ==
    LET m == worker[w].msg IN
    /\ worker'[w] = worker[w]
    /\ outbox'[m].holder = w => outbox[m].holder = w
    /\ worker[w].phase = "claimed" /\ outbox'[m].holder = w => state'[m] = state[m]
    /\ Authorised(w) => state'[m] = state[m] /\ outbox'[m].holder = outbox[m].holder
    /\ worker[w].phase \in {"validated", "waiting", "answered"} =>
          \/ wire'[m] = wire[m]
          \/ worker[w].phase = "answered" /\ worker[w].outcome \notin {"SENT", "FAILED", "FAILED_SAFE"}
          \/ worker[w].phase = "answered" /\ outbox'[m].holder # w /\ worker[w].outcome # "SENT"

LEMMA TurnsKept ==
    ASSUME TurnsAgree, NEW W \in SUBSET Worker,
           \A v \in Worker \ W : worker[v].phase # "idle" => Undisturbed(v),
           \A v \in Worker \ W : worker[v].phase = "idle" => worker'[v] = worker[v],
           \A v \in W : TurnHolds(v)',
           \A v \in W : Authorised(v)' => Authorised(v) /\ worker'[v].msg = worker[v].msg
    PROVE  TurnsAgree'
<1>1. ASSUME NEW v \in Worker PROVE TurnHolds(v)'
  <2>1. CASE v \in W
    BY <2>1
  <2>2. CASE v \notin W /\ worker[v].phase # "idle"
    <3>1. TurnHolds(v) /\ Undisturbed(v)
      BY <2>2 DEF TurnsAgree, TurnHolds
    <3> QED
      BY <2>2, <3>1 DEF TurnHolds, Undisturbed, Authorised, Untouched, InFlight, Taken
  <2>3. CASE v \notin W /\ worker[v].phase = "idle"
    BY <2>3 DEF TurnHolds
  <2> QED
    BY <2>1, <2>2, <2>3
<1>2. \A v \in Worker : Authorised(v)' => Authorised(v) /\ worker'[v].msg = worker[v].msg
  BY DEF Authorised, Undisturbed
<1> QED
  BY <1>1, <1>2 DEF TurnsAgree, TurnHolds

LEMMA TurnsStay ==
    ASSUME TurnsAgree, worker' = worker,
           \A v \in Worker : worker[v].phase # "idle" => Undisturbed(v)
    PROVE  TurnsAgree'
<1> DEFINE W == {}
<1>1. W \in SUBSET Worker
  OBVIOUS
<1>2. /\ \A v \in Worker \ W : worker[v].phase # "idle" => Undisturbed(v)
      /\ \A v \in Worker \ W : worker[v].phase = "idle" => worker'[v] = worker[v]
      /\ \A v \in W : TurnHolds(v)'
      /\ \A v \in W : Authorised(v)' => Authorised(v) /\ worker'[v].msg = worker[v].msg
  OBVIOUS
<1> HIDE DEF W
<1> QED
  BY <1>1, <1>2, TurnsKept

\* What the steps of a worker's turn, of the provider and of the operators do
\* to the invariant.
LEMMA InductiveStep == Inductive /\ [Next]_vars => Inductive'
<1> SUFFICES ASSUME Inductive, [Next]_vars PROVE Inductive'
  OBVIOUS
<1>0. TypeOK /\ TypeOK'
  BY TypeStep DEF Inductive
<1>1. ASSUME NEW m \in Message, Enqueue(m) PROVE Inductive'
  <2>1. /\ state[m] = "NEW" /\ state'[m] = "ACCEPTED"
        /\ outbox'[m].queued /\ outbox'[m].holder = None /\ ~outbox'[m].retrySafe
        /\ \A k \in Earlier(m) : state[k] # "NEW"
    BY <1>0, <1>1 DEF Enqueue, FreshRow, NoRow, TypeOK
  <2>2. \A k \in Message \ {m} : state'[k] = state[k] /\ outbox'[k] = outbox[k]
    BY <1>0, <1>1 DEF Enqueue, TypeOK
  <2>3. UNCHANGED <<upstream, worker, wire, attempt>>
    BY <1>1 DEF Enqueue, qrLedger
  <2>4. outbox[m].holder = None /\ m \notin upstream
    BY <2>1, NoneAssumption DEF Inductive, LeasesAgree, ReceiptStates
  <2>5. RowsFollowState'
    BY <2>1, <2>2, NoneAssumption DEF Inductive, RowsFollowState
  <2>6. LeasesAgree' /\ WireAgrees'
    BY <2>1, <2>2, <2>3, <2>4
    DEF Inductive, LeasesAgree, WireAgrees, Untouched, InFlight, Taken, ReceiptStates
  <2>7. TurnsAgree'
    <3>1. \A v \in Worker : worker[v].phase # "idle" => worker[v].msg \in Message
      BY <1>0 DEF TypeOK, Turn, Idle
    <3>2. ASSUME NEW v \in Worker, worker[v].phase # "idle" PROVE Undisturbed(v)
      <4>1. CASE worker[v].msg # m
        BY <2>2, <2>3, <3>1, <3>2, <4>1 DEF Undisturbed
      <4>2. CASE worker[v].msg = m
        <5>1. ~Authorised(v)
          BY <2>1, <3>2, <4>2 DEF Inductive, TurnsAgree
        <5> QED
          BY <2>1, <2>3, <4>2, <5>1, NoneAssumption DEF Undisturbed
      <4> QED
        BY <4>1, <4>2
    <3> QED
      BY <2>3, <3>2, TurnsStay DEF Inductive
  <2>8. OrderKept'
    <3>1. ASSUME NEW n \in Message, NEW k \in Earlier(n)
          PROVE  state'[k] = "NEW" => state'[n] = "NEW"
      <4>1. k \in Message /\ (n = m => k # m)
        BY MessageAssumption DEF Earlier
      <4>2. state[k] = "NEW" => state[n] = "NEW"
        BY DEF Inductive, OrderKept
      <4> QED
        BY <2>1, <2>2, <4>1, <4>2
    <3>2. ASSUME NEW n \in Message, NEW k \in Earlier(n), outbox'[n].holder # None
          PROVE  ~HoldsBack(k, state, outbox)'
      <4>1. n # m /\ outbox[n].holder # None /\ state[n] # "NEW"
        BY <2>1, <2>2, <3>2 DEF Inductive, LeasesAgree
      <4>2. ~HoldsBack(k, state, outbox) /\ state[k] # "NEW" /\ k \in Message
        BY <4>1 DEF Inductive, OrderKept, Earlier
      <4> QED
        BY <2>1, <2>2, <2>3, <4>2 DEF HoldsBack
    <3> QED
      BY <3>1, <3>2 DEF OrderKept, Earlier
  <2>9. LedgerAgrees' /\ (Qr \/ \A k \in Message : attempt'[k] = "NONE")
    BY <2>1, <2>2, <2>3 DEF Inductive, LedgerAgrees
  <2> QED
    BY <2>5, <2>6, <2>7, <2>8, <2>9, <1>0 DEF Inductive
<1>2. ASSUME NEW m \in Message, RetryMessage(m) PROVE Inductive'
  <2>1. RowsFollowState' /\ LeasesAgree'
    BY <1>0, <1>2, NoneAssumption
    DEF RetryMessage, Disturb, FreshRow, NoRow, Inductive, TypeOK, environment, qrLedger, Row,
        Turn, Idle, RowsFollowState, LeasesAgree, TurnsAgree, Authorised, ReceiptStates
  <2>2. WireAgrees'
    BY <1>0, <1>2, NoneAssumption
    DEF RetryMessage, Disturb, FreshRow, NoRow, Inductive, TypeOK, environment, qrLedger, Row,
        Turn, Idle, RowsFollowState, LeasesAgree, WireAgrees, TurnsAgree, Authorised, Untouched,
        InFlight, Taken, ReceiptStates
  <2>3. TurnsAgree'
    <3>1. worker' = worker
      BY <1>2 DEF RetryMessage, FreshRow, NoRow, environment, qrLedger
    <3>2. \A v \in Worker : worker[v].phase # "idle" => Undisturbed(v)
      BY <1>0, <1>2, <3>1, NoneAssumption
      DEF RetryMessage, FreshRow, NoRow, Undisturbed, Authorised, Inductive, TypeOK, Row,
          TurnsAgree, LeasesAgree,
          environment, qrLedger, Turn, Idle, Untouched, InFlight, Taken
    <3> QED
      BY <3>1, <3>2, TurnsStay DEF Inductive
  <2>4. OrderKept'
    BY <1>0, <1>2, NoneAssumption
    DEF RetryMessage, Disturb, FreshRow, NoRow, Inductive, TypeOK, environment, qrLedger, Row,
        Turn, Idle, RowsFollowState, LeasesAgree, TurnsAgree, Authorised, OrderKept, Earlier,
        HoldsBack, ReceiptStates
  <2>5. LedgerAgrees' /\ (Qr \/ \A k \in Message : attempt'[k] = "NONE")
    BY <1>0, <1>2, NoneAssumption
    DEF RetryMessage, Disturb, FreshRow, NoRow, Inductive, TypeOK, environment, qrLedger, Row,
        Turn, Idle, LeasesAgree, TurnsAgree, Authorised, LedgerAgrees, ReceiptStates
  <2> QED
    BY <2>1, <2>2, <2>3, <2>4, <2>5, <1>0 DEF Inductive
<1>3. ASSUME NEW w \in Worker, Sweep(w) PROVE Inductive'
  <2>0. /\ state' = SweptState /\ outbox' = SweptOutbox
        /\ UNCHANGED <<upstream, worker, wire, attempt>>
    BY <1>3 DEF Sweep, qrLedger
  <2>a. \A k \in Message : SweptAs(k, state'[k], outbox'[k])
    BY <2>0, <1>0, SweptMessage
  <2>b. \A k \in Message : outbox[k] \in Row /\ outbox'[k] \in Row
    BY <1>0 DEF TypeOK
  <2>1. RowsFollowState'
    BY <2>a, <2>b DEF Inductive, Row, SweptAs, Gone, RowsFollowState
  <2>2. LeasesAgree' /\ WireAgrees'
    BY <2>0, <2>a DEF Inductive, SweptAs, Gone, LeasesAgree, WireAgrees, Untouched, InFlight,
       Taken, ReceiptStates
  <2>3. TurnsAgree'
    BY <2>0, <2>a, <1>0, NoneAssumption DEF Inductive, TypeOK, Turn, Idle, SweptAs, Gone,
       LeasesAgree, TurnsAgree, Authorised, Untouched, InFlight, Taken
  <2>4. OrderKept'
    BY <2>0, <2>a, <2>b DEF Inductive, Row, SweptAs, Gone, RowsFollowState, OrderKept, Earlier,
       HoldsBack
  <2>5. LedgerAgrees'
    BY <2>0, <2>a DEF Inductive, SweptAs, LedgerAgrees
  <2> QED
    BY <2>0, <2>1, <2>2, <2>3, <2>4, <2>5, <1>0 DEF Inductive
<1>4. ASSUME NEW w \in Worker, NEW m \in Message, Claim(w, m) PROVE Inductive'
  <2>0. /\ state' = SweptState
        /\ outbox' = [SweptOutbox EXCEPT ![m] = Leased(SweptOutbox[m], w)]
        /\ worker[w] = Idle
        /\ worker' = [worker EXCEPT ![w] = At("claimed", m)]
        /\ UNCHANGED <<upstream, wire, attempt>>
    BY <1>4 DEF Claim, qrLedger
  <2>1. /\ SweptState[m] = "ACCEPTED"
        /\ SweptOutbox[m].queued
        /\ SweptOutbox[m].holder = None
        /\ \A k \in Earlier(m) : ~HoldsBack(k, SweptState, SweptOutbox)
    BY <1>4 DEF Claim, Candidates
  <2>2. /\ SweptOutbox \in [Message -> Row]
        /\ \A k \in Message : SweptAs(k, SweptState[k], SweptOutbox[k])
    BY <1>0, SweptType, SweptMessage
  <2>3. \A k \in Message \ {m} : SweptAs(k, state'[k], outbox'[k])
    BY <2>0, <2>2
  <2>4. /\ state'[m] = "ACCEPTED" /\ outbox'[m].queued /\ outbox'[m].holder = w
        /\ outbox'[m].retrySafe = SweptOutbox[m].retrySafe
    BY <2>0, <2>1, <2>2, RowFields
  <2>5. \A k \in Message : outbox[k] \in Row /\ outbox'[k] \in Row
    BY <1>0 DEF TypeOK
  <2>6. /\ state[m] = "ACCEPTED" \/ (state[m] = "FAILED" /\ outbox[m].retrySafe)
        /\ ~outbox'[m].retrySafe
    <3>1. SweptAs(m, SweptState[m], SweptOutbox[m])
      BY <2>2
    <3>2. state[m] = "ACCEPTED" \/ (state[m] = "FAILED" /\ outbox[m].retrySafe)
      BY <2>1, <3>1 DEF SweptAs
    <3>3. state[m] = "ACCEPTED" => ~outbox[m].retrySafe
      BY DEF Inductive, LeasesAgree
    <3>4. ~SweptOutbox[m].retrySafe
      BY <2>1, <3>1, <3>3 DEF SweptAs
    <3> QED
      BY <2>4, <3>2, <3>4
  <2>7. \A v \in Worker \ {w} : outbox'[m].holder # v
    BY <2>4
  <2>8. RowsFollowState' /\ LeasesAgree'
    BY <2>0, <2>3, <2>4, <2>5, <2>6, NoneAssumption
    DEF Inductive, Row, SweptAs, Gone, RowsFollowState, LeasesAgree, ReceiptStates
  <2>9. WireAgrees'
    BY <2>0, <2>3, <2>4, <2>6
    DEF Inductive, SweptAs, Gone, LeasesAgree, WireAgrees, Untouched, InFlight, Taken,
        ReceiptStates
  <2>10. TurnsAgree'
    <3>1. /\ worker'[w].phase = "claimed" /\ worker'[w].msg = m /\ ~Authorised(w)'
          /\ \A v \in Worker \ {w} : worker'[v] = worker[v] /\ (Authorised(v)' = Authorised(v))
      BY <2>0, <1>0 DEF TypeOK, At, Authorised
    <3>2. ASSUME NEW v \in Worker \ {w}, worker[v].phase # "idle"
          PROVE  worker[v].msg \in Message
      BY <3>2, <1>0 DEF TypeOK, Turn, Idle
    <3>3. ASSUME NEW v \in Worker \ {w}, Authorised(v) PROVE worker[v].msg # m
      BY <3>2, <3>3, <2>6 DEF Inductive, TurnsAgree, Authorised
    <3>4. ASSUME NEW v \in Worker \ {w}, NEW k \in Message, outbox'[k].holder = v
          PROVE  k # m /\ state'[k] = state[k] /\ outbox'[k] = outbox[k]
      BY <3>4, <2>3, <2>4, NoneAssumption DEF SweptAs, Gone
    <3>5. ASSUME NEW k \in Message, state[k] \in {"SENDING", "UNKNOWN"}
          PROVE  \/ state'[k] = state[k] /\ outbox'[k] = outbox[k]
                 \/ state'[k] = "UNKNOWN"
      BY <3>5, <2>3, <2>6 DEF SweptAs
    <3>6. ASSUME NEW v \in Worker, Authorised(v)'
          PROVE  v # w /\ Authorised(v)
      BY <3>6, <3>1
    <3>7. ASSUME NEW v \in Worker, NEW u \in Worker, Authorised(v)', Authorised(u)',
                 worker'[v].msg = worker'[u].msg
          PROVE  v = u
      BY <3>7, <3>6, <3>1 DEF Inductive, TurnsAgree
    <3>8. ASSUME NEW v \in Worker \ {w}, worker[v].phase # "idle"
          PROVE  LET n == worker[v].msg IN
                 /\ (worker[v].phase = "claimed" /\ outbox'[n].holder = v) => state'[n] = "ACCEPTED"
                 /\ Authorised(v) => \/ state'[n] = "SENDING" /\ outbox'[n].holder = v
                                     \/ state'[n] = "UNKNOWN"
                 /\ worker[v].phase = "validated" => Untouched(n)
                 /\ worker[v].phase = "waiting" => InFlight(n)
                 /\ worker[v].phase = "answered" =>
                       /\ worker[v].outcome # "none"
                       /\ worker[v].outcome = "SENT" => Taken(n)
                       /\ worker[v].outcome \in {"FAILED", "FAILED_SAFE"} /\ outbox'[n].holder = v
                             => Untouched(n)
      BY <3>2, <3>4, <3>5, <3>8 DEF Inductive, TurnsAgree
    <3>9. \A n \in Message : /\ Untouched(n)' = Untouched(n)
                             /\ InFlight(n)' = InFlight(n)
                             /\ Taken(n)' = Taken(n)
      BY <2>0 DEF Untouched, InFlight, Taken
    <3> QED
      BY <2>4, <3>1, <3>2, <3>7, <3>8, <3>9 DEF TurnsAgree
  <2>11. OrderKept'
    <3>1. \A k \in Earlier(m) : k \in Message \ {m}
      BY MessageAssumption DEF Earlier
    <3>2. \A k \in Earlier(m) : ~HoldsBack(k, state, outbox)'
      BY <2>0, <2>1, <2>2, <3>1, <1>0 DEF HoldsBack, TypeOK
    <3> QED
      BY <2>0, <2>3, <2>4, <2>5, <2>6, <3>2
      DEF Inductive, Row, SweptAs, Gone, RowsFollowState, OrderKept, Earlier, HoldsBack
  <2>12. LedgerAgrees'
    BY <2>0, <2>3, <2>4, <2>6 DEF Inductive, SweptAs, LedgerAgrees, LeasesAgree
  <2> QED
    BY <2>0, <2>8, <2>9, <2>10, <2>11, <2>12, <1>0 DEF Inductive
<1>6. ASSUME NEW w \in Worker, NEW out \in {"FAILED", "FAILED_SAFE"}, PreflightFails(w, out) PROVE Inductive'
  <2>1. RowsFollowState' /\ LeasesAgree'
    BY <1>0, <1>6, NoneAssumption
    DEF PreflightFails, Answered, Inductive, TypeOK, environment, qrLedger, Row, Turn, Idle,
        RowsFollowState, LeasesAgree, TurnsAgree, Authorised, ReceiptStates
  <2>2. WireAgrees'
    BY <1>0, <1>6, NoneAssumption
    DEF PreflightFails, Answered, Inductive, TypeOK, environment, qrLedger, Row, Turn, Idle,
        RowsFollowState, LeasesAgree, WireAgrees, TurnsAgree, Authorised, Untouched, InFlight,
        Taken, ReceiptStates
  <2>3. TurnsAgree'
    <3>1. \A v \in Worker \ {w} : worker'[v] = worker[v]
      BY <1>0, <1>6 DEF PreflightFails, Answered, TypeOK
    <3>2. \A v \in Worker \ {w} : worker[v].phase # "idle" => Undisturbed(v)
      BY <1>0, <1>6, <3>1, NoneAssumption
      DEF PreflightFails, Answered, Undisturbed, Authorised, Inductive, TypeOK, Row,
          TurnsAgree, LeasesAgree,
          environment, qrLedger, Turn, Idle
    <3>3. TurnHolds(w)'
      <4> DEFINE m == worker[w].msg
      <4>1. worker'[w] = Answered(m, out) /\ UNCHANGED <<state, outbox, wire>>
        BY <1>0, <1>6 DEF PreflightFails, TypeOK
      <4>2. m \in Message /\ worker[w].phase = "claimed"
        BY <1>0, <1>6 DEF PreflightFails, TypeOK, Turn, Idle
      <4>3. outbox[m].holder = w => Untouched(m)
        BY <4>2, NoneAssumption DEF Inductive, TurnsAgree, LeasesAgree, WireAgrees,
            ReceiptStates
      <4> QED
        BY <4>1, <4>3, <1>6 DEF Answered, TurnHolds, Authorised, Untouched
    <3>4. Authorised(w)' => Authorised(w) /\ worker'[w].msg = worker[w].msg
      BY <1>0, <1>6 DEF PreflightFails, Answered, Authorised, Inductive, TypeOK, Turn, Idle
    <3> QED
      BY <3>1, <3>2, <3>3, <3>4, TurnsKept DEF Inductive
  <2>4. OrderKept'
    BY <1>0, <1>6, NoneAssumption
    DEF PreflightFails, Answered, Inductive, TypeOK, environment, qrLedger, Row, Turn, Idle,
        RowsFollowState, LeasesAgree, TurnsAgree, Authorised, OrderKept, Earlier, HoldsBack,
        ReceiptStates
  <2>5. LedgerAgrees' /\ (Qr \/ \A k \in Message : attempt'[k] = "NONE")
    BY <1>0, <1>6, NoneAssumption
    DEF PreflightFails, Answered, Inductive, TypeOK, environment, qrLedger, Row, Turn, Idle,
        LeasesAgree, TurnsAgree, Authorised, LedgerAgrees, ReceiptStates
  <2> QED
    BY <2>1, <2>2, <2>3, <2>4, <2>5, <1>0 DEF Inductive
<1>7. ASSUME NEW w \in Worker, ValidateEligible(w) PROVE Inductive'
  <2> DEFINE m == worker[w].msg
  <2>1. /\ worker[w].phase = "claimed" /\ outbox[m].holder = w /\ state[m] = "ACCEPTED"
        /\ state' = [state EXCEPT ![m] = "SENDING"]
        /\ attempt' = [attempt EXCEPT ![m] = IF Qr THEN "DISPATCHED" ELSE @]
        /\ worker' = [worker EXCEPT ![w] = At("validated", m)]
        /\ UNCHANGED <<outbox, upstream, wire>>
    BY <1>7 DEF ValidateEligible, Selected
  <2>a. m \in Message
    BY <2>1, <1>0 DEF TypeOK, Turn, Idle
  <2>2. m \in Message /\ m \notin upstream /\ Untouched(m)
    BY <2>1, <2>a DEF Inductive, LeasesAgree, WireAgrees, ReceiptStates
  <2>3. \A v \in Worker \ {w} : Authorised(v) => worker[v].msg # m
    BY <2>1 DEF Inductive, TurnsAgree, Authorised
  <2> HIDE DEF m
  <2>4. RowsFollowState' /\ LeasesAgree' /\ WireAgrees'
    BY <2>1, <2>2, <1>0, NoneAssumption
    DEF Inductive, TypeOK, Row, RowsFollowState, LeasesAgree, WireAgrees, Untouched, InFlight,
        Taken, ReceiptStates
  <2>5. TurnsAgree'
    <3>1. worker'[w] = At("validated", m) /\ \A v \in Worker \ {w} : worker'[v] = worker[v]
      BY <2>1, <1>0 DEF TypeOK
    <3>2. state'[m] = "SENDING" /\ \A k \in Message \ {m} : state'[k] = state[k]
      BY <2>1, <2>2, <1>0 DEF TypeOK
    <3>3. ASSUME NEW v \in Worker \ {w}, worker[v].phase # "idle" PROVE Undisturbed(v)
      <4>1. worker[v].msg \in Message
        BY <3>3, <1>0 DEF TypeOK, Turn, Idle
      <4> QED
        BY <2>1, <2>3, <3>1, <3>2, <4>1 DEF Undisturbed
    <3>4. TurnHolds(w)'
      BY <2>1, <2>2, <3>1, <3>2 DEF TurnHolds, At, Untouched, Authorised
    <3>5. ASSUME NEW u \in Worker, NEW v \in Worker, Authorised(u)', Authorised(v)',
                 worker'[u].msg = worker'[v].msg
          PROVE  u = v
      BY <2>3, <3>1, <3>5 DEF Inductive, TurnsAgree, Authorised, At
    <3>6. \A v \in Worker : TurnHolds(v)'
      <4>1. ASSUME NEW v \in Worker \ {w}, worker[v].phase # "idle" PROVE TurnHolds(v)'
        <5>1. TurnHolds(v) /\ Undisturbed(v)
          BY <3>3, <4>1 DEF Inductive, TurnsAgree, TurnHolds
        <5> QED
          BY <5>1, <4>1 DEF TurnHolds, Undisturbed, Authorised, Untouched, InFlight, Taken
      <4>2. ASSUME NEW v \in Worker \ {w}, worker[v].phase = "idle" PROVE TurnHolds(v)'
        BY <3>1, <4>2 DEF TurnHolds
      <4> QED
        BY <3>4, <4>1, <4>2
    <3> QED
      BY <3>5, <3>6 DEF TurnsAgree, TurnHolds
  <2>6. OrderKept'
    BY <2>1, <2>2, <1>0, NoneAssumption DEF Inductive, TypeOK, OrderKept, Earlier, HoldsBack
  <2>7. LedgerAgrees' /\ (Qr \/ \A k \in Message : attempt'[k] = "NONE")
    BY <2>1, <2>2, <1>0 DEF Inductive, TypeOK, LedgerAgrees, AttemptStates
  <2> QED
    BY <2>4, <2>5, <2>6, <2>7, <1>0 DEF Inductive
<1>8. ASSUME NEW w \in Worker, ValidateFails(w) PROVE Inductive'
  <2>1. RowsFollowState' /\ LeasesAgree'
    BY <1>0, <1>8, NoneAssumption
    DEF ValidateFails, Selected, NoRow, Inductive, TypeOK, environment, qrLedger, Row, Turn,
        Idle, RowsFollowState, LeasesAgree, TurnsAgree, Authorised, ReceiptStates
  <2>2. WireAgrees'
    BY <1>0, <1>8, NoneAssumption
    DEF ValidateFails, Selected, NoRow, Inductive, TypeOK, environment, qrLedger, Row, Turn,
        Idle, RowsFollowState, LeasesAgree, WireAgrees, TurnsAgree, Authorised, Untouched,
        InFlight, Taken, ReceiptStates
  <2>3. TurnsAgree'
    <3>1. \A v \in Worker \ {w} : worker'[v] = worker[v]
      BY <1>0, <1>8 DEF ValidateFails, Selected, NoRow, TypeOK
    <3>2. \A v \in Worker \ {w} : worker[v].phase # "idle" => Undisturbed(v)
      BY <1>0, <1>8, <3>1, NoneAssumption
      DEF ValidateFails, Selected, NoRow, Undisturbed, Authorised, Inductive, TypeOK, Row,
          TurnsAgree, LeasesAgree,
          environment, qrLedger, Turn, Idle
    <3>3. TurnHolds(w)'
      BY <1>0, <1>8 DEF ValidateFails, Selected, NoRow, TurnHolds, Authorised, Untouched,
          InFlight, Taken,
         Inductive, TypeOK, Turn, Idle, TurnsAgree
    <3>4. Authorised(w)' => Authorised(w) /\ worker'[w].msg = worker[w].msg
      BY <1>0, <1>8 DEF ValidateFails, Selected, NoRow, Authorised, Inductive, TypeOK, Turn,
          Idle
    <3> QED
      BY <3>1, <3>2, <3>3, <3>4, TurnsKept DEF Inductive
  <2>4. OrderKept'
    BY <1>0, <1>8, NoneAssumption
    DEF ValidateFails, Selected, NoRow, Inductive, TypeOK, environment, qrLedger, Row, Turn,
        Idle, RowsFollowState, LeasesAgree, TurnsAgree, Authorised, OrderKept, Earlier,
        HoldsBack, ReceiptStates
  <2>5. LedgerAgrees' /\ (Qr \/ \A k \in Message : attempt'[k] = "NONE")
    BY <1>0, <1>8, NoneAssumption
    DEF ValidateFails, Selected, NoRow, Inductive, TypeOK, environment, qrLedger, Row, Turn,
        Idle, LeasesAgree, TurnsAgree, Authorised, LedgerAgrees, ReceiptStates
  <2> QED
    BY <2>1, <2>2, <2>3, <2>4, <2>5, <1>0 DEF Inductive
<1>9. ASSUME NEW w \in Worker, ValidateHolds(w) PROVE Inductive'
  <2>1. RowsFollowState' /\ LeasesAgree'
    <3> DEFINE m == worker[w].msg
    <3>1. m \in Message /\ outbox[m].holder = w /\ worker[w].phase = "claimed"
      BY <1>0, <1>9 DEF ValidateHolds, Selected, TypeOK, Turn, Idle
    <3>2. state[m] = "ACCEPTED"
      BY <3>1 DEF Inductive, TurnsAgree
    <3>3. UNCHANGED <<state, upstream>> /\ outbox' = [outbox EXCEPT ![m] = GiveBack(outbox[m])]
      BY <1>9 DEF ValidateHolds
    <3> HIDE DEF m
    <3>4. /\ outbox'[m].queued = outbox[m].queued /\ outbox'[m].holder = None
          /\ outbox'[m].retrySafe = outbox[m].retrySafe
      BY <1>0, <3>1, <3>3, RowFields DEF TypeOK
    <3>5. \A k \in Message \ {m} : outbox'[k] = outbox[k]
      BY <1>0, <3>3 DEF TypeOK
    <3> QED
      BY <3>2, <3>3, <3>4, <3>5 DEF Inductive, RowsFollowState, LeasesAgree
  <2>2. WireAgrees'
    BY <1>0, <1>9, NoneAssumption
    DEF ValidateHolds, Selected, GiveBack, Inductive, TypeOK, environment, qrLedger, Row, Turn,
        Idle, RowsFollowState, LeasesAgree, WireAgrees, TurnsAgree, Authorised, Untouched,
        InFlight, Taken, ReceiptStates
  <2>3. TurnsAgree'
    <3>1. \A v \in Worker \ {w} : worker'[v] = worker[v]
      BY <1>0, <1>9 DEF ValidateHolds, Selected, GiveBack, TypeOK
    <3>2. \A v \in Worker \ {w} : worker[v].phase # "idle" => Undisturbed(v)
      BY <1>0, <1>9, <3>1, NoneAssumption
      DEF ValidateHolds, Selected, GiveBack, Undisturbed, Authorised, Inductive, TypeOK, Row,
          TurnsAgree, LeasesAgree,
          environment, qrLedger, Turn, Idle
    <3>3. TurnHolds(w)'
      BY <1>0, <1>9 DEF ValidateHolds, Selected, GiveBack, TurnHolds, Authorised, Untouched,
          InFlight, Taken,
         Inductive, TypeOK, Turn, Idle, TurnsAgree
    <3>4. Authorised(w)' => Authorised(w) /\ worker'[w].msg = worker[w].msg
      BY <1>0, <1>9 DEF ValidateHolds, Selected, GiveBack, Authorised, Inductive, TypeOK, Turn,
          Idle
    <3> QED
      BY <3>1, <3>2, <3>3, <3>4, TurnsKept DEF Inductive
  <2>4. OrderKept'
    BY <1>0, <1>9, NoneAssumption
    DEF ValidateHolds, Selected, GiveBack, Inductive, TypeOK, environment, qrLedger, Row, Turn,
        Idle, RowsFollowState, LeasesAgree, TurnsAgree, Authorised, OrderKept, Earlier,
        HoldsBack, ReceiptStates
  <2>5. LedgerAgrees' /\ (Qr \/ \A k \in Message : attempt'[k] = "NONE")
    BY <1>0, <1>9, NoneAssumption
    DEF ValidateHolds, Selected, GiveBack, Inductive, TypeOK, environment, qrLedger, Row, Turn,
        Idle, LeasesAgree, TurnsAgree, Authorised, LedgerAgrees, ReceiptStates
  <2> QED
    BY <2>1, <2>2, <2>3, <2>4, <2>5, <1>0 DEF Inductive
<1>10. ASSUME NEW w \in Worker, ValidateLost(w) PROVE Inductive'
  <2>1. RowsFollowState' /\ LeasesAgree'
    BY <1>0, <1>10, NoneAssumption
    DEF ValidateLost, Inductive, TypeOK, environment, qrLedger, Row, Turn, Idle,
        RowsFollowState, LeasesAgree, TurnsAgree, Authorised, ReceiptStates
  <2>2. WireAgrees'
    BY <1>0, <1>10, NoneAssumption
    DEF ValidateLost, Inductive, TypeOK, environment, qrLedger, Row, Turn, Idle,
        RowsFollowState, LeasesAgree, WireAgrees, TurnsAgree, Authorised, Untouched, InFlight,
        Taken, ReceiptStates
  <2>3. TurnsAgree'
    <3>1. \A v \in Worker \ {w} : worker'[v] = worker[v]
      BY <1>0, <1>10 DEF ValidateLost, Selected, TypeOK
    <3>2. \A v \in Worker \ {w} : worker[v].phase # "idle" => Undisturbed(v)
      BY <1>0, <1>10, <3>1, NoneAssumption
      DEF ValidateLost, Selected, Undisturbed, Authorised, Inductive, TypeOK, Row, TurnsAgree,
          LeasesAgree,
          environment, qrLedger, Turn, Idle
    <3>3. TurnHolds(w)'
      BY <1>0, <1>10 DEF ValidateLost, Selected, TurnHolds, Authorised, Untouched, InFlight,
          Taken,
         Inductive, TypeOK, Turn, Idle, TurnsAgree
    <3>4. Authorised(w)' => Authorised(w) /\ worker'[w].msg = worker[w].msg
      BY <1>0, <1>10 DEF ValidateLost, Selected, Authorised, Inductive, TypeOK, Turn, Idle
    <3> QED
      BY <3>1, <3>2, <3>3, <3>4, TurnsKept DEF Inductive
  <2>4. OrderKept'
    BY <1>0, <1>10, NoneAssumption
    DEF ValidateLost, Inductive, TypeOK, environment, qrLedger, Row, Turn, Idle,
        RowsFollowState, LeasesAgree, TurnsAgree, Authorised, OrderKept, Earlier, HoldsBack,
        ReceiptStates
  <2>5. LedgerAgrees' /\ (Qr \/ \A k \in Message : attempt'[k] = "NONE")
    BY <1>0, <1>10, NoneAssumption
    DEF ValidateLost, Inductive, TypeOK, environment, qrLedger, Row, Turn, Idle, LeasesAgree,
        TurnsAgree, Authorised, LedgerAgrees, ReceiptStates
  <2> QED
    BY <2>1, <2>2, <2>3, <2>4, <2>5, <1>0 DEF Inductive
<1>11. ASSUME NEW w \in Worker, Post(w) PROVE Inductive'
  <2> DEFINE m == worker[w].msg
  <2>1. /\ worker[w].phase = "validated"
        /\ worker' = [worker EXCEPT ![w] = At("waiting", m)]
        /\ wire' = [wire EXCEPT ![m].open = @ + 1]
        /\ UNCHANGED <<state, outbox, upstream, attempt>>
    BY <1>11 DEF Post, qrLedger
  <2>2. /\ m \in Message /\ Untouched(m) /\ Authorised(w)
        /\ state[m] \in {"SENDING", "UNKNOWN"}
    BY <2>1, <1>0 DEF Inductive, TypeOK, TurnsAgree, Authorised, Turn, Idle
  <2>3. wire'[m].open = 1 /\ wire'[m].accepted = 0 /\ \A k \in Message \ {m} : wire'[k] = wire[k]
    BY <2>1, <2>2, <1>0 DEF TypeOK, Untouched
  <2> HIDE DEF m
  <2>4. WireAgrees'
    BY <2>1, <2>2, <2>3 DEF Inductive, LeasesAgree, WireAgrees, Untouched, InFlight, Taken,
       ReceiptStates
  <2>5. TurnsAgree'
    <3>1. worker'[w] = At("waiting", m) /\ \A v \in Worker \ {w} : worker'[v] = worker[v]
      BY <2>1, <1>0 DEF TypeOK
    <3>2. ASSUME NEW v \in Worker \ {w}, worker[v].phase # "idle" PROVE TurnHolds(v)'
      <4>1. TurnHolds(v)
        BY <3>2 DEF Inductive, TurnsAgree, TurnHolds
      <4>2. worker[v].msg \in Message
        BY <3>2, <1>0 DEF TypeOK, Turn, Idle
      <4>3. CASE worker[v].msg # m
        BY <2>1, <2>3, <3>1, <4>1, <4>2, <4>3
        DEF TurnHolds, Authorised, Untouched, InFlight, Taken
      <4>4. CASE worker[v].msg = m
        <5>1. ~Authorised(v)
          BY <2>2, <4>4 DEF Inductive, TurnsAgree, m
        <5>2. outbox[m].holder # v
          BY <2>2, <2>1, NoneAssumption DEF Inductive, TurnsAgree, LeasesAgree, m
        <5>3. ~Taken(m)
          BY <2>2 DEF Untouched, Taken
        <5> QED
          BY <2>1, <3>1, <4>1, <4>4, <5>1, <5>2, <5>3 DEF TurnHolds, Authorised
      <4> QED
        BY <4>3, <4>4
    <3>3. ASSUME NEW v \in Worker \ {w}, worker[v].phase = "idle" PROVE TurnHolds(v)'
      BY <3>1, <3>3 DEF TurnHolds
    <3>4. TurnHolds(w)'
      BY <2>1, <2>2, <2>3, <3>1 DEF Inductive, TurnsAgree, TurnHolds, At, InFlight, Authorised,
          m
    <3>5. \A v \in Worker : Authorised(v)' => Authorised(v) /\ worker'[v].msg = worker[v].msg
      BY <2>2, <3>1 DEF Authorised, At, m
    <3>6. \A v \in Worker : TurnHolds(v)'
      BY <3>2, <3>3, <3>4
    <3> QED
      BY <3>5, <3>6 DEF Inductive, TurnsAgree, TurnHolds
  <2> QED
    BY <2>1, <2>4, <2>5, <1>0 DEF Inductive, RowsFollowState, LeasesAgree, OrderKept, Earlier,
       HoldsBack, LedgerAgrees
<1>12. ASSUME NEW w \in Worker, NEW out \in Outcomes, ProviderAnswers(w, out) PROVE Inductive'
  <2>1. RowsFollowState' /\ LeasesAgree'
    BY <1>0, <1>12, NoneAssumption
    DEF ProviderAnswers, Answered, Outcomes, Inductive, TypeOK, environment, qrLedger, Row,
        Turn, Idle, RowsFollowState, LeasesAgree, TurnsAgree, Authorised, ReceiptStates
  <2>2. WireAgrees'
    BY <1>0, <1>12, NoneAssumption
    DEF ProviderAnswers, Answered, Outcomes, Inductive, TypeOK, environment, qrLedger, Row,
        Turn, Idle, RowsFollowState, LeasesAgree, WireAgrees, TurnsAgree, Authorised, Untouched,
        InFlight, Taken, ReceiptStates
  <2>3. TurnsAgree'
    <3>1. \A v \in Worker \ {w} : worker'[v] = worker[v]
      BY <1>0, <1>12 DEF ProviderAnswers, Answered, Outcomes, TypeOK
    <3>2. \A v \in Worker \ {w} : worker[v].phase # "idle" => Undisturbed(v)
      BY <1>0, <1>12, <3>1, NoneAssumption
      DEF ProviderAnswers, Answered, Outcomes, Undisturbed, Authorised, Inductive, TypeOK, Row,
          TurnsAgree, LeasesAgree,
          environment, qrLedger, Turn, Idle
    <3>3. TurnHolds(w)'
      BY <1>0, <1>12 DEF ProviderAnswers, Answered, Outcomes, TurnHolds, Authorised, Untouched,
          InFlight, Taken,
         Inductive, TypeOK, Turn, Idle, TurnsAgree
    <3>4. Authorised(w)' => Authorised(w) /\ worker'[w].msg = worker[w].msg
      BY <1>0, <1>12 DEF ProviderAnswers, Answered, Outcomes, Authorised, Inductive, TypeOK,
          Turn, Idle
    <3> QED
      BY <3>1, <3>2, <3>3, <3>4, TurnsKept DEF Inductive
  <2>4. OrderKept'
    BY <1>0, <1>12, NoneAssumption
    DEF ProviderAnswers, Answered, Outcomes, Inductive, TypeOK, environment, qrLedger, Row,
        Turn, Idle, RowsFollowState, LeasesAgree, TurnsAgree, Authorised, OrderKept, Earlier,
        HoldsBack, ReceiptStates
  <2>5. LedgerAgrees' /\ (Qr \/ \A k \in Message : attempt'[k] = "NONE")
    BY <1>0, <1>12, NoneAssumption
    DEF ProviderAnswers, Answered, Outcomes, Inductive, TypeOK, environment, qrLedger, Row,
        Turn, Idle, LeasesAgree, TurnsAgree, Authorised, LedgerAgrees, ReceiptStates
  <2> QED
    BY <2>1, <2>2, <2>3, <2>4, <2>5, <1>0 DEF Inductive
<1>13. ASSUME NEW w \in Worker, AnswerUncertain(w) PROVE Inductive'
  <2>1. RowsFollowState' /\ LeasesAgree'
    BY <1>0, <1>13, NoneAssumption
    DEF AnswerUncertain, Answered, Inductive, TypeOK, environment, qrLedger, Row, Turn, Idle,
        RowsFollowState, LeasesAgree, TurnsAgree, Authorised, ReceiptStates
  <2>2. WireAgrees'
    BY <1>0, <1>13, NoneAssumption
    DEF AnswerUncertain, Answered, Inductive, TypeOK, environment, qrLedger, Row, Turn, Idle,
        RowsFollowState, LeasesAgree, WireAgrees, TurnsAgree, Authorised, Untouched, InFlight,
        Taken, ReceiptStates
  <2>3. TurnsAgree'
    <3>1. \A v \in Worker \ {w} : worker'[v] = worker[v]
      BY <1>0, <1>13 DEF AnswerUncertain, Answered, TypeOK
    <3>2. \A v \in Worker \ {w} : worker[v].phase # "idle" => Undisturbed(v)
      BY <1>0, <1>13, <3>1, NoneAssumption
      DEF AnswerUncertain, Answered, Undisturbed, Authorised, Inductive, TypeOK, Row,
          TurnsAgree, LeasesAgree,
          environment, qrLedger, Turn, Idle
    <3>3. TurnHolds(w)'
      BY <1>0, <1>13 DEF AnswerUncertain, Answered, TurnHolds, Authorised, Untouched, InFlight,
          Taken,
         Inductive, TypeOK, Turn, Idle, TurnsAgree
    <3>4. Authorised(w)' => Authorised(w) /\ worker'[w].msg = worker[w].msg
      BY <1>0, <1>13 DEF AnswerUncertain, Answered, Authorised, Inductive, TypeOK, Turn, Idle
    <3> QED
      BY <3>1, <3>2, <3>3, <3>4, TurnsKept DEF Inductive
  <2>4. OrderKept'
    BY <1>0, <1>13, NoneAssumption
    DEF AnswerUncertain, Answered, Inductive, TypeOK, environment, qrLedger, Row, Turn, Idle,
        RowsFollowState, LeasesAgree, TurnsAgree, Authorised, OrderKept, Earlier, HoldsBack,
        ReceiptStates
  <2>5. LedgerAgrees' /\ (Qr \/ \A k \in Message : attempt'[k] = "NONE")
    BY <1>0, <1>13, NoneAssumption
    DEF AnswerUncertain, Answered, Inductive, TypeOK, environment, qrLedger, Row, Turn, Idle,
        LeasesAgree, TurnsAgree, Authorised, LedgerAgrees, ReceiptStates
  <2> QED
    BY <2>1, <2>2, <2>3, <2>4, <2>5, <1>0 DEF Inductive
<1>14. ASSUME NEW m \in Message, ProviderAcceptsLate(m) PROVE Inductive'
  <2>1. RowsFollowState' /\ LeasesAgree'
    BY <1>0, <1>14, NoneAssumption
    DEF ProviderAcceptsLate, Inductive, TypeOK, environment, qrLedger, Row, Turn, Idle,
        RowsFollowState, LeasesAgree, TurnsAgree, Authorised, ReceiptStates
  <2>2. WireAgrees'
    BY <1>0, <1>14, NoneAssumption
    DEF ProviderAcceptsLate, Inductive, TypeOK, environment, qrLedger, Row, Turn, Idle,
        RowsFollowState, LeasesAgree, WireAgrees, TurnsAgree, Authorised, Untouched, InFlight,
        Taken, ReceiptStates
  <2>3. TurnsAgree'
    <3>1. worker' = worker
      BY <1>14 DEF ProviderAcceptsLate, environment, qrLedger
    <3>2. \A v \in Worker : worker[v].phase # "idle" => Undisturbed(v)
      BY <1>0, <1>14, <3>1, NoneAssumption
      DEF ProviderAcceptsLate, Undisturbed, Authorised, Inductive, TypeOK, Row, TurnsAgree,
          LeasesAgree,
          environment, qrLedger, Turn, Idle, Untouched, InFlight, Taken
    <3> QED
      BY <3>1, <3>2, TurnsStay DEF Inductive
  <2>4. OrderKept'
    BY <1>0, <1>14, NoneAssumption
    DEF ProviderAcceptsLate, Inductive, TypeOK, environment, qrLedger, Row, Turn, Idle,
        RowsFollowState, LeasesAgree, TurnsAgree, Authorised, OrderKept, Earlier, HoldsBack,
        ReceiptStates
  <2>5. LedgerAgrees' /\ (Qr \/ \A k \in Message : attempt'[k] = "NONE")
    BY <1>0, <1>14, NoneAssumption
    DEF ProviderAcceptsLate, Inductive, TypeOK, environment, qrLedger, Row, Turn, Idle,
        LeasesAgree, TurnsAgree, Authorised, LedgerAgrees, ReceiptStates
  <2> QED
    BY <2>1, <2>2, <2>3, <2>4, <2>5, <1>0 DEF Inductive
<1>16. ASSUME NEW w \in Worker, CompleteLost(w) PROVE Inductive'
  <2>1. RowsFollowState' /\ LeasesAgree'
    BY <1>0, <1>16, NoneAssumption
    DEF CompleteLost, Inductive, TypeOK, environment, qrLedger, Row, Turn, Idle,
        RowsFollowState, LeasesAgree, TurnsAgree, Authorised, ReceiptStates
  <2>2. WireAgrees'
    BY <1>0, <1>16, NoneAssumption
    DEF CompleteLost, Inductive, TypeOK, environment, qrLedger, Row, Turn, Idle,
        RowsFollowState, LeasesAgree, WireAgrees, TurnsAgree, Authorised, Untouched, InFlight,
        Taken, ReceiptStates
  <2>3. TurnsAgree'
    <3>1. \A v \in Worker \ {w} : worker'[v] = worker[v]
      BY <1>0, <1>16 DEF CompleteLost, Owned, TypeOK
    <3>2. \A v \in Worker \ {w} : worker[v].phase # "idle" => Undisturbed(v)
      BY <1>0, <1>16, <3>1, NoneAssumption
      DEF CompleteLost, Owned, Undisturbed, Authorised, Inductive, TypeOK, Row, TurnsAgree,
          LeasesAgree,
          environment, qrLedger, Turn, Idle
    <3>3. TurnHolds(w)'
      BY <1>0, <1>16 DEF CompleteLost, Owned, TurnHolds, Authorised, Untouched, InFlight, Taken,
         Inductive, TypeOK, Turn, Idle, TurnsAgree
    <3>4. Authorised(w)' => Authorised(w) /\ worker'[w].msg = worker[w].msg
      BY <1>0, <1>16 DEF CompleteLost, Owned, Authorised, Inductive, TypeOK, Turn, Idle
    <3> QED
      BY <3>1, <3>2, <3>3, <3>4, TurnsKept DEF Inductive
  <2>4. OrderKept'
    BY <1>0, <1>16, NoneAssumption
    DEF CompleteLost, Inductive, TypeOK, environment, qrLedger, Row, Turn, Idle,
        RowsFollowState, LeasesAgree, TurnsAgree, Authorised, OrderKept, Earlier, HoldsBack,
        ReceiptStates
  <2>5. LedgerAgrees' /\ (Qr \/ \A k \in Message : attempt'[k] = "NONE")
    BY <1>0, <1>16, NoneAssumption
    DEF CompleteLost, Inductive, TypeOK, environment, qrLedger, Row, Turn, Idle, LeasesAgree,
        TurnsAgree, Authorised, LedgerAgrees, ReceiptStates
  <2> QED
    BY <2>1, <2>2, <2>3, <2>4, <2>5, <1>0 DEF Inductive
<1>17. ASSUME NEW m \in Message, NEW s \in ReceiptStates, RecordStatus(m, s) PROVE Inductive'
  <2>1. RowsFollowState' /\ LeasesAgree'
    BY <1>0, <1>17, NoneAssumption
    DEF RecordStatus, Advanced, CanAdvance, Transitions, Inductive, TypeOK, environment,
        qrLedger, Row, Turn, Idle, RowsFollowState, LeasesAgree, TurnsAgree, Authorised,
        ReceiptStates
  <2>2. WireAgrees'
    BY <1>0, <1>17, NoneAssumption
    DEF RecordStatus, Advanced, CanAdvance, Transitions, Inductive, TypeOK, environment,
        qrLedger, Row, Turn, Idle, RowsFollowState, LeasesAgree, WireAgrees, TurnsAgree,
        Authorised, Untouched, InFlight, Taken, ReceiptStates
  <2>3. TurnsAgree'
    <3>1. worker' = worker
      BY <1>17 DEF RecordStatus, ReceiptStates, environment, qrLedger
    <3>2. \A v \in Worker : worker[v].phase # "idle" => Undisturbed(v)
      BY <1>0, <1>17, <3>1, NoneAssumption
      DEF RecordStatus, ReceiptStates, Undisturbed, Authorised, Inductive, TypeOK, Row,
          TurnsAgree, LeasesAgree,
          environment, qrLedger, Turn, Idle, Untouched, InFlight, Taken
    <3> QED
      BY <3>1, <3>2, TurnsStay DEF Inductive
  <2>4. OrderKept'
    BY <1>0, <1>17, NoneAssumption
    DEF RecordStatus, Advanced, CanAdvance, Transitions, Inductive, TypeOK, environment,
        qrLedger, Row, Turn, Idle, RowsFollowState, LeasesAgree, TurnsAgree, Authorised,
        OrderKept, Earlier, HoldsBack, ReceiptStates
  <2>5. LedgerAgrees' /\ (Qr \/ \A k \in Message : attempt'[k] = "NONE")
    BY <1>0, <1>17, NoneAssumption
    DEF RecordStatus, Advanced, CanAdvance, Transitions, Inductive, TypeOK, environment,
        qrLedger, Row, Turn, Idle, LeasesAgree, TurnsAgree, Authorised, LedgerAgrees,
        ReceiptStates
  <2> QED
    BY <2>1, <2>2, <2>3, <2>4, <2>5, <1>0 DEF Inductive
<1>18. ASSUME NEW c \in Conversation, TakeOver(c) PROVE Inductive'
  <2>1. RowsFollowState' /\ LeasesAgree'
    BY <1>0, <1>18, NoneAssumption
    DEF TakeOver, Canceled, Disturb, NoRow, Inductive, TypeOK, environment, qrLedger, Row, Turn,
        Idle, RowsFollowState, LeasesAgree, TurnsAgree, Authorised, ReceiptStates
  <2>2. WireAgrees'
    BY <1>0, <1>18, NoneAssumption
    DEF TakeOver, Canceled, Disturb, NoRow, Inductive, TypeOK, environment, qrLedger, Row, Turn,
        Idle, RowsFollowState, LeasesAgree, WireAgrees, TurnsAgree, Authorised, Untouched,
        InFlight, Taken, ReceiptStates
  <2>3. TurnsAgree'
    <3>1. worker' = worker
      BY <1>18 DEF TakeOver, Canceled, NoRow, environment, qrLedger
    <3>2. \A v \in Worker : worker[v].phase # "idle" => Undisturbed(v)
      <4>1. /\ UNCHANGED wire
            /\ \A k \in Message : \/ state'[k] = state[k] /\ outbox'[k] = outbox[k]
                                  \/ state[k] = "ACCEPTED" /\ outbox'[k].holder = None
        BY <1>0, <1>18 DEF TakeOver, Canceled, NoRow, TypeOK
      <4>2. \A v \in Worker : worker[v].phase # "idle" => worker[v].msg \in Message
        BY <1>0 DEF TypeOK, Turn, Idle
      <4>3. \A v \in Worker : worker[v].phase # "idle" /\ Authorised(v)
                                  => state[worker[v].msg] # "ACCEPTED"
        BY DEF Inductive, TurnsAgree
      <4> QED
        BY <3>1, <4>1, <4>2, <4>3, NoneAssumption DEF Undisturbed
    <3> QED
      BY <3>1, <3>2, TurnsStay DEF Inductive
  <2>4. OrderKept'
    BY <1>0, <1>18, NoneAssumption
    DEF TakeOver, Canceled, Disturb, NoRow, Inductive, TypeOK, environment, qrLedger, Row, Turn,
        Idle, RowsFollowState, LeasesAgree, TurnsAgree, Authorised, OrderKept, Earlier,
        HoldsBack, ReceiptStates
  <2>5. LedgerAgrees' /\ (Qr \/ \A k \in Message : attempt'[k] = "NONE")
    BY <1>0, <1>18, NoneAssumption
    DEF TakeOver, Canceled, Disturb, NoRow, Inductive, TypeOK, environment, qrLedger, Row, Turn,
        Idle, LeasesAgree, TurnsAgree, Authorised, LedgerAgrees, ReceiptStates
  <2> QED
    BY <2>1, <2>2, <2>3, <2>4, <2>5, <1>0 DEF Inductive
<1>25. ASSUME NEW w \in Worker, Crash(w) PROVE Inductive'
  <2>1. RowsFollowState' /\ LeasesAgree'
    BY <1>0, <1>25, NoneAssumption
    DEF Crash, Disturb, Inductive, TypeOK, environment, qrLedger, Row, Turn, Idle,
        RowsFollowState, LeasesAgree, TurnsAgree, Authorised, ReceiptStates
  <2>2. WireAgrees'
    BY <1>0, <1>25, NoneAssumption
    DEF Crash, Disturb, Inductive, TypeOK, environment, qrLedger, Row, Turn, Idle,
        RowsFollowState, LeasesAgree, WireAgrees, TurnsAgree, Authorised, Untouched, InFlight,
        Taken, ReceiptStates
  <2>3. TurnsAgree'
    <3>1. \A v \in Worker \ {w} : worker'[v] = worker[v]
      BY <1>0, <1>25 DEF Crash, Disturb, TypeOK
    <3>2. \A v \in Worker \ {w} : worker[v].phase # "idle" => Undisturbed(v)
      BY <1>0, <1>25, <3>1, NoneAssumption
      DEF Crash, Disturb, Undisturbed, Authorised, Inductive, TypeOK, Row, TurnsAgree,
          LeasesAgree,
          environment, qrLedger, Turn, Idle
    <3>3. TurnHolds(w)'
      BY <1>0, <1>25 DEF Crash, Disturb, TurnHolds, Authorised, Untouched, InFlight, Taken,
         Inductive, TypeOK, Turn, Idle, TurnsAgree
    <3>4. Authorised(w)' => Authorised(w) /\ worker'[w].msg = worker[w].msg
      BY <1>0, <1>25 DEF Crash, Disturb, Authorised, Inductive, TypeOK, Turn, Idle
    <3> QED
      BY <3>1, <3>2, <3>3, <3>4, TurnsKept DEF Inductive
  <2>4. OrderKept'
    BY <1>0, <1>25, NoneAssumption
    DEF Crash, Disturb, Inductive, TypeOK, environment, qrLedger, Row, Turn, Idle,
        RowsFollowState, LeasesAgree, TurnsAgree, Authorised, OrderKept, Earlier, HoldsBack,
        ReceiptStates
  <2>5. LedgerAgrees' /\ (Qr \/ \A k \in Message : attempt'[k] = "NONE")
    BY <1>0, <1>25, NoneAssumption
    DEF Crash, Disturb, Inductive, TypeOK, environment, qrLedger, Row, Turn, Idle, LeasesAgree,
        TurnsAgree, Authorised, LedgerAgrees, ReceiptStates
  <2> QED
    BY <2>1, <2>2, <2>3, <2>4, <2>5, <1>0 DEF Inductive
<1>26. ASSUME NEW m \in Message, LeaseElapses(m) PROVE Inductive'
  <2>1. RowsFollowState' /\ LeasesAgree'
    BY <1>0, <1>26, NoneAssumption
    DEF LeaseElapses, Inductive, TypeOK, environment, qrLedger, Row, Turn, Idle,
        RowsFollowState, LeasesAgree, TurnsAgree, Authorised, ReceiptStates
  <2>2. WireAgrees'
    BY <1>0, <1>26, NoneAssumption
    DEF LeaseElapses, Inductive, TypeOK, environment, qrLedger, Row, Turn, Idle,
        RowsFollowState, LeasesAgree, WireAgrees, TurnsAgree, Authorised, Untouched, InFlight,
        Taken, ReceiptStates
  <2>3. TurnsAgree'
    <3>1. worker' = worker
      BY <1>26 DEF LeaseElapses, environment, qrLedger
    <3>2. \A v \in Worker : worker[v].phase # "idle" => Undisturbed(v)
      BY <1>0, <1>26, <3>1, NoneAssumption
      DEF LeaseElapses, Undisturbed, Authorised, Inductive, TypeOK, Row, TurnsAgree,
          LeasesAgree,
          environment, qrLedger, Turn, Idle, Untouched, InFlight, Taken
    <3> QED
      BY <3>1, <3>2, TurnsStay DEF Inductive
  <2>4. OrderKept'
    BY <1>0, <1>26, NoneAssumption
    DEF LeaseElapses, Inductive, TypeOK, environment, qrLedger, Row, Turn, Idle,
        RowsFollowState, LeasesAgree, TurnsAgree, Authorised, OrderKept, Earlier, HoldsBack,
        ReceiptStates
  <2>5. LedgerAgrees' /\ (Qr \/ \A k \in Message : attempt'[k] = "NONE")
    BY <1>0, <1>26, NoneAssumption
    DEF LeaseElapses, Inductive, TypeOK, environment, qrLedger, Row, Turn, Idle, LeasesAgree,
        TurnsAgree, Authorised, LedgerAgrees, ReceiptStates
  <2> QED
    BY <2>1, <2>2, <2>3, <2>4, <2>5, <1>0 DEF Inductive
<1>27. ASSUME NEW m \in Message, BackoffElapses(m) PROVE Inductive'
  <2>1. RowsFollowState' /\ LeasesAgree'
    BY <1>0, <1>27, NoneAssumption
    DEF BackoffElapses, Inductive, TypeOK, environment, qrLedger, Row, Turn, Idle,
        RowsFollowState, LeasesAgree, TurnsAgree, Authorised, ReceiptStates
  <2>2. WireAgrees'
    BY <1>0, <1>27, NoneAssumption
    DEF BackoffElapses, Inductive, TypeOK, environment, qrLedger, Row, Turn, Idle,
        RowsFollowState, LeasesAgree, WireAgrees, TurnsAgree, Authorised, Untouched, InFlight,
        Taken, ReceiptStates
  <2>3. TurnsAgree'
    <3>1. worker' = worker
      BY <1>27 DEF BackoffElapses, environment, qrLedger
    <3>2. \A v \in Worker : worker[v].phase # "idle" => Undisturbed(v)
      BY <1>0, <1>27, <3>1, NoneAssumption
      DEF BackoffElapses, Undisturbed, Authorised, Inductive, TypeOK, Row, TurnsAgree,
          LeasesAgree,
          environment, qrLedger, Turn, Idle, Untouched, InFlight, Taken
    <3> QED
      BY <3>1, <3>2, TurnsStay DEF Inductive
  <2>4. OrderKept'
    BY <1>0, <1>27, NoneAssumption
    DEF BackoffElapses, Inductive, TypeOK, environment, qrLedger, Row, Turn, Idle,
        RowsFollowState, LeasesAgree, TurnsAgree, Authorised, OrderKept, Earlier, HoldsBack,
        ReceiptStates
  <2>5. LedgerAgrees' /\ (Qr \/ \A k \in Message : attempt'[k] = "NONE")
    BY <1>0, <1>27, NoneAssumption
    DEF BackoffElapses, Inductive, TypeOK, environment, qrLedger, Row, Turn, Idle, LeasesAgree,
        TurnsAgree, Authorised, LedgerAgrees, ReceiptStates
  <2> QED
    BY <2>1, <2>2, <2>3, <2>4, <2>5, <1>0 DEF Inductive
<1>19. ASSUME UNCHANGED <<state, outbox, upstream, worker, wire, attempt>> PROVE Inductive'
  BY <1>0, <1>19
  DEF Inductive, RowsFollowState, LeasesAgree, WireAgrees, TurnsAgree, Authorised, Untouched,
      InFlight, Taken, OrderKept, Earlier, HoldsBack, LedgerAgrees
<1>28. ASSUME NEW w \in Worker, CompleteSend(w) PROVE Inductive'
  <2> DEFINE m   == worker[w].msg
             out == worker[w].outcome
             up  == upstream \cup (IF out = "SENT" THEN {m} ELSE {})
             at  == [attempt EXCEPT ![m] = FinalAttempt(@, out)]
             st  == [state EXCEPT ![m] = FinalState(m, out)]
             ob  == [outbox EXCEPT ![m] = FinalRow(@, out)]
  <2>1. /\ worker[w].phase = "answered" /\ Owned(w)
        /\ upstream' = up /\ attempt' = at
        /\ Settle(Unreconciled(ConvOf[m]), st, ob, up, at)
        /\ worker' = [worker EXCEPT ![w] = Idle]
        /\ wire' = wire
    BY <1>28 DEF CompleteSend
  <2>2. m \in Message /\ out \in Outcomes \ {"none"}
    BY <2>1, <1>0 DEF Inductive, TypeOK, TurnsAgree, Turn, Idle
  <2>3. /\ outbox[m].holder = w
        /\ state[m] \in {"SENDING", "ACCEPTED"}
        /\ state[m] = "ACCEPTED" => out \in {"FAILED", "FAILED_SAFE"}
        /\ m \notin upstream
        /\ outbox[m].queued
    BY <2>1, <2>2, NoneAssumption
    DEF Owned, Inductive, RowsFollowState, LeasesAgree, ReceiptStates
  <2>4. /\ out = "SENT" => Taken(m)
        /\ out \in {"FAILED", "FAILED_SAFE"} => Untouched(m)
    BY <2>1, <2>3 DEF Inductive, TurnsAgree
  <2>5. \A v \in Worker \ {w} : Authorised(v) => worker[v].msg # m
    BY <2>3 DEF Inductive, TurnsAgree, Authorised
  <2>6. /\ out = "SENT" => FinalState(m, out) \in ReceiptStates
        /\ out \in {"FAILED", "FAILED_SAFE"} => FinalState(m, out) = "FAILED"
        /\ out = "UNKNOWN" => FinalState(m, out) = "UNKNOWN"
    BY ReconciledIsReceipt DEF FinalState
  <2>7. \A k \in Message : outbox[k] \in Row /\ outbox'[k] \in Row
    BY <1>0 DEF TypeOK
  <2>8. /\ out = "FAILED_SAFE" =>
               /\ FinalRow(outbox[m], out).queued
               /\ FinalRow(outbox[m], out).holder = None
               /\ FinalRow(outbox[m], out).retrySafe
        /\ out # "FAILED_SAFE" => FinalRow(outbox[m], out) = NoRow
    BY <2>2, <2>3, <2>7 DEF FinalRow, GiveBack, Row
  <2>9. \A k \in Message \ {m} : st[k] = state[k] /\ ob[k] = outbox[k] /\ at[k] = attempt[k]
    BY <1>0 DEF TypeOK
  <2>10. /\ st[m] = FinalState(m, out) /\ ob[m] = FinalRow(outbox[m], out)
         /\ at[m] = FinalAttempt(attempt[m], out)
    BY <2>2, <1>0 DEF TypeOK
  <2> HIDE DEF st, ob, at
  <2>11. \A k \in Message :
           \/ state'[k] = st[k] /\ outbox'[k] = ob[k]
           \/ st[k] = "ACCEPTED" /\ state'[k] = "FAILED" /\ outbox'[k] = NoRow
    BY <2>1, SettledMessage
  <2>12. \A k \in Message \ {m} :
           \/ state'[k] = state[k] /\ outbox'[k] = outbox[k]
           \/ state[k] = "ACCEPTED" /\ state'[k] = "FAILED" /\ Gone(outbox'[k])
    BY <2>9, <2>11, RowFields
  <2>13. /\ state'[m] = FinalState(m, out) /\ outbox'[m] = FinalRow(outbox[m], out)
         /\ attempt'[m] = FinalAttempt(attempt[m], out)
    BY <2>1, <2>2, <2>6, <2>10, <2>11 DEF Outcomes, ReceiptStates
  <2>14. \A k \in Message \ {m} : attempt'[k] = attempt[k]
    BY <2>1, <2>9
  <2>15. upstream' = upstream \cup (IF out = "SENT" THEN {m} ELSE {})
    BY <2>1
  <2>16. outbox'[m].holder = None /\ (out # "FAILED_SAFE" => Gone(outbox'[m]))
    BY <2>8, <2>13, RowFields DEF Gone
  <2> HIDE DEF up
  <2>17. RowsFollowState' /\ LeasesAgree'
    BY <2>2, <2>3, <2>6, <2>7, <2>8, <2>12, <2>13, <2>15, <2>16
    DEF Inductive, RowsFollowState, LeasesAgree, Gone, Row, ReceiptStates, Outcomes
  <2>18. WireAgrees'
    BY <2>1, <2>2, <2>3, <2>4, <2>6, <2>12, <2>13, <2>15
    DEF Inductive, LeasesAgree, WireAgrees, Untouched, InFlight, Taken, ReceiptStates, Outcomes
  <2>19. TurnsAgree'
    <3>1. worker'[w] = Idle /\ UNCHANGED wire /\ \A v \in Worker \ {w} : worker'[v] = worker[v]
      BY <2>1, <1>0 DEF TypeOK
    <3>2. ASSUME NEW v \in Worker \ {w}, worker[v].phase # "idle" PROVE Undisturbed(v)
      <4>1. worker[v].msg \in Message
        BY <3>2, <1>0 DEF TypeOK, Turn, Idle
      <4>2. CASE worker[v].msg = m
        BY <2>5, <2>16, <3>1, <4>2, NoneAssumption DEF Undisturbed
      <4>3. CASE worker[v].msg # m
        <5>1. Authorised(v) => state[worker[v].msg] # "ACCEPTED"
          BY <3>2 DEF Inductive, TurnsAgree
        <5> QED
          BY <2>12, <3>1, <4>1, <4>3, <5>1, NoneAssumption DEF Undisturbed, Gone
      <4> QED
        BY <4>2, <4>3
    <3>3. TurnHolds(w)' /\ ~Authorised(w)'
      BY <3>1 DEF TurnHolds, Authorised, Idle
    <3> QED
      BY <3>1, <3>2, <3>3, TurnsKept DEF Inductive
  <2>20. OrderKept'
    BY <2>2, <2>3, <2>6, <2>12, <2>13, <2>14, <2>16, NoneAssumption
    DEF Inductive, OrderKept, Earlier, HoldsBack, Gone, RowsFollowState, ReceiptStates, Outcomes
  <2>21. LedgerAgrees' /\ (Qr \/ \A k \in Message : attempt'[k] = "NONE")
    BY <2>2, <2>3, <2>6, <2>12, <2>13, <2>14, <2>15
    DEF Inductive, LedgerAgrees, LeasesAgree, FinalAttempt, ReceiptStates, Outcomes
  <2> QED
    BY <2>17, <2>18, <2>19, <2>20, <2>21, <1>0 DEF Inductive
\* A settlement alone only cancels automated output that is still ACCEPTED.
<1>29. ASSUME NEW E, NEW at,
              Settle(E, state, outbox, upstream, at), at \in [Message -> AttemptStates],
              attempt' = at,
              \A k \in Message : at[k] # attempt[k] => attempt[k] = "UNKNOWN" /\ at[k] = "ABANDONED",
              UNCHANGED <<upstream, worker, wire>>
       PROVE  Inductive'
  <2>1. \A k \in Message :
           \/ state'[k] = state[k] /\ outbox'[k] = outbox[k]
           \/ state[k] = "ACCEPTED" /\ state'[k] = "FAILED" /\ Gone(outbox'[k])
    BY <1>29, SettledMessage, RowFields
  <2>2. \A k \in Message : outbox[k] \in Row /\ outbox'[k] \in Row
    BY <1>0 DEF TypeOK
  <2>3. RowsFollowState' /\ LeasesAgree'
    BY <1>29, <2>1, <2>2 DEF Inductive, RowsFollowState, LeasesAgree, Gone, Row, ReceiptStates
  <2>4. WireAgrees'
    BY <1>29, <2>1
    DEF Inductive, LeasesAgree, WireAgrees, Untouched, InFlight, Taken, ReceiptStates
  <2>5. TurnsAgree'
    BY <1>29, <2>1, <1>0, NoneAssumption
    DEF Inductive, TypeOK, Turn, Idle, TurnsAgree, Authorised, Untouched, InFlight, Taken, Gone
  <2>6. OrderKept'
    BY <1>29, <2>1, NoneAssumption DEF Inductive, OrderKept, Earlier, HoldsBack, Gone
  <2>7. LedgerAgrees' /\ (Qr \/ \A k \in Message : attempt'[k] = "NONE")
    BY <1>29, <2>1 DEF Inductive, LedgerAgrees
  <2> QED
    BY <2>3, <2>4, <2>5, <2>6, <2>7, <1>0 DEF Inductive
<1>30. ASSUME NEW e \in Echo, ObserveOutbound(e) PROVE Inductive'
  BY <1>0, <1>29, <1>30 DEF ObserveOutbound, TypeOK
<1>31. ASSUME NEW m \in Message, AbandonAttempt(m) PROVE Inductive'
  <2> DEFINE at == [attempt EXCEPT ![m] = "ABANDONED"]
  <2>1. /\ Settle(Unreconciled(ConvOf[m]), state, outbox, upstream, at) /\ attempt' = at
        /\ UNCHANGED <<upstream, worker, wire>>
    BY <1>31 DEF AbandonAttempt
  <2>2. at \in [Message -> AttemptStates]
    BY <1>0 DEF TypeOK, AttemptStates
  <2>3. \A k \in Message : at[k] # attempt[k] => attempt[k] = "UNKNOWN" /\ at[k] = "ABANDONED"
    BY <1>31, <1>0 DEF AbandonAttempt, TypeOK
  <2> HIDE DEF at
  <2> QED
    BY <1>29, <2>1, <2>2, <2>3
<1>32. ASSUME NEW e \in Echo, AbandonObservation(e) PROVE Inductive'
  <2>1. /\ UNCHANGED <<state, outbox, upstream, worker, wire>>
        /\ \A k \in Message : \/ attempt'[k] = attempt[k]
                              \/ attempt[k] = "UNKNOWN" /\ attempt'[k] = "ABANDONED"
    BY <1>32, <1>0 DEF AbandonObservation, TypeOK
  <2>2. RowsFollowState' /\ LeasesAgree' /\ WireAgrees'
    BY <2>1 DEF Inductive, RowsFollowState, LeasesAgree, WireAgrees, Untouched, InFlight, Taken
  <2>3. TurnsAgree'
    BY <2>1 DEF Inductive, TurnsAgree, Authorised, Untouched, InFlight, Taken
  <2>4. OrderKept'
    BY <2>1 DEF Inductive, OrderKept, Earlier, HoldsBack
  <2>5. LedgerAgrees' /\ (Qr \/ \A k \in Message : attempt'[k] = "NONE")
    BY <2>1 DEF Inductive, LedgerAgrees
  <2> QED
    BY <2>2, <2>3, <2>4, <2>5, <1>0 DEF Inductive
<1>33. ASSUME NEW w \in Worker, RecoverQr(w) PROVE Inductive'
  <2> DEFINE at == [m \in Message |-> IF m \in Overdue THEN "UNKNOWN" ELSE attempt[m]]
             st == [m \in Message |->
                      IF m \in Overdue /\ state[m] = "SENDING" THEN "UNKNOWN" ELSE state[m]]
             ob == [m \in Message |-> IF st[m] = "UNKNOWN" THEN NoRow ELSE outbox[m]]
             E  == UNION {Unreconciled(c) : c \in Conversation}
  <2>1. /\ Qr /\ Settle(E, st, ob, upstream, at) /\ attempt' = at
        /\ UNCHANGED <<upstream, worker, wire>>
    BY <1>33 DEF RecoverQr
  <2>2. \A k \in Message :
           \/ /\ state[k] = "SENDING" /\ st[k] = "UNKNOWN" /\ Gone(ob[k])
              /\ attempt[k] = "DISPATCHED" /\ at[k] = "UNKNOWN"
           \/ /\ st[k] = state[k] /\ at[k] = attempt[k]
              /\ ob[k] = outbox[k] \/ (state[k] = "UNKNOWN" /\ Gone(ob[k]))
    BY <2>1, RowFields DEF Overdue, Inductive, LedgerAgrees
  <2> HIDE DEF at, st, ob, E
  <2>3. \A k \in Message :
           \/ state'[k] = st[k] /\ outbox'[k] = ob[k]
           \/ st[k] = "ACCEPTED" /\ state'[k] = "FAILED" /\ Gone(outbox'[k])
    BY <2>1, SettledMessage, RowFields
  <2>4. \A k \in Message :
           \/ /\ state[k] = "SENDING" /\ state'[k] = "UNKNOWN" /\ Gone(outbox'[k])
              /\ attempt[k] = "DISPATCHED" /\ attempt'[k] = "UNKNOWN"
           \/ /\ state'[k] = state[k] /\ attempt'[k] = attempt[k]
              /\ outbox'[k] = outbox[k] \/ (state[k] = "UNKNOWN" /\ Gone(outbox'[k]))
           \/ /\ state[k] = "ACCEPTED" /\ state'[k] = "FAILED" /\ Gone(outbox'[k])
              /\ attempt'[k] = attempt[k]
    BY <2>1, <2>2, <2>3
  <2>5. \A k \in Message : outbox[k] \in Row /\ outbox'[k] \in Row
    BY <1>0 DEF TypeOK
  <2>6. RowsFollowState' /\ LeasesAgree'
    BY <2>1, <2>4, <2>5 DEF Inductive, RowsFollowState, LeasesAgree, Gone, Row, ReceiptStates
  <2>7. WireAgrees'
    BY <2>1, <2>4
    DEF Inductive, LeasesAgree, WireAgrees, Untouched, InFlight, Taken, ReceiptStates
  <2>8. TurnsAgree'
    BY <2>1, <2>4, <1>0, NoneAssumption
    DEF Inductive, TypeOK, Turn, Idle, TurnsAgree, Authorised, Untouched, InFlight, Taken, Gone
  <2>9. OrderKept'
    BY <2>1, <2>4, NoneAssumption DEF Inductive, OrderKept, Earlier, HoldsBack, Gone
  <2>10. LedgerAgrees' /\ Qr
    BY <2>1, <2>4 DEF Inductive, LedgerAgrees, LeasesAgree, ReceiptStates
  <2> QED
    BY <2>6, <2>7, <2>8, <2>9, <2>10, <1>0 DEF Inductive
<1>34. ASSUME NEW c \in Conversation,
              ResumeBot(c) \/ CloseWindow(c) \/ RecordIncoming(c)
              \/ \E consent \in {"UNKNOWN", "OPTED_IN", "OPTED_OUT"} : SetConsent(c, consent)
       PROVE  Inductive'
  BY <1>19, <1>34 DEF ResumeBot, CloseWindow, RecordIncoming, SetConsent, qrLedger
<1>35. ASSUME Suspend \/ Reactivate \/ LowerLimit PROVE Inductive'
  BY <1>19, <1>35 DEF Suspend, Reactivate, LowerLimit, qrLedger
<1>36. ASSUME NEW part \in {"ready", "credential"}, LoseChannel(part) \/ RestoreChannel(part)
       PROVE  Inductive'
  BY <1>19, <1>36 DEF LoseChannel, RestoreChannel, qrLedger
<1>37. ASSUME NEW m \in Message, RevokeAuthority(m) PROVE Inductive'
  BY <1>19, <1>37 DEF RevokeAuthority, qrLedger
<1>38. CASE UNCHANGED vars
  BY <1>19, <1>38 DEF vars
<1> QED
  BY <1>1, <1>2, <1>3, <1>4, <1>6, <1>7, <1>8, <1>9, <1>10, <1>11, <1>12, <1>13, <1>14, <1>16,
     <1>17, <1>18, <1>25, <1>26, <1>27, <1>28, <1>30, <1>31, <1>32, <1>33, <1>34, <1>35, <1>36,
     <1>37, <1>38
  DEF Next, WorkerStep, ProviderStep, OperatorStep, WorldStep

---------------------------------------------------------------------------
(* What follows.                                                           *)

\* The strengthening holds in every reachable state.
THEOREM InductiveHolds == Spec => []Inductive
<1>1. Init => Inductive
  BY InductiveInit
<1>2. Inductive /\ [Next]_vars => Inductive'
  BY InductiveStep
<1> QED
  BY <1>1, <1>2, PTL DEF Spec

\* However many workers, crashes, expired leases and late answers there are, the
\* provider accepts no message twice: validateClaim authorises a second POST
\* only after the first one was definitely refused.
THEOREM SentAtMostOnce == Spec => []AtMostOnce
<1>1. Inductive => AtMostOnce
  BY DEF Inductive, WireAgrees, AtMostOnce, Untouched, InFlight, Taken
<1> QED
  BY <1>1, InductiveHolds, PTL

\* FAILED without a provider id is the truth: nothing of the message is at the
\* provider or on the way to it.
THEOREM FailureIsTrue == Spec => []FailedIsFinal
<1>1. Inductive => FailedIsFinal
  BY DEF Inductive, WireAgrees, FailedIsFinal, Untouched
<1> QED
  BY <1>1, InductiveHolds, PTL

\* A conversation is sent in the order of its sequence numbers.
THEOREM SentInOrder == Spec => []ConversationOrder
<1>1. Inductive => ConversationOrder
  BY DEF Inductive, OrderKept, RowsFollowState, ConversationOrder
<1> QED
  BY <1>1, InductiveHolds, PTL

\* The outbox has a row exactly for the messages that still need one.
THEOREM RowsAreRight == Spec => []RowsFollowState
<1>1. Inductive => RowsFollowState
  BY DEF Inductive
<1> QED
  BY <1>1, InductiveHolds, PTL

\* The QR dispatch ledger and the message table say the same.
THEOREM LedgerIsRight == Spec => []LedgerAgrees
<1>1. Inductive => LedgerAgrees
  BY DEF Inductive
<1> QED
  BY <1>1, InductiveHolds, PTL

===========================================================================
