--------------------- MODULE InstanceOperationsProofs ---------------------
(***************************************************************************)
(* Theorems about InstanceOperations for every set of operations and polls *)
(* and every number of source times.                                       *)
(***************************************************************************)
EXTENDS InstanceOperations, TLAPS

\* An operation that ended stays as it is, or its doubt is resolved.
Ends(r) ==
    op[r].status \notin {"NONE", "PENDING"} /\ op'[r].status # op[r].status
       => r \in Connect /\ op[r].doubt /\ op'[r].status = "SUCCEEDED" /\ ~op'[r].doubt

\* What every step must establish.
GoodStep == InstanceInductive' /\ \A r \in Operation : Ends(r)

---------------------------------------------------------------------------
(* Operations and requests.                                                *)

LEMMA KindsDiffer ==
    /\ Provision \in Operation /\ Connect \subseteq Operation /\ Disconnect \subseteq Operation
    /\ Provision \notin Connect /\ Provision \notin Disconnect
    /\ \A r \in Connect : r \notin Disconnect
BY OperationAssumption DEF Operation

LEMMA NoOpTyped == NoOp \in Op /\ NoOp.status = "NONE"
BY DEF NoOp, Op

LEMMA OpTyped ==
    ASSUME InstanceInductive, NEW r \in Operation
    PROVE  /\ op[r] \in Op
           /\ op[r].status \in {"NONE", "PENDING", "SUCCEEDED", "FAILED", "UNKNOWN"}
           /\ op[r].doubt \in BOOLEAN /\ op[r].stale \in BOOLEAN /\ op[r].born \in Nat
           /\ call[r] = "idle" <=> op[r].status = "NONE"
           /\ op[r].status = "NONE" => op[r].born = 0
BY DEF InstanceInductive, TypeOK, RowsAgree, Op, NoOp

\* A step that begins no operation keeps requests, births and connections apart.
LEMMA SettlingAgrees ==
    ASSUME InstanceInductive,
           op' \in [Operation -> Op],
           made' = made,
           \A r \in Operation :
              \/ op'[r] = op[r]
              \/ /\ op[r].status # "NONE" /\ op'[r].status # "NONE"
                 /\ op'[r].born = op[r].born,
           \A r \in Operation : \/ call'[r] = call[r]
                                \/ call[r] # "idle" /\ call'[r] # "idle",
           known \subseteq known',
           row'.archived => fresh' = {}
    PROVE  RowsAgree' /\ ConnectsApart'
<1>1. \A r \in Operation : IF call'[r] = "idle" THEN op'[r] = NoOp
                           ELSE op'[r].status # "NONE" /\ op'[r].born \in 1..made'
  <2> TAKE r \in Operation
  <2>1. IF call[r] = "idle" THEN op[r] = NoOp
        ELSE op[r].status # "NONE" /\ op[r].born \in 1..made
    BY DEF InstanceInductive, RowsAgree
  <2> QED
    BY <2>1, NoOpTyped
<1>2. \A r \in Operation : op'[r].born = op[r].born /\ (op'[r].status # "NONE" <=> op[r].status # "NONE")
  OBVIOUS
<1>3. \A r, s \in Operation : op'[r].status # "NONE" /\ op'[r].born = op'[s].born => r = s
  BY <1>2 DEF InstanceInductive, RowsAgree
<1>4. ConnectsApart'
  BY <1>2, KindsDiffer DEF InstanceInductive, ConnectsApart
<1> QED
  BY <1>1, <1>3, <1>4 DEF RowsAgree

\* The same for a step that begins r, when every connection before is known.
LEMMA BeginningAgrees ==
    ASSUME InstanceInductive,
           NEW r \in Operation, NEW doubt \in BOOLEAN,
           NEW ops \in [Operation -> Op],
           \A t \in Operation :
              \/ ops[t] = op[t]
              \/ /\ op[t].status # "NONE" /\ ops[t].status # "NONE"
                 /\ ops[t].born = op[t].born,
           Begin(r, ops, doubt),
           r \in Connect => \A t \in Connect : op[t].status # "NONE" => t \in known,
           known' = known,
           fresh' = {}
    PROVE  /\ op' \in [Operation -> Op]
           /\ op'[r].status = "PENDING"
           /\ \A t \in Operation \ {r} : op'[t] = ops[t]
           /\ op[r].status = "NONE"
           /\ made' \in Nat
           /\ call' \in [Operation -> {"idle", "calling", "over"}]
           /\ call'[r] = "calling"
           /\ \A t \in Operation \ {r} : call'[t] = call[t]
           /\ RowsAgree' /\ ConnectsApart'
<1>0. made \in Nat /\ call \in [Operation -> {"idle", "calling", "over"}]
  BY DEF InstanceInductive, TypeOK
<1>1. /\ call[r] = "idle" /\ made' = made + 1
      /\ op' = [ops EXCEPT ![r] = [status |-> "PENDING", doubt |-> doubt, stale |-> FALSE,
                                   born |-> made + 1]]
      /\ call' = [call EXCEPT ![r] = "calling"]
  BY DEF Begin
<1>2. op[r].status = "NONE"
  BY <1>1, OpTyped
<1>3. /\ op'[r] = [status |-> "PENDING", doubt |-> doubt, stale |-> FALSE, born |-> made + 1]
      /\ \A t \in Operation \ {r} : op'[t] = ops[t]
      /\ call'[r] = "calling" /\ \A t \in Operation \ {r} : call'[t] = call[t]
  BY <1>0, <1>1
<1>4. op'[r] \in Op /\ op'[r].status = "PENDING" /\ op'[r].born = made + 1
  BY <1>0, <1>3 DEF Op
<1>5. op' \in [Operation -> Op]
  BY <1>1, <1>3, <1>4
<1>6. \A t \in Operation \ {r} : /\ op'[t].born = op[t].born
                                 /\ op'[t].status # "NONE" <=> op[t].status # "NONE"
  BY <1>3
<1>7. \A t \in Operation : op[t].born \in 0..made /\ (op[t].status # "NONE" => op[t].born \in 1..made)
  BY <1>0, OpTyped DEF InstanceInductive, RowsAgree
<1>8. ASSUME NEW t \in Operation
      PROVE  IF call'[t] = "idle" THEN op'[t] = NoOp
             ELSE op'[t].status # "NONE" /\ op'[t].born \in 1..made'
  <2>1. CASE t = r
    BY <1>0, <1>1, <1>3, <1>4, <2>1
  <2>2. CASE t # r
    <3>1. IF call[t] = "idle" THEN op[t] = NoOp
          ELSE op[t].status # "NONE" /\ op[t].born \in 1..made
      BY DEF InstanceInductive, RowsAgree
    <3>2. CASE call[t] = "idle"
      BY <1>3, <2>2, <3>1, <3>2, NoOpTyped
    <3>3. CASE call[t] # "idle"
      BY <1>0, <1>1, <1>3, <1>6, <2>2, <3>1, <3>3
    <3> QED
      BY <3>2, <3>3
  <2> QED
    BY <2>1, <2>2
<1>9. ASSUME NEW t \in Operation, NEW s \in Operation,
             op'[t].status # "NONE", op'[t].born = op'[s].born
      PROVE  t = s
  <2>1. CASE t # r /\ s # r
    BY <1>6, <1>9, <2>1 DEF InstanceInductive, RowsAgree
  <2>2. CASE t = r /\ s # r
    BY <1>0, <1>4, <1>6, <1>7, <1>9, <2>2
  <2>3. CASE t # r /\ s = r
    BY <1>0, <1>4, <1>6, <1>7, <1>9, <2>3
  <2> QED
    BY <2>1, <2>2, <2>3
<1>10. ASSUME NEW t \in Connect, NEW s \in Connect,
              op'[t].status # "NONE", op'[t].born < op'[s].born
       PROVE  t \in known'
  <2>0. t \in Operation /\ s \in Operation
    BY KindsDiffer
  <2>1. t # r
    BY <1>0, <1>4, <1>6, <1>7, <1>10, <2>0
  <2>2. CASE s = r
    BY <1>6, <1>10, <2>0, <2>1, <2>2
  <2>3. CASE s # r
    BY <1>6, <1>10, <2>0, <2>1, <2>3 DEF InstanceInductive, ConnectsApart
  <2> QED
    BY <2>2, <2>3
<1>11. RowsAgree'
  BY <1>8, <1>9 DEF RowsAgree
<1>12. ConnectsApart'
  BY <1>10 DEF ConnectsApart
<1> QED
  BY <1>0, <1>1, <1>2, <1>3, <1>4, <1>5, <1>11, <1>12


---------------------------------------------------------------------------
(* Beginnings.                                                             *)

LEMMA InitGood == Init => InstanceInductive
<1> SUFFICES ASSUME Init PROVE InstanceInductive
  OBVIOUS
<1> USE DEF Init
<1>1. TypeOK
  BY ClockAssumption, NoOpTyped DEF TypeOK, Statuses
<1>2. RowsAgree
  BY NoOpTyped DEF RowsAgree
<1>3. DoubtAgrees
  BY NoOpTyped, KindsDiffer DEF DoubtAgrees
<1>4. ConnectsApart /\ ArchivedIsQuiet /\ DisconnectingIsOwned
  BY NoOpTyped, KindsDiffer DEF ConnectsApart, ArchivedIsQuiet, DisconnectingIsOwned
<1> QED
  BY <1>1, <1>2, <1>3, <1>4 DEF InstanceInductive

\* The row after its status was set.
LEMMA RowSet ==
    ASSUME InstanceInductive, NEW s \in Statuses, SetStatus(s)
    PROVE  /\ row' \in [status: Statuses, archived: BOOLEAN, clock: 0..MaxClock]
           /\ row'.status = s /\ row'.archived = row.archived
           /\ fresh' = {}
BY DEF InstanceInductive, TypeOK, SetStatus, Touch

LEMMA CreateGood ==
    ASSUME InstanceInductive, CreateInstance
    PROVE  GoodStep
<1>1. /\ row.status = "NONE" /\ Begin(Provision, op, TRUE)
      /\ SetStatus("PROVISIONING") /\ known' = known
  BY DEF CreateInstance
<1>2. "PROVISIONING" \in Statuses
  BY DEF Statuses
<1>3. /\ row' \in [status: Statuses, archived: BOOLEAN, clock: 0..MaxClock]
      /\ row'.status = "PROVISIONING" /\ row'.archived = row.archived /\ fresh' = {}
  BY <1>1, <1>2, RowSet
<1>4. op \in [Operation -> Op] /\ Provision \in Operation /\ Provision \notin Connect
  BY KindsDiffer DEF InstanceInductive, TypeOK
<1>5. /\ op' \in [Operation -> Op] /\ op'[Provision].status = "PENDING"
      /\ \A t \in Operation \ {Provision} : op'[t] = op[t]
      /\ op[Provision].status = "NONE"
      /\ made' \in Nat /\ call' \in [Operation -> {"idle", "calling", "over"}]
      /\ RowsAgree' /\ ConnectsApart'
  BY <1>1, <1>3, <1>4, BeginningAgrees
<1>6. TypeOK'
  BY <1>1, <1>3, <1>5 DEF TypeOK, InstanceInductive
<1>7. DoubtAgrees'
  BY <1>1, <1>5, KindsDiffer DEF DoubtAgrees, InstanceInductive
<1>8. ArchivedIsQuiet' /\ DisconnectingIsOwned'
  BY <1>1, <1>3 DEF ArchivedIsQuiet, DisconnectingIsOwned, InstanceInductive
<1>9. \A r \in Operation : Ends(r)
  BY <1>5 DEF Ends
<1> QED
  BY <1>5, <1>6, <1>7, <1>8, <1>9 DEF GoodStep, InstanceInductive

\* Every connection there was is known when another one may begin: the last one
\* because it is closed and free of doubt, the others because it came after them.
LEMMA LatestDecides ==
    ASSUME InstanceInductive,
           \A s \in Latest(Connect) : ~Open(s),
           NEW t \in Connect, op[t].status # "NONE"
    PROVE  t \in known
<1>1. CASE t \in Latest(Connect)
  <2>1. op[t].status \in {"SUCCEEDED", "FAILED"} /\ ~op[t].doubt
    BY <1>1, OpTyped, KindsDiffer DEF Open
  <2> QED
    BY <2>1 DEF InstanceInductive, DoubtAgrees
<1>2. CASE t \notin Latest(Connect)
  <2>1. PICK s \in Connect : op[s].status # "NONE" /\ ~(op[s].born <= op[t].born)
    BY <1>2 DEF Latest, Newest
  <2>2. op[t].born < op[s].born
    BY <2>1, OpTyped, KindsDiffer
  <2> QED
    BY <2>2 DEF InstanceInductive, ConnectsApart
<1> QED
  BY <1>1, <1>2

LEMMA ConnectGood ==
    ASSUME InstanceInductive, NEW r \in Connect, ConnectInstance(r)
    PROVE  GoodStep
<1>1. /\ ~row.archived /\ \A s \in Latest(Connect) : ~Open(s)
      /\ Begin(r, op, FALSE) /\ SetStatus("CONNECTING") /\ known' = known
  BY DEF ConnectInstance
<1>2. "CONNECTING" \in Statuses
  BY DEF Statuses
<1>3. /\ row' \in [status: Statuses, archived: BOOLEAN, clock: 0..MaxClock]
      /\ row'.status = "CONNECTING" /\ row'.archived = row.archived /\ fresh' = {}
  BY <1>1, <1>2, RowSet
<1>4. op \in [Operation -> Op] /\ r \in Operation /\ r # Provision
  BY KindsDiffer DEF InstanceInductive, TypeOK
<1>5. \A t \in Connect : op[t].status # "NONE" => t \in known
  BY <1>1, LatestDecides
<1>6. /\ op' \in [Operation -> Op] /\ op'[r].status = "PENDING"
      /\ \A t \in Operation \ {r} : op'[t] = op[t]
      /\ op[r].status = "NONE"
      /\ made' \in Nat /\ call' \in [Operation -> {"idle", "calling", "over"}]
      /\ \A t \in Operation \ {r} : call'[t] = call[t]
      /\ RowsAgree' /\ ConnectsApart'
  BY <1>1, <1>3, <1>4, <1>5, BeginningAgrees
<1>7. TypeOK'
  BY <1>1, <1>3, <1>6 DEF TypeOK, InstanceInductive
<1>8. DoubtAgrees'
  BY <1>1, <1>4, <1>6, KindsDiffer DEF DoubtAgrees, InstanceInductive
<1>9. ArchivedIsQuiet' /\ DisconnectingIsOwned'
  BY <1>1, <1>3 DEF ArchivedIsQuiet, DisconnectingIsOwned
<1>10. \A t \in Operation : Ends(t)
  BY <1>6 DEF Ends
<1> QED
  BY <1>6, <1>7, <1>8, <1>9, <1>10 DEF GoodStep, InstanceInductive

LEMMA DisconnectGood ==
    ASSUME InstanceInductive, NEW r \in Disconnect, DisconnectInstance(r)
    PROVE  GoodStep
<1>1. ~row.archived /\ SetStatus("DISCONNECTING") /\ known' = known
  BY DEF DisconnectInstance
<1>2. "DISCONNECTING" \in Statuses
  BY DEF Statuses
<1>3. /\ row' \in [status: Statuses, archived: BOOLEAN, clock: 0..MaxClock]
      /\ row'.status = "DISCONNECTING" /\ row'.archived = row.archived /\ fresh' = {}
  BY <1>1, <1>2, RowSet
<1>4. op \in [Operation -> Op] /\ r \in Operation /\ r # Provision /\ r \notin Connect
  BY KindsDiffer DEF InstanceInductive, TypeOK
<1>5. PICK ops \in [Operation -> Op] :
        /\ Begin(r, ops, FALSE)
        /\ \A t \in Operation :
              \/ ops[t] = op[t]
              \/ /\ op[t].status = "PENDING" /\ ops[t].status = "UNKNOWN"
                 /\ ops[t].born = op[t].born
                 /\ t \in Disconnect
  <2>1. CASE Begin(r, op, FALSE)
    BY <1>4, <2>1
  <2>2. CASE \E s \in LastPending(Disconnect) :
                Begin(r, [op EXCEPT ![s].status = "UNKNOWN", ![s].stale = FALSE], FALSE)
    <3>1. PICK s \in LastPending(Disconnect) :
                Begin(r, [op EXCEPT ![s].status = "UNKNOWN", ![s].stale = FALSE], FALSE)
      BY <2>2
    <3>2. s \in Disconnect /\ op[s].status = "PENDING" /\ s \in Operation /\ op[s] \in Op
      BY <1>4, <3>1, KindsDiffer DEF LastPending, Newest
    <3> DEFINE ops == [op EXCEPT ![s].status = "UNKNOWN", ![s].stale = FALSE]
    <3>3. /\ ops[s] = [op[s] EXCEPT !.status = "UNKNOWN", !.stale = FALSE]
          /\ \A t \in Operation \ {s} : ops[t] = op[t]
          /\ ops = [t \in Operation |-> ops[t]]
      BY <1>4, <3>2
    <3> HIDE DEF ops
    <3>4. ops[s] \in Op /\ ops[s].status = "UNKNOWN" /\ ops[s].born = op[s].born
      BY <3>2, <3>3 DEF Op
    <3>5. ops \in [Operation -> Op]
      BY <1>4, <3>3, <3>4
    <3>6. Begin(r, ops, FALSE)
      BY <3>1 DEF ops
    <3> QED
      BY <3>2, <3>3, <3>4, <3>5, <3>6
  <2> QED
    BY <2>1, <2>2 DEF DisconnectInstance
<1>6. /\ op' \in [Operation -> Op] /\ op'[r].status = "PENDING"
      /\ \A t \in Operation \ {r} : op'[t] = ops[t]
      /\ op[r].status = "NONE"
      /\ made' \in Nat /\ call' \in [Operation -> {"idle", "calling", "over"}]
      /\ \A t \in Operation \ {r} : call'[t] = call[t]
      /\ RowsAgree' /\ ConnectsApart'
  <2>1. \A t \in Operation : \/ ops[t] = op[t]
                              \/ /\ op[t].status # "NONE" /\ ops[t].status # "NONE"
                                 /\ ops[t].born = op[t].born
    BY <1>5
  <2>2. Begin(r, ops, FALSE) /\ FALSE \in BOOLEAN
    BY <1>5
  <2>3. r \in Connect => \A t \in Connect : op[t].status # "NONE" => t \in known
    BY <1>4
  <2>4. r \in Operation /\ ops \in [Operation -> Op] /\ known' = known /\ fresh' = {}
    BY <1>1, <1>3, <1>4
  <2> QED
    BY <2>1, <2>2, <2>3, <2>4, BeginningAgrees
<1>7. TypeOK'
  BY <1>1, <1>3, <1>6 DEF TypeOK, InstanceInductive
<1>8. DoubtAgrees'
  BY <1>1, <1>4, <1>5, <1>6, KindsDiffer DEF DoubtAgrees, InstanceInductive
<1>9. ArchivedIsQuiet' /\ DisconnectingIsOwned'
  BY <1>1, <1>3, <1>6 DEF ArchivedIsQuiet, DisconnectingIsOwned
<1>10. \A t \in Operation : Ends(t)
  BY <1>5, <1>6 DEF Ends
<1> QED
  BY <1>6, <1>7, <1>8, <1>9, <1>10 DEF GoodStep, InstanceInductive

---------------------------------------------------------------------------
(* Settlements.                                                            *)

LEMMA ProvisionGood ==
    ASSUME InstanceInductive, SettleProvision
    PROVE  GoodStep
<1>1. /\ call[Provision] = "calling" /\ made' = made /\ known' = known
      /\ call' = [call EXCEPT ![Provision] = "over"]
  BY DEF SettleProvision
<1>2. PICK answer \in {<<"CREATED", "SUCCEEDED">>, <<"PROVISIONING_FAILED", "FAILED">>,
                       <<"PROVISIONING", "UNKNOWN">>} :
        /\ SetStatus(answer[1])
        /\ op' = [op EXCEPT ![Provision].status = answer[2],
                            ![Provision].doubt = (answer[2] = "UNKNOWN"),
                            ![Provision].stale = FALSE]
  BY DEF SettleProvision
<1>3. /\ answer[1] \in Statuses /\ answer[1] # "DISCONNECTING"
      /\ answer[2] \in {"SUCCEEDED", "FAILED", "UNKNOWN"}
      /\ (answer[2] = "UNKNOWN") \in BOOLEAN
  BY <1>2 DEF Statuses
<1>4. /\ row' \in [status: Statuses, archived: BOOLEAN, clock: 0..MaxClock]
      /\ row'.status = answer[1] /\ row'.archived = row.archived /\ fresh' = {}
  BY <1>2, <1>3, RowSet
<1>5. /\ op \in [Operation -> Op] /\ Provision \in Operation /\ op[Provision].status = "PENDING"
      /\ call \in [Operation -> {"idle", "calling", "over"}] /\ made \in Nat /\ known \subseteq Connect
  BY <1>1, KindsDiffer DEF InstanceInductive, TypeOK, DoubtAgrees
<1>6. op'[Provision] = [op[Provision] EXCEPT !.status = answer[2], !.stale = FALSE,
                                             !.doubt = (answer[2] = "UNKNOWN")]
  BY <1>2, <1>5, <1>3 DEF Op
<1>7. /\ op'[Provision] \in Op /\ op'[Provision].status # "NONE"
      /\ op'[Provision].born = op[Provision].born
  BY <1>3, <1>5, <1>6 DEF Op
<1>8. /\ \A t \in Operation \ {Provision} : op'[t] = op[t]
      /\ op' = [t \in Operation |-> op'[t]]
  BY <1>2, <1>5
<1>9. op' \in [Operation -> Op]
  BY <1>5, <1>7, <1>8
<1>10. RowsAgree' /\ ConnectsApart'
  BY <1>1, <1>4, <1>5, <1>7, <1>8, <1>9, SettlingAgrees
<1>11. TypeOK'
  BY <1>1, <1>4, <1>5, <1>9 DEF TypeOK
<1>12. DoubtAgrees'
  BY <1>1, <1>5, <1>8, KindsDiffer DEF DoubtAgrees, InstanceInductive
<1>13. ~row.archived
  BY <1>5 DEF InstanceInductive, ArchivedIsQuiet, Open
<1>14. ArchivedIsQuiet' /\ DisconnectingIsOwned'
  BY <1>3, <1>4, <1>13 DEF ArchivedIsQuiet, DisconnectingIsOwned
<1>15. \A r \in Operation : Ends(r)
  BY <1>5, <1>8 DEF Ends
<1> QED
  BY <1>10, <1>11, <1>12, <1>14, <1>15 DEF GoodStep, InstanceInductive

\* A request that ends without its answer being written.
LEMMA DroppedGood ==
    ASSUME InstanceInductive, NEW r \in Operation, call[r] = "calling",
           call' = [call EXCEPT ![r] = "over"],
           UNCHANGED <<row, op, made, fresh, known>>
    PROVE  GoodStep
<1>1. TypeOK'
  BY DEF InstanceInductive, TypeOK
<1>2. \A t \in Operation : \/ call'[t] = call[t]
                           \/ call[t] # "idle" /\ call'[t] # "idle"
  BY DEF InstanceInductive, TypeOK
<1>3. RowsAgree'
  BY <1>2 DEF InstanceInductive, RowsAgree
<1>4. call'[Provision] = "calling" => call[Provision] = "calling"
  BY KindsDiffer DEF InstanceInductive, TypeOK
<1>5. DoubtAgrees'
  BY <1>4 DEF InstanceInductive, DoubtAgrees
<1>6. ConnectsApart' /\ ArchivedIsQuiet' /\ DisconnectingIsOwned'
  BY DEF InstanceInductive, ConnectsApart, ArchivedIsQuiet, DisconnectingIsOwned, Open
<1>7. \A t \in Operation : Ends(t)
  BY DEF Ends
<1> QED
  BY <1>1, <1>3, <1>5, <1>6, <1>7 DEF GoodStep, InstanceInductive

LEMMA SettleConnectGood ==
    ASSUME InstanceInductive, NEW r \in Connect, SettleConnect(r)
    PROVE  GoodStep
<1>1. call[r] = "calling" /\ call' = [call EXCEPT ![r] = "over"] /\ made' = made
  BY DEF SettleConnect
<1>2. r \in Operation /\ r # Provision /\ r \notin Disconnect
  BY KindsDiffer
<1>3. PICK answer \in ConnectAnswers :
        IF ~row.archived /\ op[r].status = "PENDING"
        THEN /\ SetStatus(answer.status)
             /\ op' = [op EXCEPT ![r].status = answer.op, ![r].stale = FALSE,
                                 ![r].doubt = @ \/ ~answer.certain]
             /\ known' = IF answer.op # "PENDING" THEN known \cup {r} ELSE known
        ELSE UNCHANGED <<row, op, fresh, known>>
  BY DEF SettleConnect
<1>4. CASE ~(~row.archived /\ op[r].status = "PENDING")
  BY <1>1, <1>2, <1>3, <1>4, DroppedGood
<1>5. CASE ~row.archived /\ op[r].status = "PENDING"
  <2>1. /\ SetStatus(answer.status)
        /\ op' = [op EXCEPT ![r].status = answer.op, ![r].stale = FALSE,
                            ![r].doubt = @ \/ ~answer.certain]
        /\ known' = IF answer.op # "PENDING" THEN known \cup {r} ELSE known
    BY <1>3, <1>5
  <2>2. /\ answer.status \in Statuses /\ answer.status # "DISCONNECTING"
        /\ answer.op \in {"SUCCEEDED", "FAILED", "PENDING"}
        /\ answer.certain \in BOOLEAN
    <3>1. ConnectAnswers \subseteq [status: Statuses \ {"DISCONNECTING"},
                                    op: {"SUCCEEDED", "FAILED", "PENDING"}, certain: BOOLEAN]
      BY DEF ConnectAnswers, Statuses
    <3> QED
      BY <3>1
  <2>3. /\ row' \in [status: Statuses, archived: BOOLEAN, clock: 0..MaxClock]
        /\ row'.status = answer.status /\ row'.archived = row.archived /\ fresh' = {}
    BY <2>1, <2>2, RowSet
  <2>4. /\ op \in [Operation -> Op] /\ op[r] \in Op
        /\ call \in [Operation -> {"idle", "calling", "over"}] /\ made \in Nat
        /\ known \subseteq Connect
    BY <1>2 DEF InstanceInductive, TypeOK
  <2>5. op'[r] = [op[r] EXCEPT !.status = answer.op, !.stale = FALSE,
                               !.doubt = op[r].doubt \/ ~answer.certain]
    BY <1>2, <2>1, <2>4 DEF Op
  <2>6. /\ op'[r] \in Op /\ op'[r].status = answer.op /\ op'[r].born = op[r].born
    BY <2>2, <2>4, <2>5 DEF Op
  <2>7. /\ \A t \in Operation \ {r} : op'[t] = op[t]
        /\ op' = [t \in Operation |-> op'[t]]
    BY <2>1, <2>4
  <2>8. op' \in [Operation -> Op]
    BY <2>4, <2>6, <2>7
  <2>9. known \subseteq known' /\ known' \subseteq Connect /\ (answer.op # "PENDING" => r \in known')
    BY <2>1, <2>4
  <2>10. RowsAgree' /\ ConnectsApart'
    <3>1. \A t \in Operation : \/ op'[t] = op[t]
                               \/ /\ op[t].status # "NONE" /\ op'[t].status # "NONE"
                                  /\ op'[t].born = op[t].born
      BY <1>5, <2>2, <2>6, <2>7
    <3>2. \A t \in Operation : \/ call'[t] = call[t]
                               \/ call[t] # "idle" /\ call'[t] # "idle"
      BY <1>1, <2>4
    <3> QED
      BY <1>1, <2>3, <2>8, <2>9, <3>1, <3>2, SettlingAgrees
  <2>11. TypeOK'
    BY <1>1, <2>3, <2>4, <2>8, <2>9 DEF TypeOK
  <2>12. DoubtAgrees'
    <3>1. call'[Provision] = "calling" => op'[Provision].status = "PENDING"
      BY <1>1, <1>2, <2>4, <2>7, KindsDiffer DEF DoubtAgrees, InstanceInductive
    <3>2. ASSUME NEW t \in Connect, op'[t].status \in {"SUCCEEDED", "FAILED"}, ~op'[t].doubt
          PROVE  t \in known'
      BY <2>6, <2>7, <2>9, <3>2, KindsDiffer DEF DoubtAgrees, InstanceInductive
    <3> QED
      BY <3>1, <3>2 DEF DoubtAgrees
  <2>13. ArchivedIsQuiet' /\ DisconnectingIsOwned'
    BY <1>5, <2>2, <2>3 DEF ArchivedIsQuiet, DisconnectingIsOwned
  <2>14. \A t \in Operation : Ends(t)
    BY <1>5, <2>7 DEF Ends
  <2> QED
    BY <2>10, <2>11, <2>12, <2>13, <2>14 DEF GoodStep, InstanceInductive
<1> QED
  BY <1>4, <1>5

LEMMA SettleDisconnectGood ==
    ASSUME InstanceInductive, NEW r \in Disconnect, SettleDisconnect(r)
    PROVE  GoodStep
<1>1. /\ call[r] = "calling" /\ call' = [call EXCEPT ![r] = "over"]
      /\ made' = made /\ known' = known
  BY DEF SettleDisconnect
<1>2. r \in Operation /\ r # Provision /\ r \notin Connect
  BY KindsDiffer
<1>3. PICK answer \in DisconnectAnswers :
        IF ~row.archived /\ op[r].status = "PENDING"
        THEN /\ SetStatus(answer[1])
             /\ op' = [op EXCEPT ![r].status = answer[2], ![r].stale = FALSE]
        ELSE UNCHANGED <<row, op, fresh>>
  BY DEF SettleDisconnect
<1>4. CASE ~(~row.archived /\ op[r].status = "PENDING")
  BY <1>1, <1>2, <1>3, <1>4, DroppedGood
<1>5. CASE ~row.archived /\ op[r].status = "PENDING"
  <2>1. /\ SetStatus(answer[1])
        /\ op' = [op EXCEPT ![r].status = answer[2], ![r].stale = FALSE]
    BY <1>3, <1>5
  <2>2. /\ answer[1] \in Statuses
        /\ answer[2] \in {"SUCCEEDED", "FAILED", "PENDING"}
        /\ answer[1] = "DISCONNECTING" => answer[2] = "PENDING"
    BY DEF DisconnectAnswers, Statuses
  <2>3. /\ row' \in [status: Statuses, archived: BOOLEAN, clock: 0..MaxClock]
        /\ row'.status = answer[1] /\ row'.archived = row.archived /\ fresh' = {}
    BY <2>1, <2>2, RowSet
  <2>4. /\ op \in [Operation -> Op] /\ op[r] \in Op
        /\ call \in [Operation -> {"idle", "calling", "over"}] /\ made \in Nat
        /\ known \subseteq Connect
    BY <1>2 DEF InstanceInductive, TypeOK
  <2>5. op'[r] = [op[r] EXCEPT !.status = answer[2], !.stale = FALSE]
    BY <1>2, <2>1, <2>4 DEF Op
  <2>6. /\ op'[r] \in Op /\ op'[r].status = answer[2] /\ op'[r].born = op[r].born
    BY <2>2, <2>4, <2>5 DEF Op
  <2>7. /\ \A t \in Operation \ {r} : op'[t] = op[t]
        /\ op' = [t \in Operation |-> op'[t]]
    BY <2>1, <2>4
  <2>8. op' \in [Operation -> Op]
    BY <2>4, <2>6, <2>7
  <2>9. RowsAgree' /\ ConnectsApart'
    <3>1. \A t \in Operation : \/ op'[t] = op[t]
                               \/ /\ op[t].status # "NONE" /\ op'[t].status # "NONE"
                                  /\ op'[t].born = op[t].born
      BY <1>5, <2>2, <2>6, <2>7
    <3>2. \A t \in Operation : \/ call'[t] = call[t]
                               \/ call[t] # "idle" /\ call'[t] # "idle"
      BY <1>1, <2>4
    <3> QED
      BY <1>1, <2>3, <2>8, <3>1, <3>2, SettlingAgrees
  <2>10. TypeOK'
    BY <1>1, <2>3, <2>4, <2>8 DEF TypeOK
  <2>11. DoubtAgrees'
    BY <1>1, <1>2, <2>4, <2>7, KindsDiffer DEF DoubtAgrees, InstanceInductive
  <2>12. ArchivedIsQuiet' /\ DisconnectingIsOwned'
    BY <1>5, <2>2, <2>3, <2>6 DEF ArchivedIsQuiet, DisconnectingIsOwned
  <2>13. \A t \in Operation : Ends(t)
    BY <1>5, <2>7 DEF Ends
  <2> QED
    BY <2>9, <2>10, <2>11, <2>12, <2>13 DEF GoodStep, InstanceInductive
<1> QED
  BY <1>4, <1>5

---------------------------------------------------------------------------
(* Polls.                                                                  *)

LEMMA ReadGood ==
    ASSUME InstanceInductive, NEW p \in Poll, PollReads(p)
    PROVE  GoodStep
<1>1. /\ ~row.archived /\ fresh' = fresh \cup {p}
      /\ UNCHANGED <<row, op, made, call, known>>
  BY DEF PollReads
<1>2. TypeOK'
  BY <1>1 DEF InstanceInductive, TypeOK
<1>3. RowsAgree'
  BY <1>1 DEF InstanceInductive, RowsAgree
<1>4. DoubtAgrees' /\ ConnectsApart' /\ ArchivedIsQuiet' /\ DisconnectingIsOwned'
  BY <1>1 DEF InstanceInductive, DoubtAgrees, ConnectsApart, ArchivedIsQuiet,
              DisconnectingIsOwned, Open
<1>5. \A r \in Operation : Ends(r)
  BY <1>1 DEF Ends
<1> QED
  BY <1>2, <1>3, <1>4, <1>5 DEF GoodStep, InstanceInductive

\* What a report decides is pending, or a connection in doubt found CONNECTED.
LEMMA DecidedIsOpen ==
    ASSUME NEW s, NEW r \in Decided(s)
    PROVE  /\ r \in Connect
           /\ \/ op[r].status = "PENDING"
              \/ op[r].status \in {"UNKNOWN", "FAILED"} /\ s = "CONNECTED" /\ op[r].doubt
BY DEF Decided, LastPending, Latest, Newest

LEMMA DecideTyped ==
    ASSUME NEW r \in Op, NEW s \in Reports
    PROVE  /\ Decide(r, s) \in Op
           /\ Decide(r, s).status \in {"UNKNOWN", "SUCCEEDED", "FAILED"}
           /\ Decide(r, s).status = "SUCCEEDED" <=> s = "CONNECTED"
           /\ Decide(r, s).doubt <=> s # "CONNECTED"
           /\ Decide(r, s).born = r.born
<1> DEFINE status == CASE s = "CONNECTING" -> "UNKNOWN"
                       [] s = "CONNECTED"  -> "SUCCEEDED"
                       [] OTHER            -> "FAILED"
<1>1. /\ status \in {"UNKNOWN", "SUCCEEDED", "FAILED"}
      /\ status = "SUCCEEDED" <=> s = "CONNECTED"
  OBVIOUS
<1>2. Decide(r, s) = [r EXCEPT !.status = status, !.doubt = (s # "CONNECTED"), !.stale = FALSE]
  BY DEF Decide
<1> HIDE DEF status
<1> DEFINE doubt == (s # "CONNECTED")
<1>3. doubt \in BOOLEAN /\ (doubt <=> s # "CONNECTED")
  OBVIOUS
<1>4. Decide(r, s) = [r EXCEPT !.status = status, !.doubt = doubt, !.stale = FALSE]
  BY <1>2
<1> HIDE DEF doubt
<1> QED
  BY <1>1, <1>3, <1>4 DEF Op

LEMMA PollGood ==
    ASSUME InstanceInductive, NEW p \in Poll, NEW s \in Reports, PollApplies(p, s)
    PROVE  GoodStep
<1> DEFINE connecting    == Held(Connect, s, "CONNECTED")
           disconnecting == Held(Disconnect, s, "DISCONNECTED")
           connects      == IF connecting THEN {} ELSE Decided(s)
           disconnects   == IF connecting \/ disconnecting THEN {} ELSE LastPending(Disconnect)
           ended         == IF s = "DISCONNECTED" THEN "SUCCEEDED" ELSE "UNKNOWN"
           status        == CASE connecting    -> "CONNECTING"
                              [] disconnecting -> "DISCONNECTING"
                              [] OTHER         -> s
<1>1. /\ p \in fresh /\ fresh' = {} /\ made' = made /\ call' = call
      /\ row' = [row EXCEPT !.status = status]
      /\ op' = [r \in Operation |->
                  IF r \in connects THEN Decide(op[r], s)
                  ELSE IF r \in disconnects
                       THEN [op[r] EXCEPT !.status = ended, !.stale = FALSE]
                       ELSE op[r]]
      /\ known' = IF s = "CONNECTED" THEN known \cup connects ELSE known
  BY DEF PollApplies, Touch
<1>2. /\ op \in [Operation -> Op] /\ row \in [status: Statuses, archived: BOOLEAN, clock: 0..MaxClock]
      /\ call \in [Operation -> {"idle", "calling", "over"}] /\ made \in Nat /\ known \subseteq Connect
      /\ ~row.archived
  BY <1>1 DEF InstanceInductive, TypeOK, RowsAgree
<1>3. /\ \A r \in connects : /\ r \in Connect
                              /\ \/ op[r].status = "PENDING"
                                 \/ op[r].status \in {"UNKNOWN", "FAILED"} /\ s = "CONNECTED" /\ op[r].doubt
      /\ \A r \in disconnects : r \in Disconnect /\ op[r].status = "PENDING"
  BY DecidedIsOpen DEF LastPending, Newest
<1>4. /\ status \in Statuses
      /\ status = "DISCONNECTING" => Waits(Disconnect) /\ disconnects = {}
  BY DEF Reports, Statuses, Held
<1>5. ended \in {"SUCCEEDED", "UNKNOWN"}
  OBVIOUS
<1> HIDE DEF connecting, disconnecting, connects, disconnects, ended, status
<1>6. /\ row' \in [status: Statuses, archived: BOOLEAN, clock: 0..MaxClock]
      /\ row'.status = status /\ ~row'.archived
  BY <1>1, <1>2, <1>4
<1>7. ASSUME NEW r \in Operation
      PROVE  /\ op'[r] \in Op
             /\ \/ op'[r] = op[r]
                \/ /\ r \in connects /\ op'[r] = Decide(op[r], s)
                   /\ op[r].status # "NONE" /\ op'[r].status # "NONE"
                   /\ op'[r].born = op[r].born
                \/ /\ r \in Disconnect /\ op[r].status = "PENDING" /\ op'[r].status # "NONE"
                   /\ op'[r].born = op[r].born
                   /\ r \in disconnects
  <2>1. op[r] \in Op
    BY <1>2
  <2>2. CASE r \in connects
    <3>1. op'[r] = Decide(op[r], s) /\ op[r].status # "NONE"
      BY <1>1, <1>3, <2>2
    <3> QED
      BY <2>1, <2>2, <3>1, DecideTyped
  <2>3. CASE r \notin connects /\ r \in disconnects
    <3>1. op'[r] = [op[r] EXCEPT !.status = ended, !.stale = FALSE]
      BY <1>1, <2>3
    <3>2. op'[r] \in Op /\ op'[r].status = ended /\ op'[r].born = op[r].born
      BY <1>5, <2>1, <3>1 DEF Op
    <3> QED
      BY <1>3, <1>5, <2>3, <3>2
  <2>4. CASE r \notin connects /\ r \notin disconnects
    BY <1>1, <2>1, <2>4
  <2> QED
    BY <2>2, <2>3, <2>4
<1>8. op' \in [Operation -> Op]
  BY <1>1, <1>7
<1>9. known \subseteq known' /\ known' \subseteq Connect
  BY <1>1, <1>2, <1>3
<1>10. RowsAgree' /\ ConnectsApart'
  BY <1>1, <1>6, <1>7, <1>8, <1>9, SettlingAgrees
<1>11. TypeOK'
  BY <1>1, <1>2, <1>6, <1>8, <1>9 DEF TypeOK
<1>12. DoubtAgrees'
  <2>1. call'[Provision] = "calling" => op'[Provision].status = "PENDING"
    BY <1>1, <1>3, <1>7, KindsDiffer DEF DoubtAgrees, InstanceInductive
  <2>2. ASSUME NEW t \in Connect, op'[t].status \in {"SUCCEEDED", "FAILED"}, ~op'[t].doubt
        PROVE  t \in known'
    <3>1. t \in Operation /\ t \notin Disconnect
      BY KindsDiffer
    <3>2. CASE op'[t] = op[t]
      BY <1>9, <2>2, <3>2 DEF DoubtAgrees, InstanceInductive
    <3>3. CASE t \in connects /\ op'[t] = Decide(op[t], s)
      <4>1. s = "CONNECTED"
        BY <1>2, <2>2, <3>1, <3>3, DecideTyped
      <4> QED
        BY <1>1, <3>3, <4>1
    <3> QED
      BY <1>7, <3>1, <3>2, <3>3
  <2> QED
    BY <2>1, <2>2 DEF DoubtAgrees
<1>13. ArchivedIsQuiet'
  BY <1>6 DEF ArchivedIsQuiet
<1>14. DisconnectingIsOwned'
  <2> SUFFICES ASSUME status = "DISCONNECTING"
               PROVE  \E r \in Disconnect : op'[r].status = "PENDING"
    BY <1>6 DEF DisconnectingIsOwned
  <2>1. PICK r \in Disconnect : op[r].status = "PENDING"
    BY <1>4 DEF Waits, LastPending, Newest
  <2>2. r \in Operation /\ r \notin connects /\ r \notin disconnects
    BY <1>3, <1>4, KindsDiffer
  <2>3. op'[r] = op[r]
    BY <1>1, <2>2
  <2> QED
    BY <2>1, <2>3
<1>15. ASSUME NEW r \in Operation PROVE Ends(r)
  <2>1. CASE op'[r] = op[r]
    BY <2>1 DEF Ends
  <2>2. CASE r \in connects /\ op'[r] = Decide(op[r], s)
    <3>1. CASE op[r].status = "PENDING"
      BY <3>1 DEF Ends
    <3>2. CASE s = "CONNECTED" /\ op[r].doubt
      BY <1>2, <1>3, <2>2, <3>2, DecideTyped DEF Ends
    <3> QED
      BY <1>3, <2>2, <3>1, <3>2
  <2>3. CASE op[r].status = "PENDING"
    BY <2>3 DEF Ends
  <2> QED
    BY <1>7, <2>1, <2>2, <2>3
<1> QED
  BY <1>10, <1>11, <1>12, <1>13, <1>14, <1>15 DEF GoodStep, InstanceInductive

---------------------------------------------------------------------------
(* The rest.                                                               *)

\* A step that leaves operations and requests alone.
LEMMA RowStepGood ==
    ASSUME InstanceInductive,
           UNCHANGED <<op, made, call, known>>,
           fresh' = {},
           row' \in [status: Statuses, archived: BOOLEAN, clock: 0..MaxClock],
           row'.status = "DISCONNECTING" => row.status = "DISCONNECTING",
           row'.archived => /\ row'.status \in {"DISCONNECTED", "PROVISIONING_FAILED"}
                            /\ \A r \in Operation : ~Open(r)
    PROVE  GoodStep
<1>1. TypeOK'
  BY DEF InstanceInductive, TypeOK
<1>2. RowsAgree'
  BY DEF InstanceInductive, RowsAgree
<1>3. DoubtAgrees' /\ ConnectsApart'
  BY DEF InstanceInductive, DoubtAgrees, ConnectsApart
<1>4. ArchivedIsQuiet' /\ DisconnectingIsOwned'
  BY DEF InstanceInductive, ArchivedIsQuiet, DisconnectingIsOwned, Open
<1>5. \A r \in Operation : Ends(r)
  BY DEF Ends
<1> QED
  BY <1>1, <1>2, <1>3, <1>4, <1>5 DEF GoodStep, InstanceInductive

LEMMA FactGood ==
    ASSUME InstanceInductive,
           NEW s \in {"CONNECTED", "DISCONNECTED"}, NEW t \in 0..MaxClock, ConnectionFact(s, t)
    PROVE  GoodStep
<1>1. /\ ~row.archived /\ fresh' = {} /\ UNCHANGED <<op, made, call, known>>
      /\ row' = [row EXCEPT !.status = s, !.clock = t]
  BY DEF ConnectionFact, Touch
<1>2. /\ row' \in [status: Statuses, archived: BOOLEAN, clock: 0..MaxClock]
      /\ row'.status = s /\ ~row'.archived
  BY <1>1 DEF InstanceInductive, TypeOK, Statuses
<1> QED
  BY <1>1, <1>2, RowStepGood

LEMMA ArchivingGood ==
    ASSUME InstanceInductive, Archive \/ Restore \/ Rename
    PROVE  GoodStep
<1>0. row \in [status: Statuses, archived: BOOLEAN, clock: 0..MaxClock]
  BY DEF InstanceInductive, TypeOK
<1>1. CASE Archive
  <2>1. /\ row.status \in {"DISCONNECTED", "PROVISIONING_FAILED"} /\ \A r \in Operation : ~Open(r)
        /\ row' = [row EXCEPT !.archived = TRUE] /\ fresh' = {} /\ UNCHANGED <<op, made, call, known>>
    BY <1>1 DEF Archive, Touch
  <2>2. /\ row' \in [status: Statuses, archived: BOOLEAN, clock: 0..MaxClock]
        /\ row'.status = row.status
    BY <1>0, <2>1
  <2> QED
    BY <2>1, <2>2, RowStepGood
<1>2. CASE Restore
  <2>1. row' = [row EXCEPT !.archived = FALSE] /\ fresh' = {} /\ UNCHANGED <<op, made, call, known>>
    BY <1>2 DEF Restore, Touch
  <2>2. /\ row' \in [status: Statuses, archived: BOOLEAN, clock: 0..MaxClock]
        /\ row'.status = row.status /\ ~row'.archived
    BY <1>0, <2>1
  <2> QED
    BY <2>1, <2>2, RowStepGood
<1>3. CASE Rename
  <2>1. row' = row /\ fresh' = {} /\ UNCHANGED <<op, made, call, known>>
    BY <1>3 DEF Rename, Touch
  <2> QED
    BY <1>0, <2>1, RowStepGood DEF InstanceInductive, ArchivedIsQuiet
<1> QED
  BY <1>1, <1>2, <1>3

LEMMA LeaseGood ==
    ASSUME InstanceInductive, NEW r \in Connect \cup Disconnect, LeaseElapses(r)
    PROVE  GoodStep
<1>1. /\ op[r].status = "PENDING" /\ op' = [op EXCEPT ![r].stale = TRUE]
      /\ UNCHANGED <<row, made, call, fresh, known>> /\ r \in Operation
  BY KindsDiffer DEF LeaseElapses
<1>2. op \in [Operation -> Op] /\ op[r] \in Op
  BY <1>1 DEF InstanceInductive, TypeOK
<1>3. /\ op'[r] \in Op /\ op'[r].status = "PENDING" /\ op'[r].born = op[r].born
      /\ op'[r].doubt = op[r].doubt
      /\ \A t \in Operation \ {r} : op'[t] = op[t]
      /\ op' = [t \in Operation |-> op'[t]]
  BY <1>1, <1>2 DEF Op
<1>4. op' \in [Operation -> Op]
  BY <1>2, <1>3
<1>5. \A t \in Operation : /\ op'[t].status = op[t].status /\ op'[t].doubt = op[t].doubt
                           /\ op'[t].born = op[t].born
  BY <1>1, <1>3
<1>6. RowsAgree' /\ ConnectsApart'
  <2>1. row'.archived => fresh' = {}
    BY <1>1 DEF InstanceInductive, RowsAgree
  <2>2. \A t \in Operation : \/ op'[t] = op[t]
                             \/ /\ op[t].status # "NONE" /\ op'[t].status # "NONE"
                                /\ op'[t].born = op[t].born
    BY <1>1, <1>3
  <2> QED
    BY <1>1, <1>4, <2>1, <2>2, SettlingAgrees
<1>7. TypeOK'
  BY <1>1, <1>4 DEF InstanceInductive, TypeOK
<1>8. DoubtAgrees'
  BY <1>1, <1>5, KindsDiffer DEF InstanceInductive, DoubtAgrees
<1>9. ArchivedIsQuiet' /\ DisconnectingIsOwned'
  BY <1>1, <1>5, KindsDiffer DEF InstanceInductive, ArchivedIsQuiet, DisconnectingIsOwned, Open
<1>10. \A t \in Operation : Ends(t)
  BY <1>5 DEF Ends
<1> QED
  BY <1>6, <1>7, <1>8, <1>9, <1>10 DEF GoodStep, InstanceInductive

LEMMA StutterGood ==
    ASSUME InstanceInductive, UNCHANGED vars
    PROVE  GoodStep
<1>1. InstanceInductive'
  BY DEF vars, InstanceInductive, TypeOK, RowsAgree, DoubtAgrees, ConnectsApart,
         ArchivedIsQuiet, DisconnectingIsOwned, Open
<1> QED
  BY <1>1 DEF vars, GoodStep, Ends

LEMMA StepGood ==
    ASSUME InstanceInductive, [Next]_vars
    PROVE  GoodStep
<1>1. CASE CreateInstance
  BY <1>1, CreateGood
<1>2. CASE SettleProvision
  BY <1>2, ProvisionGood
<1>3. ASSUME NEW r \in Connect, ConnectInstance(r) \/ SettleConnect(r) PROVE GoodStep
  BY <1>3, ConnectGood, SettleConnectGood
<1>4. ASSUME NEW r \in Disconnect, DisconnectInstance(r) \/ SettleDisconnect(r) PROVE GoodStep
  BY <1>4, DisconnectGood, SettleDisconnectGood
<1>5. ASSUME NEW p \in Poll, PollReads(p) \/ \E s \in Reports : PollApplies(p, s) PROVE GoodStep
  BY <1>5, ReadGood, PollGood
<1>6. ASSUME NEW s \in {"CONNECTED", "DISCONNECTED"}, NEW t \in 0..MaxClock, ConnectionFact(s, t)
      PROVE  GoodStep
  BY <1>6, FactGood
<1>7. ASSUME NEW r \in Connect \cup Disconnect, LeaseElapses(r) PROVE GoodStep
  BY <1>7, LeaseGood
<1>8. ASSUME NEW r \in Operation, Crash(r) PROVE GoodStep
  BY <1>8, DroppedGood DEF Crash
<1>9. CASE Archive \/ Restore \/ Rename
  BY <1>9, ArchivingGood
<1>10. CASE UNCHANGED vars
  BY <1>10, StutterGood
<1> QED
  BY <1>1, <1>2, <1>3, <1>4, <1>5, <1>6, <1>7, <1>8, <1>9, <1>10 DEF Next

---------------------------------------------------------------------------
(* The theorems.                                                           *)

\* The inductive invariant.
THEOREM InstanceInductiveHolds == Spec => []InstanceInductive
<1>1. InstanceInductive /\ [Next]_vars => InstanceInductive'
  BY StepGood DEF GoodStep
<1> QED
  BY <1>1, InitGood, PTL DEF Spec

\* The row, its operations and the requests keep their types.
THEOREM InstanceTypeCorrect == Spec => []TypeOK
<1>1. InstanceInductive => TypeOK
  BY DEF InstanceInductive
<1> QED
  BY <1>1, InstanceInductiveHolds, PTL

\* However webhooks, expired leases, crashes and disconnections fall between the
\* calls: a connection begins only when the end of every one before is known.
THEOREM ConnectsStayApart == Spec => []ConnectsApart
<1>1. InstanceInductive => ConnectsApart
  BY DEF InstanceInductive
<1> QED
  BY <1>1, InstanceInductiveHolds, PTL

\* A late answer, a poll or a webhook does not wake an archived instance.
THEOREM ArchivedStaysQuiet == Spec => []ArchivedIsQuiet
<1>1. InstanceInductive => ArchivedIsQuiet
  BY DEF InstanceInductive
<1> QED
  BY <1>1, InstanceInductiveHolds, PTL

\* DISCONNECTING never loses the operation that gets the instance out of it.
THEOREM DisconnectingStaysOwned == Spec => []DisconnectingIsOwned
<1>1. InstanceInductive => DisconnectingIsOwned
  BY DEF InstanceInductive
<1> QED
  BY <1>1, InstanceInductiveHolds, PTL

\* An ended operation changes only when a poll finds a doubted connection CONNECTED.
THEOREM EndedOperationsRest == Spec => OperationsEnd
<1>1. InstanceInductive /\ [Next]_vars => [\A r \in Operation : Ends(r)]_vars
  BY StepGood DEF GoodStep
<1> QED
  BY <1>1, InstanceInductiveHolds, PTL DEF Spec, OperationsEnd, Ends

===========================================================================
