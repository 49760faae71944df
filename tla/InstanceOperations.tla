------------------------ MODULE InstanceOperations ------------------------
(***************************************************************************)
(* One paired phone (modules/instances/service.ts) and the calls that      *)
(* create, connect and disconnect it at its provider.  Each call happens   *)
(* between two transactions: one that writes an operation and an           *)
(* intermediate status, and one that settles both.  Meanwhile operators    *)
(* ask for more, status polls and webhooks report what the provider sees,  *)
(* and the process may stop.                                               *)
(*                                                                         *)
(* An operation is one request that reached the provider: a repeated key   *)
(* and a request that joins or is refused change nothing.                  *)
(***************************************************************************)
EXTENDS Naturals

CONSTANTS
    Provision,      \* the operation that creates the instance
    Connect,        \* operations of type CONNECT
    Disconnect,     \* operations of type DISCONNECT
    Poll,           \* status requests
    MaxClock        \* bound on the source times of connection events

Operation == {Provision} \cup Connect \cup Disconnect

ASSUME OperationAssumption == /\ Connect \cap Disconnect = {}
                              /\ Provision \notin Connect \cup Disconnect
ASSUME ClockAssumption     == MaxClock \in Nat

VARIABLES
    row,        \* instances: status, archived_at, connection_observed_at (0: none)
    op,         \* provider_operations
    made,       \* how many operations there are: created_at is their order
    call,       \* where the request of each operation is
    fresh,      \* polls in flight whose row is still the one they read
    known       \* connects the provider was certain about (history)

vars == <<row, op, made, call, fresh, known>>

Statuses == {"NONE", "PROVISIONING", "PROVISIONING_FAILED", "CREATED", "CONNECTING",
             "AWAITING_ACTION", "CONNECTED", "DISCONNECTING", "DISCONNECTED", "ERROR"}

\* doubt is reconciliation_required; stale: updated_at is older than the lease.
Op == [status: {"NONE", "PENDING", "SUCCEEDED", "FAILED", "UNKNOWN"},
       doubt: BOOLEAN, stale: BOOLEAN, born: Nat]
NoOp == [status |-> "NONE", doubt |-> FALSE, stale |-> FALSE, born |-> 0]

\* mapEvolutionStatus: what a poll may be told.
Reports == {"CREATED", "CONNECTING", "CONNECTED", "DISCONNECTED", "ERROR"}

Init ==
    /\ row = [status |-> "NONE", archived |-> FALSE, clock |-> 0]
    /\ op = [r \in Operation |-> NoOp]
    /\ made = 0
    /\ call = [r \in Operation |-> "idle"]
    /\ fresh = {}
    /\ known = {}

---------------------------------------------------------------------------
(* The repository.                                                         *)

\* Every update of the row moves updated_at: the answer of a poll that read it
\* before changes nothing any more.
Touch == fresh' = {}

SetStatus(s) == row' = [row EXCEPT !.status = s] /\ Touch

\* createOperation, in the transaction that also sets the intermediate status.
Begin(r, ops, doubt) ==
    /\ call[r] = "idle"
    /\ op' = [ops EXCEPT ![r] = [status |-> "PENDING", doubt |-> doubt, stale |-> FALSE,
                                 born |-> made + 1]]
    /\ made' = made + 1
    /\ call' = [call EXCEPT ![r] = "calling"]

\* findLatest...: the newest operation of a kind, as a set of at most one.
Newest(rs) == {r \in rs : \A s \in rs : op[s].born <= op[r].born}
Latest(kind)      == Newest({r \in kind : op[r].status # "NONE"})
LastPending(kind) == Newest({r \in kind : op[r].status = "PENDING"})

\* A pending operation whose lease is running is left to its request.
Waits(kind) == \E r \in LastPending(kind) : ~op[r].stale

Open(r) == op[r].status \in {"PENDING", "UNKNOWN"} \/ op[r].doubt

---------------------------------------------------------------------------
(* createInstance                                                          *)

CreateInstance ==
    /\ row.status = "NONE"
    /\ Begin(Provision, op, TRUE)
    /\ SetStatus("PROVISIONING")
    /\ UNCHANGED known

\* The second transaction asks neither for the status nor for the operation.
SettleProvision ==
    /\ call[Provision] = "calling"
    /\ \E answer \in {<<"CREATED", "SUCCEEDED">>, <<"PROVISIONING_FAILED", "FAILED">>,
                      <<"PROVISIONING", "UNKNOWN">>} :
          /\ SetStatus(answer[1])
          /\ op' = [op EXCEPT ![Provision].status = answer[2],
                              ![Provision].doubt = (answer[2] = "UNKNOWN"),
                              ![Provision].stale = FALSE]
    /\ call' = [call EXCEPT ![Provision] = "over"]
    /\ UNCHANGED <<made, known>>

---------------------------------------------------------------------------
(* connectInstance                                                         *)

\* A call whose end is in doubt may still go on at the provider: without a
\* generation fence no other one is started, whatever the status says.
ConnectInstance(r) ==
    /\ ~row.archived
    /\ \/ row.status \in {"CREATED", "DISCONNECTED", "ERROR", "AWAITING_ACTION"}
       \/ row.status = "CONNECTING" /\ LastPending(Connect) = {}
    /\ \A s \in Latest(Connect) : ~Open(s)
    /\ Begin(r, op, FALSE)
    /\ SetStatus("CONNECTING")
    /\ UNCHANGED known

\* The answer of the provider, as the status of the instance and of the operation.
ConnectAnswers ==
    {[status |-> "AWAITING_ACTION", op |-> "SUCCEEDED", certain |-> TRUE],   \* a challenge
     [status |-> "CONNECTED",       op |-> "SUCCEEDED", certain |-> TRUE],   \* ALREADY_CONNECTED
     [status |-> "CONNECTING",      op |-> "SUCCEEDED", certain |-> TRUE],   \* NO_USER_ACTION_REQUIRED
     [status |-> "CONNECTING",      op |-> "PENDING",   certain |-> TRUE],   \* CONNECTION_PENDING
     [status |-> "ERROR",           op |-> "FAILED",    certain |-> TRUE],
     [status |-> "CONNECTING",      op |-> "PENDING",   certain |-> FALSE]}  \* timeout or abort

\* updatePendingConnectOperation is the fence: an operation that somebody else
\* closed, or an instance that was archived, takes no late answer.
SettleConnect(r) ==
    /\ call[r] = "calling"
    /\ \E answer \in ConnectAnswers :
          IF ~row.archived /\ op[r].status = "PENDING"
          THEN /\ SetStatus(answer.status)
               /\ op' = [op EXCEPT ![r].status = answer.op, ![r].stale = FALSE,
                                   ![r].doubt = @ \/ ~answer.certain]
               /\ known' = IF answer.op # "PENDING" THEN known \cup {r} ELSE known
          ELSE UNCHANGED <<row, op, fresh, known>>
    /\ call' = [call EXCEPT ![r] = "over"]
    /\ UNCHANGED made

---------------------------------------------------------------------------
(* disconnectInstance                                                      *)

\* A disconnection whose lease expired is given up as UNKNOWN and made again.
DisconnectInstance(r) ==
    /\ ~row.archived
    /\ \/ /\ row.status \in {"CONNECTED", "AWAITING_ACTION", "ERROR"}
          /\ Begin(r, op, FALSE)
       \/ /\ row.status = "DISCONNECTING"
          /\ \E s \in LastPending(Disconnect) :
                /\ op[s].stale
                /\ Begin(r, [op EXCEPT ![s].status = "UNKNOWN", ![s].stale = FALSE], FALSE)
    /\ SetStatus("DISCONNECTING")
    /\ UNCHANGED known

DisconnectAnswers == {<<"DISCONNECTED", "SUCCEEDED">>, <<"ERROR", "FAILED">>,
                      <<"DISCONNECTING", "PENDING">>}

\* Mutant: the late answer of an operation that was closed still counts.
SettleDisconnectUnfenced(r) ==
    /\ call[r] = "calling"
    /\ \E answer \in DisconnectAnswers :
          /\ SetStatus(answer[1])
          /\ op' = [op EXCEPT ![r].status = answer[2], ![r].stale = FALSE]
    /\ call' = [call EXCEPT ![r] = "over"]
    /\ UNCHANGED <<made, known>>

\* Mutant: the instance is updated before the fence is asked.
SettleDisconnectFirst(r) ==
    /\ call[r] = "calling"
    /\ \E answer \in DisconnectAnswers :
          /\ SetStatus(answer[1])
          /\ op' = IF op[r].status = "PENDING"
                   THEN [op EXCEPT ![r].status = answer[2], ![r].stale = FALSE] ELSE op
    /\ call' = [call EXCEPT ![r] = "over"]
    /\ UNCHANGED <<made, known>>

SettleDisconnect(r) ==
    /\ call[r] = "calling"
    /\ \E answer \in DisconnectAnswers :
          IF ~row.archived /\ op[r].status = "PENDING"
          THEN /\ SetStatus(answer[1])
               /\ op' = [op EXCEPT ![r].status = answer[2], ![r].stale = FALSE]
          ELSE UNCHANGED <<row, op, fresh>>
    /\ call' = [call EXCEPT ![r] = "over"]
    /\ UNCHANGED <<made, known>>

---------------------------------------------------------------------------
(* getInstanceStatus                                                       *)

PollReads(p) ==
    /\ row.status # "NONE" /\ ~row.archived
    /\ fresh' = fresh \cup {p}
    /\ UNCHANGED <<row, op, made, call, known>>

\* Connects that the report decides: the pending one, or else - for CONNECTED -
\* the last one if its end is in doubt.
Decided(s) ==
    IF LastPending(Connect) # {} THEN LastPending(Connect)
    ELSE {r \in Latest(Connect) : /\ s = "CONNECTED" /\ op[r].doubt
                                  /\ op[r].status \in {"UNKNOWN", "FAILED"}}

\* Mutant: a report of DISCONNECTED ends the doubt as well.
DecideTrusting(r, s) ==
    [r EXCEPT !.status = CASE s = "CONNECTING" -> "UNKNOWN"
                           [] s = "CONNECTED"  -> "SUCCEEDED"
                           [] OTHER            -> "FAILED",
              !.doubt = (s = "CONNECTING"), !.stale = FALSE]

\* Only CONNECTED says how the call ended; anything else leaves the doubt.
Decide(r, s) ==
    [r EXCEPT !.status = CASE s = "CONNECTING" -> "UNKNOWN"
                           [] s = "CONNECTED"  -> "SUCCEEDED"
                           [] OTHER            -> "FAILED",
              !.doubt = (s # "CONNECTED"), !.stale = FALSE]

\* While a call may still be answered, the report shows its intermediate status
\* unless it says that the call has reached its end.
Held(kind, s, end) == Waits(kind) /\ s # end

PollApplies(p, s) ==
    /\ p \in fresh
    /\ LET connecting    == Held(Connect, s, "CONNECTED")
           disconnecting == Held(Disconnect, s, "DISCONNECTED")
           connects      == IF connecting THEN {} ELSE Decided(s)
           disconnects   == IF connecting \/ disconnecting THEN {} ELSE LastPending(Disconnect)
       IN /\ row' = [row EXCEPT !.status = CASE connecting    -> "CONNECTING"
                                              [] disconnecting -> "DISCONNECTING"
                                              [] OTHER         -> s]
          /\ op' = [r \in Operation |->
                      IF r \in connects THEN Decide(op[r], s)
                      ELSE IF r \in disconnects
                           THEN [op[r] EXCEPT !.status = IF s = "DISCONNECTED" THEN "SUCCEEDED"
                                                                               ELSE "UNKNOWN",
                                              !.stale = FALSE]
                           ELSE op[r]]
          /\ known' = IF s = "CONNECTED" THEN known \cup connects ELSE known
    /\ Touch
    /\ UNCHANGED <<made, call>>

---------------------------------------------------------------------------
(* What else touches the row.                                              *)

\* persistConnectionFact: a webhook of the engine; without a time of its own it
\* never supersedes one that had it.
ConnectionFact(s, t) ==
    /\ row.status \notin {"NONE", "PROVISIONING", "PROVISIONING_FAILED"} /\ ~row.archived
    /\ row.clock = 0 \/ t > row.clock
    /\ row' = [row EXCEPT !.status = s, !.clock = t]
    /\ Touch
    /\ UNCHANGED <<op, made, call, known>>

\* setArchived, once automation and desk are unlinked from the channel.
Archive ==
    /\ row.status \in {"DISCONNECTED", "PROVISIONING_FAILED"} /\ ~row.archived
    /\ \A r \in Operation : ~Open(r)
    /\ row' = [row EXCEPT !.archived = TRUE]
    /\ Touch
    /\ UNCHANGED <<op, made, call, known>>

Restore ==
    /\ row.archived
    /\ row' = [row EXCEPT !.archived = FALSE]
    /\ Touch
    /\ UNCHANGED <<op, made, call, known>>

\* patch: the name has no part in this, but updated_at moves.
Rename ==
    /\ row.status # "NONE"
    /\ Touch
    /\ UNCHANGED <<row, op, made, call, known>>

LeaseElapses(r) ==
    /\ op[r].status = "PENDING" /\ ~op[r].stale
    /\ op' = [op EXCEPT ![r].stale = TRUE]
    /\ UNCHANGED <<row, made, call, fresh, known>>

\* The process stops during the call, or guardOperation finds the engine changed
\* and the settlement is rolled back.
Crash(r) ==
    /\ call[r] = "calling"
    /\ call' = [call EXCEPT ![r] = "over"]
    /\ UNCHANGED <<row, op, made, fresh, known>>

Next ==
    \/ CreateInstance \/ SettleProvision
    \/ \E r \in Connect : ConnectInstance(r) \/ SettleConnect(r)
    \/ \E r \in Disconnect : DisconnectInstance(r) \/ SettleDisconnect(r)
    \/ \E p \in Poll : PollReads(p) \/ \E s \in Reports : PollApplies(p, s)
    \/ \E s \in {"CONNECTED", "DISCONNECTED"}, t \in 0..MaxClock : ConnectionFact(s, t)
    \/ \E r \in Connect \cup Disconnect : LeaseElapses(r)
    \/ \E r \in Operation : Crash(r)
    \/ Archive \/ Restore \/ Rename

Spec == Init /\ [][Next]_vars

---------------------------------------------------------------------------
(* Types.                                                                  *)

TypeOK ==
    /\ row \in [status: Statuses, archived: BOOLEAN, clock: 0..MaxClock]
    /\ op \in [Operation -> Op]
    /\ made \in Nat
    /\ call \in [Operation -> {"idle", "calling", "over"}]
    /\ fresh \subseteq Poll
    /\ known \subseteq Connect

---------------------------------------------------------------------------
(* What the operations promise.                                            *)

\* A connection is begun only when it is known for certain how the one before
\* ended: the provider answered its call, or a poll found the phone CONNECTED
\* (service.ts:572-581; docs/operations/chatwoot-external.md:110-112) - whatever
\* webhooks, expired leases, crashes and disconnections came in between.
ConnectsApart ==
    \A r, s \in Connect : op[r].status # "NONE" /\ op[r].born < op[s].born => r \in known

\* Nothing happens to an archived instance any more, although calls to its
\* provider may still be answered: it stays disconnected and no operation of it
\* is pending, unknown or in doubt (facade.ts:243-246; repository.ts:256-268).
ArchivedIsQuiet ==
    row.archived => /\ row.status \in {"DISCONNECTED", "PROVISIONING_FAILED"}
                    /\ \A r \in Operation : ~Open(r)

\* An instance that shows DISCONNECTING has a pending disconnection that can be
\* joined or, once stale, replaced: otherwise every further request would be
\* refused as INSTANCE_STATE_CONFLICT (service.ts:944-983).
DisconnectingIsOwned ==
    row.status = "DISCONNECTING" => \E r \in Disconnect : op[r].status = "PENDING"

\* An operation that ended is not opened again by a late answer: only a poll
\* that finds CONNECTED still turns a connection in doubt into a success.
OperationsEnd ==
    [][ \A r \in Operation :
          op[r].status \notin {"NONE", "PENDING"} /\ op'[r].status # op[r].status
             => r \in Connect /\ op[r].doubt /\ op'[r].status = "SUCCEEDED" /\ ~op'[r].doubt
      ]_vars

\* A poll that confirms DISCONNECTED concludes the disconnections, so that the
\* channel can be archived (apps/web/src/pages/ChannelDetail.tsx:18).
ConfirmedEndsDisconnects ==
    [][ \A p \in Poll :
          PollApplies(p, "DISCONNECTED") /\ row'.status = "DISCONNECTED"
             => \A r \in Disconnect : op'[r].status \notin {"PENDING", "UNKNOWN"}
      ]_vars

---------------------------------------------------------------------------
(* Why the promises hold.                                                  *)

\* Requests, their operations and the polls that still count.
RowsAgree ==
    /\ \A r \in Operation : IF call[r] = "idle" THEN op[r] = NoOp
                             ELSE op[r].status # "NONE" /\ op[r].born \in 1..made
    /\ \A r, s \in Operation : op[r].status # "NONE" /\ op[r].born = op[s].born => r = s
    /\ row.archived => fresh = {}

\* What may be doubted: a connection that is closed and free of doubt is known.
DoubtAgrees ==
    /\ call[Provision] = "calling" => op[Provision].status = "PENDING"
    /\ \A r \in Connect : op[r].status \in {"SUCCEEDED", "FAILED"} /\ ~op[r].doubt => r \in known

\* Only the last connection can be open: what is known of a connection, an open
\* operation and an archived instance fit together at every step
\* (service.ts:572-581, 783-905).
InstanceInductive ==
    /\ TypeOK
    /\ RowsAgree
    /\ DoubtAgrees
    /\ ConnectsApart
    /\ ArchivedIsQuiet
    /\ DisconnectingIsOwned

===========================================================================
