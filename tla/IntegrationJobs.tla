-------------------------- MODULE IntegrationJobs --------------------------
(***************************************************************************)
(* The job queue between one channel and its Chatwoot inbox                *)
(* (modules/integrations/chatwoot-worker.ts): a trigger queues a mirror of *)
(* a message for each state it reaches, workers claim one job at a time    *)
(* under a lease, prepare the remote contact and conversation, POST the    *)
(* message and keep evidence of the POST; an uncertain outcome stops the   *)
(* contact until an operator reconciles the job.  Replies written in       *)
(* Chatwoot travel through the same queue in the other direction.          *)
(*                                                                         *)
(* A worker is one runOnce and its lease token.  Each action is one        *)
(* database transaction, one HTTP exchange, or an event of the environment.*)
(***************************************************************************)
EXTENDS Naturals, Sequences, FiniteSets, FiniteSetsExt

CONSTANTS
    Message,
    Outgoing,       \* messages that go to WhatsApp; the others were received
    Contact,
    ContactOf,
    Reply,          \* jobs of kind CHATWOOT_REPLY
    Worker,
    Guarded,        \* attendance_owners gives the conversation to the Broker
    Pausable,       \* an operator may pause the connection
    MaxAttempts,    \* claims of a job before a repeatable error is final: 6
    MaxFaults,      \* bound on crashes, stalls, refusals and lost answers
    None

States == {"RECEIVED", "ACCEPTED", "SENT", "DELIVERED"}

\* dedupe_key 'message:<id>:<state>': one mirror per message and state.
Mirror == Message \X States
Job    == Mirror \cup Reply

ASSUME JobAssumption    == /\ Outgoing \subseteq Message
                           /\ ContactOf \in [Message -> Contact]
                           /\ Reply \cap Mirror = {}
ASSUME SwitchAssumption == Guarded \in BOOLEAN /\ Pausable \in BOOLEAN
ASSUME BoundAssumption  == MaxAttempts \in Nat \ {0} /\ MaxFaults \in Nat /\ IsFiniteSet(Job)
ASSUME NobodyAssumption == None \notin Worker \cup Job

VARIABLES
    state,      \* messaging_messages.state, "NEW" before it is stored
    job,        \* integration_jobs
    map,        \* chatwoot_conversations: remote conversation of a contact, 0 if none
    mapped,     \* chatwoot_messages: remote message of a message, 0 if none
    attempt,    \* chatwoot_mirror_attempts: the last attempt of a mirror; begun
                \* orders those of a message by created_at
    ready,      \* connection, account and destination may be used
    worker,     \* where each runOnce is
    review,     \* the operator's reconcileJob, between its two transactions
    remote,     \* what exists in Chatwoot; of a message, the jobs that POSTed it
    echo,       \* chatwoot_attendance_observations about our own messages
    enqueued,   \* replies handed to the outbox of WhatsApp
    faults

vars == <<state, job, map, mapped, attempt, ready, worker, review, remote, echo, enqueued, faults>>

Statuses == {"NONE", "PENDING", "RUNNING", "SUCCEEDED", "FAILED", "UNKNOWN"}

\* The operations that create something remote, and the repeatable PATCH.
Setup      == {"CREATE_CONTACT", "LINK_CONTACT", "CREATE_CONVERSATION"}
Operations == Setup \cup {"SEND_MESSAGE", "UPDATE_STATUS"}

\* payload: the operation in progress and what the finished ones returned.
Payload == [operation: Operations \cup {"NONE"}, contact: BOOLEAN, source: BOOLEAN,
            conversation: Nat, message: Nat]
NoPayload == [operation |-> "NONE", contact |-> FALSE, source |-> FALSE,
              conversation |-> 0, message |-> 0]

\* born orders the jobs by created_at; due is available_at <= now().
Row == [status: Statuses, born: Nat, due: BOOLEAN, holder: Worker \cup {None},
        expired: BOOLEAN, attempts: 0..MaxAttempts, payload: Payload]
NoRow == [status |-> "NONE", born |-> 0, due |-> FALSE, holder |-> None,
          expired |-> FALSE, attempts |-> 0, payload |-> NoPayload]

\* runOnce: claimed; working on the next operation; beginning an attempt; calling
\* Chatwoot; called; recorded; patching the status; finishing; settling an error.
Phases == {"idle", "claimed", "working", "beginning", "calling", "called", "proved",
           "recorded", "patching", "finishing", "settling"}
Verdicts == {"PENDING", "FAILED", "UNKNOWN"}
Turn == [phase: Phases, job: Job \cup {None}, payload: Payload, map: Nat, mapped: Nat,
         answer: Nat, verdict: Verdicts]
Idle == [phase |-> "idle", job |-> None, payload |-> NoPayload, map |-> 0, mapped |-> 0,
         answer |-> 0, verdict |-> "FAILED"]

AttemptStates == {"NONE", "DISPATCHED", "CONFIRMED", "UNKNOWN", "REJECTED"}
Open == {"DISPATCHED", "UNKNOWN"}

NoReview == [job |-> None, seen |-> NoPayload, patched |-> NoPayload, ready |-> FALSE]

Init ==
    /\ state = [m \in Message |-> "NEW"]
    /\ job = [j \in Job |-> NoRow]
    /\ map = [c \in Contact |-> 0]
    /\ mapped = [m \in Message |-> 0]
    /\ attempt = [j \in Mirror |-> [state |-> "NONE", message |-> 0, begun |-> 0]]
    /\ ready = TRUE
    /\ worker = [w \in Worker |-> Idle]
    /\ review = NoReview
    /\ remote = [contacts |-> {}, linked |-> {}, conversations |-> [c \in Contact |-> 0],
                 messages |-> [m \in Message |-> <<>>]]
    /\ echo = [heard |-> {}, waiting |-> {}, taken |-> {}]
    /\ enqueued = {}
    /\ faults = 0

Disturb == faults < MaxFaults /\ faults' = faults + 1

MessageOf(j)  == j[1]
ContactOfJob(j) == ContactOf[j[1]]

\* A row that nobody holds, in the given status.
Put(r, s) == [r EXCEPT !.status = s, !.holder = None, !.expired = FALSE]

---------------------------------------------------------------------------
(* Messages and replies arrive.                                            *)

Fresh == [NoRow EXCEPT !.status = "PENDING", !.due = TRUE,
                       !.born = 1 + Cardinality({j \in Job : job[j].status # "NONE"})]

NextState(m) ==
    CASE state[m] = "NEW"      -> IF m \in Outgoing THEN "ACCEPTED" ELSE "RECEIVED"
      [] state[m] = "ACCEPTED" -> "SENT"
      [] state[m] = "SENT"     -> "DELIVERED"
      [] OTHER                 -> "END"

\* Every new state of a message queues a mirror of its own in the same
\* transaction, also while the connection is paused; one that exists stays.
Advance(m) ==
    /\ NextState(m) # "END"
    /\ state' = [state EXCEPT ![m] = NextState(m)]
    /\ job' = [job EXCEPT ![<<m, NextState(m)>>] = IF @.status = "NONE" THEN Fresh ELSE @]
    /\ UNCHANGED <<map, mapped, attempt, ready, worker, review, remote, echo, enqueued, faults>>

\* An authenticated callback with a public reply.
ReplyArrives(r) ==
    /\ job[r].status = "NONE"
    /\ job' = [job EXCEPT ![r] = Fresh]
    /\ UNCHANGED <<state, map, mapped, attempt, ready, worker, review, remote, echo, enqueued, faults>>

---------------------------------------------------------------------------
(* claim: one transaction that first retires the expired leases.           *)

\* Mutant: a lease that ended is left to its worker.
LapsedNever(r) == r.status = "RUNNING" /\ r.expired /\ r.holder = None

Lapsed(r) == r.status = "RUNNING" /\ r.expired

\* Mutant: every job whose worker is gone starts again.
SweptAgain(j) == IF ~Lapsed(job[j]) THEN job[j] ELSE Put(job[j], "PENDING")

\* A mirror whose worker is gone may have been POSTed; a reply is a local
\* transaction and starts again.
Swept(j) ==
    IF ~Lapsed(job[j]) THEN job[j]
    ELSE Put(job[j], IF j \in Reply THEN "PENDING" ELSE "UNKNOWN")

Unknown(rows) == {j \in Mirror : rows[j].status = "UNKNOWN"}

\* Mutant: an uncertain mirror stops nothing.
EligibleUnfenced(rows, j) == rows[j].status = "PENDING" /\ rows[j].due

\* eligibleJob: an uncertain mirror stops every reply and every mirror of its
\* own contact.
Eligible(rows, j) ==
    /\ rows[j].status = "PENDING" /\ rows[j].due
    /\ \/ Unknown(rows) = {}
       \/ j \in Mirror /\ \A k \in Unknown(rows) : ContactOfJob(k) # ContactOfJob(j)

Candidates(rows) ==
    LET eligible == {j \in Job : Eligible(rows, j)} IN
    {j \in eligible : /\ ready
                      /\ \A k \in Job : rows[k].status # "RUNNING"
                      /\ \A k \in eligible : rows[j].born <= rows[k].born}

Claim(w, j) ==
    LET rows == [k \in Job |-> Swept(k)]
        r    == rows[j] IN
    /\ worker[w].phase = "idle"
    /\ j \in Candidates(rows)
    /\ job' = [rows EXCEPT ![j] = [r EXCEPT !.status = "RUNNING", !.holder = w,
                  !.attempts = IF @ < MaxAttempts THEN @ + 1 ELSE @]]
    /\ worker' = [worker EXCEPT ![w] = [Idle EXCEPT !.phase = "claimed", !.job = j,
                                                    !.payload = r.payload]]
    /\ UNCHANGED <<state, map, mapped, attempt, ready, review, remote, echo, enqueued, faults>>

\* The same transaction when there is nothing to claim.
Sweep(w) ==
    LET rows == [k \in Job |-> Swept(k)] IN
    /\ worker[w].phase = "idle"
    /\ Candidates(rows) = {}
    /\ \E k \in Job : Lapsed(job[k])
    /\ job' = rows
    /\ UNCHANGED <<state, map, mapped, attempt, ready, worker, review, remote, echo, enqueued, faults>>

---------------------------------------------------------------------------
(* What a turn may still write.                                            *)

\* Mutant: the token is not compared.
OwnsRunning(w) == job[worker[w].job].status = "RUNNING"

\* lease_token is ours and the job still RUNNING.
Owns(w) == job[worker[w].job].holder = w

\* ... and the lease has not ended.
Leased(w) == Owns(w) /\ ~job[worker[w].job].expired

\* An error leaves mirror() or receiveReply() and is settled by runOnce.
Throw(w, verdict) ==
    worker' = [worker EXCEPT ![w].phase = "settling", ![w].verdict = verdict]

\* retrySafe errors come back after a pause until the attempts are spent.
Repeatable(w) == IF job[worker[w].job].attempts < MaxAttempts THEN "PENDING" ELSE "FAILED"

\* The settlement asks for the token only, not for an unexpired lease.
Settle(w) ==
    LET t == worker[w] IN
    /\ t.phase = "settling"
    /\ job' = IF Owns(w)
              THEN [job EXCEPT ![t.job] = [Put(@, t.verdict) EXCEPT !.due = FALSE]]
              ELSE job
    /\ worker' = [worker EXCEPT ![w] = Idle]
    /\ UNCHANGED <<state, map, mapped, attempt, ready, review, remote, echo, enqueued, faults>>

Finish(w) ==
    LET t == worker[w] IN
    /\ t.phase = "finishing"
    /\ job' = IF Owns(w) THEN [job EXCEPT ![t.job] = Put(@, "SUCCEEDED")] ELSE job
    /\ worker' = [worker EXCEPT ![w] = Idle]
    /\ UNCHANGED <<state, map, mapped, attempt, ready, review, remote, echo, enqueued, faults>>

\* progress: what an operation returned is kept in the payload, under the lease.
Progress(w, payload) ==
    LET t == worker[w] IN
    IF Leased(w)
    THEN /\ job' = [job EXCEPT ![t.job].payload = payload]
         /\ worker' = [worker EXCEPT ![w].phase = "working", ![w].payload = payload]
    ELSE Throw(w, "UNKNOWN") /\ UNCHANGED job

---------------------------------------------------------------------------
(* mirror                                                                  *)

Mirrors(w, phase) == worker[w].phase = phase /\ worker[w].job \in Mirror

\* The context transaction: the message, its contact and what is mapped already.
\* An outgoing message whose sending is undecided is left to a later mirror.
ReadContext(w) ==
    LET t == worker[w]
        m == MessageOf(t.job) IN
    /\ Mirrors(w, "claimed")
    /\ \/ ~ready /\ Throw(w, "PENDING")
       \/ /\ ready /\ state[m] = "ACCEPTED"
          /\ worker' = [worker EXCEPT ![w].phase = "finishing"]
       \/ /\ ready /\ state[m] # "ACCEPTED"
          /\ worker' = [worker EXCEPT ![w].phase = "working", ![w].map = map[ContactOf[m]],
                                      ![w].mapped = mapped[m]]
    /\ UNCHANGED <<state, job, map, mapped, attempt, ready, review, remote, echo, enqueued, faults>>

\* What comes next, from the context and the payload of this turn.
Needs(t) ==
    CASE t.map = 0 /\ ~t.payload.contact          -> "CREATE_CONTACT"
      [] t.map = 0 /\ t.payload.contact /\ ~t.payload.source -> "LINK_CONTACT"
      [] t.map = 0 /\ t.payload.contact /\ t.payload.source
           /\ t.payload.conversation = 0          -> "CREATE_CONVERSATION"
      [] t.map = 0 /\ t.payload.contact /\ t.payload.source
           /\ t.payload.conversation # 0          -> "MAP"
      [] t.map # 0 /\ t.mapped = 0 /\ t.payload.message = 0 -> "SEND_MESSAGE"
      [] OTHER                                    -> "RECORD"

\* findContact saves a POST when the contact exists in Chatwoot.
FindContact(w) ==
    LET t == worker[w] IN
    /\ Mirrors(w, "working")
    /\ Needs(t) = "CREATE_CONTACT"
    /\ ContactOfJob(t.job) \in remote.contacts
    /\ Progress(w, [t.payload EXCEPT !.contact = TRUE])
    /\ UNCHANGED <<state, map, mapped, attempt, ready, review, remote, echo, enqueued, faults>>

\* beforeExternal names the operation before the request leaves.  A paused
\* connection or a lease about to end postpones the job; a progress on the way
\* that finds the lease gone leaves it uncertain.
BeforeExternal(w) ==
    LET t    == worker[w]
        next == IF t.phase = "recorded" THEN "UPDATE_STATUS" ELSE Needs(t)
        named == [t.payload EXCEPT !.operation = next,
                     !.conversation = IF next = "SEND_MESSAGE" THEN t.map ELSE @] IN
    /\ \/ Mirrors(w, "working")
       \/ Mirrors(w, "recorded")
    /\ next \in Operations
    /\ next = "CREATE_CONTACT" => ContactOfJob(t.job) \notin remote.contacts
    /\ IF ready /\ Leased(w)
       THEN /\ job' = [job EXCEPT ![t.job].payload = named]
            /\ worker' = [worker EXCEPT ![w].payload = named,
                             ![w].phase = CASE next \in Setup -> "calling"
                                            [] next = "SEND_MESSAGE" -> "beginning"
                                            [] next = "UPDATE_STATUS" -> "patching"]
       ELSE /\ \/ Throw(w, "PENDING")
               \/ ~Leased(w) /\ next \notin {"CREATE_CONTACT", "UPDATE_STATUS"} /\ Throw(w, "UNKNOWN")
            /\ UNCHANGED job
    /\ UNCHANGED <<state, map, mapped, attempt, ready, review, remote, echo, enqueued, faults>>

\* The attempts of a message, of whichever of its mirrors.
Begun(m) == {attempt[<<m, s>>].begun : s \in States}

\* beginChatwootMirrorAttempt: evidence that a POST is about to leave.  Without it
\* nothing is POSTed: a configuration that changed fails the job, a database
\* error leaves it uncertain.
BeginAttempt(w) ==
    LET t == worker[w]
        row == [state |-> "DISPATCHED", message |-> 0, begun |-> 1 + Max(Begun(MessageOf(t.job)))] IN
    /\ t.phase = "beginning"
    /\ \/ /\ Leased(w)
          /\ attempt' = [attempt EXCEPT ![t.job] = row]
          /\ worker' = [worker EXCEPT ![w].phase = "calling"]
          /\ UNCHANGED faults
       \/ ~Leased(w) /\ Throw(w, "UNKNOWN") /\ UNCHANGED <<attempt, faults>>
       \/ Disturb /\ (\E verdict \in {"FAILED", "UNKNOWN"} : Throw(w, verdict)) /\ UNCHANGED attempt
    /\ UNCHANGED <<state, job, map, mapped, ready, review, remote, echo, enqueued>>

\* What a request that Chatwoot applies leaves there.
Applied(w) ==
    LET t == worker[w]
        m == MessageOf(t.job)
        c == ContactOf[m] IN
    CASE t.payload.operation = "CREATE_CONTACT" -> [remote EXCEPT !.contacts = @ \cup {c}]
      [] t.payload.operation = "LINK_CONTACT"   -> [remote EXCEPT !.linked = @ \cup {c}]
      [] t.payload.operation = "CREATE_CONVERSATION" -> [remote EXCEPT !.conversations[c] = @ + 1]
      [] t.payload.operation = "SEND_MESSAGE"   -> [remote EXCEPT !.messages[m] = Append(@, t.job)]
      [] OTHER                                  -> remote

Sends(w) == worker[w].payload.operation = "SEND_MESSAGE"

\* Chatwoot keeps the telephone of a contact unique.
Collides(w) == /\ worker[w].payload.operation = "CREATE_CONTACT"
               /\ ContactOfJob(worker[w].job) \in remote.contacts

\* failChatwootMirrorAttempt records how a POST ended, while it is DISPATCHED.
Failed(w, s) ==
    LET j == worker[w].job IN
    IF Sends(w) /\ attempt[j].state = "DISPATCHED"
    THEN [attempt EXCEPT ![j].state = s] ELSE attempt

\* The echoes that waited for this attempt are settled with it: those of the
\* message it created are ours, the others came from somebody else.
Resolved(j, ours) ==
    LET waiting == {e \in echo.waiting : e.by = j} IN
    [echo EXCEPT !.waiting = @ \ waiting,
                 !.taken = @ \cup {e.id : e \in {x \in waiting : x.id \notin ours}}]

\* The answer arrives with the identifier of what was created.
CallAccepted(w) ==
    LET m == MessageOf(worker[w].job) IN
    /\ worker[w].phase = "calling" /\ ~Collides(w)
    /\ remote' = Applied(w)
    /\ worker' = [worker EXCEPT ![w].phase = "called",
                     ![w].answer = IF Sends(w) THEN Len(remote'.messages[m])
                                   ELSE remote'.conversations[ContactOf[m]]]
    /\ UNCHANGED <<state, job, map, mapped, attempt, ready, review, echo, enqueued, faults>>

\* A definite refusal: 429 is repeatable, another 4xx is final.  Recording it is a
\* transaction that may fail in its turn: that error is dropped, and the attempt
\* stays DISPATCHED beside a job that may be claimed again.
CallRefused(w) ==
    /\ worker[w].phase = "calling"
    /\ IF Collides(w)
       THEN Throw(w, "FAILED") /\ UNCHANGED faults
       ELSE Disturb /\ \E verdict \in {"FAILED", Repeatable(w)} : Throw(w, verdict)
    /\ attempt' \in {Failed(w, "REJECTED"), attempt}
    /\ echo' = IF attempt' # attempt THEN Resolved(worker[w].job, {}) ELSE echo
    /\ UNCHANGED <<state, job, map, mapped, ready, review, remote, enqueued>>

\* A timeout, a 5xx or an unreadable answer, whether Chatwoot applied it or not,
\* and whether its uncertainty could be recorded or not.
CallUncertain(w) ==
    /\ worker[w].phase = "calling"
    /\ Disturb
    /\ remote' \in {remote} \cup (IF Collides(w) THEN {} ELSE {Applied(w)})
    /\ attempt' \in {Failed(w, "UNKNOWN"), attempt}
    /\ Throw(w, "UNKNOWN")
    /\ UNCHANGED <<state, job, map, mapped, ready, review, echo, enqueued>>

\* confirmChatwootMirrorAttempt needs no lease: it states a fact.
ConfirmAttempt(w) ==
    LET t == worker[w] IN
    /\ t.phase = "called" /\ Sends(w)
    /\ \/ /\ attempt' = [attempt EXCEPT ![t.job].state = "CONFIRMED", ![t.job].message = t.answer]
          /\ echo' = Resolved(t.job, {<<MessageOf(t.job), t.answer>>})
          /\ worker' = [worker EXCEPT ![w].phase = "proved"]
          /\ UNCHANGED faults
       \/ Disturb /\ Throw(w, "UNKNOWN") /\ UNCHANGED <<attempt, echo>>
    /\ UNCHANGED <<state, job, map, mapped, ready, review, remote, enqueued>>

\* The answer of an operation is kept; with the lease lost it is not.
KeepAnswer(w) ==
    LET t == worker[w] IN
    /\ \/ t.phase = "proved"
       \/ t.phase = "called" /\ ~Sends(w)
    /\ Progress(w, CASE t.payload.operation = "CREATE_CONTACT" -> [t.payload EXCEPT !.contact = TRUE]
                     [] t.payload.operation = "LINK_CONTACT" -> [t.payload EXCEPT !.source = TRUE]
                     [] t.payload.operation = "CREATE_CONVERSATION" ->
                            [t.payload EXCEPT !.conversation = t.answer]
                     [] t.payload.operation = "SEND_MESSAGE" -> [t.payload EXCEPT !.message = t.answer])
    /\ UNCHANGED <<state, map, mapped, attempt, ready, review, remote, echo, enqueued, faults>>

\* The map is written once; a Broker that owns the conversation reads its
\* canonical state before, and that GET may fail.
MapConversation(w) ==
    LET t == worker[w]
        c == ContactOfJob(t.job) IN
    /\ Mirrors(w, "working") /\ Needs(t) = "MAP"
    /\ map' = [map EXCEPT ![c] = IF @ = 0 THEN t.payload.conversation ELSE @]
    /\ worker' = [worker EXCEPT ![w].map = t.payload.conversation]
    /\ UNCHANGED <<state, job, mapped, attempt, ready, review, remote, echo, enqueued, faults>>

MapFails(w) ==
    /\ Mirrors(w, "working") /\ Needs(worker[w]) = "MAP"
    /\ \/ ~Leased(w) /\ Throw(w, "UNKNOWN") /\ UNCHANGED faults
       \/ Guarded /\ Disturb /\ Throw(w, Repeatable(w))
    /\ UNCHANGED <<state, job, map, mapped, attempt, ready, review, remote, echo, enqueued>>

\* chatwoot_messages keeps the first remote message of a message.
Record(w) ==
    LET t == worker[w]
        m == MessageOf(t.job) IN
    /\ Mirrors(w, "working") /\ Needs(t) = "RECORD"
    /\ mapped' = [mapped EXCEPT ![m] = IF @ = 0 THEN t.payload.message ELSE @]
    /\ worker' = [worker EXCEPT ![w].phase = IF m \in Outgoing THEN "recorded" ELSE "finishing"]
    /\ UNCHANGED <<state, job, map, attempt, ready, review, remote, echo, enqueued, faults>>

\* The PATCH of the status may be repeated, so no answer of it is uncertain.
PatchStatus(w) ==
    /\ worker[w].phase = "patching"
    /\ \/ worker' = [worker EXCEPT ![w].phase = "finishing"] /\ UNCHANGED faults
       \/ Disturb /\ \E verdict \in {"FAILED", Repeatable(w)} : Throw(w, verdict)
    /\ UNCHANGED <<state, job, map, mapped, attempt, ready, review, remote, echo, enqueued>>

---------------------------------------------------------------------------
(* receiveReply: everything it changes is one transaction.                 *)

ReceiveReply(w) ==
    LET j == worker[w].job IN
    /\ worker[w].phase = "claimed" /\ j \in Reply
    /\ \/ /\ Leased(w) /\ ready
          /\ enqueued' = enqueued \cup {j}
          /\ job' = [job EXCEPT ![j] = Put(@, "SUCCEEDED")]
          /\ worker' = [worker EXCEPT ![w] = Idle]
       \/ /\ Throw(w, IF Leased(w) THEN "PENDING" ELSE "FAILED")
          /\ ~Leased(w) \/ ~ready
          /\ UNCHANGED <<enqueued, job>>
    /\ UNCHANGED <<state, map, mapped, attempt, ready, review, remote, echo, faults>>

\* A read fails before anything was created: of the conversation of a reply, of
\* the media of a message still to be POSTed, or of the contact.
ReadFails(w) ==
    LET t == worker[w] IN
    /\ \/ t.phase = "claimed" /\ t.job \in Reply
       \/ /\ Mirrors(w, "claimed") /\ ready /\ state[MessageOf(t.job)] # "ACCEPTED"
          /\ mapped[MessageOf(t.job)] = 0 /\ t.payload.message = 0
       \/ Mirrors(w, "working") /\ Needs(t) = "CREATE_CONTACT"
    /\ Disturb
    /\ \E verdict \in {"FAILED", Repeatable(w)} : Throw(w, verdict)
    /\ UNCHANGED <<state, job, map, mapped, attempt, ready, review, remote, echo, enqueued>>

---------------------------------------------------------------------------
(* The operator.                                                           *)

RetryJob(j) ==
    /\ job[j].status = "FAILED"
    /\ job' = [job EXCEPT ![j].status = "PENDING", ![j].attempts = 0, ![j].due = TRUE]
    /\ UNCHANGED <<state, map, mapped, attempt, ready, worker, review, remote, echo, enqueued, faults>>

\* What reconcileJob can add to the payload of an uncertain job: what Chatwoot
\* shows, or for a message the persisted answer of its POST.  Without an
\* attempt the marker of the message is looked up instead.
Evidence(j) ==
    LET p == job[j].payload
        m == MessageOf(j)
        c == ContactOf[m] IN
    CASE p.operation = "CREATE_CONTACT" /\ c \in remote.contacts -> {[p EXCEPT !.contact = TRUE]}
      [] p.operation = "LINK_CONTACT" /\ c \in remote.linked -> {[p EXCEPT !.source = TRUE]}
      [] p.operation = "CREATE_CONVERSATION" ->
            {[p EXCEPT !.conversation = k] : k \in 1..remote.conversations[c]}
      [] p.operation = "SEND_MESSAGE" /\ attempt[j].state = "CONFIRMED" ->
            {[p EXCEPT !.message = attempt[j].message]}
      [] p.operation = "SEND_MESSAGE" /\ attempt[j].state = "NONE" ->
            {[p EXCEPT !.message = k] : k \in DOMAIN remote.messages[m]}
      [] p.operation = "UPDATE_STATUS" -> {p}
      [] OTHER -> {}

ReconcileRead(j) ==
    /\ review.job = None
    /\ job[j].status = "UNKNOWN"
    /\ \E patched \in Evidence(j) :
          review' = [job |-> j, seen |-> job[j].payload, patched |-> patched, ready |-> ready]
    /\ UNCHANGED <<state, job, map, mapped, attempt, ready, worker, remote, echo, enqueued, faults>>

\* Mutant: evidence of the last operation is taken for the end of the job.
ReconcileCommitDone ==
    LET j == review.job IN
    /\ j # None
    /\ review' = NoReview
    /\ job' = IF job[j].status = "UNKNOWN" /\ job[j].payload = review.seen /\ ready = review.ready
              THEN [job EXCEPT ![j].status = "SUCCEEDED", ![j].payload = review.patched]
              ELSE job
    /\ UNCHANGED <<state, map, mapped, attempt, ready, worker, remote, echo, enqueued, faults>>

\* The job and the configuration must be the ones that were read.
ReconcileCommit ==
    LET j == review.job IN
    /\ j # None
    /\ review' = NoReview
    /\ job' = IF job[j].status = "UNKNOWN" /\ job[j].payload = review.seen /\ ready = review.ready
              THEN [job EXCEPT ![j].status = "PENDING", ![j].due = TRUE,
                               ![j].payload = review.patched]
              ELSE job
    /\ UNCHANGED <<state, map, mapped, attempt, ready, worker, remote, echo, enqueued, faults>>

\* setEnabled
Pause == /\ Pausable /\ ready /\ Disturb /\ ready' = FALSE
         /\ UNCHANGED <<state, job, map, mapped, attempt, worker, review, remote, echo, enqueued>>
Resume == /\ ~ready /\ ready' = TRUE
          /\ UNCHANGED <<state, job, map, mapped, attempt, worker, review, remote, echo, enqueued, faults>>

---------------------------------------------------------------------------
(* The environment.                                                        *)

\* Mutant: an attempt whose outcome is uncertain does not defer the decision.
EchoTrusted(m, k) ==
    LET mine   == {j \in Mirror : MessageOf(j) = m}
        proved == \E j \in mine : attempt[j].state = "CONFIRMED" /\ attempt[j].message = k
        open   == {j \in mine : attempt[j].state = "DISPATCHED"} IN
    /\ m \in Outgoing
    /\ <<m, k>> \notin echo.heard
    /\ \/ /\ proved
          /\ echo' = [echo EXCEPT !.heard = @ \cup {<<m, k>>}]
       \/ /\ ~proved
          /\ \E j \in open :
                /\ \A i \in open : attempt[i].begun <= attempt[j].begun
                /\ echo' = [echo EXCEPT !.heard = @ \cup {<<m, k>>},
                                        !.waiting = @ \cup {[id |-> <<m, k>>, by |-> j]}]
       \/ /\ ~proved /\ open = {}
          /\ echo' = [echo EXCEPT !.heard = @ \cup {<<m, k>>}, !.taken = @ \cup {<<m, k>>}]
    /\ UNCHANGED <<state, job, map, mapped, attempt, ready, worker, review, remote, enqueued, faults>>

\* Chatwoot reports the message <<m, k>> to our webhook: a confirmed attempt
\* names it as ours, else the newest open one defers the decision, else a person
\* wrote it.
EchoArrives(m, k) ==
    LET mine   == {j \in Mirror : MessageOf(j) = m}
        proved == \E j \in mine : attempt[j].state = "CONFIRMED" /\ attempt[j].message = k
        open   == {j \in mine : attempt[j].state \in Open} IN
    /\ m \in Outgoing
    /\ <<m, k>> \notin echo.heard
    /\ \/ /\ proved
          /\ echo' = [echo EXCEPT !.heard = @ \cup {<<m, k>>}]
       \/ /\ ~proved
          /\ \E j \in open :
                /\ \A i \in open : attempt[i].begun <= attempt[j].begun
                /\ echo' = [echo EXCEPT !.heard = @ \cup {<<m, k>>},
                                        !.waiting = @ \cup {[id |-> <<m, k>>, by |-> j]}]
       \/ /\ ~proved /\ open = {}
          /\ echo' = [echo EXCEPT !.heard = @ \cup {<<m, k>>}, !.taken = @ \cup {<<m, k>>}]
    /\ UNCHANGED <<state, job, map, mapped, attempt, ready, worker, review, remote, enqueued, faults>>

Attended(j) == \E w \in Worker : worker[w].job = j /\ job[j].holder = w

\* The lease of a crashed worker ends, or a worker stalls past its own.
LeaseElapses(j) ==
    /\ job[j].status = "RUNNING" /\ ~job[j].expired
    /\ IF Attended(j) THEN Disturb ELSE UNCHANGED faults
    /\ job' = [job EXCEPT ![j].expired = TRUE]
    /\ UNCHANGED <<state, map, mapped, attempt, ready, worker, review, remote, echo, enqueued>>

BackoffElapses(j) ==
    /\ job[j].status = "PENDING" /\ ~job[j].due
    /\ job' = [job EXCEPT ![j].due = TRUE]
    /\ UNCHANGED <<state, map, mapped, attempt, ready, worker, review, remote, echo, enqueued, faults>>

\* The process stops; a settlement that fails in the database ends the same way.
Crash(w) ==
    /\ worker[w].phase # "idle"
    /\ Disturb
    /\ worker' = [worker EXCEPT ![w] = Idle]
    /\ UNCHANGED <<state, job, map, mapped, attempt, ready, review, remote, echo, enqueued>>

---------------------------------------------------------------------------
MirrorStep(w) ==
    \/ ReadContext(w) \/ FindContact(w) \/ BeforeExternal(w) \/ BeginAttempt(w)
    \/ CallAccepted(w) \/ CallRefused(w) \/ CallUncertain(w) \/ ConfirmAttempt(w)
    \/ KeepAnswer(w) \/ MapConversation(w) \/ MapFails(w) \/ Record(w) \/ PatchStatus(w)

TurnStep(w) == MirrorStep(w) \/ ReceiveReply(w) \/ ReadFails(w) \/ Settle(w) \/ Finish(w)

Next ==
    \/ \E w \in Worker : TurnStep(w) \/ Sweep(w) \/ Crash(w) \/ \E j \in Job : Claim(w, j)
    \/ \E j \in Mirror : ReconcileRead(j)
    \/ \E j \in Job : RetryJob(j) \/ LeaseElapses(j) \/ BackoffElapses(j)
    \/ \E m \in Message : Advance(m) \/ \E k \in DOMAIN remote.messages[m] : EchoArrives(m, k)
    \/ \E r \in Reply : ReplyArrives(r)
    \/ ReconcileCommit \/ Pause \/ Resume

Spec == Init /\ [][Next]_vars

\* The timer calls runOnce again and again and a turn goes on; leases of crashed
\* workers and backoffs end with time.  The operator and Chatwoot's callbacks are
\* under no obligation.
Fairness ==
    /\ \A w \in Worker : WF_vars(TurnStep(w))
    /\ WF_vars(\E w \in Worker : Sweep(w) \/ \E j \in Job : Claim(w, j))
    /\ \A j \in Job : WF_vars(BackoffElapses(j)) /\ WF_vars(~Attended(j) /\ LeaseElapses(j))

FairSpec == Spec /\ Fairness

---------------------------------------------------------------------------
(* Types.                                                                  *)

\* Rows, turns, attempts and the review keep their shape: a reply never carries
\* remote progress to review, and an attempt belongs to a mirror.
TypeOK ==
    /\ state \in [Message -> States \cup {"NEW"}]
    /\ job \in [Job -> Row]
    /\ map \in [Contact -> Nat] /\ mapped \in [Message -> Nat]
    /\ attempt \in [Mirror -> [state: AttemptStates, message: Nat, begun: Nat]]
    /\ ready \in BOOLEAN
    /\ worker \in [Worker -> Turn]
    /\ review \in [job: Mirror \cup {None}, seen: Payload, patched: Payload, ready: BOOLEAN]
    /\ remote \in [contacts: SUBSET Contact, linked: SUBSET Contact,
                   conversations: [Contact -> Nat], messages: [Message -> Seq(Mirror)]]
    /\ echo \in [heard: SUBSET (Message \X Nat), taken: SUBSET (Message \X Nat),
                 waiting: SUBSET [id: Message \X Nat, by: Mirror]]
    /\ enqueued \subseteq Reply
    /\ faults \in Nat

---------------------------------------------------------------------------
(* What the queue promises.                                                *)

\* One mirror job POSTs its message to Chatwoot at most once, whatever its
\* retries, crashes, lost answers and reconciliations: an uncertain POST is only
\* ever closed with evidence (chatwoot-worker.ts:125-136, chatwoot-service.ts:853-873).
JobPostsOnce ==
    \A m \in Message : \A a, b \in DOMAIN remote.messages[m] :
        a # b => remote.messages[m][a] # remote.messages[m][b]

\* A message appears once in Chatwoot, although each of its states has a mirror
\* job of its own (docs/broker-jrc-conclusao/17-CONTRATO-COMUM-CHATWOOT-20261102.md:33).
MirroredOnce == \A m \in Message : Len(remote.messages[m]) <= 1

\* Chatwoot reports the message we POSTed to our own webhook, before or after our
\* worker keeps the answer; it is never taken for a person who writes, which
\* would silence the bot (chatwoot-attendance-store.ts:127-140, 219-230).
OwnEchoNeverHuman == echo.taken = {}

\* A mirror that SUCCEEDED is in Chatwoot, and the maps name what is there: no
\* crash, lost answer, retry or reconciliation ends a mirror whose message was
\* lost on the way.  (That of ACCEPTED may leave it to a later one.)
MirrorsAreTrue ==
    /\ \A j \in Mirror :
          job[j].status = "SUCCEEDED" /\ j[2] # "ACCEPTED" => mapped[MessageOf(j)] # 0
    /\ \A m \in Message : mapped[m] # 0 => mapped[m] \in DOMAIN remote.messages[m]
    /\ \A c \in Contact : map[c] # 0 => map[c] \in 1..remote.conversations[c]

Posting(w) == worker[w].phase = "calling" /\ Sends(w)

\* While a POST of a contact may still take effect - its job is UNKNOWN, or its
\* worker waits for the answer, alive or past its lease - no other job of the
\* contact runs, and no reply runs at all (chatwoot-worker.ts:110-124).
UncertainFences ==
    \A j \in Job : job[j].status = "RUNNING" =>
        \A k \in Unknown(job) \cup {worker[w].job : w \in {v \in Worker : Posting(v)}} :
            k # j => j \in Mirror /\ ContactOfJob(k) # ContactOfJob(j)

---------------------------------------------------------------------------
(* Why the promises hold: an invariant that every step preserves.          *)

\* The message k in Chatwoot is the one the mirror j POSTed.
PostedAs(j, k) ==
    k \in DOMAIN remote.messages[MessageOf(j)] /\ remote.messages[MessageOf(j)][k] = j

Posted(j) == \E k \in DOMAIN remote.messages[MessageOf(j)] : PostedAs(j, k)

\* A POST whose answer a worker still waits for.
InFlight(j) == \E w \in Worker : Posting(w) /\ worker[w].job = j

\* A POST took effect, or still may, and nothing in the payload says so.  An open
\* attempt alone does not mean it: that of a refused POST may have stayed open.
Undecided(j) == job[j].payload.message = 0 /\ (Posted(j) \/ InFlight(j))

\* No attempt of the message was begun after that of this mirror.
Newest(j) ==
    \A i \in Mirror : MessageOf(i) = MessageOf(j) /\ i # j => attempt[i].begun < attempt[j].begun

\* The attempt of a POST that took effect, or still may, without evidence of it.
Awaited(j) ==
    /\ attempt[j].state \in Open /\ Newest(j)
    /\ job[j].payload.message = 0 /\ review.job # j

Holds(w, j) == worker[w].phase # "idle" /\ worker[w].job = j /\ job[j].holder = w

RowsInOrder ==
    \A j \in Job : /\ job[j].status = "NONE" => job[j] = NoRow
                   /\ job[j].holder # None => job[j].status = "RUNNING"

TurnsInOrder ==
    \A w \in Worker :
        LET t == worker[w] IN
        /\ t.phase # "idle" => t.job \in Job
        /\ t.phase \notin {"idle", "claimed", "settling"} => t.job \in Mirror
        /\ t.phase \in {"calling", "called"} => t.payload.operation \in Setup \cup {"SEND_MESSAGE"}
        /\ t.phase \in {"beginning", "proved"} => Sends(w)
        /\ t.phase = "beginning" => t.payload.message = 0
        /\ \A j \in Job : Holds(w, j) => t.payload = job[j].payload

OneRunning == \A j, k \in Job : job[j].status = "RUNNING" /\ job[k].status = "RUNNING" => j = k

AtRisk == {j \in Mirror : job[j].status \in {"RUNNING", "UNKNOWN"}}

OneUncertain ==
    /\ \A j, k \in AtRisk : ContactOfJob(j) = ContactOfJob(k) => j = k
    /\ \A r \in Reply : job[r].status = "RUNNING" => Unknown(job) = {}

UndecidedStays ==
    \A j \in Mirror : Undecided(j) =>
        /\ job[j].payload.operation = "SEND_MESSAGE"
        /\ job[j].status \in {"RUNNING", "UNKNOWN"}
        /\ \A w \in Worker : Holds(w, j) =>
              \/ worker[w].phase \in {"calling", "called", "proved"}
              \/ worker[w].phase = "settling" /\ worker[w].verdict = "UNKNOWN"

AttemptsTrue ==
    \A j \in Mirror :
        /\ attempt[j].state = "CONFIRMED" => PostedAs(j, attempt[j].message)
        /\ Posted(j) => attempt[j].state = "CONFIRMED" \/ Awaited(j)

PostsTrue ==
    \A w \in Worker : Posting(w) =>
        LET j == worker[w].job IN
        /\ attempt[j].state = "DISPATCHED" /\ Awaited(j) /\ ~Posted(j)
        /\ \A v \in Worker : Posting(v) /\ worker[v].job = j => v = w

AnswersTrue ==
    \A w \in Worker : worker[w].phase \in {"called", "proved"} /\ Sends(w) =>
        /\ PostedAs(worker[w].job, worker[w].answer)
        /\ worker[w].phase = "proved" => attempt[worker[w].job].state = "CONFIRMED"

ReviewTrue ==
    review.job # None =>
        /\ job[review.job].status = "UNKNOWN" /\ job[review.job].payload = review.seen
        /\ review.seen.message # 0 \/ review.seen.operation = "SEND_MESSAGE"
              => review.patched.message # 0

EchoesTrue ==
    /\ \A m \in Message : \A k \in DOMAIN remote.messages[m] : MessageOf(remote.messages[m][k]) = m
    /\ \A e \in echo.waiting : MessageOf(e.by) = e.id[1] /\ PostedAs(e.by, e.id[2])

\* One job of the connection runs and at most one of a contact is uncertain; a
\* POST without an answer keeps its job from starting again; attempts, answers
\* and echoes name what exists (chatwoot-worker.ts:125-172, 687-733).
MirrorsInductive ==
    /\ TypeOK
    /\ RowsInOrder
    /\ TurnsInOrder
    /\ OneRunning
    /\ OneUncertain
    /\ UndecidedStays
    /\ AttemptsTrue
    /\ PostsTrue
    /\ AnswersTrue
    /\ ReviewTrue
    /\ EchoesTrue
    /\ JobPostsOnce
    /\ OwnEchoNeverHuman

\* What a payload or a turn knows of Chatwoot is there, and a state that was
\* mirrored was reached.
KnownMessage(m, k)      == k # 0 => k \in DOMAIN remote.messages[m]
KnownConversation(c, k) == k # 0 => k \in 1..remote.conversations[c]

KnownPayload(j, p) ==
    KnownMessage(MessageOf(j), p.message) /\ KnownConversation(ContactOfJob(j), p.conversation)

KnownTurn(t) ==
    LET m == MessageOf(t.job)
        c == ContactOfJob(t.job) IN
    /\ KnownPayload(t.job, t.payload)
    /\ t.job[2] # "ACCEPTED" => state[m] \notin {"NEW", "ACCEPTED"}
    /\ KnownConversation(c, t.map)
    /\ t.mapped # 0 => mapped[m] = t.mapped
    /\ t.phase = "called" /\ t.payload.operation = "CREATE_CONVERSATION" =>
          KnownConversation(c, t.answer)
    /\ t.phase \in {"recorded", "patching"} => mapped[m] # 0
    /\ t.phase = "finishing" => mapped[m] # 0 \/ t.job[2] = "ACCEPTED"

MapsKnown ==
    /\ \A j \in Mirror :
          /\ KnownPayload(j, job[j].payload)
          /\ job[j].status # "NONE" /\ j[2] # "ACCEPTED" =>
                state[MessageOf(j)] \notin {"NEW", "ACCEPTED"}
    /\ \A w \in Worker : worker[w].job \in Mirror => KnownTurn(worker[w])
    /\ review.job # None => KnownPayload(review.job, review.patched)

---------------------------------------------------------------------------
(* Progress.                                                               *)

Fenced(j) ==
    \E k \in Unknown(job) : j \in Mirror => ContactOfJob(k) = ContactOfJob(j)

\* A job that waits or runs is decided, unless the connection is paused or an
\* uncertain mirror fences it off until the operator acts.
JobsServed ==
    \A j \in Job :
        job[j].status \in {"PENDING", "RUNNING"}
            ~> (job[j].status \in {"SUCCEEDED", "FAILED", "UNKNOWN"} \/ Fenced(j) \/ ~ready)

===========================================================================
