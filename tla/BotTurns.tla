----------------------------- MODULE BotTurns -----------------------------
(***************************************************************************)
(* Bot turns of one channel (modules/messaging: messaging_bot_jobs,        *)
(* bot-runner.ts and the first half of a worker's tick; modules/flows      *)
(* runTurn and settleHandoffs): an incoming message becomes a job, a       *)
(* worker claims it under a lease, asks the engine outside the transaction *)
(* and stores session and replies, while operators take over, the bot of   *)
(* the channel is replaced and the phone's echoes block the conversation.  *)
(*                                                                         *)
(* The number of a message is its sequence_number; all replies of one turn *)
(* are one.  A worker is one tick and its lease token.  Each action is one *)
(* transaction, one exchange with the engine, or an event around them.     *)
(***************************************************************************)
EXTENDS Integers, FiniteSets

CONSTANTS
    Message,          \* incoming messages
    Conversation,
    ConversationOf,
    Worker,
    Bot,              \* configurations the channel may be given
    EngineOf,         \* "TYPEBOT", "FLOW" (FLOW_ORIGIN) or "AUTOMATION"
    FirstBot,
    Meta,             \* the channel is META, with a service window of 24 hours
    MaxFaults,        \* bound on takeovers, changes, blocks, crashes and stalls
    None

ASSUME MessageAssumption == Message \subseteq Nat /\ ConversationOf \in [Message -> Conversation]
ASSUME BotAssumption     == /\ EngineOf \in [Bot -> {"TYPEBOT", "FLOW", "AUTOMATION"}]
                            /\ FirstBot \in Bot
                            /\ Meta \in BOOLEAN /\ MaxFaults \in Nat
ASSUME NoneAssumption    == None \notin Worker \cup Bot \cup Message

VARIABLES
    job,      \* messaging_bot_jobs, and what became of the replies
    chat,     \* messaging_conversations, flow_sessions, policy of the contact
    bot,      \* bot_public_id and bot_origin_reference of channel and conversations
    tenant,   \* organizations.status, flow_features.enabled
    turn,     \* where each worker is
    faults

vars == <<job, chat, bot, tenant, turn, faults>>

\* "NEW": not received; "NONE": received without a job.
Statuses == {"NEW", "NONE", "PENDING", "RUNNING", "COMPLETED", "PAUSED", "FAILED", "UNKNOWN"}
\* "SAFE": failed, and to be tried again; "AGAIN": ACCEPTED after that.
Replies  == {"NONE", "ACCEPTED", "SENDING", "SAFE", "AGAIN", "UNKNOWN", "GONE"}

\* before: received before the last change of flow_features.
\* by: the bot that replied.  asked, reopened: turns that asked an engine outside
\* the transaction, and turns put back (history).
Job == [status: Statuses, holder: Worker \cup {None}, expired: BOOLEAN,
        window: {"AHEAD", "OPEN", "CLOSED"}, before: BOOLEAN,
        reply: Replies, by: Bot \cup {None}, asked: Nat, reopened: Nat]

\* session: the bot whose session is stored.  flow, revoked: flow_sessions, and
\* whether the feature changed since.  owed: a flow asked for a human and
\* nobody has decided the mode since (history).
Chat == [mode: {"BOT", "HUMAN"}, session: Bot \cup {None},
         flow: {"NONE", "WAITING", "COMPLETED", "HANDOFF"}, revoked: BOOLEAN,
         blocked: BOOLEAN, barred: BOOLEAN, owed: BOOLEAN]

Turn == [step: {"idle", "claimed", "asking", "answered", "refused", "doubtful"},
         message: Message \cup {None}, bot: Bot \cup {None}, session: Bot \cup {None}]
Idle == [step |-> "idle", message |-> None, bot |-> None, session |-> None]

\* Types, and the constraint messaging_bot_jobs_lease_pair.
TypeOK ==
    /\ job \in [Message -> Job]
    /\ \A m \in Message : job[m].status = "RUNNING" <=> job[m].holder # None
    /\ chat \in [Conversation -> Chat]
    /\ bot \in Bot \cup {None}
    /\ tenant \in [active: BOOLEAN, enabled: BOOLEAN]
    /\ turn \in [Worker -> Turn]
    /\ faults \in Nat

NoJob   == [status |-> "NEW", holder |-> None, expired |-> FALSE, window |-> "OPEN",
            before |-> FALSE, reply |-> "NONE", by |-> None, asked |-> 0, reopened |-> 0]
NewChat == [mode |-> "BOT", session |-> None, flow |-> "NONE", revoked |-> FALSE,
            blocked |-> FALSE, barred |-> FALSE, owed |-> FALSE]

Init ==
    /\ job = [m \in Message |-> NoJob]
    /\ chat = [c \in Conversation |-> NewChat]
    /\ bot = FirstBot
    /\ tenant = [active |-> TRUE, enabled |-> TRUE]
    /\ turn = [w \in Worker |-> Idle]
    /\ faults = 0

Disturb == faults < MaxFaults /\ faults' = faults + 1

ChatOf(m) == chat[ConversationOf[m]]
Mates(m)  == {k \in Message : ConversationOf[k] = ConversationOf[m]}

\* Mutant: a job that ends keeps its lease.
PutKeepsLease(r, s) == [r EXCEPT !.status = s]

\* A job that nobody holds, in the given status.
Put(r, s) == [r EXCEPT !.status = s, !.holder = None, !.expired = FALSE]

---------------------------------------------------------------------------
(* Receiving and claiming.                                                 *)

\* recordIncoming: getOrCreateConversation locks the conversation, so numbers
\* of one conversation appear in order.  META stamps may be five minutes ahead.
Receive(m) ==
    /\ job[m].status = "NEW"
    /\ \A k \in Mates(m) : k < m => job[k].status # "NEW"
    /\ \E window \in IF Meta THEN {"OPEN", "AHEAD"} ELSE {"OPEN"} :
          job' = [job EXCEPT ![m] =
                    [Put(job[m], IF ChatOf(m).mode = "BOT" /\ bot # None THEN "PENDING" ELSE "NONE")
                       EXCEPT !.window = window]]
    /\ UNCHANGED <<chat, bot, tenant, turn, faults>>

Outside(r) == r.window = "AHEAD" \/ (r.window = "CLOSED" /\ Meta)

\* Mutant: a lease that ended is left to its worker.
SweptKeepsRunning(m) ==
    LET r == job[m] IN
    IF r.status = "PENDING" /\ ChatOf(m).mode = "HUMAN" THEN Put(r, "PAUSED")
    ELSE IF r.status = "PENDING" /\ (ChatOf(m).barred \/ Outside(r)) THEN Put(r, "FAILED")
    ELSE r

\* What claimBotTurn does to every job before it looks for a candidate: leases
\* that ended are uncertain, jobs of a human conversation wait for nobody, jobs
\* the policy forbids fail.
Swept(m) ==
    LET r == job[m] IN
    IF r.status = "RUNNING" /\ r.expired THEN Put(r, "UNKNOWN")
    ELSE IF r.status = "PENDING" /\ ChatOf(m).mode = "HUMAN" THEN Put(r, "PAUSED")
    ELSE IF r.status = "PENDING" /\ (ChatOf(m).barred \/ Outside(r)) THEN Put(r, "FAILED")
    ELSE r

\* Mutant: a turn that is uncertain does not hold the conversation back.
CandidateDespiteUnknown(m) ==
    /\ Swept(m).status = "PENDING"
    /\ ~ChatOf(m).blocked
    /\ bot # None /\ EngineOf[bot] = "AUTOMATION" => tenant.enabled
    /\ \A k \in Mates(m) : Swept(k).status # "RUNNING"
    /\ \A k \in Mates(m) : k < m => Swept(k).status # "PENDING"

\* Mutant: the candidate need not be the earliest of its conversation.
CandidateAnyOrder(m) ==
    /\ Swept(m).status = "PENDING"
    /\ ~ChatOf(m).blocked
    /\ bot # None /\ EngineOf[bot] = "AUTOMATION" => tenant.enabled
    /\ \A k \in Mates(m) : Swept(k).status \notin {"RUNNING", "UNKNOWN"}

\* Mutant: a paused turn holds the conversation back like an uncertain one.
CandidateAfterPaused(m) ==
    /\ Swept(m).status = "PENDING"
    /\ ~ChatOf(m).blocked
    /\ bot # None /\ EngineOf[bot] = "AUTOMATION" => tenant.enabled
    /\ \A k \in Mates(m) : Swept(k).status \notin {"RUNNING", "UNKNOWN", "PAUSED"}
    /\ \A k \in Mates(m) : k < m => Swept(k).status # "PENDING"

Candidate(m) ==
    /\ Swept(m).status = "PENDING"
    /\ ~ChatOf(m).blocked
    /\ bot # None /\ EngineOf[bot] = "AUTOMATION" => tenant.enabled
    /\ \A k \in Mates(m) : Swept(k).status \notin {"RUNNING", "UNKNOWN"}
    /\ \A k \in Mates(m) : k < m => Swept(k).status # "PENDING"

\* SKIP LOCKED: the earliest candidate may be in the hands of another claim, so
\* any candidate may be the one this claim takes.
ClaimBotTurn(w, m) ==
    /\ tenant.active /\ turn[w] = Idle
    /\ Candidate(m)
    /\ job' = [k \in Message |->
                 IF k = m THEN [Put(job[m], "RUNNING") EXCEPT !.holder = w] ELSE Swept(k)]
    /\ turn' = [turn EXCEPT ![w] = [step |-> "claimed", message |-> m, bot |-> bot,
                                    session |-> ChatOf(m).session]]
    /\ UNCHANGED <<chat, bot, tenant, faults>>

\* A claim that finds nothing still commits what it swept.
Sweep ==
    /\ tenant.active /\ \A m \in Message : ~Candidate(m)
    /\ job' = [m \in Message |-> Swept(m)]
    /\ UNCHANGED <<chat, bot, tenant, turn, faults>>

---------------------------------------------------------------------------
(* Asking the engine.  A turn goes on with the bot of its claim.           *)

Uses(w, engine) == turn[w].bot # None /\ EngineOf[turn[w].bot] = engine

Step(w, s) == turn' = [turn EXCEPT ![w].step = s]

Asks(w, s) ==
    /\ Step(w, s)
    /\ job' = [job EXCEPT ![turn[w].message].asked = @ + 1]
    /\ UNCHANGED <<chat, bot, tenant, faults>>

\* runBotTurn: continueChat with a session, startChat without.
AskTypebot(w) ==
    /\ turn[w].step = "claimed" /\ Uses(w, "TYPEBOT")
    /\ Asks(w, "asking")

\* SESSION_EXPIRED: the same turn starts a new chat.
SessionExpired(w) ==
    /\ turn[w].step = "asking" /\ turn[w].session # None
    /\ turn' = [turn EXCEPT ![w].session = None]
    /\ UNCHANGED <<job, chat, bot, tenant, faults>>

\* An answer, a definite failure, or a timeout or an answer the broker cannot use.
TypebotAnswers(w) ==
    /\ turn[w].step = "asking"
    /\ \E s \in {"answered", "refused", "doubtful"} : Step(w, s)
    /\ UNCHANGED <<job, chat, bot, tenant, faults>>

\* automations.route admits an execution under the event key of the message.
RouteAutomation(w) ==
    /\ turn[w].step = "claimed" /\ Uses(w, "AUTOMATION")
    /\ Asks(w, "answered")

\* Not configured, an attachment the engine does not take, a routing that throws.
NotAsked(w) ==
    /\ turn[w].step = "claimed"
    /\ Step(w, "refused")
    /\ UNCHANGED <<job, chat, bot, tenant, faults>>

---------------------------------------------------------------------------
(* Completing.                                                             *)

Holds(w, m) == job[m].status = "RUNNING" /\ job[m].holder = w

\* Mutant: who answers after the lease was given up is believed.
OwnsLate(w) == job[turn[w].message].status \in {"RUNNING", "UNKNOWN"}

\* completeBotTurn and failBotTurn ask for the token of a RUNNING job; an
\* expiry that no claim has noticed yet does not matter.
Owns(w) == Holds(w, turn[w].message)

\* Mutant: completion does not look at the mode again.
VerdictUnchecked(m) ==
    IF ChatOf(m).blocked THEN "PENDING"
    ELSE IF ChatOf(m).barred \/ (Meta /\ job[m].window # "OPEN") THEN "FAILED"
    ELSE "COMPLETED"

\* What completeBotTurn finds under its locks.
Verdict(m) ==
    IF ChatOf(m).blocked THEN "PENDING"
    ELSE IF ChatOf(m).mode = "HUMAN" THEN "PAUSED"
    ELSE IF ChatOf(m).barred \/ (Meta /\ job[m].window # "OPEN") THEN "FAILED"
    ELSE "COMPLETED"

\* The job after completion; the key bot:<message>:<n> makes a reply unique.
Closed(w, says) ==
    LET m == turn[w].message
        new == Verdict(m) = "COMPLETED" /\ says /\ job[m].reply = "NONE" IN
    [Put(job[m], Verdict(m)) EXCEPT
        !.reply = IF new THEN "ACCEPTED" ELSE @,
        !.by = IF new THEN turn[w].bot ELSE @,
        !.reopened = IF Verdict(m) = "PENDING" THEN @ + 1 ELSE @]

\* The conversation after completion: the session of this turn.
Bound(w) ==
    LET c == chat[ConversationOf[turn[w].message]] IN
    IF Verdict(turn[w].message) = "COMPLETED" THEN [c EXCEPT !.session = turn[w].bot] ELSE c

Complete(w, says) ==
    LET m == turn[w].message IN
    /\ job' = [job EXCEPT ![m] = Closed(w, says)]
    /\ chat' = [chat EXCEPT ![ConversationOf[m]] = Bound(w)]
    /\ turn' = [turn EXCEPT ![w] = Idle]
    /\ UNCHANGED <<bot, tenant, faults>>

\* Session and replies are stored in one transaction, or neither.
CompleteBotTurn(w) ==
    /\ turn[w].step = "answered" /\ Owns(w)
    /\ \E says \in BOOLEAN : (says => Uses(w, "TYPEBOT")) /\ Complete(w, says)

\* Mutant: a turn that was uncertain is simply tried again.
FailToQueue(w) ==
    LET m == turn[w].message IN
    /\ turn[w].step \in {"refused", "doubtful"} /\ Owns(w)
    /\ job' = [job EXCEPT ![m] =
                 Put(@, IF turn[w].step = "refused" THEN "FAILED" ELSE "PENDING")]
    /\ turn' = [turn EXCEPT ![w] = Idle]
    /\ UNCHANGED <<chat, bot, tenant, faults>>

FailBotTurn(w) ==
    LET m == turn[w].message IN
    /\ turn[w].step \in {"refused", "doubtful"} /\ Owns(w)
    /\ job' = [job EXCEPT ![m] =
                 Put(@, IF turn[w].step = "refused" THEN "FAILED" ELSE "UNKNOWN")]
    /\ turn' = [turn EXCEPT ![w] = Idle]
    /\ UNCHANGED <<chat, bot, tenant, faults>>

\* A database error while an automation turn completes counts as not routed.
AutomationAborts(w) ==
    /\ turn[w].step = "answered" /\ Uses(w, "AUTOMATION")
    /\ Step(w, "refused")
    /\ UNCHANGED <<job, chat, bot, tenant, faults>>

\* INVALID_OUTBOX_CLAIM: the tick ends, and nothing is stored.
TurnLost(w) ==
    /\ turn[w].step \in {"answered", "refused", "doubtful"} /\ ~Owns(w)
    /\ turn' = [turn EXCEPT ![w] = Idle]
    /\ UNCHANGED <<job, chat, bot, tenant, faults>>

---------------------------------------------------------------------------
(* Native flows: runTurn asks and completes in one transaction.            *)

FlowsOn == tenant.active /\ tenant.enabled

\* runTurn, unlike completeBotTurn, looks at the expiry of the lease.
FlowReady(w) ==
    /\ turn[w].step = "claimed" /\ Uses(w, "FLOW")
    /\ FlowsOn /\ Owns(w) /\ ~job[turn[w].message].expired

FlowCurrent(w) == bot = turn[w].bot /\ ~job[turn[w].message].before

\* Mutant: a reply that failed safely and waits again is not canceled.
CanceledFirstOnly(r) == IF r.reply = "ACCEPTED" THEN [r EXCEPT !.reply = "GONE"] ELSE r

\* setConversationMode HUMAN cancels the replies that are ACCEPTED.
Canceled(r) == IF r.reply \in {"ACCEPTED", "AGAIN"} THEN [r EXCEPT !.reply = "GONE"] ELSE r

Human(s) == [s EXCEPT !.mode = "HUMAN", !.owed = FALSE]

\* A conversation already handed over completes without a word.
FlowHandedOver(w) ==
    /\ FlowReady(w) /\ FlowCurrent(w)
    /\ ChatOf(turn[w].message).flow = "HANDOFF"
    /\ Complete(w, FALSE)

\* The flow session of this turn; a hand-off without a word is immediate.
FlowAdvances(w, next, says) ==
    LET m == turn[w].message
        c == ConversationOf[m]
        after == [Bound(w) EXCEPT !.flow = next, !.revoked = FALSE,
                                  !.owed = next = "HANDOFF"]
        human == next = "HANDOFF" /\ ~says IN
    /\ chat' = [chat EXCEPT ![c] = IF human THEN Human(after) ELSE after]
    /\ job' = [k \in Message |->
                 LET r == IF k = m THEN Closed(w, says) ELSE job[k]
                 IN  IF human /\ k \in Mates(m) THEN Canceled(r) ELSE r]
    /\ turn' = [turn EXCEPT ![w] = Idle]
    /\ UNCHANGED <<bot, tenant, faults>>

\* executeFlow, completeBotTurn and the flow session; a turn that does not
\* complete leaves the session as it was.
FlowRuns(w) ==
    LET s == ChatOf(turn[w].message) IN
    /\ FlowReady(w) /\ FlowCurrent(w)
    /\ s.flow # "HANDOFF" /\ ~s.revoked
    /\ \E next \in {"WAITING", "COMPLETED", "HANDOFF"}, says \in BOOLEAN :
         IF Verdict(turn[w].message) = "COMPLETED" THEN FlowAdvances(w, next, says)
                                                   ELSE Complete(w, says)

\* Features off, another bot, a message older than the feature, a session of
\* another revision, or a graph that fails.
FlowFails(w) ==
    /\ turn[w].step = "claimed" /\ Uses(w, "FLOW") /\ Owns(w)
    /\ FlowsOn => FlowReady(w)
    /\ FlowsOn /\ FlowCurrent(w) => ChatOf(turn[w].message).flow # "HANDOFF"
    /\ job' = [job EXCEPT ![turn[w].message] = Put(@, "FAILED")]
    /\ turn' = [turn EXCEPT ![w] = Idle]
    /\ UNCHANGED <<chat, bot, tenant, faults>>

\* The job is not this turn's any more, or its lease ended.
FlowLost(w) ==
    /\ turn[w].step = "claimed" /\ Uses(w, "FLOW")
    /\ ~Owns(w) \/ (FlowsOn /\ job[turn[w].message].expired)
    /\ turn' = [turn EXCEPT ![w] = Idle]
    /\ UNCHANGED <<job, chat, bot, tenant, faults>>

\* settleHandoffs, in every tick: the conversation becomes human when the last
\* replies of the flow have left.
ToSettle(c) ==
    /\ chat[c].flow = "HANDOFF" /\ chat[c].mode = "BOT"
    /\ \A m \in Message :
         ConversationOf[m] = c /\ job[m].reply \in {"ACCEPTED", "AGAIN", "SENDING"}
           => job[m].by = None \/ EngineOf[job[m].by] # "FLOW"

SettleHandoffs ==
    /\ \E c \in Conversation : ToSettle(c)
    /\ chat' = [c \in Conversation |-> IF ToSettle(c) THEN Human(chat[c]) ELSE chat[c]]
    /\ job' = [m \in Message |->
                 IF ToSettle(ConversationOf[m]) THEN Canceled(job[m]) ELSE job[m]]
    /\ UNCHANGED <<bot, tenant, turn, faults>>

---------------------------------------------------------------------------
(* Operators, configuration, the phone, the outbox.                        *)

\* Mutant: what runs goes on under its lease.
InterruptedPendingOnly(r) == IF r.status = "PENDING" THEN Put(r, "PAUSED") ELSE r

\* What RUNNING becomes is uncertain, what waits is paused, for good.
Interrupted(r) ==
    CASE r.status = "PENDING" -> Put(r, "PAUSED")
      [] r.status = "RUNNING" -> Put(r, "UNKNOWN")
      [] OTHER -> r

Stopped(c) ==
    [m \in Message |-> IF ConversationOf[m] = c THEN Canceled(Interrupted(job[m])) ELSE job[m]]

\* interruptChatwootAttendance, then setConversationMode HUMAN: the console, a
\* message of an operator or a partner, a decision in the desk.
TakeOver(c) ==
    /\ Disturb
    /\ job' = Stopped(c)
    /\ chat' = [chat EXCEPT ![c] = Human(@)]
    /\ UNCHANGED <<bot, tenant, turn>>

\* Replies of the desk admitted without an observation set the mode only.
DeskReply(c) ==
    /\ Disturb
    /\ job' = [m \in Message |-> IF ConversationOf[m] = c THEN Canceled(job[m]) ELSE job[m]]
    /\ chat' = [chat EXCEPT ![c] = Human(@)]
    /\ UNCHANGED <<bot, tenant, turn>>

\* setMode BOT on a channel without a desk: refused while an echo is unsettled
\* or the broker itself runs the bot (executor BROKER: flows and automations).
ResumeBot(c) ==
    /\ Disturb
    /\ chat[c].mode = "HUMAN" /\ ~chat[c].blocked
    /\ bot # None => EngineOf[bot] = "TYPEBOT"
    /\ chat' = [chat EXCEPT ![c].mode = "BOT", ![c].owed = FALSE]
    /\ UNCHANGED <<job, bot, tenant, turn>>

\* Mutant: the session of the previous bot survives.
ChangeBotKeepsSession(b) ==
    /\ Disturb /\ tenant.active /\ b # bot
    /\ b # None => \A m \in Message : job[m].reply \notin {"SENDING", "UNKNOWN"}
    /\ b # None /\ EngineOf[b] = "FLOW" => tenant.enabled
    /\ bot' = b
    /\ job' = [m \in Message |-> Canceled(Interrupted(job[m]))]
    /\ UNCHANGED <<chat, tenant, turn>>

\* transitionChannelOwner; binding a flow also deletes the flow sessions.
ChangeBot(b) ==
    /\ Disturb /\ tenant.active /\ b # bot
    /\ b # None => \A m \in Message : job[m].reply \notin {"SENDING", "UNKNOWN"}
    /\ b # None /\ EngineOf[b] = "FLOW" => tenant.enabled
    /\ bot' = b
    /\ job' = [m \in Message |-> Canceled(Interrupted(job[m]))]
    /\ chat' = [c \in Conversation |->
                  IF b # None /\ EngineOf[b] = "FLOW"
                  THEN [chat[c] EXCEPT !.session = None, !.flow = "NONE",
                                       !.revoked = FALSE, !.owed = FALSE]
                  ELSE [chat[c] EXCEPT !.session = None]]
    /\ UNCHANGED <<tenant, turn>>

\* Every write of flow_features raises the revision that flow sessions carry.
SwitchFlows ==
    /\ Disturb
    /\ tenant' = [tenant EXCEPT !.enabled = ~@]
    /\ chat' = [c \in Conversation |-> [chat[c] EXCEPT !.revoked = chat[c].flow # "NONE"]]
    /\ job' = [m \in Message |-> [job[m] EXCEPT !.before = job[m].status # "NEW"]]
    /\ UNCHANGED <<bot, turn>>

SuspendOrReactivate ==
    /\ Disturb
    /\ tenant' = [tenant EXCEPT !.active = ~@]
    /\ UNCHANGED <<job, chat, bot, turn>>

\* setContactMessagingPolicy: an opt-out, a suppression, or their end.
SetConsent(c) ==
    /\ Disturb
    /\ chat' = [chat EXCEPT ![c].barred = ~@]
    /\ UNCHANGED <<job, bot, tenant, turn>>

\* A phone reports an outgoing message that may be ours (QR ledger)...
ObserveEcho(c) ==
    /\ Disturb /\ ~Meta
    /\ chat' = [chat EXCEPT ![c].blocked = TRUE]
    /\ UNCHANGED <<job, bot, tenant, turn>>

\* ...and it was ours, or somebody typed it and takes the conversation.
EchoWasOurs(c) ==
    /\ chat[c].blocked
    /\ chat' = [chat EXCEPT ![c].blocked = FALSE]
    /\ UNCHANGED <<job, bot, tenant, turn, faults>>

EchoWasTyped(c) ==
    /\ chat[c].blocked
    /\ job' = Stopped(c)
    /\ chat' = [chat EXCEPT ![c] = [Human(chat[c]) EXCEPT !.blocked = FALSE]]
    /\ UNCHANGED <<bot, tenant, turn, faults>>

\* The outbox (ReplyProtocol): a reply is validated in BOT mode, a POST ends or
\* stays uncertain, and a safe failure is accepted again whoever has the
\* conversation by then, or given up.
ReplyMayBecome ==
    [NONE     |-> {},
     ACCEPTED |-> {"SENDING", "SAFE", "GONE"},
     SENDING  |-> {"SAFE", "UNKNOWN", "GONE"},
     SAFE     |-> {"AGAIN", "GONE"},
     AGAIN    |-> {"SENDING", "SAFE", "GONE"},
     UNKNOWN  |-> {"GONE"},
     GONE     |-> {}]

ReplyMoves(m) ==
    /\ \E next \in ReplyMayBecome[job[m].reply] :
          /\ next = "SENDING" => ChatOf(m).mode = "BOT" /\ ~ChatOf(m).blocked
          /\ job' = [job EXCEPT ![m].reply = next]
    /\ UNCHANGED <<chat, bot, tenant, turn, faults>>

LeaseEnds(m) ==
    /\ job[m].status = "RUNNING" /\ ~job[m].expired
    /\ job' = [job EXCEPT ![m].expired = TRUE]
    /\ UNCHANGED <<chat, bot, tenant, turn, faults>>

\* The clock: META's stamp is reached, the window of 24 hours ends.
TimePasses(m) ==
    /\ job[m].status # "NEW"
    /\ \/ job[m].window = "AHEAD" /\ job' = [job EXCEPT ![m].window = "OPEN"]
       \/ job[m].window = "OPEN" /\ Meta /\ job' = [job EXCEPT ![m].window = "CLOSED"]
    /\ UNCHANGED <<chat, bot, tenant, turn, faults>>

Crash(w) ==
    /\ Disturb /\ turn[w] # Idle
    /\ turn' = [turn EXCEPT ![w] = Idle]
    /\ UNCHANGED <<job, chat, bot, tenant>>

---------------------------------------------------------------------------
WorkerNext(w) ==
    \/ \E m \in Message : ClaimBotTurn(w, m)
    \/ AskTypebot(w) \/ SessionExpired(w) \/ TypebotAnswers(w)
    \/ RouteAutomation(w) \/ NotAsked(w)
    \/ CompleteBotTurn(w) \/ FailBotTurn(w) \/ AutomationAborts(w) \/ TurnLost(w)
    \/ FlowHandedOver(w) \/ FlowRuns(w) \/ FlowFails(w) \/ FlowLost(w)
    \/ Crash(w)

Next ==
    \/ \E m \in Message : Receive(m) \/ ReplyMoves(m) \/ LeaseEnds(m) \/ TimePasses(m)
    \/ \E w \in Worker : WorkerNext(w)
    \/ Sweep \/ SettleHandoffs
    \/ \E c \in Conversation : \/ TakeOver(c) \/ DeskReply(c) \/ ResumeBot(c) \/ SetConsent(c)
                               \/ ObserveEcho(c) \/ EchoWasOurs(c) \/ EchoWasTyped(c)
    \/ \E b \in Bot \cup {None} : ChangeBot(b)
    \/ SwitchFlows \/ SuspendOrReactivate

Spec == Init /\ [][Next]_vars

\* A turn goes on: engines answer or time out, transactions end.
TurnGoesOn(w) ==
    \/ AskTypebot(w) \/ TypebotAnswers(w) \/ RouteAutomation(w)
    \/ CompleteBotTurn(w) \/ FailBotTurn(w) \/ TurnLost(w)
    \/ FlowHandedOver(w) \/ FlowRuns(w) \/ FlowFails(w) \/ FlowLost(w)

Fairness ==
    /\ \A w \in Worker : WF_vars(TurnGoesOn(w))
    /\ WF_vars(\E w \in Worker, m \in Message : ClaimBotTurn(w, m))
    /\ WF_vars(Sweep)
    /\ \A m \in Message : WF_vars(LeaseEnds(m))

FairSpec == Spec /\ Fairness

---------------------------------------------------------------------------
(* Properties.                                                             *)

Busy(w) == turn[w] # Idle

\* Two workers never have a turn of one conversation at the same time, so the
\* bot never hears two voices, whatever leases end and whoever takes over.
OneVoice ==
    \A v, w \in Worker :
        v # w /\ Busy(v) /\ Busy(w)
          => ConversationOf[turn[v].message] # ConversationOf[turn[w].message]

\* The bot hears the messages of a conversation in their order: when it is
\* asked, nothing earlier waits, runs or is uncertain.
HeardInOrder ==
    [][\A m \in Message :
         job'[m].asked > job[m].asked =>
           \A k \in Mates(m) : k < m => job[k].status \notin {"PENDING", "RUNNING", "UNKNOWN"}]_vars

\* A stored session belongs to the bot of the channel: a turn of the previous
\* bot that answers late never leaves its session behind.
SessionOfBot == \A c \in Conversation : chat[c].session \in {None, bot}

\* Replies exist only of turns that completed, so a lost turn says nothing.
RepliesHaveTurns == \A m \in Message : job[m].reply # "NONE" => job[m].status = "COMPLETED"

\* While a human has the conversation no reply waits for its first attempt, and
\* replies that wait for it belong to the bot of the channel.  (One that failed
\* safely before the takeover does come back to the queue after it.)
NoneWaitsUnderHuman ==
    \A m \in Message :
        job[m].reply = "ACCEPTED" => ChatOf(m).mode = "BOT" /\ job[m].by = bot

\* The bot is asked again about a message (another turn, not another session of
\* the same turn) only when an unsettled echo put the
\* turn back.
AskedAgainOnlyWhenPutBack == \A m \in Message : job[m].asked <= 1 + job[m].reopened

\* Nothing waits for a bot the channel does not have.
WaitingHasBot == \A m \in Message : job[m].status \in {"PENDING", "RUNNING"} => bot # None

(* The inductive invariant: the properties above and what they rest on.     *)

Open(m) == job[m].status \in {"RUNNING", "UNKNOWN"}

\* Messages of a conversation are received in order.
ReceivedInOrder ==
    \A m \in Message : job[m].status # "NEW" => \A k \in Mates(m) : k < m => job[k].status # "NEW"

\* A conversation has one open turn at most...
OneOpen == \A m \in Message : \A k \in Mates(m) : Open(m) /\ Open(k) => m = k

\* ...and who is busy has it: held, or given up as uncertain.
TurnsAgree ==
    \A w \in Worker : Busy(w) =>
        /\ turn[w].message \in Message
        /\ turn[w].step # "idle"
        /\ Owns(w) \/ job[turn[w].message].status = "UNKNOWN"
        /\ Owns(w) => turn[w].bot = bot

TurnsApart ==
    \A v, w \in Worker : Busy(v) /\ Busy(w) /\ turn[v].message = turn[w].message => v = w

\* What was not asked yet, or was put back.
AsksAgree ==
    /\ \A m \in Message : job[m].status \in {"NEW", "PENDING"} => job[m].asked <= job[m].reopened
    /\ \A w \in Worker : turn[w].step = "claimed" =>
          job[turn[w].message].asked <= job[turn[w].message].reopened

Settled(m) == job[m].status \in {"NONE", "COMPLETED", "PAUSED", "FAILED"}

\* Everything before a claimed message is over.
ClaimedInOrder ==
    \A w \in Worker : turn[w].step = "claimed" =>
        \A k \in Mates(turn[w].message) : k < turn[w].message => Settled(k)

BotInductive ==
    /\ TypeOK /\ ReceivedInOrder /\ OneOpen /\ TurnsAgree /\ TurnsApart
    /\ AsksAgree /\ ClaimedInOrder
    /\ SessionOfBot /\ RepliesHaveTurns /\ NoneWaitsUnderHuman
    /\ AskedAgainOnlyWhenPutBack /\ WaitingHasBot

---------------------------------------------------------------------------
(* The turns keep the ReplyProtocol that the outbox keeps as well.         *)

ReplyOf(m) ==
    CASE job[m].reply = "NONE" -> "absent"
      [] job[m].reply \in {"ACCEPTED", "AGAIN"} -> "queued"
      [] job[m].reply = "SENDING" -> "trying"
      [] job[m].reply = "SAFE" -> "deferred"
      [] job[m].reply = "UNKNOWN" -> "unsure"
      [] OTHER -> "over"

Protocol == INSTANCE ReplyProtocol
            WITH ConvOf  <- ConversationOf,
                 reply   <- [m \in Message |-> ReplyOf(m)],
                 mode    <- [c \in Conversation |-> chat[c].mode],
                 blocked <- {c \in Conversation : chat[c].blocked}

\* A reply is admitted only while the bot has the conversation - a turn that was
\* taken over says nothing -, and every way a human takes it takes the waiting
\* replies back.
KeepsReplyProtocol == Protocol!Spec

---------------------------------------------------------------------------
\* A running turn ends, even of a worker that died (unless the tenant is suspended).
RunningEnds ==
    \A m \in Message :
        job[m].status = "RUNNING" ~> (job[m].status # "RUNNING" \/ ~tenant.active)

\* What may hold a waiting job back: suspension, the switched-off feature, an
\* unsettled echo, an uncertain turn.
HeldBack(m) ==
    \/ ~tenant.active \/ ~tenant.enabled \/ ChatOf(m).blocked
    \/ \E k \in Mates(m) : job[k].status = "UNKNOWN"

\* A waiting job is taken up, paused or failed unless something holds it back.
WaitingEnds ==
    \A m \in Message :
        job[m].status = "PENDING" ~> (job[m].status # "PENDING" \/ HeldBack(m))

\* "Retomar bot" (docs/operations/meta-typebot.md:29) gives the conversation back
\* to the bot: settleHandoffs makes it human only for a hand-off asked since.
ResumeHolds ==
    [][SettleHandoffs => \A c \in Conversation : ToSettle(c) => chat[c].owed]_vars

===========================================================================
