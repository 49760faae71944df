# A TLA+ model of the JRC broker

The broker (`src/apps/api`) connects WhatsApp channels of many tenants - Meta
Cloud API ("META") and paired phones over Evolution ("BAILEYS", here *QR*) - with
bots, human operators, Chatwoot and partner systems.  It is a set of workers and
HTTP handlers around one PostgreSQL database: every operation is a transaction,
and what goes wrong goes wrong *between* transactions, around a POST to somebody
else's server.  This directory models that core, model-checks it with TLC and
proves its main properties with TLAPS.

## 1. Inventory

State lives in tables; `organization_id` scopes everything (row-level security),
so one tenant is modelled at a time.

| component | state | operations | what is hard | what makes it correct |
|---|---|---|---|---|
| messaging outbox (`modules/messaging/repository.ts`, `dispatcher.ts`, `worker.ts`, `service.ts`) | `messaging_messages`, `messaging_outbox`, `messaging_status_events` | enqueue, retry, claim, validate, POST, complete, record status, takeover | expired leases, late answers, receipts in any order, policy changes between two checks | at most one acceptance, truthful FAILED, order per conversation |
| QR ledger (`qr-outbound-observation.ts`) | `qr_dispatch_attempts`, `qr_outbound_observations` | begin, complete, observe, settle, recover, abandon | the phone echoes our own messages before, after and instead of the answer | an own echo is never taken for a manual message; a block ends |
| bot turns (`bot-runner.ts`, `claimBotTurn`...) | `messaging_bot_jobs`, session of a conversation | schedule, claim, ask, complete, fail, interrupt | a human takes over during the turn; the bot's answer is uncertain | one turn at a time, in order, human first |
| partner events (`partner-events/`) | `partner_event_deliveries`, `partner_webhook_endpoints` | claim, authorize, POST, settle, replay, rotate, revoke | lease ends during the POST, revocation in flight, ten attempts | at least once, truthful DELIVERED |
| tenant limits (`tenancy/`, migrations 0011, 0030, 0049) | `organization_limits`, usage | triggers on admission | limits meet retries, suspension meets work in flight | never above the limit by admission, nothing admitted is lost |
| instances, reconciliation, evolution fleet | `instances`, leases, idempotency records | create, connect, disconnect, poll, archive, reconcile | crash between two transactions around a provider call, answers after the lease, polls outdated by webhooks | one connection at a time at the provider, no operation is reopened by a late answer, an archived instance is quiet |
| attendance (`attendance/`) | control epochs, sessions, hand-offs, resumes | route, hand off, claim, release, resume | two owners of one conversation, stale commands | one owner per epoch, epochs only grow |
| Chatwoot integration (`integrations/`) | `integration_jobs`, `chatwoot_conversations`, `chatwoot_messages`, `chatwoot_mirror_attempts`, links, campaigns | mirror, reply, reconcile, retry, pause, import, provision | each state of a message has a job of its own, uncertain POSTs, our own webhook reports our own messages | a job POSTs once, an uncertain POST stops its contact, an own echo is never a person |
| automation engine (`automations/`), flows and delegation (`flows/`) | executions, waits, effects, budgets | start, resume, emit effect, wait, cut over | durable effects, re-execution after a crash | an effect happens once, budgets are not overdrawn |
| central dispatch and cutover (`central-dispatcher.ts`, `channels/`) | origin receipts, cutover phases | dispatch, receive, cut over, roll back | two delivery paths of one channel | exactly one path owns a channel |
| private media, media custody | assets, objects, clean-up jobs | upload, seal, delete | object store and database disagree | no live reference to a deleted object |
| history import, lifecycle | import cursors, deletion operations | import, purge | restarts, foreign keys, work in flight | resumable, nothing of a purged tenant is left |
| auth, api keys, memberships, platform, plans, support | sessions, keys, roles | login, refresh, revoke, CRUD under revisions | refresh reuse, races of revisions | reuse detection |
| web, contracts, providers, ui, plugins, labs | - | presentation, schemas, adapters | - | outside the models |

Interaction: webhooks and handlers write messages and events; the loop of
`commands/messaging-worker.ts` gives every active tenant one tick, which recovers
the QR ledger, runs one bot turn, claims and dispatches one batch of the outbox
and then serves Chatwoot, partner events, media and imports; a step that throws
ends the tick of that tenant.  Components call each other only inside
transactions (a bot turn enqueues into the outbox, a hand-off cancels messages
and jobs) and otherwise meet in the tables.  PROJECT.json lists every component
with its status, and every hazard at its line.

## 2. Modules

| module | what it is |
|---|---|
| `MessageState` | the transition table of `message-state.ts` and the reconciliation of receipts |
| `MessagingOutbox` | the queue of one tenant on one channel: workers, provider, QR ledger, operators, environment; its properties |
| `DeliveryLedger` | what the broker promises of each message, without queue, lease or worker |
| `ReplyProtocol` | what the outbox and the bot turns may do to an automated message they share, whoever has the conversation |
| `MCOutbox` + `Outbox*.cfg` | instances for TLC |
| `MessagingOutboxProofs` | type correctness, the inductive invariant and the safety theorems |
| `MessagingOutboxPromise` | the transition table, receipts, echoes, and the refinement of `DeliveryLedger` |
| `MessagingOutboxGuarantees` | the pending limit, the order the customer sees, and the refinement of `ReplyProtocol` |
| `BotTurns` | the bot turns of one channel: reception, claim, engine, completion, flows, operators, change of bot; its properties |
| `MCBots` + `Bot*.cfg` | instances for TLC |
| `BotTurnsProofs` | the inductive invariant of `BotTurns`, its safety theorems and its refinement of `ReplyProtocol` |
| `PartnerDeliveries` | webhook deliveries of one tenant: fan-out, workers, partner, revocation, replay, retention |
| `WebhookPromise` | what the broker promises a partner of each delivery, without rows, leases or workers |
| `MCPartner` + `Partner*.cfg` | instances for TLC |
| `PartnerDeliveriesProofs` | the inductive invariant of `PartnerDeliveries`, its safety theorems and the refinement of `WebhookPromise` |
| `IntegrationJobs` | the job queue between a channel and its Chatwoot inbox: mirrors, replies, evidence of POSTs, reconciliation, echoes |
| `MCMirrors` + `Mirror*.cfg` | instances for TLC |
| `IntegrationJobsProofs` | the inductive invariant of `IntegrationJobs` and its safety theorems |
| `IntegrationJobsTruth` | what the queue knows of Chatwoot is true, and a mirror that SUCCEEDED is there |
| `InstanceOperations` | one paired phone and the calls that create, connect and disconnect it; polls, webhooks, archive; its properties |
| `MCInstances` + `Instance*.cfg` | instances for TLC |
| `InstanceOperationsProofs` | the inductive invariant of `InstanceOperations` and its safety theorems |

`MessagingOutbox` and `BotTurns` are two views of one conversation: a takeover and
an echo are actions of both, and the reply of a turn, one automated message of the
outbox, appears in `BotTurns` with the states its code can tell apart (`Replies`).
What each module assumes of the other about such a message is stated once, in
`ReplyProtocol`: it is admitted and handed to the provider only while the bot has
the conversation and no echo blocks it; every way a human takes the conversation -
takeover, desk reply, typed message, hand-off, interruption - takes back what is
queued; of what was given up only a safe failure comes back.  Both modules are
shown to implement it (`KeepsReplyProtocol`), each for its own actions: the outbox
for claims, retries and receipts, the turns for completions, flows and changes of bot.

### How MessagingOutbox corresponds to the code

A *message* stands for its idempotency key, so a replayed request is a stutter.
Its number is its `sequence_number`: `enqueueOutgoing` locks the conversation row
before it inserts, which makes the order of numbers the order of admission within
a conversation.  A *worker* is one worker turn and its lease token
(`randomUUID()` per tick): `worker[w]` is where `dispatchClaim` is, from the claim
over `validateClaim` and the POST to `completeSend`.  Every action is one
transaction, one half of the HTTP exchange, or one event of the environment.

| code | definitions |
|---|---|
| `enqueueOutgoing`, `retryMessage` | `Enqueue`, `RetryMessage` (limit of migration 0030, suspension, mode, consent, window) |
| `claimOutgoing` | `Claim`: automatic retries (`Due`), expired META sends (`Lapsed`), returned leases (`Released`), policy failures (`Barred`), then a candidate (`Candidates`); `Sweep` when there is no candidate.  A retry that does not fit the pending limit aborts the transaction: `ClaimAdmitted` guards both |
| `validateClaim` | `ValidateEligible`, `ValidateFails`, `ValidateHolds`, `ValidateLost`; preflight of the dispatcher is `PreflightFails` |
| the POST, `providerOutcome` | `Post`, `ProviderAnswers`, `AnswerUncertain`; the provider may accept later: `ProviderAcceptsLate` |
| `completeSend` | `CompleteSend` with `FinalState` (early receipts replayed), `FinalRow`, `FinalAttempt`; `CompleteLost` when the token is not its own any more |
| `recordStatusEvent` | `RecordStatus` |
| QR ledger | `ObserveOutbound`, `RecoverQr`, `AbandonAttempt`, `AbandonObservation`, all through `Settlement` |
| `setConversationMode`, `interruptChatwootAttendance` | `TakeOver`, `ResumeBot`, `Canceled`, `Interrupted` |
| `setContactMessagingPolicy`, `recordIncoming` | `SetConsent`, `RecordIncoming` |
| platform, instances, api keys | `Suspend`, `Reactivate`, `LowerLimit`, `LoseChannel`, `RestoreChannel`, `RevokeAuthority` |
| a tick that throws, a process that dies | `Crash` |

Time: a lease is running or `expired`, a failed row has `rested` long enough or
not; `LeaseElapses` and `BackoffElapses` flip them.  `wire[m].open` counts the
POSTs whose fate the broker cannot know, `wire[m].accepted` the acceptances: they
are the only history variables, and no guard of the broker reads them.

### How BotTurns corresponds to the code

`job[m]` is the row of `messaging_bot_jobs` of an incoming message together with
what became of its replies; `chat[c]` is the conversation, its flow session and
its contact's policy; `turn[w]` is one tick and its lease token.

| code | definitions |
|---|---|
| `recordIncoming` | `Receive` |
| `claimBotTurn` | `ClaimBotTurn` with `Swept` and `Candidate`; `Sweep` when there is no candidate |
| `runBotTurn` of `bot-runner.ts` | `AskTypebot`, `SessionExpired`, `TypebotAnswers`, `RouteAutomation`, `NotAsked` |
| `completeBotTurn`, `failBotTurn` | `CompleteBotTurn` with `Verdict`, `Closed`, `Bound`; `FailBotTurn`; `AutomationAborts`, `TurnLost` |
| `runTurn` of `flows/service.ts` | `FlowHandedOver`, `FlowRuns`, `FlowFails`, `FlowLost`: asking and completing are one transaction |
| `settleHandoffs` | `SettleHandoffs` |
| `setConversationMode`, `interruptChatwootAttendance` | `TakeOver`, `DeskReply`, `ResumeBot` |
| `transitionChannelOwner`, `bind` | `ChangeBot` |
| feature switch, suspension, policy | `SwitchFlows`, `SuspendOrReactivate`, `SetConsent` |
| QR ledger | `ObserveEcho`, `EchoWasOurs`, `EchoWasTyped` |
| outbox, clock, process | `ReplyMoves`, `LeaseEnds`, `TimePasses`, `Crash` |

### How PartnerDeliveries corresponds to the code

`row[d]` is the row of `partner_event_deliveries` of one event and one endpoint;
`worker[w]` is one `processOne`, with the attempt and the claim (the value of
`lifetime_attempts`) its lease was given for.

| code | definitions |
|---|---|
| `partner_capture_event` | `Capture`, `CommitSource`: the source transaction decides what it sees before it commits |
| `partner_publish_events` | `Publish`, and `Maintained` inside every claim: late fan-out of revoked endpoints, retention |
| `claimDelivery` | `Claim` with `Swept` and `Claimable`; `Sweep` when there is nothing |
| `authorizeDelivery` | `Authorize`, `Refused` |
| the POST, `deliver` | `NotSent`, `PostAccepted`, `PostRefused`, with `Verdict` |
| `settleDelivery` | `Settle`, `SettleLost`, `ReceiptReused` (unique index of migration 0079) |
| `revoke`, `partner_replay_delivery` | `Revoke`, `Replay` |
| clock, platform, process | `LeaseElapses`, `BackoffElapses`, `Age`, `Suspend`, `Reactivate`, `Crash` |

### How IntegrationJobs corresponds to the code

`job[j]` is the row of `integration_jobs` of a mirror (a message and one of its
states) or of a reply written in Chatwoot; `map` and `mapped` are what the broker
knows of Chatwoot, `remote` what exists there; `worker[w]` is one `runOnce`.

| code | definitions |
|---|---|
| trigger on `messaging_messages` (dedupe key `message:<id>:<state>`), the reply callback | `Advance` with `Fresh`; `ReplyArrives` |
| `claim` | `Claim` with `Swept`, `Eligible` and `Candidates`; `Sweep` when there is no candidate |
| the context transaction of `mirror` | `ReadContext`, then `Needs` names the next operation |
| `findContact`, `beforeExternal`, `progress` | `FindContact`, `BeforeExternal`, `Progress` |
| `beginChatwootMirrorAttempt`, `failChatwootMirrorAttempt`, `confirmChatwootMirrorAttempt` | `BeginAttempt` with `Begun`, `Failed` and `Resolved`, `ConfirmAttempt` |
| the POSTs | `CallAccepted`, `CallRefused`, `CallUncertain`, the last two with their record kept or lost; the answer is kept by `KeepAnswer` |
| the map of conversations and messages, the PATCH of a status | `MapConversation`, `MapFails`, `Record`, `PatchStatus` |
| `receiveReply` | `ReceiveReply`, `ReadFails` |
| the end of `runOnce` | `Finish`, `Settle` |
| `retryJob`, `reconcileJob`, `setEnabled` | `RetryJob`; `ReconcileRead` and `ReconcileCommit`, its two transactions; `Pause`, `Resume` |
| webhook of Chatwoot, `chatwoot-attendance-store.ts` | `EchoArrives` |
| clock, process | `LeaseElapses`, `BackoffElapses`, `Crash` |

### How InstanceOperations corresponds to the code

`row` is the row of `instances`, `op[r]` the row of `provider_operations` of request
`r` (PENDING, SUCCEEDED, FAILED, UNKNOWN, and `doubt` for `reconciliation_required`),
`call[r]` where that request is between its two transactions.

| code | definitions |
|---|---|
| `createInstance` | `CreateInstance`, `SettleProvision` |
| `connectInstance` | `ConnectInstance` (with `Latest`, `Open`), `SettleConnect` with `ConnectAnswers`; `updatePendingConnectOperation` is its fence |
| `disconnectInstance` | `DisconnectInstance`, which may replace an operation whose lease expired; `SettleDisconnect` |
| `getInstanceStatus` | `PollReads`, then `PollApplies` with `Held`, `Decided`, `Decide`; `isSameInstanceSnapshot` is `fresh`: any other update of the row outdates the polls that read it (`Touch`) |
| `persistConnectionFact` | `ConnectionFact` |
| `setArchived`, `patch` | `Archive`, `Restore`, `Rename` |
| clock, process, `guardOperation` | `LeaseElapses`, `Crash` |

`known`, the connects whose end is certain - answered by the provider, or found
CONNECTED by a poll -, is the only history variable.

### Abstractions

Of the outbox:

- The number of automatic attempts is capped by `MaxAttempts` (6 in the code; 2 in
  the runs: one retry and one exhausted row).
- One attempt of the QR ledger per message: an earlier attempt of a message is
  always REJECTED, which no query looks at.
- Media readiness and the template check are one preflight failure.
- The daily quota, campaign counters, groups (`g3:`), history import, channels
  closed by the lifecycle and conversation cycles are left out; so is the
  `LIMIT 20` of one recovery pass.
- An admission is one step: that the trigger of migration 0030 locks the row of limits,
  so that two transactions cannot count the same pending messages, is assumed and not
  shown.  `AdmissionRespectsLimit` is about what one transaction admits, retries included.
- Revoking the authority behind a message (campaign, partner key, flow) is
  allowed where it can matter, on messages that are ACCEPTED or may be retried.
- Operators' edits under `expectedRevision` are atomic: a lost race is a refused
  request.

Of bot turns:

- All replies of one turn are one.  They are claimed, retried and settled by the
  outbox; `ReplyMoves` lets them do whatever the outbox can make of them, the safe
  failure that is accepted again (`AGAIN`) included, within `ReplyProtocol`.
- The claim takes the earliest candidate with `FOR UPDATE SKIP LOCKED`; as any row
  may be locked by another claim, it may take any candidate.
- A text, its media and the variables of an engine are not modelled: an engine
  answers, refuses or leaves the matter in doubt.
- Sessions and epochs of attendance are left out, except for what they do to jobs,
  replies and modes; so is the takeover by the desk's own assistant.

Of webhook deliveries:

- Payloads, signatures, secrets and their rotation are left out; `POST` is answered
  by 2xx or by anything else, in receipt mode perhaps with a receipt that was given
  before.
- Endpoints exist from the start (registration only adds one), a maintenance pass
  has no `LIMIT 500`, and channels are not deleted with their events.
- A receipt that was given before may belong to any delivery, of the model or not.
- `MaxAttempts` is 10 in the code, 3 in the run; `MaxReplays` bounds the
  replays, which the code does not.

Of the Chatwoot queue:

- Historical imports, groups, the exception for campaigns, changes of destination or
  owner and conversation cycles are left out, as are the states READ and
  FAILED.
- A read and the `beforeExternal` behind it are one step, and so are a `progress` and
  the `beforeExternal` behind it; a refused or uncertain POST and
  `failChatwootMirrorAttempt` are one step, with both outcomes of the latter: the
  attempt is recorded, or the record fails, its error is dropped (line 712 of
  `chatwoot-worker.ts`) and the attempt stays DISPATCHED.
- "Less than 20 s of lease left" and "lease ended" are one flag.
- One reconciliation at a time.
- Of the attempts of one mirror only the last is kept, and `begun` orders those of a
  message by `created_at`: an echo without proof waits for the newest open one.  An
  earlier attempt of the same mirror that stayed open was that of a refused POST: it
  explains no message, and `reconcileJob` only asks whether one of them is CONFIRMED.
- That a telephone has one contact in Chatwoot is Chatwoot's own rule (external).
- A mirror whose attempt is never confirmed stays UNKNOWN and fences its contact: the
  code has no evidence to close it with, so neither has the model.

Of instances:

- An operation is a request that reached its provider: replays, requests that join an
  operation (202) and refused requests (conflict, suspension, limits, no engine) are
  stutters.
- The order of `created_at` is the order of creation, and `updated_at` differs after
  every update: two updates within one millisecond are left out.
- The answer of a provider and the transaction that settles it are one step; until then
  the call is under way, and a crash or an engine changed meanwhile loses it.
- A poll of Evolution never reports AWAITING_ACTION; a webhook without a time has
  time 0.
- Archiving also needs automation and desk unlinked from the channel: a request
  before that is refused.  Deletion and the engine's own binding are left out.
- A behaviour is bounded by its operations and `MaxClock`, not by `MaxFaults`: crashes,
  stalls, polls, renames and archiving come at any time.

Of the first four: `MaxFaults` bounds how often the environment disturbs a run (crashes,
takeovers, suspensions, lost consent or channel, lowered limits, revocations...).
The proofs hold for every value.

## 3. Runs

| run | instance | shows |
|---|---|---|
| `OutboxMeta` | 2 messages of one META conversation, the first automated, 2 worker turns, limit 2, 1 disturbance, fairness | `AtMostOnce`, `FailedIsFinal`, `ConversationOrder`, `ArrivesInOrder`, `ReceiptsConverge`, `StateFollowsTable`, `AdmissionRespectsLimit`, `FrontMoves`, `SendingEnds` |
| `OutboxQr` | 1 message of a QR channel and 1 typed on the phone, 2 worker turns, 2 disturbances, fairness | `Inductive`, `OwnEchoNeverExternal`, `KeepsPromise` and `KeepsReplyProtocol` (refinements), `BlockEnds`, and `SendingEnds`, ended by the recovery of the ledger |
| `OutboxTakeover` | expected violation of `TakeoverFreesOperator` | finding 1 |
| `OutboxLimit` | expected violation of `LimitStopsOnlyAdmissions` | finding 2 |
| `BotTypebot` | QR, 2 messages of one conversation, 2 workers, Typebot that a flow may replace, 3 disturbances, fairness | `OneVoice`, `HeardInOrder`, `KeepsReplyProtocol` (refinement), `AskedAgainOnlyWhenPutBack`, `WaitingHasBot`, `BotInductive`, `RunningEnds`, `WaitingEnds` |
| `BotMeta` | META, 3 messages in 2 conversations, native flow that automations may replace, 1 disturbance | `SessionOfBot`, `NoneWaitsUnderHuman` with hand-offs, windows and stamps ahead of the clock |
| `BotResume` | expected violation of `ResumeHolds` | finding 3 |
| `Partner` | 1 delivery in receipt mode, 2 workers, 3 attempts, 1 replay, 3 disturbances, fairness | `PostsAreCounted`, `HolderIsCurrent`, `PartnerInductive`, `KeepsWebhookPromise` (refinement), and `DeliveryEnds` with late fan-out, retention, suspension and rolled-back settlements |
| `Mirrors` | 1 outgoing message with its 3 mirrors, a reply, 2 turns, 1 disturbance, fairness | `MirrorsInductive`, `JobPostsOnce`, `UncertainFences`, `OwnEchoNeverHuman`, `MirrorsAreTrue`, `JobsServed` |
| `MirrorTwice` | expected violation of `MirroredOnce` | finding 4 |
| `Instances` | 1 instance with 2 connects, 2 disconnects and a poll, 2 source times; crashes, stalls, webhooks, archiving and renames without bound | `ConnectsApart`, `ArchivedIsQuiet`, `DisconnectingIsOwned`, `OperationsEnd` |
| `InstanceArchive` | expected violation of `ConfirmedEndsDisconnects` | finding 5 |

The `...Inductive` invariants contain the type invariant of their module.

Why the bounds are enough: all races of the protocol are between two turns on one
message (stale and fresh lease) or between neighbours in one conversation
(order), hence two messages and two turns; two disturbances are, for example,
a stall past the lease and a takeover in one behaviour.  Where a run also checks
liveness one disturbance must do; the safety properties it checks are proved for every
number of them.
For bot turns the same holds, with a third message where a second conversation must
go on beside a blocked one, and a second bot so that a turn of the old one can
answer to the new; three disturbances are, for example, a takeover, a return to the
bot and another takeover or a crash.  For deliveries a stale and a fresh claim of one
row are two workers; two rows share only the endpoint, its revocation and its
receipts - and a receipt of another row is there without that row (`ReceiptReused`) -, so
one row is enough.
For the QR ledger one message suffices: attempts and observations block a conversation
as a whole, and the order of several messages is in `OutboxMeta` and in the proofs.
For the mirrors, the jobs of one contact that race are those of one message and its
replies; the one disturbance is a crash, a stall, a 429 (whose record may be lost, so that
a second attempt of the mirror, or one of a sibling, meets the stale one), a lost answer or
a pause.  What several of them do together is in `MirrorTwice` and in the proofs.
One contact does not show that a fence leaves the others alone.  `MirrorsServed.cfg`, an
instance of `MCMirrors` that is not among the runs of PROJECT.json, has two contacts with a
received message each, a reply, two turns and one disturbance: TLC finds `JobsServed` true there
(91 027 states), and violated when `Eligible` is changed to refuse every mirror while any
contact has an uncertain one.
For instances, the latest operation of a kind and one before it are what the code tells
apart, hence two of each; one poll is enough, as the first one that is applied
outdates all others.  The operations of a kind are interchangeable (symmetry).
`CHECK_DEADLOCK FALSE` where every message may be decided and every disturbance
used up: then nothing is left to do.  `OutboxQr` and `Instances` check deadlock as
well.

Fairness of the outbox (`Fairness`): the loop of the worker calls every step again and again
(weak fairness of a turn's steps, of a sweep and of the recovery); HTTP clients
have deadlines, so an answer or a timeout comes; `ORDER BY available_at` lets each
waiting candidate be the oldest one again and again (strong fairness of the claim
per message); time passes (expiry of leases nobody attends, end of backoffs).
Nothing is assumed of operators, of late decisions of the provider, of receipts or
of echoes.
A META message that ends UNKNOWN holds back its conversation until a receipt decides it:
the code stops there on purpose, and `Front` does not count what is behind it.

Fairness of bot turns: a started turn goes on (its engine answers or its HTTP client
times out; the transactions end), the loop claims again and again and commits its
sweep, and leases end.  Claims are fair as a whole, not per message.  No fairness of
crashes, of the settlement of echoes, of operators or of the reply: `HeldBack` names
what may keep a waiting message waiting.

Fairness of deliveries: `worker.ts` scans all tenants in a loop and runs the
maintenance in each scan (weak fairness of `Publish`, `Sweep` and of a turn's steps;
the POST has a deadline of ten seconds); `ORDER BY available_at` makes every delivery the
oldest one again and again (strong fairness of its claim); leases and backoffs end.
`DeliveryEnds` is about tenants that are not suspended for ever.

Fairness of mirrors: the timer calls `runOnce` again and again and a turn goes on, as
every request has a deadline; leases nobody attends and backoffs end.  The operator and
the callbacks of Chatwoot are under no obligation: `JobsServed` names what may keep a
job waiting (a pause, or an uncertain mirror of its contact).

`InstanceOperations` has no fairness and no liveness property: nothing in the code is
bound to take an operation up again.  Polls come from operators' screens, and
`reconciliation/reconcile-provisioning.ts`, which would repair a provision in doubt, is
tested but imported by no other module.

### Findings

1. **A safe failure survives the takeover** (`OutboxTakeover`).  The test calls it
   "cancela replies automaticas pendentes ao assumir HUMAN sem bloquear template do
   operador"; `setConversationMode` cancels what is ACCEPTED, but a FAILED message
   that waits for its automatic retry becomes ACCEPTED afterwards, cannot be
   claimed in HUMAN mode, and holds back the operator's messages.
2. **A retry at the pending limit stops the tenant** (`OutboxLimit`).
   `docs/operations/saas-enforcement.md` promises that a lowered plan keeps the
   records and only blocks new admissions; the automatic retry counts as an
   admission inside `claimOutgoing` and aborts the whole claim at every tick.
3. **An old hand-off takes the conversation again** (`BotResume`).
   `docs/operations/meta-typebot.md:29` offers "Assumir / retomar bot"; but
   `settleHandoffs` looks for flow sessions in state `handoff` whatever bot the channel
   has, and only binding another flow deletes them.  After a flow handed over and a
   Typebot replaced it, every return to the bot is undone by the next tick.
4. **A reconciled mirror is POSTed again** (`MirrorTwice`).  The contract
   (`docs/broker-jrc-conclusao/17-CONTRATO-COMUM-CHATWOOT-20261102.md:33`) says that
   retries keep identity and that no second POST resolves an UNKNOWN.  Each state of a
   message has a mirror of its own: an older one is put back by a 429, the next one is
   CONFIRMED but its worker dies before `chatwoot_messages` is written.  `reconcileJob`
   keeps the remote id in the payload of that one job; the older mirror is claimed
   first, finds nothing and POSTs the message again.
5. **A confirmed disconnection stays open** (`InstanceArchive`).
   `apps/web/src/pages/ChannelDetail.tsx:18` asks the operator "Desconecte o WhatsApp e
   confirme o status antes de arquivar."  If the lease of a disconnection expires and a
   poll finds the phone not yet DISCONNECTED, the operation becomes UNKNOWN.  A later
   poll that confirms DISCONNECTED decides pending disconnections only; nothing ever
   closes the UNKNOWN one, and archiving is refused as CHANNEL_HAS_PENDING_WORK for ever.

## 4. Proofs

Assumptions: the named `ASSUME`s of the modules (in `MessagingOutbox`, messages are a finite set
of naturals, kinds are subsets of them, bounds are naturals); nothing about the
number of messages, conversations, workers or disturbances.

### The outbox

`AtMostOnce` is not inductive: that a stale worker cannot POST again follows from
what its turn may rely on.  `Inductive` adds, to the type invariant,

- `RowsFollowState`: a row exists exactly for the messages still to be handled;
- `LeasesAgree`: leases, retry marks and provider ids only where the state allows;
- `WireAgrees`: how many POSTs may be open or accepted in each state;
- `TurnsAgree`: whoever was authorised to send holds the lease of a SENDING
  message, or the message was given up as UNKNOWN - and there is one such turn;
- `OrderKept`: what is ahead of a leased message is settled, and admission is in
  order;
- `LedgerAgrees`: attempts of the QR ledger match the states.

`MessagingOutboxProofs` shows that `Init` establishes `Inductive` and that every
action preserves it - one step per action, one lemma for what a sweep does to one
message (`SweptMessage`) and one for a settlement - and derives `AtMostOnce`,
`FailedIsFinal`, `ConversationOrder`, `RowsFollowState` and `LedgerAgrees`.
`MessagingOutboxPromise` classifies what a step does to one message
(`MessageStep`: `EachMessage` proves that every step does one of these), and
derives `StateFollowsTable`, `ReceiptsConverge`, `OwnEchoNeverExternal` and
`Spec => Ledger!Spec`, the refinement of `DeliveryLedger`.

`MessagingOutboxGuarantees` proves three more.

- `AdmissionRespectsLimit` counts messages over a whole transaction, and a claim may
  re-arm any number of them.  `StepAdmits` names the messages a step makes pending
  (`AdmittedSet`); what the trigger of migration 0030 compared was the cardinality of
  the old pending messages and these, so the new one is no larger.  No invariant is
  needed beyond `Inductive`, but the theorems on finite sets are.
- `ArrivesInOrder` is about the wire, not the queue, and is not inductive:
  `claimOutgoing` looks at what is ahead once, and the POST may leave after the lease
  is gone.  `HandedInOrder` says of every message that was handed over (SENDING,
  UNKNOWN or on the wire) that each one ahead of it is `Past`: admitted, and in no
  state that would hold anything back.  `PastStays` shows that no step brings such a
  message back, `OnlyLeasedIsHanded` that only a message whose order was checked gets
  handed over; `WireAgrees` of `Inductive` then turns `Past` into "not on the wire".
- `KeepsReplyProtocol`: `StepDecides` says what each step does to one automated message
  (`BotDecides`), one lemma for what a settlement of the ledger does; the refinement
  maps the states of message and row to those of the protocol.

### Bot turns

`BotInductive` says, beside the properties, why no two turns of a conversation meet:
`OneOpen` (a conversation has one job at most that is RUNNING or UNKNOWN: the claim
refuses both), `TurnsAgree` (a busy worker holds its job, or the job was given up as
UNKNOWN, and who holds it uses the bot of the channel) and `TurnsApart` (no two
workers are at one job) give `OneVoice`.  `ReceivedInOrder` and `ClaimedInOrder` give
`HeardInOrder`: what is before a claimed message is over and cannot come back, because
only the open job of a conversation is ever put back.  `AsksAgree` counts for
`AskedAgainOnlyWhenPutBack`.

`BotTurnsProofs` splits the invariant in `Structure` (jobs and turns) and `Voice`
(sessions and replies).  Most steps are not of a worker in its turn: what they may do
to a job is `Benign` (nothing, or take it from whoever waits for it or holds it), so one
lemma (`BenignKeeps`) serves a dozen actions.  The steps of a turn - claim, ask, go on,
leave, end - have a lemma for the structure and one for the types and the voice.
`BotStep` puts them together, and carries `Heard`, the step of `HeardInOrder`, along.
`RepliesAreProtected` is the other side of the protocol: each step does to the reply of
a message what `ReplyStep` allows, and whoever sets the mode to HUMAN cancels what is
queued in the same transaction (`CanceledReply`).

### Webhook deliveries

`PostsAreCounted` is not inductive either: that a stalled worker does not POST a claim
twice needs that its claim is nobody else's.  `PartnerInductive` adds `TurnsApart`
(claims of one delivery are unique among turns, because `lifetime_attempts` only
grows), `RowsAgree` (claims never exceed `MaxAttempts` per replay plus the attempts of
the current cycle; RUNNING only at a live endpoint, CANCELLED only at a revoked one) and
`HolderCounts` (the holder of the unexpired lease has the row's numbers).
`PartnerDeliveriesProofs` shows it inductive, one lemma for what maintenance and sweep
do to one row and one step per action, and derives `PostsAreCounted`,
and `HolderIsCurrent`.

`PromiseIsKept` is the refinement of `WebhookPromise`: DELIVERED only of what the partner
acknowledged, CANCELLED only of a revoked endpoint, nothing dropped before retention,
FAILED reopened by a replay only, and at most `MaxAttempts` POSTs for each cycle that was
granted.  `EachRow` shows of every step what it does to one row (`RowStep`), `EachPost`
what it does to its POSTs (`PostStep`), one case per action; a step of the abstract
specification needs both of every delivery, as maintenance moves many rows at once.
That retention drops only what was committed, and that only what was committed is
claimed, is `Committed`, an invariant of its own; that POSTs stay within the cycles follows from `PostsAreCounted`, as the numbers of
claims are distinct (`CountUpTo`).

### The Chatwoot queue

That a mirror POSTs once cannot be read off its attempt alone: a worker past its lease
may still hold the connection open, and an operator may reconcile in between.
`MirrorsInductive` says who may be in which position:

- `OneRunning`, `OneUncertain`: one job of the connection runs, and of a contact at most
  one is RUNNING or UNKNOWN;
- `UndecidedStays`: a mirror whose POST took effect or is in flight, and whose payload
  does not say how it ended, is RUNNING before its answer or UNKNOWN - never PENDING.  An
  open attempt alone proves nothing: that of a refused POST stays DISPATCHED beside a
  PENDING or FAILED job when its record is lost;
- `AttemptsTrue`, `AnswersTrue`: a CONFIRMED attempt and an answer on its way name the
  message that this mirror POSTed, and what was POSTed has an attempt that is CONFIRMED or
  `Awaited` - open, and the newest of its message, so that an echo finds it and not a
  stale one of a sibling;
- `PostsTrue`: who waits for an answer is alone, with a DISPATCHED attempt that is
  `Awaited`;
- `ReviewTrue`: the operator's review, between its two transactions, adds the evidence it
  needs; `EchoesTrue`: an echo that waits belongs to the attempt it waits for.

`IntegrationJobsProofs` shows it inductive, one step per action, and derives
`PostsOnce`, `OwnEchoNeverTaken` and `FencesHold`.

`IntegrationJobsTruth` proves `MirrorsAreTrue`: the success of a mirror is decided by a
turn that read the map, kept answers and waited for requests in between, or by one that
an operator's evidence let start again.  `MapsKnown` strengthens it: every remote
identifier that a payload, a turn or a review carries is in Chatwoot, a turn past
`Record` has its message mapped, and a mirror of a state other than ACCEPTED exists only
once that state was reached - which is why the early exit of `mirror` for an undecided
message ends only mirrors of ACCEPTED.  The argument is by growth: `EachGrows` shows that
Chatwoot, the map of messages and the states of messages only grow, so what is known
stays known (`TruthStep`), and each step need only account for what it writes.
TLC checked `MapsKnown` on the instance of `Mirrors` before it was proved, and the
invariants of the run on that instance with two disturbances as well (1 978 550 states).

### Instances

Why no second connection is begun while the first may still go on: `connectInstance`
looks at the last one only, and webhooks, polls and disconnections change the status
under it.  `InstanceInductive` adds, to the properties,

- `RowsAgree`: a row exists exactly for the requests that were made, creation times are
  apart, and an archived instance has no poll that still counts;
- `DoubtAgrees`: a connection that is closed and free of doubt is known, and a
  provision under way is pending.

If the last connection is closed and free of doubt, it is known, and the earlier ones are
by `ConnectsApart`: so all are when the next one begins (`LatestDecides`).  Only the
last connection can be open, so nothing else is decided by a poll.
`InstanceOperationsProofs` shows it inductive, one lemma per action and two for what
beginning and settling an operation have in common, and derives `ConnectsStayApart`,
`ArchivedStaysQuiet`, `DisconnectingStaysOwned` and `EndedOperationsRest`.  The run
checks its parts; the strengthening is proved.

### Only model-checked

The liveness properties (`FrontMoves`, `SendingEnds`, `BlockEnds`, `RunningEnds`,
`WaitingEnds`, `DeliveryEnds`, `JobsServed`): they need fairness and ENABLED, which the provers do
not handle.  Every safety property that a passing run checks is a theorem.  The
five violations are counterexamples.  No module declares a RECURSIVE operator, so
nothing stands in the way of later proofs.

## 5. Plan

Done: the outbox with its ledger and refinement, bot turns, webhook deliveries, the
Chatwoot queue, instances, and their proofs.  Next, in this order (the most state shared with what is modelled first):

| module | code | what it must show |
|---|---|---|
| `PartnerCursor` | `partner_publish_events` numbering, polling, retention (migration 0070) | a client that follows the cursor skips no event, whatever the order of commits; theorem: published numbers have no late holes |
| `TenantAdmission` | triggers of migrations 0011, 0030, 0049, `tenancy/` | concurrent admissions never exceed a limit; lowering one loses nothing |
| `Handoff` | `attendance/control-service.ts`, `transition.ts` | epochs of control grow, one owner per epoch, stale commands change nothing; composed with `BotTurns` |
| `CentralDispatch` | `central-dispatcher.ts`, `channels/` | exactly one path owns a channel in every phase of the cutover |
| `AutomationRuns` | `automations/` executions, waits, effects, budgets | an effect happens once, budgets are not overdrawn |
| `RefreshRotation` | `auth/refresh.ts` | reuse revokes a family only when it is reuse |
| `Lifecycle`, `EvolutionFleet`, `HistoryImport`, `MediaCustody` | the modules of these names | purge leaves nothing, capacity is not exceeded, imports resume, no live reference to a deleted object |

Theorems worth proving next: that a mirror of the Chatwoot queue implements an abstract
mirror as deliveries implement `WebhookPromise`; the cursor's no-skip theorem; one owner
per epoch.

## 6. Not modelled, and why

Web application, contracts, security and UI packages: presentation, schemas and
cryptography without a protocol of their own.  Read models (facts, directory, overview,
audit, observability): they follow the state that is modelled.  CRUD under revisions
(organizations, memberships, users, plans, keys): one guarded UPDATE each, where the
revision is the whole argument.  Adapters of providers, HTTP, SQL and AI: I/O and
formats; the outbox models their outcomes.  Plugins that run beside the providers are
not part of the broker.  The reconciliation of provisioning is not started by any
command.  Everything else of the inventory is in the plan.
