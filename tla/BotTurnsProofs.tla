--------------------------- MODULE BotTurnsProofs ---------------------------
(***************************************************************************)
(* Theorems about BotTurns for every set of messages, conversations,       *)
(* workers and bots.                                                       *)
(***************************************************************************)
EXTENDS BotTurns, TLAPS

---------------------------------------------------------------------------
(* What a step may do to a job while no turn begins or ends: nothing, or   *)
(* take it from whoever waits for it or holds it.                          *)

Calm(r, s) ==
    /\ s.asked = r.asked /\ s.reopened = r.reopened
    /\ \/ s.status = r.status /\ s.holder = r.holder
       \/ r.status = "PENDING" /\ s.status \in {"PAUSED", "FAILED"} /\ s.holder = None
       \/ r.status = "RUNNING" /\ s.status = "UNKNOWN" /\ s.holder = None

\* The same reply, or one that moves on and does not wait.
Hushed(r, s) ==
    /\ s.by = r.by
    /\ s.reply = r.reply \/ (r.reply # "NONE" /\ s.reply # "ACCEPTED")

\* The constraint messaging_bot_jobs_lease_pair of one job.
Paired(r) == r.status = "RUNNING" <=> r.holder # None

LEMMA Values ==
    /\ NoJob \in Job /\ Paired(NoJob)
    /\ NewChat \in Chat
    /\ Idle \in Turn
BY DEF NoJob, Job, Paired, NewChat, Chat, Idle, Turn, Statuses, Replies

\* Putting a job into a status that nobody holds keeps everything else of it.
LEMMA PutValue ==
    ASSUME NEW r \in Job, NEW s \in Statuses
    PROVE  /\ Put(r, s) \in Job
           /\ Put(r, s).status = s /\ Put(r, s).holder = None
           /\ Put(r, s).asked = r.asked /\ Put(r, s).reopened = r.reopened
           /\ Put(r, s).reply = r.reply /\ Put(r, s).by = r.by
BY DEF Put, Job

\* What an operation on one job promises.
Benign(r, s) == s \in Job /\ (Paired(r) => Paired(s)) /\ Calm(r, s) /\ Hushed(r, s)

LEMMA CanceledBenign == \A r \in Job : Benign(r, Canceled(r))
BY DEF Canceled, Benign, Job, Paired, Calm, Hushed, Replies

LEMMA CanceledValue ==
    ASSUME NEW r \in Job
    PROVE  /\ Canceled(r).status = r.status /\ Canceled(r).holder = r.holder
           /\ Canceled(r).asked = r.asked /\ Canceled(r).reopened = r.reopened
           /\ Canceled(r).reply # "ACCEPTED"
           /\ Canceled(r).reply # "NONE" => r.reply # "NONE"
BY DEF Canceled, Job

\* Putting a job down is benign wherever the operation that does it may.
LEMMA PutBenign ==
    ASSUME NEW r \in Job, NEW s \in Statuses, Put(r, s) \in Job,
           \/ r.status = "PENDING" /\ s \in {"PAUSED", "FAILED"}
           \/ r.status = "RUNNING" /\ s = "UNKNOWN"
    PROVE  Benign(r, Put(r, s)) /\ Put(r, s).status = s
<1> DEFINE p == Put(r, s)
<1>1. /\ p.status = s /\ p.holder = None /\ p.by = r.by /\ p.reply = r.reply
      /\ p.asked = r.asked /\ p.reopened = r.reopened
  BY DEF Put, Job
<1>2. p \in Job
  OBVIOUS
<1> HIDE DEF p
<1>3. Paired(p) /\ Calm(r, p) /\ Hushed(r, p)
  BY <1>1 DEF Paired, Calm, Hushed
<1>4. Benign(r, p)
  BY <1>2, <1>3 DEF Benign
<1> QED
  BY <1>1, <1>4 DEF p

LEMMA BenignThenCanceled ==
    ASSUME NEW r \in Job, NEW p \in Job, Benign(r, p) PROVE Benign(r, Canceled(p))
<1>1. PICK c \in Job : c = Canceled(p)
  BY CanceledBenign DEF Benign
<1>2. /\ c.status = p.status /\ c.holder = p.holder /\ c.by = p.by
      /\ c.asked = p.asked /\ c.reopened = p.reopened
      /\ c.reply = p.reply \/ (p.reply \in {"ACCEPTED", "AGAIN"} /\ c.reply = "GONE")
  BY <1>1 DEF Canceled, Job
<1>3. Calm(r, c)
  BY <1>2 DEF Benign, Calm
<1>4. Hushed(r, c) /\ (Paired(r) => Paired(c))
  BY <1>2 DEF Benign, Hushed, Paired
<1> QED
  BY <1>1, <1>3, <1>4 DEF Benign

LEMMA InterruptedBenign ==
    ASSUME NEW r \in Job
    PROVE  /\ Benign(r, Interrupted(r))
           /\ Interrupted(r).status \notin {"PENDING", "RUNNING"}
           /\ Benign(r, Canceled(Interrupted(r)))
           /\ Canceled(Interrupted(r)).status \notin {"PENDING", "RUNNING"}
<1>1. "PAUSED" \in Statuses /\ "UNKNOWN" \in Statuses
  BY DEF Statuses
<1>2. Put(r, "PAUSED") \in Job /\ Put(r, "UNKNOWN") \in Job
  BY <1>1, PutValue
<1>3. CASE r.status = "PENDING"
  <2>1. Interrupted(r) = Put(r, "PAUSED")
    BY <1>3 DEF Interrupted
  <2> QED
    BY <1>1, <1>3, <1>2, <2>1, PutBenign, BenignThenCanceled, CanceledValue
<1>4. CASE r.status = "RUNNING"
  <2>1. Interrupted(r) = Put(r, "UNKNOWN")
    BY <1>4 DEF Interrupted
  <2> QED
    BY <1>1, <1>4, <1>2, <2>1, PutBenign, BenignThenCanceled, CanceledValue
<1>5. CASE r.status \notin {"PENDING", "RUNNING"}
  <2>1. Interrupted(r) = r
    BY <1>5 DEF Interrupted
  <2> QED
    BY <1>5, <2>1, CanceledBenign DEF Benign, Paired, Calm, Hushed, Canceled
<1> QED
  BY <1>3, <1>4, <1>5

LEMMA SweptBenign ==
    ASSUME TypeOK, NEW m \in Message
    PROVE  /\ Benign(job[m], Swept(m)) /\ Paired(job[m])
           /\ Swept(m).reply = job[m].reply
<1> DEFINE r == job[m]
<1>1. r \in Job /\ Paired(r)
  BY DEF TypeOK, Paired
<1>2. /\ Put(r, "UNKNOWN") \in Job /\ Put(r, "PAUSED") \in Job /\ Put(r, "FAILED") \in Job
  BY <1>1, PutValue DEF Statuses
<1>3. CASE r.status = "RUNNING" /\ r.expired
  <2>1. Swept(m) = Put(r, "UNKNOWN")
    BY <1>3 DEF Swept
  <2> QED
    BY <1>1, <1>2, <1>3, <2>1 DEF Put, Job, Benign, Paired, Calm, Hushed
<1>4. CASE ~(r.status = "RUNNING" /\ r.expired) /\ Swept(m) # r
  <2>1. r.status = "PENDING" /\ Swept(m) \in {Put(r, "PAUSED"), Put(r, "FAILED")}
    BY <1>4 DEF Swept
  <2> QED
    <3>1. ASSUME NEW s \in {"PAUSED", "FAILED"}, Swept(m) = Put(r, s)
          PROVE  Benign(r, Swept(m)) /\ Swept(m).reply = r.reply
      <4>1. s \in Statuses /\ Put(r, s) \in Job
        BY <1>1, PutValue DEF Statuses
      <4>2. Put(r, s).reply = r.reply
        BY <1>1 DEF Put, Job
      <4> QED
        BY <1>1, <2>1, <3>1, <4>1, <4>2, PutBenign
    <3> QED
      BY <1>1, <2>1, <3>1
<1>5. CASE Swept(m) = r
  BY <1>1, <1>5 DEF Benign, Paired, Calm, Hushed
<1> QED
  BY <1>3, <1>4, <1>5

---------------------------------------------------------------------------
(* The parts of the inductive invariant.                                    *)

\* Who has which turn, in which order.
Structure ==
    /\ ReceivedInOrder /\ OneOpen /\ TurnsAgree /\ TurnsApart
    /\ AsksAgree /\ ClaimedInOrder /\ AskedAgainOnlyWhenPutBack /\ WaitingHasBot

\* Which sessions and replies are stored.
Voice == SessionOfBot /\ RepliesHaveTurns /\ NoneWaitsUnderHuman

LEMMA Parts == BotInductive <=> TypeOK /\ Structure /\ Voice
BY DEF BotInductive, Structure, Voice

LEMMA TypedJobs ==
    ASSUME TypeOK
    PROVE  /\ \A m \in Message : job[m] \in Job /\ Paired(job[m])
           /\ \A c \in Conversation : chat[c] \in Chat
           /\ \A w \in Worker : turn[w] \in Turn
           /\ \A m \in Message : ConversationOf[m] \in Conversation /\ m \in Nat
BY MessageAssumption DEF TypeOK, Paired

\* Calm steps keep the structure while no turn begins or ends.
LEMMA CalmKeeps ==
    ASSUME TypeOK, Structure,
           \A m \in Message : Calm(job[m], job'[m]),
           turn' = turn,
           \/ bot' = bot
           \/ \A m \in Message : job'[m].status \notin {"PENDING", "RUNNING"}
    PROVE  Structure'
<1>1. \A m \in Message : job[m] \in Job /\ Paired(job[m])
  BY TypedJobs
<1>2. ReceivedInOrder'
  BY DEF Structure, ReceivedInOrder, Calm, Mates
<1>3. OneOpen'
  <2>1. \A m \in Message : Open(m)' => Open(m)
    BY DEF Open, Calm
  <2> QED
    BY <2>1 DEF Structure, OneOpen, Mates
<1>4. TurnsAgree'
  <2> SUFFICES ASSUME NEW w \in Worker, Busy(w)
               PROVE  /\ turn[w].message \in Message
                      /\ turn[w].step # "idle"
                      /\ Owns(w)' \/ job'[turn[w].message].status = "UNKNOWN"
                      /\ Owns(w)' => turn[w].bot = bot'
    BY DEF TurnsAgree, Busy
  <2>1. /\ turn[w].message \in Message /\ turn[w].step # "idle"
        /\ Owns(w) \/ job[turn[w].message].status = "UNKNOWN"
        /\ Owns(w) => turn[w].bot = bot
    BY DEF Structure, TurnsAgree
  <2>2. Calm(job[turn[w].message], job'[turn[w].message])
    BY <2>1
  <2>3. Owns(w)' => Owns(w)
    BY <2>1, <2>2, NoneAssumption DEF Owns, Holds, Calm
  <2>4. Owns(w) => Owns(w)' \/ job'[turn[w].message].status = "UNKNOWN"
    BY <2>2 DEF Owns, Holds, Calm
  <2>5. job[turn[w].message].status = "UNKNOWN" => job'[turn[w].message].status = "UNKNOWN"
    BY <2>2 DEF Calm
  <2>6. Owns(w)' => bot' = bot
    BY <2>1 DEF Owns, Holds
  <2> QED
    BY <2>1, <2>3, <2>4, <2>5, <2>6
<1>5. TurnsApart'
  BY DEF Structure, TurnsApart, Busy
<1>6. AsksAgree'
  <2>1. \A m \in Message : job'[m].status \in {"NEW", "PENDING"} =>
                             job'[m].asked <= job'[m].reopened
    BY DEF Structure, AsksAgree, Calm
  <2>2. ASSUME NEW w \in Worker, turn[w].step = "claimed"
        PROVE  job'[turn[w].message].asked <= job'[turn[w].message].reopened
    <3>1. Busy(w)
      BY <2>2 DEF Busy, Idle
    <3>2. turn[w].message \in Message
      BY <3>1 DEF Structure, TurnsAgree
    <3> QED
      BY <2>2, <3>2 DEF Structure, AsksAgree, Calm
  <2> QED
    BY <2>1, <2>2 DEF AsksAgree
<1>7. ClaimedInOrder'
  <2>1. \A m \in Message : Settled(m) => Settled(m)'
    BY DEF Settled, Calm
  <2> SUFFICES ASSUME NEW w \in Worker, turn[w].step = "claimed",
                      NEW k \in Mates(turn[w].message), k < turn[w].message
               PROVE  Settled(k)'
    BY DEF ClaimedInOrder, Mates
  <2>2. Settled(k)
    BY DEF Structure, ClaimedInOrder
  <2> QED
    BY <2>1, <2>2 DEF Mates
<1>8. AskedAgainOnlyWhenPutBack'
  BY DEF Structure, AskedAgainOnlyWhenPutBack, Calm
<1>9. WaitingHasBot'
  BY DEF Structure, WaitingHasBot, Calm
<1> QED
  BY <1>2, <1>3, <1>4, <1>5, <1>6, <1>7, <1>8, <1>9 DEF Structure

\* A worker that leaves its turn without touching the job.
LEMMA LeaveKeeps ==
    ASSUME TypeOK, Structure, NEW w \in Worker,
           turn' = [turn EXCEPT ![w] = Idle], job' = job, bot' = bot
    PROVE  Structure'
<1>1. ReceivedInOrder' /\ OneOpen' /\ AskedAgainOnlyWhenPutBack' /\ WaitingHasBot'
  BY DEF Structure, ReceivedInOrder, OneOpen, Open, AskedAgainOnlyWhenPutBack, WaitingHasBot, Mates
<1>2. \A v \in Worker : Busy(v)' => v # w /\ Busy(v) /\ turn'[v] = turn[v]
  BY DEF Busy, TypeOK
<1>3. \A v \in Worker : turn'[v].step = "claimed" => v # w /\ turn'[v] = turn[v]
  BY DEF TypeOK, Idle
<1>4. TurnsAgree' /\ TurnsApart'
  BY <1>2 DEF Structure, TurnsAgree, TurnsApart, Owns, Holds
<1>5. AsksAgree' /\ ClaimedInOrder'
  BY <1>3 DEF Structure, AsksAgree, ClaimedInOrder, Settled, Mates
<1> QED
  BY <1>1, <1>4, <1>5 DEF Structure

\* A worker that goes on with its turn.
LEMMA GoOnKeeps ==
    ASSUME TypeOK, Structure, NEW w \in Worker, Busy(w), NEW t \in Turn,
           turn' = [turn EXCEPT ![w] = t], t.step \notin {"idle", "claimed"},
           t.message = turn[w].message, t.bot = turn[w].bot,
           job' = job, bot' = bot
    PROVE  Structure'
<1>1. ReceivedInOrder' /\ OneOpen' /\ AskedAgainOnlyWhenPutBack' /\ WaitingHasBot'
  BY DEF Structure, ReceivedInOrder, OneOpen, Open, AskedAgainOnlyWhenPutBack, WaitingHasBot, Mates
<1>2. \A v \in Worker : Busy(v)' => Busy(v) /\ turn'[v].message = turn[v].message
                                    /\ turn'[v].bot = turn[v].bot
  BY DEF Busy, TypeOK
<1>3. \A v \in Worker : turn'[v].step = "claimed" => v # w /\ turn'[v] = turn[v]
  BY DEF TypeOK
<1>4. \A v \in Worker : Busy(v)' => turn'[v].step # "idle"
  BY <1>2 DEF TypeOK, Structure, TurnsAgree
<1>5. TurnsAgree' /\ TurnsApart'
  BY <1>2, <1>4 DEF Structure, TurnsAgree, TurnsApart, Owns, Holds
<1>6. AsksAgree' /\ ClaimedInOrder'
  BY <1>3 DEF Structure, AsksAgree, ClaimedInOrder, Settled, Mates
<1> QED
  BY <1>1, <1>5, <1>6 DEF Structure

\* Who is busy has an open turn, so two busy workers are in two conversations.
LEMMA Alone ==
    ASSUME TypeOK, Structure, NEW v \in Worker, NEW w \in Worker, v # w, Busy(v), Busy(w)
    PROVE  ConversationOf[turn[v].message] # ConversationOf[turn[w].message]
<1>1. /\ turn[v].message \in Message /\ Open(turn[v].message)
      /\ turn[w].message \in Message /\ Open(turn[w].message)
  BY DEF Structure, TurnsAgree, Owns, Holds, Open
<1>2. turn[v].message # turn[w].message
  BY DEF Structure, TurnsApart
<1> QED
  BY <1>1, <1>2 DEF Structure, OneOpen, Mates

Same(r, s) == s.status = r.status /\ s.holder = r.holder
                /\ s.asked = r.asked /\ s.reopened = r.reopened

\* A job whose turn ends under its owner.
Ended(r, s) ==
    /\ s.status \in {"PENDING", "PAUSED", "FAILED", "COMPLETED", "UNKNOWN"}
    /\ s.holder = None /\ s.asked = r.asked
    /\ s.reopened = IF s.status = "PENDING" THEN r.reopened + 1 ELSE r.reopened

LEMMA EndKeeps ==
    ASSUME TypeOK, Structure, NEW w \in Worker, Busy(w), Owns(w),
           Ended(job[turn[w].message], job'[turn[w].message]),
           \A k \in Message \ {turn[w].message} : Same(job[k], job'[k]),
           turn' = [turn EXCEPT ![w] = Idle], bot' = bot
    PROVE  Structure'
<1> DEFINE m == turn[w].message
<1>1. /\ m \in Message /\ job[m].status = "RUNNING" /\ job[m] \in Job
      /\ \A k \in Message : job[k] \in Job
  BY TypedJobs DEF Structure, TurnsAgree, Owns, Holds
<1>2. \A v \in Worker : Busy(v)' => /\ v # w /\ Busy(v) /\ turn'[v] = turn[v]
                                    /\ turn[v].message \in Message \ {m}
  BY DEF Busy, TypeOK, Structure, TurnsAgree, TurnsApart
<1>3. \A k \in Message : Open(k)' => Open(k)
  BY <1>1 DEF Open, Same, Ended
<1>4. ReceivedInOrder'
  <2>1. \A k \in Message : job'[k].status = "NEW" <=> job[k].status = "NEW"
    BY <1>1 DEF Same, Ended
  <2> QED
    BY <2>1 DEF Structure, ReceivedInOrder, Mates
<1>5. OneOpen'
  BY <1>3 DEF Structure, OneOpen, Mates
<1>6. TurnsAgree'
  <2> SUFFICES ASSUME NEW v \in Worker, Busy(v)'
               PROVE  /\ turn'[v].message \in Message
                      /\ turn'[v].step # "idle"
                      /\ Owns(v)' \/ job'[turn'[v].message].status = "UNKNOWN"
                      /\ Owns(v)' => turn'[v].bot = bot'
    BY DEF TurnsAgree
  <2>1. turn'[v] = turn[v] /\ Busy(v) /\ Same(job[turn[v].message], job'[turn[v].message])
    BY <1>2
  <2> QED
    BY <2>1, <1>2 DEF Structure, TurnsAgree, Owns, Holds, Same
<1>7. TurnsApart'
  BY <1>2 DEF Structure, TurnsApart
<1>8. AsksAgree'
  <2>1. ASSUME NEW k \in Message, job'[k].status \in {"NEW", "PENDING"}
        PROVE  job'[k].asked <= job'[k].reopened
    <3>1. CASE k = m
      <4>1. job[m].asked <= 1 + job[m].reopened
        BY <1>1 DEF Structure, AskedAgainOnlyWhenPutBack
      <4>2. job'[m].status = "PENDING"
        BY <3>1, <2>1 DEF Ended
      <4>3. job'[m].asked = job[m].asked /\ job'[m].reopened = job[m].reopened + 1
        BY <4>2 DEF Ended
      <4> QED
        BY <3>1, <4>1, <4>3, <1>1 DEF Job
    <3>2. CASE k # m
      BY <2>1, <3>2 DEF Same, Structure, AsksAgree
    <3> QED
      BY <3>1, <3>2
  <2>2. ASSUME NEW v \in Worker, turn'[v].step = "claimed"
        PROVE  job'[turn'[v].message].asked <= job'[turn'[v].message].reopened
    <3>1. Busy(v)'
      BY <2>2 DEF Busy, Idle
    <3>2. turn'[v] = turn[v] /\ Same(job[turn[v].message], job'[turn[v].message])
      BY <3>1, <1>2
    <3> QED
      BY <2>2, <3>2 DEF Same, Structure, AsksAgree
  <2> QED
    BY <2>1, <2>2 DEF AsksAgree
<1>9. ClaimedInOrder'
  <2> SUFFICES ASSUME NEW v \in Worker, turn'[v].step = "claimed",
                      NEW k \in Mates(turn'[v].message), k < turn'[v].message
               PROVE  Settled(k)'
    BY DEF ClaimedInOrder, Mates
  <2>1. Busy(v)'
    BY DEF Busy, Idle
  <2>2. v # w /\ turn'[v] = turn[v] /\ Busy(v)
    BY <2>1, <1>2
  <2>3. k \in Message /\ k # m
    BY <2>2, Alone DEF Mates
  <2>4. Settled(k)
    BY <2>2 DEF Structure, ClaimedInOrder
  <2> QED
    BY <2>3, <2>4 DEF Settled, Same
<1>10. AskedAgainOnlyWhenPutBack'
  <2> SUFFICES ASSUME NEW k \in Message PROVE job'[k].asked <= 1 + job'[k].reopened
    BY DEF AskedAgainOnlyWhenPutBack
  <2>1. job[k].asked <= 1 + job[k].reopened /\ job[k].asked \in Nat /\ job[k].reopened \in Nat
    BY <1>1 DEF Structure, AskedAgainOnlyWhenPutBack, Job
  <2> QED
    BY <2>1 DEF Ended, Same
<1>11. WaitingHasBot'
  <2>1. bot # None
    BY <1>1 DEF Structure, WaitingHasBot
  <2> QED
    BY <2>1 DEF WaitingHasBot
<1> QED
  BY <1>4, <1>5, <1>6, <1>7, <1>8, <1>9, <1>10, <1>11 DEF Structure

\* A turn that asks its engine, once.
LEMMA AskKeeps ==
    ASSUME TypeOK, Structure, NEW w \in Worker, turn[w].step = "claimed",
           NEW s \in {"asking", "answered"}, Asks(w, s)
    PROVE  Structure'
<1> DEFINE m == turn[w].message
<1>1. Busy(w) /\ m \in Message
  BY DEF Busy, Idle, Structure, TurnsAgree
<1>2. /\ \A k \in Message : job[k] \in Job
      /\ job' = [job EXCEPT ![m].asked = job[m].asked + 1]
  BY TypedJobs DEF Asks
<1>3. \A k \in Message :
        /\ job'[k].status = job[k].status /\ job'[k].holder = job[k].holder
        /\ job'[k].reopened = job[k].reopened
        /\ k # m => job'[k].asked = job[k].asked
        /\ job'[m].asked = job[m].asked + 1
  BY <1>1, <1>2 DEF TypeOK, Job
<1>4. \A v \in Worker : /\ turn'[v].message = turn[v].message
                        /\ turn'[v].bot = turn[v].bot
                        /\ turn'[v].step = IF v = w THEN s ELSE turn[v].step
  BY DEF Asks, Step, TypeOK, Turn
<1>5. \A v \in Worker : Busy(v)' => Busy(v)
  BY <1>1 DEF Asks, Step, TypeOK, Busy
<1>6. ReceivedInOrder' /\ OneOpen' /\ WaitingHasBot'
  BY <1>3 DEF Structure, ReceivedInOrder, OneOpen, Open, WaitingHasBot, Mates, Asks
<1>7. TurnsApart'
  BY <1>4, <1>5 DEF Structure, TurnsApart
<1>8. TurnsAgree'
  <2>1. bot' = bot
    BY DEF Asks
  <2> QED
    BY <1>3, <1>4, <1>5, <2>1 DEF Structure, TurnsAgree, Owns, Holds
<1>9. job[m].asked <= job[m].reopened
  BY DEF Structure, AsksAgree
<1>10. AskedAgainOnlyWhenPutBack'
  <2> SUFFICES ASSUME NEW k \in Message PROVE job'[k].asked <= 1 + job'[k].reopened
    BY DEF AskedAgainOnlyWhenPutBack
  <2>1. job[k].asked \in Nat /\ job[k].reopened \in Nat /\ job[k].asked <= 1 + job[k].reopened
    BY <1>2 DEF Job, Structure, AskedAgainOnlyWhenPutBack
  <2> QED
    BY <2>1, <1>3, <1>9
<1>11. AsksAgree'
  <2>1. job[m].status \notin {"NEW", "PENDING"}
    BY <1>1 DEF Structure, TurnsAgree, Owns, Holds
  <2>2. \A v \in Worker : turn'[v].step = "claimed" =>
           v # w /\ turn[v].step = "claimed" /\ turn[v].message # m /\ turn[v].message \in Message
    BY <1>1, <1>4 DEF Busy, Idle, Structure, TurnsApart, TurnsAgree
  <2> QED
    BY <1>3, <1>4, <2>1, <2>2 DEF Structure, AsksAgree
<1>12. ClaimedInOrder'
  BY <1>3, <1>4 DEF Structure, ClaimedInOrder, Settled, Mates
<1> QED
  BY <1>6, <1>7, <1>8, <1>10, <1>11, <1>12 DEF Structure

\* A claim takes the earliest job of a conversation without an open turn.
LEMMA ClaimKeeps ==
    ASSUME TypeOK, Structure, NEW w \in Worker, NEW m \in Message, ClaimBotTurn(w, m)
    PROVE  Structure'
<1>1. /\ \A k \in Message : job[k] \in Job /\ Paired(job[k])
      /\ \A k \in Message : k \in Nat
      /\ \A k \in Message : Benign(job[k], Swept(k))
  BY TypedJobs, SweptBenign
<1>2. /\ Swept(m).status = "PENDING" /\ job[m].status = "PENDING"
      /\ \A k \in Mates(m) : Swept(k).status \notin {"RUNNING", "UNKNOWN"}
      /\ \A k \in Mates(m) : k < m => Swept(k).status # "PENDING"
  BY <1>1 DEF ClaimBotTurn, Candidate, Benign, Calm
<1>3. /\ job'[m].status = "RUNNING" /\ job'[m].holder = w
      /\ job'[m].asked = job[m].asked /\ job'[m].reopened = job[m].reopened
  <2>1. job'[m] = [Put(job[m], "RUNNING") EXCEPT !.holder = w]
    BY DEF ClaimBotTurn
  <2> QED
    BY <1>1, <2>1 DEF Put, Job
<1>4. \A k \in Message : k # m => Calm(job[k], job'[k]) /\ job'[k] = Swept(k)
  BY <1>1 DEF ClaimBotTurn, Benign
<1>5. /\ \A v \in Worker : v # w => turn'[v] = turn[v]
      /\ turn'[w].step = "claimed" /\ turn'[w].message = m /\ turn'[w].bot = bot
      /\ ~Busy(w) /\ bot' = bot /\ w # None
  BY NoneAssumption DEF ClaimBotTurn, TypeOK, Busy
<1>6. \A v \in Worker : v # w /\ Busy(v)' => /\ Busy(v) /\ turn[v].message \in Message
                                             /\ turn[v].message # m
  BY <1>2, <1>5 DEF Busy, Structure, TurnsAgree, Owns, Holds
<1>7. ReceivedInOrder'
  <2>1. \A k \in Message : job'[k].status = "NEW" <=> job[k].status = "NEW"
    BY <1>2, <1>3, <1>4 DEF Calm
  <2> QED
    BY <2>1 DEF Structure, ReceivedInOrder, Mates
<1>8. OneOpen'
  <2>1. \A k \in Message : k # m => (Open(k)' => Open(k))
    BY <1>4 DEF Open, Calm
  <2>2. \A k \in Mates(m) : k # m => ~Open(k)'
    BY <1>2, <1>4 DEF Open, Mates
  <2> QED
    BY <2>1, <2>2 DEF Structure, OneOpen, Mates
<1>9. TurnsAgree'
  <2> SUFFICES ASSUME NEW v \in Worker, Busy(v)'
               PROVE  /\ turn'[v].message \in Message
                      /\ turn'[v].step # "idle"
                      /\ Owns(v)' \/ job'[turn'[v].message].status = "UNKNOWN"
                      /\ Owns(v)' => turn'[v].bot = bot'
    BY DEF TurnsAgree
  <2>1. CASE v = w
    BY <2>1, <1>3, <1>5 DEF Owns, Holds
  <2>2. CASE v # w
    <3>1. /\ turn'[v] = turn[v] /\ Busy(v) /\ turn[v].message \in Message
          /\ Calm(job[turn[v].message], job'[turn[v].message])
      BY <2>2, <1>4, <1>5, <1>6
    <3> QED
      BY <3>1, <1>5, NoneAssumption DEF Structure, TurnsAgree, Owns, Holds, Calm
  <2> QED
    BY <2>1, <2>2
<1>10. TurnsApart'
  BY <1>5, <1>6 DEF Structure, TurnsApart
<1>11. AsksAgree'
  <2>1. job[m].asked <= job[m].reopened
    BY <1>2 DEF Structure, AsksAgree
  <2>2. \A k \in Message : job'[k].status \in {"NEW", "PENDING"} => job'[k].asked <= job'[k].reopened
    BY <1>3, <1>4 DEF Structure, AsksAgree, Calm
  <2>3. ASSUME NEW v \in Worker, turn'[v].step = "claimed"
        PROVE  job'[turn'[v].message].asked <= job'[turn'[v].message].reopened
    <3>1. CASE v = w
      BY <3>1, <2>1, <1>3, <1>5
    <3>2. CASE v # w
      <4>1. turn'[v] = turn[v] /\ Busy(v)' /\ turn[v].step = "claimed"
        BY <3>2, <2>3, <1>5 DEF Busy, Idle
      <4>2. Calm(job[turn[v].message], job'[turn[v].message])
        BY <4>1, <3>2, <1>4, <1>6
      <4> QED
        BY <4>1, <4>2 DEF Structure, AsksAgree, Calm
    <3> QED
      BY <3>1, <3>2
  <2> QED
    BY <2>2, <2>3 DEF AsksAgree
<1>12. ClaimedInOrder'
  <2> SUFFICES ASSUME NEW v \in Worker, turn'[v].step = "claimed",
                      NEW k \in Mates(turn'[v].message), k < turn'[v].message
               PROVE  Settled(k)'
    BY DEF ClaimedInOrder, Mates
  <2>1. CASE v = w
    <3>1. k \in Mates(m) /\ k < m /\ k # m
      BY <2>1, <1>1, <1>5 DEF Mates
    <3>2. job'[k] = Swept(k) /\ Swept(k).status \notin {"RUNNING", "UNKNOWN", "PENDING"}
      BY <3>1, <1>2, <1>4 DEF Mates
    <3>3. Swept(k).status # "NEW"
      <4>1. job[k].status # "NEW"
        BY <3>1, <1>2 DEF Structure, ReceivedInOrder
      <4> QED
        BY <4>1, <3>1, <1>1 DEF Benign, Calm, Mates
    <3>4. Swept(k).status \in Statuses
      BY <3>1, <1>1 DEF Benign, Job, Mates
    <3> QED
      BY <3>2, <3>3, <3>4 DEF Settled, Statuses
  <2>2. CASE v # w
    <3>1. turn'[v] = turn[v] /\ turn[v].step = "claimed"
      BY <2>2, <1>5
    <3>2. k \in Message /\ Settled(k)
      BY <3>1 DEF Structure, ClaimedInOrder, Mates
    <3>3. k # m
      BY <3>2, <1>2 DEF Settled
    <3> QED
      BY <3>2, <3>3, <1>4 DEF Settled, Calm
  <2> QED
    BY <2>1, <2>2
<1>13. AskedAgainOnlyWhenPutBack'
  BY <1>3, <1>4 DEF Structure, AskedAgainOnlyWhenPutBack, Calm
<1>14. WaitingHasBot'
  <2>1. bot # None
    BY <1>2 DEF Structure, WaitingHasBot
  <2> QED
    BY <2>1, <1>5 DEF WaitingHasBot
<1> QED
  BY <1>7, <1>8, <1>9, <1>10, <1>11, <1>12, <1>13, <1>14 DEF Structure

\* A received message starts unasked, behind everything of its conversation.
LEMMA ReceiveKeeps ==
    ASSUME TypeOK, Structure, NEW m \in Message, Receive(m)
    PROVE  Structure'
<1>1. /\ \A k \in Message : job[k] \in Job /\ k \in Nat
      /\ job[m].status = "NEW"
      /\ \A k \in Mates(m) : k < m => job[k].status # "NEW"
  BY TypedJobs DEF Receive
<1>2. /\ job'[m].status \in {"PENDING", "NONE"} /\ job'[m].holder = None
      /\ job'[m].status = "PENDING" => bot # None
      /\ job'[m].asked = job[m].asked /\ job'[m].reopened = job[m].reopened
  <2>1. PICK window \in {"OPEN", "AHEAD"} :
          job'[m] = [Put(job[m], IF ChatOf(m).mode = "BOT" /\ bot # None THEN "PENDING" ELSE "NONE")
                       EXCEPT !.window = window]
    BY DEF Receive, TypeOK
  <2> QED
    BY <1>1, <2>1 DEF Put, Job
<1>3. \A k \in Message : k # m => job'[k] = job[k]
  BY DEF Receive, TypeOK
<1>4. turn' = turn /\ bot' = bot
  BY DEF Receive
<1>5. \A v \in Worker : Busy(v) => turn[v].message \in Message /\ turn[v].message # m
  BY <1>1 DEF Structure, TurnsAgree, Owns, Holds
<1>6. ReceivedInOrder'
  <2>1. \A k \in Message : job'[k].status # "NEW" <=> (k = m \/ job[k].status # "NEW")
    BY <1>2, <1>3
  <2> QED
    BY <2>1, <1>1 DEF Structure, ReceivedInOrder, Mates
<1>7. OneOpen'
  BY <1>2, <1>3 DEF Structure, OneOpen, Open, Mates
<1>8. TurnsAgree' /\ TurnsApart'
  BY <1>3, <1>4, <1>5 DEF Structure, TurnsAgree, TurnsApart, Owns, Holds, Busy
<1>9. AsksAgree'
  <2>1. \A v \in Worker : turn[v].step = "claimed" => Busy(v)
    BY DEF Busy, Idle
  <2>2. job[m].asked <= job[m].reopened
    BY <1>1 DEF Structure, AsksAgree
  <2> QED
    BY <2>1, <2>2, <1>2, <1>3, <1>4, <1>5 DEF Structure, AsksAgree
<1>10. ClaimedInOrder'
  <2>1. \A k \in Message : Settled(k) => Settled(k)'
    BY <1>1, <1>3 DEF Settled
  <2> QED
    BY <2>1, <1>4 DEF Structure, ClaimedInOrder, Mates
<1>11. AskedAgainOnlyWhenPutBack'
  BY <1>2, <1>3 DEF Structure, AskedAgainOnlyWhenPutBack
<1>12. WaitingHasBot'
  BY <1>2, <1>3, <1>4 DEF Structure, WaitingHasBot
<1> QED
  BY <1>6, <1>7, <1>8, <1>9, <1>10, <1>11, <1>12 DEF Structure

---------------------------------------------------------------------------
(* Asking in order.                                                         *)

\* The step of HeardInOrder.
Heard ==
    \A m \in Message :
        job'[m].asked > job[m].asked =>
          \A k \in Mates(m) : k < m => job[k].status \notin {"PENDING", "RUNNING", "UNKNOWN"}

LEMMA NobodyAsks ==
    ASSUME TypeOK, \A m \in Message : job'[m].asked = job[m].asked PROVE Heard
<1>1. \A m \in Message : job[m].asked \in Nat
  BY TypedJobs DEF Job
<1> QED
  BY <1>1 DEF Heard

---------------------------------------------------------------------------
(* Steps that are not of a worker in its turn.                              *)

LEMMA BenignKeeps ==
    ASSUME BotInductive,
           job' = [m \in Message |-> job'[m]],
           \A m \in Message : Benign(job[m], job'[m]),
           chat' \in [Conversation -> Chat],
           \A c \in Conversation : chat'[c].session = chat[c].session,
           \A m \in Message : job'[m].reply = "ACCEPTED" => chat'[ConversationOf[m]].mode = "BOT",
           tenant' \in [active: BOOLEAN, enabled: BOOLEAN], faults' \in Nat,
           turn' = turn, bot' = bot
    PROVE  BotInductive' /\ Heard
<1>1. TypeOK /\ Structure /\ Voice
  BY Parts
<1>2. \A m \in Message : job[m] \in Job /\ Paired(job[m])
  BY <1>1, TypedJobs
<1>3. TypeOK'
  <2>1. \A m \in Message : job'[m] \in Job /\ Paired(job'[m])
    BY <1>2 DEF Benign
  <2>2. job' \in [Message -> Job]
    BY <2>1
  <2> QED
    BY <1>1, <2>1, <2>2 DEF TypeOK, Paired
<1>4. Structure'
  BY <1>1, CalmKeeps DEF Benign
<1>5. Voice'
  BY <1>1 DEF Benign, Calm, Hushed, Voice, SessionOfBot, RepliesHaveTurns, NoneWaitsUnderHuman, ChatOf
<1>6. Heard
  BY <1>1, NobodyAsks DEF Benign, Calm
<1> QED
  BY <1>3, <1>4, <1>5, <1>6 DEF BotInductive, Structure, Voice

\* A job that stays as it is.
LEMMA StillBenign == \A r \in Job : Benign(r, r)
BY DEF Benign, Calm, Hushed

LEMMA DisturbTyped == ASSUME TypeOK, Disturb PROVE faults' \in Nat
BY DEF TypeOK, Disturb

\* Waiting replies of a typed, spoken conversation belong to BOT mode.
LEMMA Waiting ==
    ASSUME BotInductive, NEW m \in Message, job[m].reply = "ACCEPTED"
    PROVE  chat[ConversationOf[m]].mode = "BOT" /\ job[m].by = bot
BY DEF BotInductive, NoneWaitsUnderHuman, ChatOf

LEMMA HumanTyped ==
    \A s \in Chat : Human(s) \in Chat /\ Human(s).session = s.session
BY DEF Human, Chat

\* What else happens to a conversation keeps its session, and BOT mode.
LEMMA ChatValues ==
    ASSUME NEW s \in Chat, NEW b \in BOOLEAN
    PROVE  \A t \in {[s EXCEPT !.mode = "BOT", !.owed = FALSE], [s EXCEPT !.barred = b],
                     [s EXCEPT !.blocked = b], [s EXCEPT !.revoked = b]} :
              t \in Chat /\ t.session = s.session /\ (s.mode = "BOT" => t.mode = "BOT")
BY DEF Chat

\* Steps that stop a conversation and make it human.
LEMMA StopKeeps ==
    ASSUME BotInductive, NEW S \in SUBSET Conversation,
           job' \in {[m \in Message |-> IF ConversationOf[m] \in S
                                        THEN Canceled(Interrupted(job[m])) ELSE job[m]],
                     [m \in Message |-> IF ConversationOf[m] \in S
                                        THEN Canceled(job[m]) ELSE job[m]]},
           chat' \in [Conversation -> Chat],
           \A c \in Conversation : /\ chat'[c].session = chat[c].session
                                   /\ c \notin S => chat'[c].mode = chat[c].mode,
           tenant' = tenant, faults' \in Nat, turn' = turn, bot' = bot
    PROVE  BotInductive' /\ Heard
<1>1. \A m \in Message : job[m] \in Job /\ ConversationOf[m] \in Conversation
  BY TypedJobs DEF BotInductive
<1>2. \A m \in Message : Benign(job[m], job'[m])
  BY <1>1, StillBenign, CanceledBenign, InterruptedBenign
<1>3. \A r \in Job : Canceled(r).reply # "ACCEPTED"
  BY DEF Canceled, Job
<1>4. \A m \in Message : Interrupted(job[m]) \in Job
  BY <1>1, InterruptedBenign DEF Benign
<1>5. \A m \in Message : job'[m].reply = "ACCEPTED" => chat'[ConversationOf[m]].mode = "BOT"
  BY <1>1, <1>3, <1>4, Waiting
<1>6. job' = [m \in Message |-> job'[m]]
  OBVIOUS
<1>7. tenant' \in [active: BOOLEAN, enabled: BOOLEAN]
  BY DEF BotInductive, TypeOK
<1> QED
  BY <1>2, <1>5, <1>6, <1>7, BenignKeeps

LEMMA TakeOverKeeps ==
    ASSUME BotInductive, NEW c \in Conversation,
           TakeOver(c) \/ DeskReply(c) \/ EchoWasTyped(c)
    PROVE  BotInductive' /\ Heard
<1>1. TypeOK /\ \A d \in Conversation : chat[d] \in Chat
  BY TypedJobs DEF BotInductive
<1>2. faults' \in Nat
  BY <1>1, DisturbTyped DEF TakeOver, DeskReply, EchoWasTyped, TypeOK
<1>3. job' \in {[m \in Message |-> IF ConversationOf[m] \in {c}
                                   THEN Canceled(Interrupted(job[m])) ELSE job[m]],
                [m \in Message |-> IF ConversationOf[m] \in {c}
                                   THEN Canceled(job[m]) ELSE job[m]]}
  BY DEF TakeOver, DeskReply, EchoWasTyped, Stopped
<1>4. /\ chat' \in [Conversation -> Chat]
      /\ \A d \in Conversation : /\ chat'[d].session = chat[d].session
                                 /\ d \notin {c} => chat'[d].mode = chat[d].mode
  <2>1. PICK s \in Chat : chat' = [chat EXCEPT ![c] = s] /\ s.session = chat[c].session
    <3>1. /\ Human(chat[c]) \in Chat /\ Human(chat[c]).session = chat[c].session
          /\ [Human(chat[c]) EXCEPT !.blocked = FALSE] \in Chat
          /\ [Human(chat[c]) EXCEPT !.blocked = FALSE].session = chat[c].session
      <4>1. chat[c] \in Chat /\ FALSE \in BOOLEAN
        BY <1>1
      <4>2. PICK h \in Chat : h = Human(chat[c]) /\ h.session = chat[c].session
        BY <4>1, HumanTyped
      <4>3. [h EXCEPT !.blocked = FALSE] \in Chat /\ [h EXCEPT !.blocked = FALSE].session = h.session
        BY DEF Chat
      <4> QED
        BY <4>2, <4>3
    <3>2. CASE TakeOver(c) \/ DeskReply(c)
      BY <3>1, <3>2 DEF TakeOver, DeskReply
    <3>3. CASE EchoWasTyped(c)
      BY <3>1, <3>3 DEF EchoWasTyped
    <3> QED
      BY <3>2, <3>3
  <2> QED
    BY <1>1, <2>1 DEF TypeOK
<1> QED
  BY <1>2, <1>3, <1>4, StopKeeps DEF TakeOver, DeskReply, EchoWasTyped

LEMMA SettleHandoffsKeeps == ASSUME BotInductive, SettleHandoffs PROVE BotInductive' /\ Heard
<1> DEFINE S == {c \in Conversation : ToSettle(c)}
<1>1. TypeOK /\ (\A c \in Conversation : chat[c] \in Chat)
      /\ \A m \in Message : ConversationOf[m] \in Conversation
  BY TypedJobs DEF BotInductive
<1>2. job' = [m \in Message |-> IF ConversationOf[m] \in S THEN Canceled(job[m]) ELSE job[m]]
  BY <1>1 DEF SettleHandoffs
<1>3. /\ chat' \in [Conversation -> Chat]
      /\ \A c \in Conversation : /\ chat'[c].session = chat[c].session
                                 /\ c \notin S => chat'[c].mode = chat[c].mode
  BY <1>1, HumanTyped DEF SettleHandoffs
<1>4. faults' \in Nat
  BY <1>1 DEF SettleHandoffs, TypeOK
<1> HIDE DEF S
<1>5. S \in SUBSET Conversation
  BY DEF S
<1> QED
  BY <1>2, <1>3, <1>4, <1>5, StopKeeps DEF SettleHandoffs

\* Steps that touch conversations, the tenant or one job, and nobody's turn.
LEMMA ConversationKeeps ==
    ASSUME BotInductive, NEW c \in Conversation,
           ResumeBot(c) \/ SetConsent(c) \/ ObserveEcho(c) \/ EchoWasOurs(c)
    PROVE  BotInductive' /\ Heard
<1>1. TypeOK /\ (\A d \in Conversation : chat[d] \in Chat)
      /\ \A m \in Message : job[m] \in Job /\ ConversationOf[m] \in Conversation
  BY TypedJobs DEF BotInductive
<1>2. PICK s \in Chat : /\ chat' = [chat EXCEPT ![c] = s]
                        /\ s.session = chat[c].session
                        /\ chat[c].mode = "BOT" => s.mode = "BOT"
  <2>1. CASE ResumeBot(c)
    <3>1. chat' = [chat EXCEPT ![c] = [chat[c] EXCEPT !.mode = "BOT", !.owed = FALSE]]
      BY <1>1, <2>1 DEF ResumeBot, TypeOK
    <3> QED
      BY <1>1, <3>1, ChatValues
  <2>2. CASE SetConsent(c)
    <3>1. PICK b \in BOOLEAN : chat' = [chat EXCEPT ![c] = [chat[c] EXCEPT !.barred = b]]
      BY <1>1, <2>2 DEF SetConsent, TypeOK
    <3> QED
      BY <1>1, <3>1, ChatValues
  <2>3. CASE ObserveEcho(c) \/ EchoWasOurs(c)
    <3>1. PICK b \in BOOLEAN : chat' = [chat EXCEPT ![c] = [chat[c] EXCEPT !.blocked = b]]
      BY <1>1, <2>3 DEF ObserveEcho, EchoWasOurs, TypeOK
    <3> QED
      BY <1>1, <3>1, ChatValues
  <2> QED
    BY <2>1, <2>2, <2>3
<1>3. job' = job /\ bot' = bot /\ turn' = turn /\ tenant' = tenant
  BY DEF ResumeBot, SetConsent, ObserveEcho, EchoWasOurs
<1>4. faults' \in Nat
  BY <1>1, DisturbTyped DEF ResumeBot, SetConsent, ObserveEcho, EchoWasOurs, TypeOK
<1>5. /\ chat' \in [Conversation -> Chat]
      /\ \A d \in Conversation : chat'[d].session = chat[d].session
      /\ \A d \in Conversation : chat[d].mode = "BOT" => chat'[d].mode = "BOT"
  BY <1>1, <1>2 DEF TypeOK
<1>6. \A m \in Message : job'[m].reply = "ACCEPTED" => chat'[ConversationOf[m]].mode = "BOT"
  BY <1>1, <1>3, <1>5, Waiting
<1>7. /\ job' = [m \in Message |-> job'[m]]
      /\ \A m \in Message : Benign(job[m], job'[m])
  BY <1>1, <1>3, StillBenign DEF TypeOK
<1> QED
  BY <1>1, <1>3, <1>4, <1>5, <1>6, <1>7, BenignKeeps DEF TypeOK

LEMMA TenantKeeps ==
    ASSUME BotInductive, SwitchFlows \/ SuspendOrReactivate PROVE BotInductive' /\ Heard
<1>1. TypeOK /\ (\A c \in Conversation : chat[c] \in Chat)
      /\ \A m \in Message : job[m] \in Job /\ ConversationOf[m] \in Conversation
  BY TypedJobs DEF BotInductive
<1>2. faults' \in Nat /\ tenant' \in [active: BOOLEAN, enabled: BOOLEAN]
  BY <1>1, DisturbTyped DEF SwitchFlows, SuspendOrReactivate, TypeOK
<1>3. /\ chat' \in [Conversation -> Chat]
      /\ \A c \in Conversation : /\ chat'[c].session = chat[c].session
                                 /\ chat[c].mode = "BOT" => chat'[c].mode = "BOT"
  <2>1. CASE SwitchFlows
    <3>1. ASSUME NEW c \in Conversation
          PROVE  /\ chat'[c] \in Chat /\ chat'[c].session = chat[c].session
                 /\ chat[c].mode = "BOT" => chat'[c].mode = "BOT"
      <4>1. PICK b \in BOOLEAN : b = (chat[c].flow # "NONE")
        OBVIOUS
      <4>2. chat'[c] = [chat[c] EXCEPT !.revoked = b]
        BY <2>1, <4>1 DEF SwitchFlows
      <4> QED
        BY <1>1, <4>2 DEF Chat
    <3> QED
      BY <2>1, <3>1 DEF SwitchFlows
  <2>2. CASE SuspendOrReactivate
    BY <1>1, <2>2 DEF SuspendOrReactivate, TypeOK
  <2> QED
    BY <2>1, <2>2
<1>4. /\ job' = [m \in Message |-> job'[m]]
      /\ \A m \in Message : Benign(job[m], job'[m]) /\ job'[m].reply = job[m].reply
  <2>1. ASSUME NEW r \in Job, NEW b \in BOOLEAN
        PROVE  Benign(r, [r EXCEPT !.before = b]) /\ [r EXCEPT !.before = b].reply = r.reply
    BY DEF Benign, Job, Paired, Calm, Hushed
  <2>2. CASE SwitchFlows
    BY <1>1, <2>1, <2>2 DEF SwitchFlows
  <2>3. CASE SuspendOrReactivate
    BY <1>1, <2>3, StillBenign DEF SuspendOrReactivate, TypeOK
  <2> QED
    BY <2>2, <2>3
<1>5. \A m \in Message : job'[m].reply = "ACCEPTED" => chat'[ConversationOf[m]].mode = "BOT"
  BY <1>1, <1>3, <1>4, Waiting
<1>6. bot' = bot /\ turn' = turn
  BY DEF SwitchFlows, SuspendOrReactivate
<1> QED
  BY <1>2, <1>3, <1>4, <1>5, <1>6, BenignKeeps

LEMMA OneJobKeeps ==
    ASSUME BotInductive, NEW m \in Message, ReplyMoves(m) \/ LeaseEnds(m) \/ TimePasses(m)
    PROVE  BotInductive' /\ Heard
<1>1. TypeOK /\ \A k \in Message : job[k] \in Job /\ Paired(job[k])
  BY TypedJobs DEF BotInductive
<1>2. PICK r \in Job : /\ job' = [job EXCEPT ![m] = r] /\ Benign(job[m], r)
                       /\ r.reply = "ACCEPTED" => job[m].reply = "ACCEPTED"
  <2>1. CASE LeaseEnds(m)
    <3>1. [job[m] EXCEPT !.expired = TRUE] \in Job
      BY <1>1 DEF Job
    <3> QED
      BY <1>1, <2>1, <3>1 DEF LeaseEnds, Benign, Job, Paired, Calm, Hushed
  <2>2. CASE TimePasses(m)
    <3>1. PICK window \in {"OPEN", "CLOSED"} : job' = [job EXCEPT ![m].window = window]
      BY <2>2 DEF TimePasses
    <3>2. [job[m] EXCEPT !.window = window] \in Job
      BY <1>1 DEF Job
    <3> QED
      BY <1>1, <3>1, <3>2 DEF Benign, Job, Paired, Calm, Hushed
  <2>3. CASE ReplyMoves(m)
    <3>0. PICK next \in ReplyMayBecome[job[m].reply] : job' = [job EXCEPT ![m].reply = next]
      BY <2>3 DEF ReplyMoves
    <3>1. next \in Replies \ {"NONE", "ACCEPTED"} /\ job[m].reply # "NONE"
      <4>1. job[m].reply \in Replies
        BY <1>1 DEF Job
      <4> QED
        BY <3>0, <4>1 DEF ReplyMayBecome, Replies
    <3>2. [job[m] EXCEPT !.reply = next] \in Job
      BY <1>1, <3>1 DEF Job
    <3> QED
      BY <1>1, <3>0, <3>1, <3>2 DEF Benign, Job, Paired, Calm, Hushed
  <2> QED
    BY <2>1, <2>2, <2>3
<1>3. chat' = chat /\ bot' = bot /\ turn' = turn /\ tenant' = tenant /\ faults' = faults
  BY DEF ReplyMoves, LeaseEnds, TimePasses
<1>4. /\ job' = [k \in Message |-> job'[k]]
      /\ \A k \in Message : Benign(job[k], job'[k])
      /\ \A k \in Message : job'[k].reply = "ACCEPTED" => job[k].reply = "ACCEPTED"
  BY <1>1, <1>2, StillBenign DEF TypeOK
<1>5. \A k \in Message : job'[k].reply = "ACCEPTED" => chat'[ConversationOf[k]].mode = "BOT"
  BY <1>3, <1>4, Waiting
<1> QED
  BY <1>1, <1>3, <1>4, <1>5, BenignKeeps DEF TypeOK

LEMMA SweepKeeps == ASSUME BotInductive, Sweep PROVE BotInductive' /\ Heard
<1>1. TypeOK
  BY DEF BotInductive
<1>2. /\ job' = [k \in Message |-> job'[k]]
      /\ \A k \in Message : Benign(job[k], job'[k]) /\ job'[k].reply = job[k].reply
  BY <1>1, SweptBenign DEF Sweep
<1>3. \A k \in Message : job'[k].reply = "ACCEPTED" => chat[ConversationOf[k]].mode = "BOT"
  BY <1>2, Waiting
<1> QED
  BY <1>1, <1>2, <1>3, BenignKeeps DEF Sweep, TypeOK

\* A new bot: nothing waits or runs, no session is left, no reply waits.
LEMMA ChangeBotKeeps ==
    ASSUME BotInductive, NEW b \in Bot \cup {None}, ChangeBot(b) PROVE BotInductive' /\ Heard
<1>1. TypeOK /\ Structure /\ Voice
  BY Parts
<1>2. /\ \A c \in Conversation : chat[c] \in Chat
      /\ \A m \in Message : job[m] \in Job /\ Paired(job[m])
  BY <1>1, TypedJobs
<1>3. \A m \in Message : /\ Benign(job[m], job'[m])
                         /\ job'[m].status \notin {"PENDING", "RUNNING"}
                         /\ job'[m].reply # "ACCEPTED"
  <2>1. \A r \in Job : Canceled(r).reply # "ACCEPTED"
    BY DEF Canceled, Job
  <2>2. \A m \in Message : Interrupted(job[m]) \in Job
    BY <1>2, InterruptedBenign DEF Benign
  <2> QED
    BY <1>2, <2>1, <2>2, InterruptedBenign DEF ChangeBot
<1>4. TypeOK'
  <2>1. job' \in [Message -> Job]
    BY <1>3 DEF ChangeBot, Benign
  <2>2. \A m \in Message : job'[m].status = "RUNNING" <=> job'[m].holder # None
    BY <1>2, <1>3 DEF Benign, Paired
  <2>3. chat' \in [Conversation -> Chat]
    <3>1. \A s \in Chat : /\ [s EXCEPT !.session = None] \in Chat
                          /\ [s EXCEPT !.session = None, !.flow = "NONE",
                                       !.revoked = FALSE, !.owed = FALSE] \in Chat
      BY DEF Chat
    <3> QED
      BY <1>2, <3>1 DEF ChangeBot
  <2> QED
    BY <1>1, <2>1, <2>2, <2>3, DisturbTyped DEF ChangeBot, TypeOK
<1>5. Structure'
  BY <1>1, <1>3, CalmKeeps DEF ChangeBot, Benign
<1>6. Voice'
  <2>1. \A c \in Conversation : chat'[c].session = None
    BY <1>2 DEF ChangeBot, Chat
  <2> QED
    BY <1>1, <1>3, <2>1 DEF Voice, SessionOfBot, RepliesHaveTurns, NoneWaitsUnderHuman,
                            Benign, Calm, Hushed
<1>7. Heard
  BY <1>1, <1>3, NobodyAsks DEF Benign, Calm
<1> QED
  BY <1>4, <1>5, <1>6, <1>7 DEF BotInductive, Structure, Voice

\* Reception.
LEMMA ReceiveTyped == ASSUME BotInductive, NEW m \in Message, Receive(m) PROVE BotInductive' /\ Heard
<1>1. TypeOK /\ Structure /\ Voice
  BY Parts
<1>2. job[m] \in Job /\ job[m].status = "NEW"
  BY <1>1, TypedJobs DEF Receive
<1>3. PICK s \in {"PENDING", "NONE"}, window \in {"OPEN", "AHEAD"} :
         job' = [job EXCEPT ![m] = [Put(job[m], s) EXCEPT !.window = window]]
  BY DEF Receive
<1>4. DEFINE r == [Put(job[m], s) EXCEPT !.window = window]
<1>5. Put(job[m], s) \in Job /\ s \in Statuses
  BY <1>2, PutValue DEF Statuses
<1>6. /\ r \in Job /\ r.status = s /\ r.holder = None
      /\ r.reply = job[m].reply /\ r.by = job[m].by
  BY <1>2, <1>5, PutValue DEF Job
<1>7. TypeOK'
  BY <1>1, <1>3, <1>6 DEF TypeOK, Receive
<1>8. Structure'
  BY <1>1, ReceiveKeeps
<1>9. Voice'
  <2>1. job[m].reply = "NONE"
    BY <1>1, <1>2 DEF Voice, RepliesHaveTurns
  <2>2. /\ job'[m].reply = "NONE"
        /\ \A k \in Message : k # m => job'[k] = job[k]
    BY <1>1, <1>3, <1>6, <2>1 DEF TypeOK
  <2> QED
    BY <1>1, <2>2 DEF Voice, SessionOfBot, RepliesHaveTurns, NoneWaitsUnderHuman, ChatOf, Receive
<1>10. Heard
  <2>1. r.asked = job[m].asked
    BY <1>2, <1>5, PutValue DEF Job
  <2>2. \A k \in Message : job'[k].asked = job[k].asked
    BY <1>1, <1>3, <2>1 DEF TypeOK
  <2> QED
    BY <1>1, <2>2, NobodyAsks
<1> QED
  BY <1>7, <1>8, <1>9, <1>10 DEF BotInductive, Structure, Voice

---------------------------------------------------------------------------
(* Steps of a worker in its turn.                                           *)

\* What the conversations and the replies say does not change.
LEMMA VoiceSame ==
    ASSUME Voice, chat' = chat, bot' = bot,
           \A m \in Message : /\ job'[m].reply = job[m].reply /\ job'[m].by = job[m].by
                              /\ job'[m].reply # "NONE" => job'[m].status = job[m].status
    PROVE  Voice'
BY DEF Voice, SessionOfBot, RepliesHaveTurns, NoneWaitsUnderHuman, ChatOf

LEMMA ClaimTyped ==
    ASSUME BotInductive, NEW w \in Worker, NEW m \in Message, ClaimBotTurn(w, m)
    PROVE  BotInductive' /\ Heard
<1>1. TypeOK /\ Structure /\ Voice
  BY Parts
<1>2. /\ \A k \in Message : job[k] \in Job /\ Paired(job[k])
      /\ \A k \in Message : Benign(job[k], Swept(k)) /\ Swept(k).reply = job[k].reply
      /\ ChatOf(m) \in Chat
  BY <1>1, TypedJobs, SweptBenign DEF ChatOf
<1>3. job[m].status = "PENDING"
  BY <1>2 DEF ClaimBotTurn, Candidate, Benign, Calm
<1>4. /\ job'[m] \in Job /\ Paired(job'[m])
      /\ job'[m].reply = job[m].reply /\ job'[m].by = job[m].by
      /\ job'[m].asked = job[m].asked
  <2>1. job'[m] = [Put(job[m], "RUNNING") EXCEPT !.holder = w]
    BY DEF ClaimBotTurn
  <2>2. PICK p \in Job : /\ p = Put(job[m], "RUNNING") /\ p.status = "RUNNING"
                         /\ p.reply = job[m].reply /\ p.by = job[m].by
                         /\ p.asked = job[m].asked
    BY <1>2, PutValue DEF Statuses
  <2>3. w # None /\ job'[m] = [p EXCEPT !.holder = w]
    BY <2>1, <2>2, NoneAssumption
  <2> QED
    BY <2>2, <2>3 DEF Job, Paired
<1>5. \A k \in Message : k # m => job'[k] = Swept(k)
  BY DEF ClaimBotTurn
<1>6. TypeOK'
  <2>1. \A k \in Message : job'[k] \in Job /\ Paired(job'[k])
    BY <1>2, <1>4, <1>5 DEF Benign
  <2>2. job' \in [Message -> Job]
    BY <2>1 DEF ClaimBotTurn
  <2>3. turn' \in [Worker -> Turn]
    <3>1. [step |-> "claimed", message |-> m, bot |-> bot, session |-> ChatOf(m).session] \in Turn
      BY <1>1, <1>2 DEF Turn, Chat, TypeOK
    <3> QED
      BY <1>1, <3>1 DEF ClaimBotTurn, TypeOK
  <2> QED
    BY <1>1, <2>1, <2>2, <2>3 DEF TypeOK, Paired, ClaimBotTurn
<1>7. Structure'
  BY <1>1, ClaimKeeps
<1>8. Voice'
  <2>1. \A k \in Message : /\ job'[k].reply = job[k].reply /\ job'[k].by = job[k].by
                           /\ job'[k].reply # "NONE" => job'[k].status = job[k].status
    BY <1>1, <1>2, <1>3, <1>4, <1>5
       DEF Voice, RepliesHaveTurns, Benign, Calm, Hushed
  <2> QED
    BY <1>1, <2>1, VoiceSame DEF ClaimBotTurn
<1>9. Heard
  BY <1>1, <1>2, <1>4, <1>5, NobodyAsks DEF Benign, Calm
<1> QED
  BY <1>6, <1>7, <1>8, <1>9 DEF BotInductive, Structure, Voice

LEMMA AskTyped ==
    ASSUME BotInductive, NEW w \in Worker, AskTypebot(w) \/ RouteAutomation(w)
    PROVE  BotInductive' /\ Heard
<1>1. TypeOK /\ Structure /\ Voice
  BY Parts
<1>2. PICK s \in {"asking", "answered"} : Asks(w, s) /\ turn[w].step = "claimed"
  BY DEF AskTypebot, RouteAutomation
<1>3. turn[w].message \in Message /\ \A k \in Message : job[k] \in Job /\ job[k].asked \in Nat
  BY <1>1, <1>2, TypedJobs DEF Structure, TurnsAgree, Busy, Idle, Job
<1>4. /\ \A k \in Message : /\ job'[k].status = job[k].status /\ job'[k].holder = job[k].holder
                            /\ job'[k].reply = job[k].reply /\ job'[k].by = job[k].by
      /\ job' \in [Message -> Job]
  <2>1. [job[turn[w].message] EXCEPT !.asked = job[turn[w].message].asked + 1] \in Job
    BY <1>3 DEF Job
  <2>2. job' = [job EXCEPT ![turn[w].message] =
                  [job[turn[w].message] EXCEPT !.asked = job[turn[w].message].asked + 1]]
    BY <1>2 DEF Asks
  <2> QED
    BY <1>1, <1>3, <2>1, <2>2 DEF TypeOK, Job
<1>5. TypeOK'
  <2>1. [turn[w] EXCEPT !.step = s] \in Turn
    BY <1>1 DEF TypeOK, Turn
  <2> QED
    BY <1>1, <1>2, <1>4, <2>1 DEF TypeOK, Asks, Step
<1>6. Structure'
  BY <1>1, <1>2, AskKeeps
<1>7. Voice'
  BY <1>1, <1>2, <1>4, VoiceSame DEF Asks
<1>8. Heard
  <2>1. \A k \in Message : k # turn[w].message => job'[k].asked = job[k].asked
    BY <1>1, <1>2 DEF Asks, TypeOK
  <2>2. \A k \in Mates(turn[w].message) : k < turn[w].message => Settled(k)
    BY <1>1, <1>2 DEF Structure, ClaimedInOrder
  <2> QED
    BY <1>3, <2>1, <2>2 DEF Heard, Settled
<1> QED
  BY <1>5, <1>6, <1>7, <1>8 DEF BotInductive, Structure, Voice

LEMMA GoOnTyped ==
    ASSUME BotInductive, NEW w \in Worker,
           SessionExpired(w) \/ TypebotAnswers(w) \/ NotAsked(w) \/ AutomationAborts(w)
    PROVE  BotInductive' /\ Heard
<1>1. TypeOK /\ Structure /\ Voice /\ turn[w] \in Turn
  BY Parts, TypedJobs
<1>2. Busy(w)
  BY DEF SessionExpired, TypebotAnswers, NotAsked, AutomationAborts, Busy, Idle
<1>3. PICK t \in Turn : /\ turn' = [turn EXCEPT ![w] = t]
                        /\ t.step \notin {"idle", "claimed"}
                        /\ t.message = turn[w].message /\ t.bot = turn[w].bot
  <2>1. CASE SessionExpired(w)
    <3>1. /\ turn' = [turn EXCEPT ![w] = [turn[w] EXCEPT !.session = None]]
          /\ turn[w].step = "asking"
      BY <2>1 DEF SessionExpired
    <3>2. [turn[w] EXCEPT !.session = None] \in Turn
      BY <1>1 DEF Turn
    <3> QED
      BY <1>1, <3>1, <3>2 DEF Turn
  <2>2. CASE TypebotAnswers(w) \/ NotAsked(w) \/ AutomationAborts(w)
    <3>1. PICK s \in {"answered", "refused", "doubtful"} :
             turn' = [turn EXCEPT ![w] = [turn[w] EXCEPT !.step = s]]
      BY <2>2 DEF TypebotAnswers, NotAsked, AutomationAborts, Step
    <3>2. [turn[w] EXCEPT !.step = s] \in Turn
      BY <1>1 DEF Turn
    <3> QED
      BY <1>1, <3>1, <3>2 DEF Turn
  <2> QED
    BY <2>1, <2>2
<1>4. job' = job /\ chat' = chat /\ bot' = bot /\ tenant' = tenant /\ faults' \in Nat
  BY <1>1, DisturbTyped DEF SessionExpired, TypebotAnswers, NotAsked, AutomationAborts, TypeOK
<1>5. TypeOK'
  BY <1>1, <1>3, <1>4 DEF TypeOK
<1>6. Structure'
  BY <1>1, <1>2, <1>3, <1>4, GoOnKeeps
<1>7. Voice'
  BY <1>1, <1>4, VoiceSame
<1>8. Heard
  BY <1>1, <1>4, NobodyAsks
<1> QED
  BY <1>5, <1>6, <1>7, <1>8 DEF BotInductive, Structure, Voice

LEMMA LeaveTyped ==
    ASSUME BotInductive, NEW w \in Worker, TurnLost(w) \/ FlowLost(w) \/ Crash(w)
    PROVE  BotInductive' /\ Heard
<1>1. TypeOK /\ Structure /\ Voice
  BY Parts
<1>2. /\ turn' = [turn EXCEPT ![w] = Idle]
      /\ job' = job /\ chat' = chat /\ bot' = bot /\ tenant' = tenant /\ faults' \in Nat
  BY <1>1, DisturbTyped DEF TurnLost, FlowLost, Crash, TypeOK
<1>3. TypeOK'
  BY <1>1, <1>2, Values DEF TypeOK
<1>4. Structure'
  BY <1>1, <1>2, LeaveKeeps
<1>5. Voice'
  BY <1>1, <1>2, VoiceSame
<1>6. Heard
  BY <1>1, <1>2, NobodyAsks
<1> QED
  BY <1>3, <1>4, <1>5, <1>6 DEF BotInductive, Structure, Voice

\* A turn that ends under its owner, and what it stores.
LEMMA EndTyped ==
    ASSUME BotInductive, NEW w \in Worker, Busy(w), Owns(w), NEW m \in Message,
           m = turn[w].message,
           job' = [k \in Message |-> job'[k]],
           job'[m] \in Job, Ended(job[m], job'[m]),
           job'[m].reply # "NONE" => job'[m].status = "COMPLETED",
           \A k \in Message \ {m} : Benign(job[k], job'[k]) /\ Same(job[k], job'[k]),
           chat' \in [Conversation -> Chat],
           \A c \in Conversation : chat'[c].session \in {chat[c].session, bot},
           \A k \in Message : job'[k].reply = "ACCEPTED" =>
                                chat'[ConversationOf[k]].mode = "BOT" /\ job'[k].by = bot,
           turn' = [turn EXCEPT ![w] = Idle], bot' = bot, tenant' = tenant, faults' = faults
    PROVE  BotInductive' /\ Heard
<1>1. TypeOK /\ Structure /\ Voice
  BY Parts
<1>2. \A k \in Message : job[k] \in Job /\ Paired(job[k])
  BY <1>1, TypedJobs
<1>3. TypeOK'
  <2>1. Paired(job'[m])
    BY DEF Ended, Paired
  <2>2. \A k \in Message : job'[k] \in Job /\ Paired(job'[k])
    BY <1>2, <2>1 DEF Benign
  <2>3. job' \in [Message -> Job]
    BY <2>2
  <2> QED
    BY <1>1, <2>2, <2>3, Values DEF TypeOK, Paired
<1>4. Structure'
  BY <1>1, EndKeeps
<1>5. SessionOfBot'
  BY <1>1 DEF Voice, SessionOfBot
<1>6. RepliesHaveTurns'
  BY <1>1 DEF Voice, RepliesHaveTurns, Benign, Hushed, Same
<1>7. NoneWaitsUnderHuman'
  BY DEF NoneWaitsUnderHuman, ChatOf
<1>8. Heard
  BY <1>1, NobodyAsks DEF Ended, Same
<1> QED
  BY <1>3, <1>4, <1>5, <1>6, <1>7, <1>8 DEF BotInductive, Structure

LEMMA VerdictValue ==
    \A m \in Message : /\ Verdict(m) \in {"PENDING", "PAUSED", "FAILED", "COMPLETED"}
                       /\ Verdict(m) = "COMPLETED" => ChatOf(m).mode # "HUMAN"
BY DEF Verdict

\* Completion closes the job, and only a completed turn speaks.
LEMMA ClosedValue ==
    ASSUME BotInductive, NEW w \in Worker, Busy(w), Owns(w), NEW says \in BOOLEAN,
           NEW m \in Message, m = turn[w].message
    PROVE  /\ Closed(w, says) \in Job /\ Ended(job[m], Closed(w, says))
           /\ Closed(w, says).status = Verdict(m)
           /\ Closed(w, says).reply \in {"NONE", "ACCEPTED"}
           /\ Closed(w, says).reply = "ACCEPTED" =>
                Verdict(m) = "COMPLETED" /\ says /\ Closed(w, says).by = bot
<1> DEFINE new == Verdict(m) = "COMPLETED" /\ says /\ job[m].reply = "NONE"
<1>1. TypeOK /\ Structure /\ Voice
  BY Parts
<1>2. /\ job[m] \in Job /\ job[m].status = "RUNNING" /\ job[m].reply = "NONE"
      /\ turn[w].bot = bot /\ bot \in Bot \cup {None}
  BY <1>1, TypedJobs DEF Structure, TurnsAgree, Owns, Holds, Voice, RepliesHaveTurns, TypeOK
<1>3. PICK p \in Job : /\ p = Put(job[m], Verdict(m)) /\ p.status = Verdict(m) /\ p.holder = None
                       /\ p.asked = job[m].asked /\ p.reopened = job[m].reopened
                       /\ p.reply = "NONE" /\ p.by = job[m].by
  BY <1>2, VerdictValue, PutValue DEF Statuses
<1>4. Closed(w, says) = [p EXCEPT !.reply = IF new THEN "ACCEPTED" ELSE p.reply,
                                  !.by = IF new THEN bot ELSE p.by,
                                  !.reopened = IF Verdict(m) = "PENDING" THEN p.reopened + 1
                                                                         ELSE p.reopened]
  BY <1>2, <1>3 DEF Closed
<1>5. Closed(w, says) \in Job
  <2>1. (IF new THEN "ACCEPTED" ELSE p.reply) \in Replies
    BY <1>3 DEF Job, Replies
  <2>2. (IF new THEN bot ELSE p.by) \in Bot \cup {None}
    BY <1>2, <1>3 DEF Job
  <2>3. (IF Verdict(m) = "PENDING" THEN p.reopened + 1 ELSE p.reopened) \in Nat
    BY <1>3 DEF Job
  <2> QED
    BY <1>4, <2>1, <2>2, <2>3 DEF Job
<1>6. /\ Closed(w, says).status = p.status /\ Closed(w, says).holder = None
      /\ Closed(w, says).asked = p.asked
      /\ Closed(w, says).reopened = IF Verdict(m) = "PENDING" THEN p.reopened + 1 ELSE p.reopened
      /\ Closed(w, says).reply = IF new THEN "ACCEPTED" ELSE "NONE"
      /\ Closed(w, says).by = IF new THEN bot ELSE p.by
  BY <1>3, <1>4 DEF Job
<1> QED
  BY <1>3, <1>5, <1>6, VerdictValue DEF Ended

LEMMA BoundValue ==
    ASSUME BotInductive, NEW w \in Worker, Busy(w), Owns(w),
           NEW c \in Conversation, c = ConversationOf[turn[w].message]
    PROVE  /\ Bound(w) \in Chat /\ Bound(w).mode = chat[c].mode
           /\ Bound(w).session \in {chat[c].session, bot}
<1>1. /\ chat[c] \in Chat /\ bot \in Bot \cup {None} /\ turn[w].bot = bot
  BY Parts, TypedJobs DEF TypeOK, Structure, TurnsAgree
<1>2. [chat[c] EXCEPT !.session = bot] \in Chat
  BY <1>1 DEF Chat
<1> QED
  BY <1>1, <1>2 DEF Bound, Chat

LEMMA CompleteTyped ==
    ASSUME BotInductive, NEW w \in Worker, Busy(w), Owns(w), NEW says \in BOOLEAN, Complete(w, says)
    PROVE  BotInductive' /\ Heard
<1>1. TypeOK /\ Structure /\ Voice
  BY Parts
<1>2. PICK m \in Message : m = turn[w].message
  BY <1>1 DEF Structure, TurnsAgree
<1>3. PICK c \in Conversation : c = ConversationOf[m]
  BY <1>1, TypedJobs
<1>4. /\ job' = [job EXCEPT ![m] = Closed(w, says)]
      /\ chat' = [chat EXCEPT ![c] = Bound(w)]
      /\ turn' = [turn EXCEPT ![w] = Idle]
      /\ bot' = bot /\ tenant' = tenant /\ faults' = faults
  BY <1>2, <1>3 DEF Complete
<1>5. /\ job' = [k \in Message |-> job'[k]] /\ job'[m] = Closed(w, says)
      /\ \A k \in Message \ {m} : job'[k] = job[k]
  BY <1>1, <1>4 DEF TypeOK
<1>6. \A k \in Message \ {m} : Benign(job[k], job'[k]) /\ Same(job[k], job'[k])
  BY <1>1, <1>5, TypedJobs, StillBenign DEF Same
<1>7. /\ chat' \in [Conversation -> Chat]
      /\ \A d \in Conversation : /\ chat'[d].session \in {chat[d].session, bot}
                                 /\ chat'[d].mode = chat[d].mode
  BY <1>1, <1>2, <1>3, <1>4, BoundValue DEF TypeOK
<1>8. \A k \in Message : job'[k].reply = "ACCEPTED" =>
                           chat'[ConversationOf[k]].mode = "BOT" /\ job'[k].by = bot
  <2>1. ASSUME NEW k \in Message, k # m, job'[k].reply = "ACCEPTED"
        PROVE  chat'[ConversationOf[k]].mode = "BOT" /\ job'[k].by = bot
    BY <1>1, <1>5, <1>7, <2>1, Waiting, TypedJobs
  <2>2. ASSUME job'[m].reply = "ACCEPTED"
        PROVE  chat'[ConversationOf[m]].mode = "BOT" /\ job'[m].by = bot
    <3>1. Verdict(m) = "COMPLETED" /\ job'[m].by = bot
      BY <2>2, <1>2, <1>5, ClosedValue
    <3>2. chat[c].mode # "HUMAN" /\ chat[c] \in Chat
      BY <3>1, <1>1, <1>3, VerdictValue, TypedJobs DEF ChatOf
    <3>3. chat'[c].mode = "BOT"
      BY <3>2, <1>7 DEF Chat
    <3> QED
      BY <3>1, <3>3, <1>3
  <2> QED
    BY <2>1, <2>2
<1>9. /\ job'[m] \in Job /\ Ended(job[m], job'[m])
      /\ job'[m].reply # "NONE" => job'[m].status = "COMPLETED"
  BY <1>2, <1>5, ClosedValue
<1> QED
  BY <1>2, <1>4, <1>5, <1>6, <1>7, <1>8, <1>9, EndTyped

LEMMA FailTyped ==
    ASSUME BotInductive, NEW w \in Worker, FailBotTurn(w) \/ FlowFails(w)
    PROVE  BotInductive' /\ Heard
<1>1. TypeOK /\ Structure /\ Voice
  BY Parts
<1>2. Busy(w) /\ Owns(w)
  BY DEF FailBotTurn, FlowFails, Busy, Idle
<1>3. PICK m \in Message : m = turn[w].message
  BY <1>1, <1>2 DEF Structure, TurnsAgree
<1>4. /\ job[m] \in Job /\ job[m].status = "RUNNING" /\ job[m].reply = "NONE"
  BY <1>1, <1>2, <1>3, TypedJobs DEF Owns, Holds, Voice, RepliesHaveTurns
<1>5. PICK s \in {"FAILED", "UNKNOWN"} : job' = [job EXCEPT ![m] = Put(job[m], s)]
  BY <1>3 DEF FailBotTurn, FlowFails
<1>6. /\ Put(job[m], s) \in Job /\ Ended(job[m], Put(job[m], s))
      /\ Put(job[m], s).reply = "NONE"
  BY <1>4, PutValue DEF Ended, Statuses
<1>7. /\ job' = [k \in Message |-> job'[k]] /\ job'[m] = Put(job[m], s)
      /\ \A k \in Message \ {m} : job'[k] = job[k]
  BY <1>1, <1>5 DEF TypeOK
<1>8. \A k \in Message \ {m} : Benign(job[k], job'[k]) /\ Same(job[k], job'[k])
  BY <1>1, <1>7, TypedJobs, StillBenign DEF Same
<1>9. /\ turn' = [turn EXCEPT ![w] = Idle] /\ chat' = chat
      /\ bot' = bot /\ tenant' = tenant /\ faults' = faults
  BY DEF FailBotTurn, FlowFails
<1>10. \A k \in Message : job'[k].reply = "ACCEPTED" =>
                            chat'[ConversationOf[k]].mode = "BOT" /\ job'[k].by = bot
  BY <1>6, <1>7, <1>9, Waiting
<1> QED
  BY <1>1, <1>2, <1>3, <1>6, <1>7, <1>8, <1>9, <1>10, EndTyped DEF TypeOK

\* A flow that advances: the completion, the flow session and, without a word, the hand-off.
LEMMA FlowAdvancesTyped ==
    ASSUME BotInductive, NEW w \in Worker, Busy(w), Owns(w),
           NEW next \in {"WAITING", "COMPLETED", "HANDOFF"}, NEW says \in BOOLEAN,
           Verdict(turn[w].message) = "COMPLETED", FlowAdvances(w, next, says),
           tenant' = tenant
    PROVE  BotInductive' /\ Heard
<1> DEFINE after == [Bound(w) EXCEPT !.flow = next, !.revoked = FALSE, !.owed = next = "HANDOFF"]
           human == next = "HANDOFF" /\ ~says
<1>1. TypeOK /\ Structure /\ Voice
  BY Parts
<1>2. PICK m \in Message : m = turn[w].message
  BY <1>1 DEF Structure, TurnsAgree
<1>3. PICK c \in Conversation : c = ConversationOf[m]
  BY <1>1, TypedJobs
<1>4. /\ job[m] \in Job /\ chat[c] \in Chat /\ chat[c].mode = "BOT"
      /\ \A k \in Message : job[k] \in Job /\ ConversationOf[k] \in Conversation
  BY <1>1, <1>2, <1>3, TypedJobs, VerdictValue DEF ChatOf, Chat
<1>5. PICK b \in Chat : b = Bound(w) /\ b.mode = "BOT" /\ b.session \in {chat[c].session, bot}
  BY <1>2, <1>3, <1>4, BoundValue
<1>6. PICK o \in BOOLEAN : o = (next = "HANDOFF")
  OBVIOUS
<1>7. /\ after = [b EXCEPT !.flow = next, !.revoked = FALSE, !.owed = o]
      /\ after \in Chat /\ after.mode = "BOT" /\ after.session = b.session
  <2>1. after = [b EXCEPT !.flow = next, !.revoked = FALSE, !.owed = o]
    BY <1>5, <1>6
  <2> QED
    BY <2>1, <1>5, <1>6 DEF Chat
<1>8. PICK r \in Job : /\ r = Closed(w, says) /\ Ended(job[m], r) /\ r.status = "COMPLETED"
                       /\ r.reply \in {"NONE", "ACCEPTED"}
                       /\ r.reply = "ACCEPTED" => says /\ r.by = bot
  BY <1>2, ClosedValue
<1>9. /\ chat' = [chat EXCEPT ![c] = IF human THEN Human(after) ELSE after]
      /\ job' = [k \in Message |->
                   IF human /\ k \in Mates(m) THEN Canceled(IF k = m THEN r ELSE job[k])
                                              ELSE IF k = m THEN r ELSE job[k]]
      /\ turn' = [turn EXCEPT ![w] = Idle] /\ bot' = bot /\ faults' = faults
  BY <1>2, <1>3, <1>8 DEF FlowAdvances
<1>10. \A q \in Job : /\ Canceled(q) \in Job /\ Canceled(q).reply # "ACCEPTED"
                      /\ Canceled(q).reply # "NONE" => q.reply # "NONE"
                      /\ Benign(q, Canceled(q)) /\ Same(q, Canceled(q))
  BY CanceledBenign, CanceledValue DEF Benign, Same
<1>11. /\ job'[m] \in Job /\ Ended(job[m], job'[m]) /\ job'[m].status = "COMPLETED"
  <2>1. job'[m] \in {r, Canceled(r)}
    BY <1>9
  <2> QED
    BY <2>1, <1>8, <1>10 DEF Ended, Same
<1>12. \A k \in Message \ {m} : Benign(job[k], job'[k]) /\ Same(job[k], job'[k])
  <2>1. \A k \in Message \ {m} : job'[k] \in {job[k], Canceled(job[k])}
    BY <1>9
  <2> QED
    BY <2>1, <1>4, <1>10, StillBenign DEF Same
<1>13. /\ chat' \in [Conversation -> Chat]
       /\ \A d \in Conversation : /\ chat'[d].session \in {chat[d].session, bot}
                                  /\ d # c => chat'[d] = chat[d]
       /\ ~human => chat'[c].mode = "BOT"
  <2>1. Human(after) \in Chat /\ Human(after).session = b.session
    BY <1>7, HumanTyped
  <2>2. PICK h \in Chat : /\ chat' = [chat EXCEPT ![c] = h] /\ h.session = b.session
                          /\ ~human => h.mode = "BOT"
    BY <2>1, <1>7, <1>9
  <2> QED
    BY <2>2, <1>1, <1>5 DEF TypeOK
<1>14. \A k \in Message : job'[k].reply = "ACCEPTED" =>
                            chat'[ConversationOf[k]].mode = "BOT" /\ job'[k].by = bot
  <2>1. ASSUME NEW k \in Message, job'[k].reply = "ACCEPTED"
        PROVE  ~(human /\ k \in Mates(m)) /\ job'[k] = IF k = m THEN r ELSE job[k]
    BY <2>1, <1>4, <1>8, <1>9, <1>10
  <2>2. ASSUME NEW k \in Message, job'[k].reply = "ACCEPTED", ConversationOf[k] = c
        PROVE  chat'[ConversationOf[k]].mode = "BOT"
    BY <2>1, <2>2, <1>3, <1>13 DEF Mates
  <2>3. ASSUME NEW k \in Message, job'[k].reply = "ACCEPTED", ConversationOf[k] # c
        PROVE  chat'[ConversationOf[k]].mode = "BOT"
    <3>1. job'[k] = job[k] /\ chat'[ConversationOf[k]] = chat[ConversationOf[k]]
      BY <2>1, <2>3, <1>3, <1>4, <1>13
    <3> QED
      BY <2>3, <3>1, Waiting
  <2>4. ASSUME NEW k \in Message, job'[k].reply = "ACCEPTED"
        PROVE  job'[k].by = bot
    BY <2>1, <2>4, <1>8, Waiting
  <2> QED
    BY <2>2, <2>3, <2>4
<1>15. job' = [k \in Message |-> job'[k]]
  BY <1>9
<1> QED
  BY <1>2, <1>9, <1>11, <1>12, <1>13, <1>14, <1>15, EndTyped

---------------------------------------------------------------------------
(* The invariant.                                                           *)

LEMMA BotInit == Init => BotInductive
<1> SUFFICES ASSUME Init PROVE BotInductive
  OBVIOUS
<1>1. TypeOK
  BY Values, BotAssumption DEF Init, TypeOK, Paired
<1>2. \A m \in Message : job[m].status = "NEW" /\ job[m].asked = 0 /\ job[m].reopened = 0
                         /\ job[m].reply = "NONE"
  BY DEF Init, NoJob
<1>3. \A w \in Worker : ~Busy(w) /\ turn[w].step # "claimed"
  BY DEF Init, Busy, Idle
<1>4. Structure
  BY <1>2, <1>3 DEF Structure, ReceivedInOrder, OneOpen, Open, TurnsAgree, TurnsApart, AsksAgree,
                    ClaimedInOrder, AskedAgainOnlyWhenPutBack, WaitingHasBot, Mates
<1>5. Voice
  BY <1>2 DEF Voice, SessionOfBot, RepliesHaveTurns, NoneWaitsUnderHuman, Init, NewChat
<1> QED
  BY <1>1, <1>4, <1>5, Parts

LEMMA WorkerKeeps ==
    ASSUME BotInductive, NEW w \in Worker, WorkerNext(w) PROVE BotInductive' /\ Heard
<1>1. CASE \E m \in Message : ClaimBotTurn(w, m)
  BY <1>1, ClaimTyped
<1>2. CASE AskTypebot(w) \/ RouteAutomation(w)
  BY <1>2, AskTyped
<1>3. CASE SessionExpired(w) \/ TypebotAnswers(w) \/ NotAsked(w) \/ AutomationAborts(w)
  BY <1>3, GoOnTyped
<1>4. CASE CompleteBotTurn(w)
  <2>1. Busy(w) /\ Owns(w)
    BY <1>4 DEF CompleteBotTurn, Busy, Idle
  <2> QED
    BY <1>4, <2>1, CompleteTyped DEF CompleteBotTurn
<1>5. CASE FailBotTurn(w) \/ FlowFails(w)
  BY <1>5, FailTyped
<1>6. CASE TurnLost(w) \/ FlowLost(w) \/ Crash(w)
  BY <1>6, LeaveTyped
<1>7. CASE FlowHandedOver(w)
  <2>1. Busy(w) /\ Owns(w)
    BY <1>7 DEF FlowHandedOver, FlowReady, Busy, Idle
  <2> QED
    BY <1>7, <2>1, CompleteTyped DEF FlowHandedOver
<1>8. CASE FlowRuns(w)
  <2>1. Busy(w) /\ Owns(w)
    BY <1>8 DEF FlowRuns, FlowReady, Busy, Idle
  <2>2. PICK next \in {"WAITING", "COMPLETED", "HANDOFF"}, says \in BOOLEAN :
           IF Verdict(turn[w].message) = "COMPLETED" THEN FlowAdvances(w, next, says)
                                                     ELSE Complete(w, says)
    BY <1>8 DEF FlowRuns
  <2>3. CASE Verdict(turn[w].message) = "COMPLETED"
    <3>1. FlowAdvances(w, next, says) /\ tenant' = tenant
      BY <2>2, <2>3 DEF FlowAdvances
    <3> QED
      BY <2>1, <2>3, <3>1, FlowAdvancesTyped
  <2>4. CASE Verdict(turn[w].message) # "COMPLETED"
    BY <2>1, <2>2, <2>4, CompleteTyped
  <2> QED
    BY <2>3, <2>4
<1> QED
  BY <1>1, <1>2, <1>3, <1>4, <1>5, <1>6, <1>7, <1>8 DEF WorkerNext

LEMMA BotStep == BotInductive /\ [Next]_vars => BotInductive' /\ Heard
<1> SUFFICES ASSUME BotInductive, [Next]_vars PROVE BotInductive' /\ Heard
  OBVIOUS
<1>1. CASE \E m \in Message : Receive(m)
  BY <1>1, ReceiveTyped
<1>2. CASE \E m \in Message : ReplyMoves(m) \/ LeaseEnds(m) \/ TimePasses(m)
  BY <1>2, OneJobKeeps
<1>3. CASE \E w \in Worker : WorkerNext(w)
  BY <1>3, WorkerKeeps
<1>4. CASE Sweep
  BY <1>4, SweepKeeps
<1>5. CASE SettleHandoffs
  BY <1>5, SettleHandoffsKeeps
<1>6. CASE \E c \in Conversation : TakeOver(c) \/ DeskReply(c) \/ EchoWasTyped(c)
  BY <1>6, TakeOverKeeps
<1>7. CASE \E c \in Conversation : ResumeBot(c) \/ SetConsent(c) \/ ObserveEcho(c) \/ EchoWasOurs(c)
  BY <1>7, ConversationKeeps
<1>8. CASE \E b \in Bot \cup {None} : ChangeBot(b)
  BY <1>8, ChangeBotKeeps
<1>9. CASE SwitchFlows \/ SuspendOrReactivate
  BY <1>9, TenantKeeps
<1>10. CASE UNCHANGED vars
  <2>1. TypeOK /\ \A m \in Message : job[m] \in Job
    BY TypedJobs DEF BotInductive
  <2>2. job' = [m \in Message |-> job'[m]] /\ \A m \in Message : Benign(job[m], job'[m])
    BY <2>1, <1>10, StillBenign DEF vars, TypeOK
  <2> QED
    BY <2>1, <2>2, <1>10, Waiting, BenignKeeps DEF vars, TypeOK
<1> QED
  BY <1>1, <1>2, <1>3, <1>4, <1>5, <1>6, <1>7, <1>8, <1>9, <1>10 DEF Next

\* The inductive invariant of the bot turns holds in every reachable state: jobs,
\* turns, sessions and replies agree (claimBotTurn, completeBotTurn, takeovers).
THEOREM BotInductiveHolds == Spec => []BotInductive
<1> QED
  BY BotInit, BotStep, PTL DEF Spec

\* Every variable keeps its type, and a job has a lease exactly while it runs.
THEOREM BotTypeCorrect == Spec => []TypeOK
<1>1. BotInductive => TypeOK
  BY DEF BotInductive
<1> QED
  BY <1>1, BotInductiveHolds, PTL

\* No two workers ever have a turn of one conversation, for any number of workers,
\* ended leases, crashes and takeovers.
THEOREM SpeaksWithOneVoice == Spec => []OneVoice
<1>1. BotInductive => OneVoice
  BY Parts, Alone DEF OneVoice
<1> QED
  BY <1>1, BotInductiveHolds, PTL

\* The stored session is of the bot the channel has, whoever answers late.
THEOREM SessionsAreOfTheBot == Spec => []SessionOfBot
<1>1. BotInductive => SessionOfBot
  BY DEF BotInductive
<1> QED
  BY <1>1, BotInductiveHolds, PTL

\* Only a completed turn has replies.
THEOREM LostTurnsAreSilent == Spec => []RepliesHaveTurns
<1>1. BotInductive => RepliesHaveTurns
  BY DEF BotInductive
<1> QED
  BY <1>1, BotInductiveHolds, PTL

\* No reply waits for its first attempt in a conversation that a human has, or
\* for another bot than the one of the channel.
THEOREM HumansAreNotTalkedOver == Spec => []NoneWaitsUnderHuman
<1>1. BotInductive => NoneWaitsUnderHuman
  BY DEF BotInductive
<1> QED
  BY <1>1, BotInductiveHolds, PTL

\* A bot is asked about a message once, and once more for each echo that put it back.
THEOREM AskedOnce == Spec => []AskedAgainOnlyWhenPutBack
<1>1. BotInductive => AskedAgainOnlyWhenPutBack
  BY DEF BotInductive
<1> QED
  BY <1>1, BotInductiveHolds, PTL

\* Nothing waits for a bot that was removed.
THEOREM NothingWaitsForNobody == Spec => []WaitingHasBot
<1>1. BotInductive => WaitingHasBot
  BY DEF BotInductive
<1> QED
  BY <1>1, BotInductiveHolds, PTL

\* The bot hears the messages of a conversation in their order: what it is asked
\* about comes after everything earlier is over.
THEOREM MessagesAreHeardInOrder == Spec => HeardInOrder
<1>1. BotInductive /\ [Next]_vars => [Heard]_vars
  BY BotStep
<1>2. HeardInOrder <=> [][Heard]_vars
  BY DEF HeardInOrder, Heard
<1> QED
  BY <1>1, <1>2, BotInductiveHolds, PTL DEF Spec

---------------------------------------------------------------------------
(* The replies and the outbox.                                             *)

\* What one step may do to the reply of m, and leave of it to a human.
ReplyStep(m) ==
    /\ \/ job'[m].reply \in {job[m].reply, Canceled(job[m]).reply}
       \/ job[m].reply = "NONE" /\ job'[m].reply = "ACCEPTED" /\ ChatOf(m).mode = "BOT"
       \/ /\ job'[m].reply \in ReplyMayBecome[job[m].reply]
          /\ job'[m].reply = "SENDING" => ChatOf(m).mode = "BOT" /\ ~ChatOf(m).blocked
    /\ ChatOf(m).mode = "BOT" /\ ChatOf(m)'.mode = "HUMAN"
          => job'[m].reply \notin {"ACCEPTED", "AGAIN"}

LEMMA CanceledReply ==
    ASSUME NEW r \in Job
    PROVE  /\ Canceled(r).reply = IF r.reply \in {"ACCEPTED", "AGAIN"} THEN "GONE" ELSE r.reply
           /\ Interrupted(r) \in Job /\ Interrupted(r).reply = r.reply
           /\ Canceled(Interrupted(r)).reply = Canceled(r).reply
<1>1. \A q \in Job : Canceled(q).reply = IF q.reply \in {"ACCEPTED", "AGAIN"} THEN "GONE"
                                                                               ELSE q.reply
  BY DEF Canceled, Job
<1>2. Interrupted(r) \in Job /\ Interrupted(r).reply = r.reply
  BY PutValue, InterruptedBenign DEF Interrupted, Statuses, Benign
<1> QED
  BY <1>1, <1>2

\* A step that touches no reply and gives no conversation to a human.
LEMMA RepliesStay ==
    ASSUME NEW m \in Message, job'[m].reply = job[m].reply,
           ChatOf(m).mode = "BOT" => ChatOf(m)'.mode = "BOT"
    PROVE  ReplyStep(m)
BY DEF ReplyStep

\* A step that takes conversations from the bot and cancels what waits there.
LEMMA RepliesCanceled ==
    ASSUME BotInductive, NEW m \in Message, NEW S,
           job'[m] \in IF ConversationOf[m] \in S
                       THEN {Canceled(job[m]), Canceled(Interrupted(job[m]))} ELSE {job[m]},
           ConversationOf[m] \notin S => ChatOf(m)'.mode = ChatOf(m).mode
    PROVE  ReplyStep(m)
<1>1. job[m] \in Job
  BY TypedJobs DEF BotInductive
<1> QED
  BY <1>1, CanceledReply DEF ReplyStep

LEMMA TakeOverReplies ==
    ASSUME BotInductive, NEW m \in Message, NEW c \in Conversation,
           TakeOver(c) \/ DeskReply(c) \/ EchoWasTyped(c)
    PROVE  ReplyStep(m)
<1>1. ConversationOf[m] \in Conversation
  BY TypedJobs DEF BotInductive
<1>2. job'[m] \in IF ConversationOf[m] \in {c}
                  THEN {Canceled(job[m]), Canceled(Interrupted(job[m]))} ELSE {job[m]}
  BY DEF TakeOver, DeskReply, EchoWasTyped, Stopped
<1>3. ConversationOf[m] # c => ChatOf(m)'.mode = ChatOf(m).mode
  BY <1>1 DEF TakeOver, DeskReply, EchoWasTyped, ChatOf, BotInductive, TypeOK
<1> QED
  BY <1>2, <1>3, RepliesCanceled

LEMMA HandoffReplies ==
    ASSUME BotInductive, NEW m \in Message, SettleHandoffs PROVE ReplyStep(m)
<1> DEFINE S == {c \in Conversation : ToSettle(c)}
<1>1. ConversationOf[m] \in Conversation
  BY TypedJobs DEF BotInductive
<1>2. job'[m] \in IF ConversationOf[m] \in S
                  THEN {Canceled(job[m]), Canceled(Interrupted(job[m]))} ELSE {job[m]}
  BY <1>1 DEF SettleHandoffs
<1>3. ConversationOf[m] \notin S => ChatOf(m)'.mode = ChatOf(m).mode
  BY <1>1 DEF SettleHandoffs, ChatOf
<1> HIDE DEF S
<1> QED
  BY <1>2, <1>3, RepliesCanceled

LEMMA ChangeBotReplies ==
    ASSUME BotInductive, NEW m \in Message, NEW b \in Bot \cup {None}, ChangeBot(b)
    PROVE  ReplyStep(m)
<1>1. ConversationOf[m] \in Conversation /\ chat[ConversationOf[m]] \in Chat
  BY TypedJobs DEF BotInductive
<1>2. job'[m] = Canceled(Interrupted(job[m]))
  BY DEF ChangeBot
<1>3. ChatOf(m)'.mode = ChatOf(m).mode
  BY <1>1 DEF ChangeBot, ChatOf, Chat
<1> QED
  BY <1>2, <1>3, RepliesCanceled

\* Only a turn that completes admits a reply, and it completes in BOT mode.
LEMMA CompleteReplies ==
    ASSUME BotInductive, NEW k \in Message, NEW w \in Worker, Busy(w), Owns(w),
           NEW says \in BOOLEAN, Complete(w, says)
    PROVE  ReplyStep(k)
<1>1. TypeOK /\ Structure /\ Voice
  BY Parts
<1>2. PICK m \in Message : m = turn[w].message
  BY <1>1 DEF Structure, TurnsAgree
<1>3. PICK c \in Conversation : c = ConversationOf[m]
  BY <1>1, TypedJobs
<1>4. job[m].reply = "NONE" /\ chat[c] \in Chat /\ ConversationOf[k] \in Conversation
  BY <1>1, <1>2, TypedJobs DEF Owns, Holds, Voice, RepliesHaveTurns
<1>5. /\ k = m => job'[k] = Closed(w, says)
      /\ k # m => job'[k] = job[k]
  BY <1>1, <1>2 DEF Complete, TypeOK
<1>6. ChatOf(k)'.mode = ChatOf(k).mode
  BY <1>1, <1>2, <1>3, <1>4, BoundValue DEF Complete, ChatOf, TypeOK
<1>7. CASE k # m
  BY <1>5, <1>6, <1>7, RepliesStay
<1>8. CASE k = m
  <2>1. /\ job'[k].reply \in {"NONE", "ACCEPTED"}
        /\ job'[k].reply = "ACCEPTED" => ChatOf(k).mode = "BOT"
    BY <1>2, <1>3, <1>4, <1>5, <1>8, ClosedValue, VerdictValue DEF ChatOf, Chat
  <2> QED
    BY <1>4, <1>6, <1>8, <2>1 DEF ReplyStep
<1> QED
  BY <1>7, <1>8

\* A flow that hands over without a word says nothing and takes back what waits.
LEMMA FlowReplies ==
    ASSUME BotInductive, NEW k \in Message, NEW w \in Worker, Busy(w), Owns(w),
           NEW next \in {"WAITING", "COMPLETED", "HANDOFF"}, NEW says \in BOOLEAN,
           FlowAdvances(w, next, says)
    PROVE  ReplyStep(k)
<1> DEFINE human == next = "HANDOFF" /\ ~says
<1>1. TypeOK /\ Structure /\ Voice
  BY Parts
<1>2. PICK m \in Message : m = turn[w].message
  BY <1>1 DEF Structure, TurnsAgree
<1>3. PICK c \in Conversation : c = ConversationOf[m]
  BY <1>1, TypedJobs
<1>4. /\ job[m].reply = "NONE" /\ chat[c] \in Chat /\ ConversationOf[k] \in Conversation
      /\ job[k] \in Job
  BY <1>1, <1>2, TypedJobs DEF Owns, Holds, Voice, RepliesHaveTurns
<1>5. PICK r \in Job : /\ r = Closed(w, says) /\ r.reply \in {"NONE", "ACCEPTED"}
                       /\ r.reply = "ACCEPTED" => says /\ ChatOf(m).mode # "HUMAN"
  BY <1>2, ClosedValue, VerdictValue
<1>6. job'[k] = IF human /\ k \in Mates(m) THEN Canceled(IF k = m THEN r ELSE job[k])
                                           ELSE IF k = m THEN r ELSE job[k]
  BY <1>2, <1>5 DEF FlowAdvances
<1>7. /\ ConversationOf[k] # c => ChatOf(k)'.mode = ChatOf(k).mode
      /\ ~human => ChatOf(k)'.mode = ChatOf(k).mode
  <2>1. PICK b \in Chat : b = Bound(w) /\ b.mode = chat[c].mode
    BY <1>2, <1>3, BoundValue
  <2>2. PICK o \in BOOLEAN : o = (next = "HANDOFF")
    OBVIOUS
  <2>3. [b EXCEPT !.flow = next, !.revoked = FALSE, !.owed = o].mode = b.mode
    BY DEF Chat
  <2>4. PICK h : /\ chat' = [chat EXCEPT ![c] = h]
                 /\ ~human => h = [b EXCEPT !.flow = next, !.revoked = FALSE, !.owed = o]
    BY <1>2, <1>3, <2>1, <2>2 DEF FlowAdvances
  <2> QED
    BY <1>1, <1>4, <2>1, <2>3, <2>4 DEF ChatOf, TypeOK
<1>8. CASE k # m
  <2>1. CASE human /\ k \in Mates(m)
    BY <1>4, <1>6, <1>8, <2>1, CanceledReply DEF ReplyStep
  <2>2. CASE ~(human /\ k \in Mates(m))
    BY <1>3, <1>6, <1>7, <1>8, <2>2, RepliesStay DEF Mates
  <2> QED
    BY <2>1, <2>2
<1>9. CASE k = m
  <2>1. /\ job'[k].reply = IF human THEN "NONE" ELSE r.reply
    BY <1>5, <1>6, <1>9, CanceledReply DEF Mates
  <2>2. chat[c].mode \in {"BOT", "HUMAN"}
    BY <1>4 DEF Chat
  <2> QED
    BY <1>3, <1>4, <1>5, <1>7, <1>9, <2>1, <2>2 DEF ReplyStep, ChatOf
<1> QED
  BY <1>8, <1>9

LEMMA WorkerReplies ==
    ASSUME BotInductive, NEW k \in Message, NEW w \in Worker, WorkerNext(w)
    PROVE  ReplyStep(k)
<1>1. TypeOK /\ \A m \in Message : job[m] \in Job
  BY TypedJobs DEF BotInductive
<1>a. ASSUME job'[k].reply = job[k].reply, chat' = chat PROVE ReplyStep(k)
  BY <1>a, RepliesStay DEF ChatOf
<1>2. CASE \E m \in Message : ClaimBotTurn(w, m)
  <2>1. PICK m \in Message : ClaimBotTurn(w, m)
    BY <1>2
  <2>2. job'[k].reply = job[k].reply
    <3>1. CASE k # m
      BY <1>1, <2>1, <3>1, SweptBenign DEF ClaimBotTurn
    <3>2. CASE k = m
      <4>1. PICK p \in Job : p = Put(job[m], "RUNNING") /\ p.reply = job[m].reply
        BY <1>1, PutValue DEF Statuses
      <4>2. job'[k] = [p EXCEPT !.holder = w]
        BY <2>1, <3>2, <4>1 DEF ClaimBotTurn
      <4> QED
        BY <3>2, <4>1, <4>2 DEF Job
    <3> QED
      BY <3>1, <3>2
  <2> QED
    BY <1>a, <2>1, <2>2 DEF ClaimBotTurn
<1>3. CASE AskTypebot(w) \/ RouteAutomation(w)
  BY <1>a, <1>1, <1>3 DEF AskTypebot, RouteAutomation, Asks, TypeOK, Job
<1>4. CASE \/ SessionExpired(w) \/ TypebotAnswers(w) \/ NotAsked(w) \/ AutomationAborts(w)
           \/ TurnLost(w) \/ FlowLost(w) \/ Crash(w)
  BY <1>a, <1>4 DEF SessionExpired, TypebotAnswers, NotAsked, AutomationAborts, TurnLost, FlowLost,
                    Crash
<1>5. CASE FailBotTurn(w) \/ FlowFails(w)
  <2>1. PICK s \in Statuses : job' = [job EXCEPT ![turn[w].message] = Put(job[turn[w].message], s)]
    BY <1>5 DEF FailBotTurn, FlowFails, Statuses
  <2> QED
    BY <1>a, <1>1, <1>5, <2>1, PutValue DEF FailBotTurn, FlowFails, TypeOK
<1>6. CASE CompleteBotTurn(w)
  BY <1>6, CompleteReplies DEF CompleteBotTurn, Busy, Idle
<1>7. CASE FlowHandedOver(w)
  <2>1. Busy(w) /\ Owns(w)
    BY <1>7 DEF FlowHandedOver, FlowReady, Busy, Idle
  <2>2. PICK says \in BOOLEAN : Complete(w, says)
    BY <1>7 DEF FlowHandedOver
  <2> QED
    BY <2>1, <2>2, CompleteReplies
<1>8. CASE FlowRuns(w)
  <2>1. Busy(w) /\ Owns(w)
    BY <1>8 DEF FlowRuns, FlowReady, Busy, Idle
  <2>2. PICK next \in {"WAITING", "COMPLETED", "HANDOFF"}, says \in BOOLEAN :
           FlowAdvances(w, next, says) \/ Complete(w, says)
    BY <1>8 DEF FlowRuns
  <2> QED
    BY <2>1, <2>2, CompleteReplies, FlowReplies
<1> QED
  BY <1>2, <1>3, <1>4, <1>5, <1>6, <1>7, <1>8 DEF WorkerNext

LEMMA EachReply ==
    ASSUME BotInductive, [Next]_vars, NEW k \in Message
    PROVE  ReplyStep(k)
<1>1. /\ TypeOK /\ ConversationOf[k] \in Conversation /\ ChatOf(k) \in Chat
      /\ \A m \in Message : job[m] \in Job
  BY TypedJobs DEF BotInductive, ChatOf
<1>a. ASSUME job'[k].reply = job[k].reply, chat' = chat PROVE ReplyStep(k)
  BY <1>a, RepliesStay DEF ChatOf
<1>2. CASE \E m \in Message : Receive(m)
  <2>1. PICK m \in Message, s \in {"PENDING", "NONE"}, window \in {"OPEN", "AHEAD"} :
           job' = [job EXCEPT ![m] = [Put(job[m], s) EXCEPT !.window = window]]
    BY <1>2 DEF Receive
  <2>2. PICK p \in Job : p = Put(job[m], s) /\ p.reply = job[m].reply
    BY <1>1, PutValue DEF Statuses
  <2>3. [p EXCEPT !.window = window].reply = p.reply
    BY DEF Job
  <2> QED
    BY <1>a, <1>1, <1>2, <2>1, <2>2, <2>3 DEF Receive, TypeOK
<1>3. CASE \E m \in Message : LeaseEnds(m) \/ TimePasses(m)
  BY <1>a, <1>1, <1>3 DEF LeaseEnds, TimePasses, TypeOK, Job
<1>4. CASE \E m \in Message : ReplyMoves(m)
  <2>0. PICK m \in Message : ReplyMoves(m)
    BY <1>4
  <2>1. PICK next \in ReplyMayBecome[job[m].reply] :
           /\ next = "SENDING" => ChatOf(m).mode = "BOT" /\ ~ChatOf(m).blocked
           /\ job' = [job EXCEPT ![m].reply = next] /\ chat' = chat
    BY <2>0 DEF ReplyMoves
  <2>2. /\ k = m => job'[k].reply = next
        /\ k # m => job'[k] = job[k]
    BY <1>1, <2>1 DEF TypeOK, Job
  <2> QED
    BY <1>a, <2>1, <2>2 DEF ReplyStep, ChatOf
<1>5. CASE \E w \in Worker : WorkerNext(w)
  BY <1>5, WorkerReplies
<1>6. CASE Sweep
  BY <1>a, <1>1, <1>6, SweptBenign DEF Sweep
<1>7. CASE SettleHandoffs
  BY <1>7, HandoffReplies
<1>8. CASE \E c \in Conversation : TakeOver(c) \/ DeskReply(c) \/ EchoWasTyped(c)
  BY <1>8, TakeOverReplies
<1>9. CASE \E c \in Conversation : ResumeBot(c) \/ SetConsent(c) \/ ObserveEcho(c) \/ EchoWasOurs(c)
  <2>1. job' = job
    BY <1>9 DEF ResumeBot, SetConsent, ObserveEcho, EchoWasOurs
  <2>2. ChatOf(k).mode = "BOT" => ChatOf(k)'.mode = "BOT"
    BY <1>1, <1>9 DEF ResumeBot, SetConsent, ObserveEcho, EchoWasOurs, ChatOf, Chat, TypeOK
  <2> QED
    BY <2>1, <2>2, RepliesStay
<1>10. CASE \E b \in Bot \cup {None} : ChangeBot(b)
  BY <1>10, ChangeBotReplies
<1>11. CASE SwitchFlows \/ SuspendOrReactivate
  <2>1. job'[k].reply = job[k].reply
    BY <1>1, <1>11 DEF SwitchFlows, SuspendOrReactivate, Job
  <2>2. ChatOf(k)'.mode = ChatOf(k).mode
    BY <1>1, <1>11 DEF SwitchFlows, SuspendOrReactivate, ChatOf, Chat
  <2> QED
    BY <2>1, <2>2, RepliesStay
<1>12. CASE UNCHANGED vars
  BY <1>a, <1>12 DEF vars
<1> QED
  BY <1>2, <1>3, <1>4, <1>5, <1>6, <1>7, <1>8, <1>9, <1>10, <1>11, <1>12 DEF Next

\* The turns keep their side of the contract with the outbox: a reply is
\* admitted only in BOT mode, and neither a takeover, a reply of the desk, a
\* typed message, a hand-off nor another bot leaves one in the queue.
THEOREM RepliesAreProtected == Spec => KeepsReplyProtocol
<1>1. Init => Protocol!Init
  BY DEF Init, NoJob, ReplyOf, Protocol!Init
<1>2. ASSUME BotInductive, BotInductive', [Next]_vars PROVE Protocol!Next
  <2> SUFFICES ASSUME NEW m \in Message
               PROVE  (Protocol!Keep(m) \/ Protocol!Move(m)) /\ Protocol!TakenBack(m)
    BY DEF Protocol!Next
  <2>1. /\ ReplyStep(m) /\ ConversationOf[m] \in Conversation
        /\ job[m] \in Job /\ job[m].reply \in Replies /\ job'[m].reply \in Replies
    BY <1>2, EachReply, TypedJobs DEF BotInductive, TypeOK, Job
  <2>2. /\ Protocol!OfBot(m) <=> ChatOf(m).mode = "BOT"
        /\ ConversationOf[m] \in {c \in Conversation : chat[c].blocked} <=> ChatOf(m).blocked
    BY <2>1 DEF Protocol!OfBot, ChatOf
  <2>3. Protocol!TakenBack(m)
    BY <2>1, <2>2 DEF ReplyStep, ReplyOf, ChatOf, Protocol!TakenBack, Replies
  <2> DEFINE r  == ReplyOf(m)
             rr == ReplyOf(m)'
  <2>4. /\ rr = r => Protocol!Keep(m)
        /\ /\ rr \in Protocol!MayBecome[r]
           /\ r = "absent" => ChatOf(m).mode = "BOT"
           /\ rr = "trying" => ChatOf(m).mode = "BOT" /\ ~ChatOf(m).blocked
           => Protocol!Move(m)
    BY <2>1, <2>2 DEF Protocol!Keep, Protocol!Move
  <2> SUFFICES Protocol!Keep(m) \/ Protocol!Move(m)
    BY <2>3
  <2>5. CASE job'[m].reply \in {job[m].reply, Canceled(job[m]).reply}
    BY <2>1, <2>4, <2>5, CanceledReply DEF ReplyOf, Protocol!MayBecome
  <2>6. CASE job[m].reply = "NONE" /\ job'[m].reply = "ACCEPTED" /\ ChatOf(m).mode = "BOT"
    BY <2>4, <2>6 DEF ReplyOf, Protocol!MayBecome
  <2>7. CASE /\ job'[m].reply \in ReplyMayBecome[job[m].reply]
             /\ job'[m].reply = "SENDING" => ChatOf(m).mode = "BOT" /\ ~ChatOf(m).blocked
    BY <2>1, <2>4, <2>7 DEF ReplyOf, ReplyMayBecome, Protocol!MayBecome, Replies
  <2> QED
    BY <2>1, <2>5, <2>6, <2>7 DEF ReplyStep
<1> QED
  BY <1>1, <1>2, BotInductiveHolds, PTL DEF Spec, KeepsReplyProtocol, Protocol!Spec

===========================================================================
