------------------------ MODULE IntegrationJobsTruth ------------------------
(***************************************************************************)
(* What the Chatwoot queue knows of Chatwoot is true: its maps, the answers*)
(* kept in payloads, the evidence of a reconciliation, and the success of  *)
(* a mirror.                                                               *)
(***************************************************************************)
EXTENDS IntegrationJobsProofs

Truth == MapsKnown /\ MirrorsAreTrue

---------------------------------------------------------------------------
(* Nothing that was known is lost: Chatwoot and the maps only grow.        *)

Reached(m) == state[m] \notin {"NEW", "ACCEPTED"}

NothingLost ==
    /\ \A m \in Message : /\ DOMAIN remote.messages[m] \subseteq DOMAIN remote'.messages[m]
                          /\ mapped[m] # 0 => mapped'[m] = mapped[m]
                          /\ Reached(m) => Reached(m)'
    /\ \A c \in Contact : 1..remote.conversations[c] \subseteq 1..remote'.conversations[c]

LEMMA AppliedGrows ==
    ASSUME MirrorsInductive, NEW w \in Worker, worker[w].phase = "calling"
    PROVE  /\ \A m \in Message : DOMAIN remote.messages[m] \subseteq DOMAIN Applied(w).messages[m]
           /\ \A c \in Contact :
                 1..remote.conversations[c] \subseteq 1..Applied(w).conversations[c]
<1> DEFINE j == worker[w].job
           c == ContactOf[MessageOf(j)]
<1>1. /\ j \in Mirror /\ MessageOf(j) \in Message /\ c \in Contact
      /\ worker[w].payload.operation \in Setup \cup {"SEND_MESSAGE"}
  BY Parts DEF MirrorsInductive, TypeOK, TurnsInOrder, ContactOfJob, MessageOf
<1>2. /\ remote \in [contacts: SUBSET Contact, linked: SUBSET Contact,
                     conversations: [Contact -> Nat], messages: [Message -> Seq(Mirror)]]
      /\ remote.messages \in [Message -> Seq(Mirror)] /\ remote.conversations \in [Contact -> Nat]
  BY DEF MirrorsInductive, TypeOK
<1>3. ASSUME NEW m \in Message
      PROVE  DOMAIN remote.messages[m] \subseteq DOMAIN Applied(w).messages[m]
  <2>1. CASE ~Sends(w)
    BY <2>1, AppliedRemote
  <2>2. CASE Sends(w)
    <3>1. Applied(w).messages = [remote.messages EXCEPT ![MessageOf(j)] = Append(@, j)]
      BY <2>2, AppliedRemote
    <3>2. DOMAIN Append(remote.messages[m], j) = 1..(Len(remote.messages[m]) + 1)
          /\ DOMAIN remote.messages[m] = 1..Len(remote.messages[m])
          /\ Len(remote.messages[m]) \in Nat
      BY <1>1, <1>2, AppendProperties
    <3>3. DOMAIN remote.messages[m] \subseteq DOMAIN Append(remote.messages[m], j)
      BY <3>2
    <3> QED
      BY <1>1, <1>2, <3>1, <3>3
  <2> QED
    BY <2>1, <2>2
<1>4. ASSUME NEW k \in Contact
      PROVE  1..remote.conversations[k] \subseteq 1..Applied(w).conversations[k]
  <2>1. remote.conversations[k] \in Nat
    BY <1>2
  <2>2. CASE worker[w].payload.operation = "CREATE_CONVERSATION"
    <3>1. Applied(w) = [remote EXCEPT !.conversations[c] = @ + 1]
      BY <2>2 DEF Applied
    <3>2. Applied(w).conversations = [remote.conversations EXCEPT ![c] = @ + 1]
      BY <1>2, <3>1
    <3>3. Applied(w).conversations[k] \in {remote.conversations[k], remote.conversations[k] + 1}
      BY <1>1, <1>2, <3>2
    <3> QED
      BY <2>1, <3>3
  <2>3. CASE worker[w].payload.operation # "CREATE_CONVERSATION"
    BY <1>1, <1>2, <2>3 DEF Applied, Setup
  <2> QED
    BY <2>2, <2>3
<1> QED
  BY <1>3, <1>4

LEMMA EachGrows == MirrorsInductive /\ [Next]_vars => NothingLost
<1> SUFFICES ASSUME MirrorsInductive, [Next]_vars PROVE NothingLost
  OBVIOUS
<1>1. CASE UNCHANGED <<state, mapped, remote>>
  BY <1>1 DEF NothingLost, Reached
<1>2. ASSUME NEW w \in Worker, CallAccepted(w) \/ CallUncertain(w) PROVE NothingLost
  <2>1. /\ worker[w].phase = "calling" /\ UNCHANGED <<state, mapped>>
        /\ remote' = remote \/ remote' = Applied(w)
    BY <1>2 DEF CallAccepted, CallUncertain
  <2> QED
    BY <2>1, AppliedGrows DEF NothingLost, Reached
<1>3. ASSUME NEW w \in Worker, Record(w) PROVE NothingLost
  <2>1. mapped \in [Message -> Nat]
    BY DEF MirrorsInductive, TypeOK
  <2>2. \A m \in Message : mapped[m] # 0 => mapped'[m] = mapped[m]
    BY <1>3, <2>1 DEF Record
  <2> QED
    BY <1>3, <2>2 DEF NothingLost, Reached, Record
<1>4. ASSUME NEW m \in Message, Advance(m) PROVE NothingLost
  <2>1. state \in [Message -> States \cup {"NEW"}]
    BY DEF MirrorsInductive, TypeOK
  <2>2. ASSUME NEW k \in Message, Reached(k) PROVE Reached(k)'
    BY <1>4, <2>1, <2>2 DEF Advance, NextState, Reached, States
  <2> QED
    BY <1>4, <2>2 DEF NothingLost, Advance
<1>5. ASSUME NEW w \in Worker, TurnStep(w), ~CallAccepted(w), ~CallUncertain(w), ~Record(w)
      PROVE  UNCHANGED <<state, mapped, remote>>
  BY <1>5 DEF TurnStep, MirrorStep, ReadContext, FindContact, BeforeExternal, BeginAttempt,
     CallRefused, ConfirmAttempt, KeepAnswer, MapConversation, MapFails, PatchStatus,
     ReceiveReply, ReadFails, Settle, Finish
<1>6. CASE UNCHANGED vars
  BY <1>1, <1>6 DEF vars
<1>7. ASSUME NEW w \in Worker, Sweep(w) \/ Crash(w) \/ \E j \in Job : Claim(w, j)
      PROVE  UNCHANGED <<state, mapped, remote>>
  BY <1>7 DEF Sweep, Crash, Claim
<1>8. ASSUME NEW j \in Job, RetryJob(j) \/ LeaseElapses(j) \/ BackoffElapses(j)
      PROVE  UNCHANGED <<state, mapped, remote>>
  BY <1>8 DEF RetryJob, LeaseElapses, BackoffElapses
<1>9. ASSUME NEW m \in Message, \E k \in DOMAIN remote.messages[m] : EchoArrives(m, k)
      PROVE  UNCHANGED <<state, mapped, remote>>
  BY <1>9 DEF EchoArrives
<1>10. ASSUME ReconcileCommit \/ Pause \/ Resume \/ (\E j \in Mirror : ReconcileRead(j))
              \/ (\E r \in Reply : ReplyArrives(r))
       PROVE  UNCHANGED <<state, mapped, remote>>
  BY <1>10 DEF ReconcileCommit, Pause, Resume, ReconcileRead, ReplyArrives
<1> QED
  BY <1>1, <1>2, <1>3, <1>4, <1>5, <1>6, <1>7, <1>8, <1>9, <1>10 DEF Next

---------------------------------------------------------------------------
(* What a step must show of the rows and turns it changes.                 *)

RowTrue(j, r) ==
    /\ KnownPayload(j, r.payload)
    /\ r.status # "NONE" /\ j[2] # "ACCEPTED" => Reached(MessageOf(j))
    /\ r.status = "SUCCEEDED" /\ j[2] # "ACCEPTED" => mapped[MessageOf(j)] # 0

RowKept(j) ==
    /\ job'[j].payload = job[j].payload
    /\ job'[j].status # "NONE" => job[j].status # "NONE"
    /\ job'[j].status = "SUCCEEDED" => job[j].status = "SUCCEEDED"

RowStays(j) == RowKept(j) \/ RowTrue(j, job'[j]) \/ RowTrue(j, job[j])'

SameKnowledge(t, u) ==
    /\ u.job = t.job /\ u.payload = t.payload /\ u.map = t.map /\ u.mapped = t.mapped
    /\ u.phase \notin {"called", "recorded", "patching", "finishing"}

TurnStays(w) ==
    \/ worker'[w] = worker[w]
    \/ worker'[w].job \notin Mirror
    \/ SameKnowledge(worker[w], worker'[w])
    \/ KnownTurn(worker'[w])
    \/ KnownTurn(worker[w])'

MapsStay ==
    /\ \A m \in Message : mapped'[m] = mapped[m] \/ KnownMessage(m, mapped'[m])
    /\ \A c \in Contact : map'[c] = map[c] \/ KnownConversation(c, map'[c])
    /\ review'.job # None => review' = review \/ KnownPayload(review'.job, review'.patched)

LEMMA PayloadStays ==
    ASSUME NothingLost, NEW j \in Mirror, NEW p, KnownPayload(j, p)
    PROVE  /\ p.message # 0 => p.message \in DOMAIN remote'.messages[MessageOf(j)]
           /\ p.conversation # 0 => p.conversation \in 1..remote'.conversations[ContactOfJob(j)]
BY Parts DEF NothingLost, KnownPayload, KnownMessage, KnownConversation

LEMMA TurnKept ==
    ASSUME NothingLost, NEW w \in Worker, worker'[w].job \in Mirror, KnownTurn(worker'[w])
    PROVE  KnownTurn(worker[w])'
<1> DEFINE t == worker'[w]
           m == MessageOf(t.job)
           c == ContactOfJob(t.job)
<1>1. m \in Message /\ c \in Contact
  BY Parts
<1>2. KnownPayload(worker[w].job, worker[w].payload)'
  <2>1. KnownPayload(t.job, t.payload)
    BY DEF KnownTurn
  <2> QED
    BY <2>1, PayloadStays DEF KnownPayload, KnownMessage, KnownConversation, MessageOf, ContactOfJob
<1>3. /\ t.job[2] # "ACCEPTED" => state'[m] \notin {"NEW", "ACCEPTED"}
      /\ t.map # 0 => t.map \in 1..remote'.conversations[c]
      /\ t.mapped # 0 => mapped'[m] = t.mapped
      /\ t.phase = "called" /\ t.payload.operation = "CREATE_CONVERSATION" =>
            (t.answer # 0 => t.answer \in 1..remote'.conversations[c])
      /\ t.phase \in {"recorded", "patching"} => mapped'[m] # 0
      /\ t.phase = "finishing" => mapped'[m] # 0 \/ t.job[2] = "ACCEPTED"
  BY <1>1 DEF NothingLost, KnownTurn, KnownMessage, KnownConversation, Reached
<1> QED
  BY <1>2, <1>3 DEF KnownTurn, KnownMessage, KnownConversation, MessageOf, ContactOfJob

LEMMA TruthStep ==
    ASSUME MirrorsInductive, MirrorsInductive', Truth, NothingLost, MapsStay,
           \A j \in Mirror : RowStays(j), \A w \in Worker : TurnStays(w)
    PROVE  Truth'
<1>1. ASSUME NEW j \in Mirror PROVE RowTrue(j, job[j])'
  <2>1. j \in Job /\ MessageOf(j) \in Message /\ RowTrue(j, job[j])
    BY Parts DEF Truth, MapsKnown, MirrorsAreTrue, RowTrue, Reached
  <2>2. CASE RowKept(j)
    BY <2>1, <2>2, PayloadStays DEF RowKept, RowTrue, NothingLost, KnownPayload, KnownMessage,
       KnownConversation
  <2>3. CASE RowTrue(j, job'[j])
    BY <2>1, <2>3, PayloadStays DEF RowTrue, NothingLost, KnownPayload, KnownMessage, KnownConversation
  <2> QED
    BY <2>2, <2>3 DEF RowStays
<1>2. ASSUME NEW w \in Worker, worker'[w].job \in Mirror PROVE KnownTurn(worker[w])'
  <2>1. worker[w].job \in Mirror => KnownTurn(worker[w])
    BY DEF Truth, MapsKnown
  <2>2. CASE worker'[w] = worker[w]
    BY <1>2, <2>1, <2>2, TurnKept
  <2>3. CASE SameKnowledge(worker[w], worker'[w])
    <3>1. KnownTurn(worker'[w])
      BY <1>2, <2>1, <2>3 DEF SameKnowledge, KnownTurn
    <3> QED
      BY <1>2, <3>1, TurnKept
  <2>4. CASE KnownTurn(worker'[w])
    BY <1>2, <2>4, TurnKept
  <2> QED
    BY <1>2, <2>2, <2>3, <2>4 DEF TurnStays
<1>3. ASSUME review'.job # None PROVE KnownPayload(review.job, review.patched)'
  <2>1. review'.job \in Mirror
    BY <1>3 DEF MirrorsInductive, TypeOK
  <2>2. KnownPayload(review'.job, review'.patched)
    BY <1>3 DEF MapsStay, Truth, MapsKnown
  <2> QED
    BY <2>1, <2>2, PayloadStays DEF KnownPayload, KnownMessage, KnownConversation, MessageOf,
       ContactOfJob
<1>4. ASSUME NEW m \in Message, mapped'[m] # 0 PROVE mapped'[m] \in DOMAIN remote'.messages[m]
  BY <1>4 DEF MapsStay, Truth, MirrorsAreTrue, NothingLost, KnownMessage
<1>5. ASSUME NEW c \in Contact, map'[c] # 0 PROVE map'[c] \in 1..remote'.conversations[c]
  BY <1>5 DEF MapsStay, Truth, MirrorsAreTrue, NothingLost, KnownConversation
<1>6. MapsKnown'
  BY <1>1, <1>2, <1>3 DEF MapsKnown, RowTrue, Reached
<1>7. MirrorsAreTrue'
  BY <1>1, <1>4, <1>5 DEF MirrorsAreTrue, RowTrue
<1> QED
  BY <1>6, <1>7 DEF Truth

---------------------------------------------------------------------------
(* Step by step.                                                           *)

TruthKept ==
    MapsStay /\ (\A j \in Mirror : RowStays(j)) /\ (\A w \in Worker : TurnStays(w))

LEMMA MapsSame == UNCHANGED <<map, mapped, review>> => MapsStay
BY DEF MapsStay

LEMMA RowsSame == UNCHANGED job => \A j \in Mirror : RowStays(j)
BY DEF RowStays, RowKept

LEMMA TurnsSame == UNCHANGED worker => \A w \in Worker : TurnStays(w)
BY DEF TurnStays

LEMMA IdleKnowsNothing == Idle.job \notin Mirror
BY NobodyAssumption DEF Idle, Job

\* A turn that ends, or throws.
LEMMA TurnStops ==
    ASSUME MirrorsInductive, NEW w \in Worker,
           \/ worker' = [worker EXCEPT ![w] = Idle]
           \/ \E verdict : Throw(w, verdict)
    PROVE  \A v \in Worker : TurnStays(v)
<1>1. worker \in [Worker -> Turn] /\ worker[w] \in Turn
  BY DEF MirrorsInductive, TypeOK
<1>2. CASE worker' = [worker EXCEPT ![w] = Idle]
  BY <1>1, <1>2, IdleKnowsNothing DEF TurnStays
<1>3. ASSUME NEW verdict, Throw(w, verdict) PROVE \A v \in Worker : TurnStays(v)
  <2>1. /\ \A v \in Worker \ {w} : worker'[v] = worker[v]
        /\ worker'[w] = [worker[w] EXCEPT !.phase = "settling", !.verdict = verdict]
    BY <1>1, <1>3 DEF Throw
  <2>2. SameKnowledge(worker[w], worker'[w])
    BY <1>1, <2>1 DEF SameKnowledge, Turn
  <2> QED
    BY <2>1, <2>2 DEF TurnStays
<1> QED
  BY <1>2, <1>3

LEMMA PutKeeps ==
    ASSUME NEW r \in Row, NEW s
    PROVE  Put(r, s).payload = r.payload /\ Put(r, s).status = s
BY DEF Put, Row

LEMMA SweptKeeps ==
    ASSUME MirrorsInductive, NEW j \in Job
    PROVE  /\ Swept(j).payload = job[j].payload
           /\ Swept(j).status # "NONE" => job[j].status # "NONE"
           /\ Swept(j).status = "SUCCEEDED" => job[j].status = "SUCCEEDED"
<1>1. job[j] \in Row
  BY DEF MirrorsInductive, TypeOK
<1> QED
  BY <1>1, PutKeeps DEF Swept, Lapsed

LEMMA TimeTruth ==
    ASSUME MirrorsInductive, NEW j \in Job, RetryJob(j) \/ LeaseElapses(j) \/ BackoffElapses(j)
    PROVE  TruthKept
<1>1. job \in [Job -> Row]
  BY DEF MirrorsInductive, TypeOK
<1>2. ASSUME NEW k \in Mirror PROVE RowStays(k)
  <2>1. k \in Job
    BY Parts
  <2> QED
    BY <1>1, <2>1 DEF RetryJob, LeaseElapses, BackoffElapses, Row, RowStays, RowKept
<1> QED
  BY <1>2, MapsSame, TurnsSame DEF TruthKept, RetryJob, LeaseElapses, BackoffElapses

LEMMA EnvironmentTruth ==
    ASSUME MirrorsInductive,
           \/ Pause \/ Resume \/ UNCHANGED vars
           \/ \E r \in Reply : ReplyArrives(r)
           \/ \E m \in Message : \E k \in DOMAIN remote.messages[m] : EchoArrives(m, k)
    PROVE  TruthKept
<1>1. CASE Pause \/ Resume \/ UNCHANGED vars
           \/ \E m \in Message : \E k \in DOMAIN remote.messages[m] : EchoArrives(m, k)
  BY <1>1, MapsSame, RowsSame, TurnsSame DEF TruthKept, Pause, Resume, vars, EchoArrives
<1>2. ASSUME NEW r \in Reply, ReplyArrives(r) PROVE TruthKept
  <2>1. job \in [Job -> Row]
    BY DEF MirrorsInductive, TypeOK
  <2>2. \A j \in Mirror : job'[j] = job[j]
    BY <1>2, <2>1, Parts DEF ReplyArrives
  <2> QED
    BY <1>2, <2>2, MapsSame, TurnsSame DEF TruthKept, ReplyArrives, RowStays, RowKept
<1> QED
  BY <1>1, <1>2

LEMMA AdvanceTruth ==
    ASSUME MirrorsInductive, Truth, NEW m \in Message, Advance(m)
    PROVE  TruthKept
<1>1. job \in [Job -> Row] /\ state \in [Message -> States \cup {"NEW"}]
  BY DEF MirrorsInductive, TypeOK
<1>2. ASSUME NEW j \in Mirror PROVE RowStays(j)
  <2>1. j \in Job
    BY Parts
  <2>2. CASE job'[j] = job[j]
    BY <2>2 DEF RowStays, RowKept
  <2>3. CASE job'[j] # job[j]
    <3>1. j = <<m, NextState(m)>> /\ job'[j] = Fresh
      BY <1>1, <2>1, <2>3 DEF Advance
    <3>2. /\ Fresh.payload = NoPayload /\ Fresh.status = "PENDING"
      BY DEF Fresh, NoRow
    <3>3. KnownPayload(j, job[j].payload)'
      BY <3>1, <3>2 DEF NoPayload, KnownPayload, KnownMessage, KnownConversation
    <3>4. j[2] # "ACCEPTED" => state'[MessageOf(j)] \notin {"NEW", "ACCEPTED"}
      BY <1>1, <3>1 DEF Advance, NextState, MessageOf
    <3>5. RowTrue(j, job[j])'
      BY <3>1, <3>2, <3>3, <3>4 DEF RowTrue, Reached, MessageOf
    <3> QED
      BY <3>5 DEF RowStays
  <2> QED
    BY <2>2, <2>3
<1> QED
  BY <1>2, MapsSame, TurnsSame DEF TruthKept, Advance

LEMMA SweepTruth ==
    ASSUME MirrorsInductive, NEW w \in Worker, Sweep(w)
    PROVE  TruthKept
<1>1. \A j \in Mirror : job'[j] = Swept(j) /\ j \in Job
  BY Parts DEF Sweep
<1>2. \A j \in Mirror : RowStays(j)
  BY <1>1, SweptKeeps DEF RowStays, RowKept
<1> QED
  BY <1>2, MapsSame, TurnsSame DEF TruthKept, Sweep

LEMMA CrashTruth ==
    ASSUME MirrorsInductive, NEW w \in Worker, Crash(w)
    PROVE  TruthKept
BY MapsSame, RowsSame, TurnStops DEF TruthKept, Crash

LEMMA ClaimTruth ==
    ASSUME MirrorsInductive, Truth, NEW w \in Worker, NEW j \in Job, Claim(w, j)
    PROVE  TruthKept
<1> DEFINE rows == [k \in Job |-> Swept(k)]
           turn == [Idle EXCEPT !.phase = "claimed", !.job = j, !.payload = rows[j].payload]
<1>1. /\ worker \in [Worker -> Turn] /\ job \in [Job -> Row]
      /\ rows[j] \in Row
  BY Values DEF MirrorsInductive, TypeOK, Swept, Statuses
<1>2. /\ job' = [rows EXCEPT ![j] = [rows[j] EXCEPT !.status = "RUNNING", !.holder = w,
                    !.attempts = IF @ < MaxAttempts THEN @ + 1 ELSE @]]
      /\ worker' = [worker EXCEPT ![w] = turn]
      /\ j \in Candidates(rows)
  BY DEF Claim
<1>3. ASSUME NEW k \in Mirror PROVE RowStays(k)
  <2>1. k \in Job
    BY Parts
  <2>2. CASE k # j
    BY <1>2, <2>1, <2>2, SweptKeeps DEF RowStays, RowKept
  <2>3. CASE k = j
    <3>1. rows[j].status = "PENDING"
      BY <1>2 DEF Candidates, Eligible
    <3>2. job'[j].payload = rows[j].payload /\ job'[j].status = "RUNNING"
      BY <1>1, <1>2 DEF Row
    <3> QED
      BY <2>3, <3>1, <3>2, SweptKeeps DEF RowStays, RowKept
  <2> QED
    BY <2>2, <2>3
<1>4. TurnStays(w)
  <2>1. /\ turn.job = j /\ turn.payload = job[j].payload /\ turn.phase = "claimed"
        /\ turn.map = 0 /\ turn.mapped = 0
    BY SweptKeeps DEF Idle
  <2>2. job[j].status # "NONE"
    BY <1>2, SweptKeeps DEF Candidates, Eligible
  <2>3. j \in Mirror => KnownTurn(turn)
    BY <2>1, <2>2 DEF Truth, MapsKnown, KnownTurn, KnownMessage, KnownConversation
  <2>4. worker'[w] = turn
    BY <1>1, <1>2
  <2> QED
    BY <2>1, <2>3, <2>4 DEF TurnStays
<1>5. \A v \in Worker \ {w} : TurnStays(v)
  BY <1>1, <1>2 DEF TurnStays
<1> QED
  BY <1>3, <1>4, <1>5, MapsSame DEF TruthKept, Claim

---------------------------------------------------------------------------
(* The steps of a turn.                                                    *)

\* What a busy turn of a mirror knows.
LEMMA TurnKnows ==
    ASSUME MirrorsInductive, Truth, NEW w \in Worker, worker[w].job \in Mirror
    PROVE  /\ worker \in [Worker -> Turn] /\ job \in [Job -> Row]
           /\ worker[w] \in Turn /\ worker[w].payload \in Payload
           /\ worker[w].job \in Job /\ KnownTurn(worker[w])
           /\ KnownPayload(worker[w].job, worker[w].payload)
BY Parts DEF MirrorsInductive, TypeOK, Truth, MapsKnown, Turn, KnownTurn

\* A turn of a mirror that goes on and knows nothing new but t.
LEMMA TurnGoesOn ==
    ASSUME MirrorsInductive, NEW w \in Worker, NEW t,
           worker' = [worker EXCEPT ![w] = t],
           SameKnowledge(worker[w], t) \/ KnownTurn(t)
    PROVE  \A v \in Worker : TurnStays(v)
<1>1. worker \in [Worker -> Turn]
  BY DEF MirrorsInductive, TypeOK
<1> QED
  BY <1>1 DEF TurnStays

\* The payload of the row and of the turn become the same known one.
LEMMA ProgressTruth ==
    ASSUME MirrorsInductive, Truth, NEW w \in Worker, worker[w].job \in Mirror,
           NEW p \in Payload, KnownPayload(worker[w].job, p), Progress(w, p)
    PROVE  (\A j \in Mirror : RowStays(j)) /\ (\A v \in Worker : TurnStays(v))
<1> DEFINE k == worker[w].job
<1>1. CASE ~Leased(w)
  <2>1. Throw(w, "UNKNOWN") /\ UNCHANGED job
    BY <1>1 DEF Progress
  <2> QED
    BY <2>1, RowsSame, TurnStops
<1>2. CASE Leased(w)
  <2>1. /\ job' = [job EXCEPT ![k].payload = p]
        /\ worker' = [worker EXCEPT ![w].phase = "working", ![w].payload = p]
    BY <1>2 DEF Progress
  <2>2. ASSUME NEW j \in Mirror PROVE RowStays(j)
    <3>1. j \in Job /\ k \in Job /\ job[k] \in Row
      BY Parts, TurnKnows DEF MirrorsInductive, TypeOK
    <3>2. CASE j # k
      BY <2>1, <3>1, <3>2, TurnKnows DEF RowStays, RowKept
    <3>3. CASE j = k
      <4>1. job'[k].payload = p /\ job'[k].status = job[k].status
        BY <2>1, <3>1, TurnKnows DEF Row
      <4>2. RowTrue(k, job[k])
        BY DEF Truth, MapsKnown, MirrorsAreTrue, RowTrue, Reached
      <4>3. RowTrue(k, job'[k])
        BY <4>1, <4>2 DEF RowTrue
      <4> QED
        BY <3>3, <4>3 DEF RowStays
    <3> QED
      BY <3>2, <3>3
  <2>3. KnownTurn(worker'[w]) /\ \A v \in Worker \ {w} : worker'[v] = worker[v]
    <3>1. worker'[w] = [worker[w] EXCEPT !.phase = "working", !.payload = p]
      BY <2>1, TurnKnows
    <3>2. /\ worker'[w].job = k /\ worker'[w].payload = p /\ worker'[w].phase = "working"
          /\ worker'[w].map = worker[w].map /\ worker'[w].mapped = worker[w].mapped
      BY <3>1, TurnKnows DEF Turn
    <3>3. KnownTurn(worker'[w])
      BY <3>2, TurnKnows DEF KnownTurn
    <3> QED
      BY <2>1, <3>3, TurnKnows
  <2> QED
    BY <2>2, <2>3 DEF TurnStays
<1> QED
  BY <1>1, <1>2

LEMMA EndTruth ==
    ASSUME MirrorsInductive, Truth, NEW w \in Worker, Settle(w) \/ Finish(w)
    PROVE  TruthKept
<1> DEFINE k == worker[w].job
<1>1. /\ job \in [Job -> Row] /\ worker[w] \in Turn /\ k \in Job
  BY DEF MirrorsInductive, TypeOK, TurnsInOrder, Settle, Finish
<1>2. ASSUME NEW j \in Mirror PROVE RowStays(j)
  <2>1. j \in Job /\ job[j] \in Row
    BY <1>1, Parts
  <2>2. CASE job'[j] = job[j]
    BY <2>2 DEF RowStays, RowKept
  <2>3. CASE Settle(w) /\ job'[j] # job[j]
    <3>1. k = j /\ Owns(w) /\ worker[w].verdict \in Verdicts
          /\ job'[j] = [Put(job[j], worker[w].verdict) EXCEPT !.due = FALSE]
      BY <1>1, <2>1, <2>3 DEF Settle, Turn
    <3>2. job[j].status = "RUNNING"
      BY <3>1, OwnedRow, <2>3 DEF Settle
    <3>3. job'[j].payload = job[j].payload /\ job'[j].status = worker[w].verdict
      BY <2>1, <3>1 DEF Put, Row
    <3> QED
      BY <3>1, <3>2, <3>3 DEF Verdicts, RowStays, RowKept
  <2>4. CASE Finish(w) /\ job'[j] # job[j]
    <3>1. k = j /\ Owns(w) /\ job'[j] = Put(job[j], "SUCCEEDED")
      BY <1>1, <2>1, <2>4 DEF Finish
    <3>2. job[j].status = "RUNNING"
      BY <3>1, OwnedRow, <2>4 DEF Finish
    <3>3. job'[j].payload = job[j].payload
      BY <2>1, <3>1, PutKeeps
    <3>4. KnownTurn(worker[w]) /\ worker[w].phase = "finishing"
      BY <2>4, <3>1, TurnKnows DEF Finish
    <3>5. j[2] # "ACCEPTED" => mapped[MessageOf(j)] # 0
      BY <3>1, <3>4 DEF KnownTurn
    <3>6. RowTrue(j, job[j])
      BY DEF Truth, MapsKnown, MirrorsAreTrue, RowTrue, Reached
    <3>7. RowTrue(j, job'[j])
      BY <3>2, <3>3, <3>5, <3>6 DEF RowTrue
    <3> QED
      BY <3>7 DEF RowStays
  <2> QED
    BY <2>2, <2>3, <2>4
<1> QED
  BY <1>2, MapsSame, TurnStops DEF TruthKept, Settle, Finish

LEMMA ReplyTruth ==
    ASSUME MirrorsInductive, NEW w \in Worker,
           ReceiveReply(w) \/ ReadFails(w) \/ MapFails(w) \/ CallRefused(w) \/ CallUncertain(w)
    PROVE  TruthKept
<1>1. MapsStay
  BY MapsSame DEF ReceiveReply, ReadFails, MapFails, CallRefused, CallUncertain
<1>2. \A v \in Worker : TurnStays(v)
  BY TurnStops DEF ReceiveReply, ReadFails, MapFails, CallRefused, CallUncertain
<1>3. ASSUME NEW j \in Mirror PROVE RowStays(j)
  <2>1. job \in [Job -> Row] /\ j \in Job /\ j \notin Reply
    BY Parts DEF MirrorsInductive, TypeOK
  <2>2. job'[j] = job[j]
    BY <2>1 DEF ReceiveReply, ReadFails, MapFails, CallRefused, CallUncertain
  <2> QED
    BY <2>2 DEF RowStays, RowKept
<1> QED
  BY <1>1, <1>2, <1>3 DEF TruthKept

LEMMA ContextTruth ==
    ASSUME MirrorsInductive, Truth, NEW w \in Worker, ReadContext(w)
    PROVE  TruthKept
<1> DEFINE k == worker[w].job
           m == MessageOf(k)
<1>1. /\ k \in Mirror /\ m \in Message /\ ContactOf[m] \in Contact
      /\ ContactOf[m] = ContactOfJob(k)
  BY Parts DEF ReadContext, Mirrors, MessageOf, ContactOfJob
<1>2. MapsStay /\ \A j \in Mirror : RowStays(j)
  BY MapsSame, RowsSame DEF ReadContext
<1>3. CASE Throw(w, "PENDING")
  BY <1>2, <1>3, TurnStops DEF TruthKept
<1>4. CASE state[m] = "ACCEPTED" /\ worker' = [worker EXCEPT ![w].phase = "finishing"]
  <2> DEFINE t == [worker[w] EXCEPT !.phase = "finishing"]
  <2>1. worker' = [worker EXCEPT ![w] = t]
    BY <1>1, <1>4, TurnKnows
  <2>2. /\ t.job = k /\ t.payload = worker[w].payload /\ t.map = worker[w].map
        /\ t.mapped = worker[w].mapped /\ t.phase = "finishing"
    BY <1>1, TurnKnows DEF Turn
  <2>3. k[2] = "ACCEPTED"
    BY <1>1, <1>4, TurnKnows DEF KnownTurn
  <2>4. KnownTurn(t)
    BY <1>1, <2>2, <2>3, TurnKnows DEF KnownTurn
  <2> QED
    BY <1>2, <2>1, <2>4, TurnGoesOn DEF TruthKept
<1>5. CASE worker' = [worker EXCEPT ![w].phase = "working", ![w].map = map[ContactOf[m]],
                                    ![w].mapped = mapped[m]]
  <2> DEFINE t == [worker[w] EXCEPT !.phase = "working", !.map = map[ContactOf[m]],
                                    !.mapped = mapped[m]]
  <2>1. worker' = [worker EXCEPT ![w] = t]
    BY <1>1, <1>5, TurnKnows
  <2>2. /\ t.job = k /\ t.payload = worker[w].payload /\ t.map = map[ContactOf[m]]
        /\ t.mapped = mapped[m] /\ t.phase = "working"
    BY <1>1, TurnKnows DEF Turn
  <2>3. KnownTurn(t)
    BY <1>1, <2>2, TurnKnows DEF KnownTurn, Truth, MirrorsAreTrue, KnownMessage, KnownConversation
  <2> QED
    BY <1>2, <2>1, <2>3, TurnGoesOn DEF TruthKept
<1> QED
  BY <1>3, <1>4, <1>5 DEF ReadContext

LEMMA FindTruth ==
    ASSUME MirrorsInductive, Truth, NEW w \in Worker, FindContact(w)
    PROVE  TruthKept
<1> DEFINE p == [worker[w].payload EXCEPT !.contact = TRUE]
<1>1. worker[w].job \in Mirror /\ Progress(w, p)
  BY DEF FindContact, Mirrors
<1>2. p \in Payload /\ KnownPayload(worker[w].job, p)
  BY <1>1, TurnKnows DEF Payload, KnownPayload
<1> QED
  BY <1>1, <1>2, ProgressTruth, MapsSame DEF TruthKept, FindContact

LEMMA AnswerTruth ==
    ASSUME MirrorsInductive, Truth, NEW w \in Worker, KeepAnswer(w)
    PROVE  TruthKept
<1> DEFINE t == worker[w]
           op == t.payload.operation
           p == CASE op = "CREATE_CONTACT" -> [t.payload EXCEPT !.contact = TRUE]
                  [] op = "LINK_CONTACT" -> [t.payload EXCEPT !.source = TRUE]
                  [] op = "CREATE_CONVERSATION" -> [t.payload EXCEPT !.conversation = t.answer]
                  [] op = "SEND_MESSAGE" -> [t.payload EXCEPT !.message = t.answer]
<1>1. /\ Progress(w, p) /\ t.phase \in {"called", "proved"}
      /\ t.phase = "called" => op # "SEND_MESSAGE"
  BY DEF KeepAnswer, Sends
<1>2. /\ t.job \in Mirror /\ op \in Setup \cup {"SEND_MESSAGE"}
      /\ op = "SEND_MESSAGE" => t.phase = "proved" /\ Sends(w)
      /\ op # "SEND_MESSAGE" => t.phase = "called"
  BY <1>1 DEF MirrorsInductive, TurnsInOrder, Sends
<1>3. t.answer \in Nat /\ t.payload \in Payload /\ KnownPayload(t.job, t.payload)
  BY <1>2, TurnKnows DEF Turn
<1>4. CASE op = "CREATE_CONTACT"
  <2>1. p = [t.payload EXCEPT !.contact = TRUE]
    BY <1>4
  <2> QED
    BY <1>1, <1>2, <1>3, <2>1, ProgressTruth, MapsSame DEF Payload, KnownPayload, TruthKept, KeepAnswer
<1>5. CASE op = "LINK_CONTACT"
  <2>1. p = [t.payload EXCEPT !.source = TRUE]
    BY <1>5
  <2> QED
    BY <1>1, <1>2, <1>3, <2>1, ProgressTruth, MapsSame DEF Payload, KnownPayload, TruthKept, KeepAnswer
<1>6. CASE op = "CREATE_CONVERSATION"
  <2>1. p = [t.payload EXCEPT !.conversation = t.answer]
    BY <1>6
  <2>2. KnownConversation(ContactOfJob(t.job), t.answer)
    BY <1>1, <1>2, <1>6, TurnKnows DEF KnownTurn
  <2>3. p \in Payload /\ KnownPayload(t.job, p)
    BY <1>3, <2>1, <2>2 DEF Payload, KnownPayload
  <2> QED
    BY <1>1, <1>2, <2>3, ProgressTruth, MapsSame DEF TruthKept, KeepAnswer
<1>7. CASE op = "SEND_MESSAGE"
  <2>1. p = [t.payload EXCEPT !.message = t.answer]
    BY <1>7
  <2>2. KnownMessage(MessageOf(t.job), t.answer)
    BY <1>2, <1>7 DEF MirrorsInductive, AnswersTrue, PostedAs, KnownMessage
  <2>3. p \in Payload /\ KnownPayload(t.job, p)
    BY <1>3, <2>1, <2>2 DEF Payload, KnownPayload
  <2> QED
    BY <1>1, <1>2, <2>3, ProgressTruth, MapsSame DEF TruthKept, KeepAnswer
<1> QED
  BY <1>2, <1>4, <1>5, <1>6, <1>7 DEF Setup

LEMMA BeforeTruth ==
    ASSUME MirrorsInductive, Truth, NEW w \in Worker, BeforeExternal(w)
    PROVE  TruthKept
<1> DEFINE t == worker[w]
           k == t.job
           next == IF t.phase = "recorded" THEN "UPDATE_STATUS" ELSE Needs(t)
           named == [t.payload EXCEPT !.operation = next,
                        !.conversation = IF next = "SEND_MESSAGE" THEN t.map ELSE @]
           phase == CASE next \in Setup -> "calling"
                      [] next = "SEND_MESSAGE" -> "beginning"
                      [] next = "UPDATE_STATUS" -> "patching"
           u == [t EXCEPT !.payload = named, !.phase = phase]
<1>1. /\ k \in Mirror /\ t.phase \in {"working", "recorded"} /\ next \in Operations
      /\ \/ /\ job' = [job EXCEPT ![k].payload = named]
            /\ worker' = [worker EXCEPT ![w].payload = named, ![w].phase = phase]
         \/ UNCHANGED job /\ \E verdict : Throw(w, verdict)
  BY DEF BeforeExternal, Mirrors
<1>2. MapsStay
  BY MapsSame DEF BeforeExternal
<1>3. CASE UNCHANGED job /\ \E verdict : Throw(w, verdict)
  BY <1>2, <1>3, RowsSame, TurnStops DEF TruthKept
<1>4. CASE /\ job' = [job EXCEPT ![k].payload = named]
           /\ worker' = [worker EXCEPT ![w].payload = named, ![w].phase = phase]
  <2>1. /\ next \in Operations
        /\ next = "UPDATE_STATUS" => t.phase = "recorded"
        /\ phase \in {"calling", "beginning", "patching"}
        /\ phase = "patching" => next = "UPDATE_STATUS"
    <3>1. Needs(t) # "UPDATE_STATUS"
      BY DEF Needs
    <3> QED
      BY <1>1, <3>1 DEF Operations, Setup
  <2>2. KnownPayload(k, named) /\ KnownTurn(t)
    <3>1. /\ named.message = t.payload.message
          /\ named.conversation \in {t.map, t.payload.conversation}
      BY <1>1, TurnKnows DEF Payload
    <3> QED
      BY <1>1, <3>1, TurnKnows DEF KnownPayload, KnownTurn
  <2> HIDE DEF next, named, phase
  <2>3. worker' = [worker EXCEPT ![w] = u]
    BY <1>1, <1>4, TurnKnows
  <2>4. /\ u.job = k /\ u.payload = named /\ u.phase = phase /\ u.map = t.map
        /\ u.mapped = t.mapped
    BY <1>1, TurnKnows DEF Turn
  <2>5. phase = "patching" => mapped[MessageOf(k)] # 0
    BY <2>1, <2>2 DEF KnownTurn
  <2>6. KnownTurn(u)
    BY <2>1, <2>2, <2>4, <2>5 DEF KnownTurn
  <2>7. ASSUME NEW j \in Mirror PROVE RowStays(j)
    <3>1. j \in Job /\ k \in Job /\ job \in [Job -> Row]
      BY <1>1, Parts, TurnKnows
    <3>2. CASE j # k
      BY <1>4, <3>1, <3>2 DEF RowStays, RowKept
    <3>3. CASE j = k
      <4>1. job'[k].payload = named /\ job'[k].status = job[k].status
        BY <1>4, <3>1 DEF Row
      <4>2. RowTrue(k, job[k])
        BY <1>1 DEF Truth, MapsKnown, MirrorsAreTrue, RowTrue, Reached
      <4>3. RowTrue(k, job'[k])
        BY <2>2, <4>1, <4>2 DEF RowTrue
      <4> QED
        BY <3>3, <4>3 DEF RowStays
    <3> QED
      BY <3>2, <3>3
  <2> QED
    BY <1>2, <2>3, <2>6, <2>7, TurnGoesOn DEF TruthKept
<1> QED
  BY <1>1, <1>3, <1>4

\* A turn that only changes its phase, to one that promises nothing.
LEMMA PhaseTruth ==
    ASSUME MirrorsInductive, NEW w \in Worker, NEW phase,
           phase \notin {"called", "recorded", "patching", "finishing"},
           worker' = [worker EXCEPT ![w].phase = phase]
    PROVE  \A v \in Worker : TurnStays(v)
<1> DEFINE t == [worker[w] EXCEPT !.phase = phase]
<1>1. worker \in [Worker -> Turn] /\ worker[w] \in Turn
  BY DEF MirrorsInductive, TypeOK
<1>2. worker' = [worker EXCEPT ![w] = t]
  BY <1>1
<1>3. SameKnowledge(worker[w], t)
  BY <1>1 DEF SameKnowledge, Turn
<1> QED
  BY <1>2, <1>3, TurnGoesOn

LEMMA AttemptTruth ==
    ASSUME MirrorsInductive, NEW w \in Worker, BeginAttempt(w) \/ ConfirmAttempt(w)
    PROVE  TruthKept
<1>1. MapsStay /\ \A j \in Mirror : RowStays(j)
  BY MapsSame, RowsSame DEF BeginAttempt, ConfirmAttempt
<1>2. \/ worker' = [worker EXCEPT ![w].phase = "calling"]
      \/ worker' = [worker EXCEPT ![w].phase = "proved"]
      \/ \E v \in Verdicts : Throw(w, v)
  BY DEF BeginAttempt, ConfirmAttempt, Verdicts
<1>3. \A v \in Worker : TurnStays(v)
  BY <1>2, PhaseTruth, TurnStops
<1> QED
  BY <1>1, <1>3 DEF TruthKept

LEMMA CallTruth ==
    ASSUME MirrorsInductive, Truth, NEW w \in Worker, CallAccepted(w)
    PROVE  TruthKept
<1> DEFINE t == worker[w]
           k == t.job
           m == MessageOf(k)
           c == ContactOfJob(k)
           answer == IF Sends(w) THEN Len(remote'.messages[m]) ELSE remote'.conversations[ContactOf[m]]
           u == [t EXCEPT !.phase = "called", !.answer = answer]
<1>1. k \in Mirror /\ t.phase = "calling"
  BY DEF CallAccepted, MirrorsInductive, TurnsInOrder
<1>2. MapsStay /\ \A j \in Mirror : RowStays(j)
  BY MapsSame, RowsSame DEF CallAccepted
<1>3. worker' = [worker EXCEPT ![w] = u]
  BY <1>1, TurnKnows DEF CallAccepted
<1>4. KnownTurn(t)
  BY <1>1, TurnKnows
<1>5. /\ u.job = k /\ u.payload = t.payload /\ u.map = t.map /\ u.mapped = t.mapped
      /\ u.phase = "called" /\ u.answer = answer
  BY <1>1, TurnKnows DEF Turn
<1>6. worker'[w] = u /\ \A v \in Worker \ {w} : worker'[v] = worker[v]
  BY <1>1, <1>3, TurnKnows
<1>7. KnownTurn(worker[w])'
  <2>1. /\ m \in Message /\ c \in Contact /\ c = ContactOf[m]
        /\ remote' = Applied(w) /\ UNCHANGED <<state, mapped>>
        /\ remote'.conversations[c] \in Nat
    BY <1>1, Parts, AppliedRemote DEF CallAccepted, ContactOfJob, MessageOf
  <2>2. /\ DOMAIN remote.messages[m] \subseteq DOMAIN remote'.messages[m]
        /\ 1..remote.conversations[c] \subseteq 1..remote'.conversations[c]
    BY <1>1, <2>1, AppliedGrows
  <2>3. t.payload.operation = "CREATE_CONVERSATION" =>
           (answer # 0 => answer \in 1..remote'.conversations[c])
    BY <2>1 DEF Sends
  <2>4. /\ u.payload.message # 0 => u.payload.message \in DOMAIN remote'.messages[m]
        /\ u.payload.conversation # 0 => u.payload.conversation \in 1..remote'.conversations[c]
        /\ u.map # 0 => u.map \in 1..remote'.conversations[c]
        /\ u.mapped # 0 => mapped'[m] = u.mapped
        /\ k[2] # "ACCEPTED" => state'[m] \notin {"NEW", "ACCEPTED"}
    BY <1>4, <1>5, <2>1, <2>2 DEF KnownTurn, KnownPayload, KnownMessage, KnownConversation
  <2> QED
    BY <1>5, <1>6, <2>3, <2>4 DEF KnownTurn, KnownPayload, KnownMessage, KnownConversation,
       MessageOf, ContactOfJob
<1> QED
  BY <1>2, <1>6, <1>7 DEF TruthKept, TurnStays

LEMMA MapTruth ==
    ASSUME MirrorsInductive, Truth, NEW w \in Worker, MapConversation(w)
    PROVE  TruthKept
<1> DEFINE t == worker[w]
           k == t.job
           c == ContactOfJob(k)
           n == t.payload.conversation
           u == [t EXCEPT !.map = n]
<1>1. k \in Mirror /\ c \in Contact /\ map \in [Contact -> Nat] /\ t.phase = "working"
  BY Parts DEF MapConversation, Mirrors, MirrorsInductive, TypeOK
<1>2. KnownConversation(c, n) /\ KnownTurn(t)
  BY <1>1, TurnKnows DEF KnownPayload
<1>3. MapsStay
  <2>1. \A d \in Contact : map'[d] = map[d] \/ KnownConversation(d, map'[d])
    BY <1>1, <1>2 DEF MapConversation
  <2> QED
    BY <2>1 DEF MapsStay, MapConversation
<1>4. \A j \in Mirror : RowStays(j)
  BY RowsSame DEF MapConversation
<1>5. worker' = [worker EXCEPT ![w] = u]
  BY <1>1, TurnKnows DEF MapConversation
<1>6. KnownTurn(u)
  <2>1. /\ u.job = k /\ u.payload = t.payload /\ u.map = n /\ u.mapped = t.mapped
        /\ u.phase = "working"
    BY <1>1, TurnKnows DEF Turn
  <2> QED
    BY <1>2, <2>1 DEF KnownTurn
<1> QED
  BY <1>3, <1>4, <1>5, <1>6, TurnGoesOn DEF TruthKept

LEMMA RecordTruth ==
    ASSUME MirrorsInductive, Truth, NEW w \in Worker, Record(w)
    PROVE  TruthKept
<1> DEFINE t == worker[w]
           k == t.job
           m == MessageOf(k)
           phase == IF m \in Outgoing THEN "recorded" ELSE "finishing"
           u == [t EXCEPT !.phase = phase]
<1>1. /\ k \in Mirror /\ m \in Message /\ mapped \in [Message -> Nat]
      /\ t.phase = "working" /\ Needs(t) = "RECORD"
  BY Parts DEF Record, Mirrors, MirrorsInductive, TypeOK
<1>2. /\ KnownTurn(t) /\ KnownPayload(k, t.payload)
      /\ t.payload.contact \in BOOLEAN /\ t.payload.source \in BOOLEAN
  BY <1>1, TurnKnows DEF Payload
<1>3. t.mapped # 0 \/ t.payload.message # 0
  BY <1>1, <1>2 DEF Needs
<1>4. mapped'[m] # 0
  BY <1>1, <1>2, <1>3 DEF KnownTurn, Record
<1>5. MapsStay
  <2>1. \A a \in Message : mapped'[a] = mapped[a] \/ KnownMessage(a, mapped'[a])
    BY <1>1, <1>2 DEF Record, KnownPayload
  <2> QED
    BY <2>1 DEF MapsStay, Record
<1>6. \A j \in Mirror : RowStays(j)
  BY RowsSame DEF Record
<1>7. worker'[w] = u /\ \A v \in Worker \ {w} : worker'[v] = worker[v]
  BY <1>1, TurnKnows DEF Record
<1>8. KnownTurn(worker[w])'
  <2>1. /\ u.job = k /\ u.payload = t.payload /\ u.map = t.map /\ u.mapped = t.mapped
        /\ u.phase \in {"recorded", "finishing"}
    BY <1>1, TurnKnows DEF Turn
  <2>2. u.mapped # 0 => mapped'[m] = u.mapped
    BY <1>1, <1>2, <2>1 DEF KnownTurn, Record
  <2>3. UNCHANGED <<state, remote>>
    BY DEF Record
  <2> QED
    BY <1>2, <1>4, <1>7, <2>1, <2>2, <2>3 DEF KnownTurn, KnownPayload, KnownMessage,
       KnownConversation, MessageOf, ContactOfJob
<1> QED
  BY <1>5, <1>6, <1>7, <1>8 DEF TruthKept, TurnStays

LEMMA PatchTruth ==
    ASSUME MirrorsInductive, Truth, NEW w \in Worker, PatchStatus(w)
    PROVE  TruthKept
<1> DEFINE t == worker[w]
           u == [t EXCEPT !.phase = "finishing"]
<1>1. MapsStay /\ \A j \in Mirror : RowStays(j)
  BY MapsSame, RowsSame DEF PatchStatus
<1>2. CASE \E verdict : Throw(w, verdict)
  BY <1>1, <1>2, TurnStops DEF TruthKept
<1>3. CASE worker' = [worker EXCEPT ![w].phase = "finishing"]
  <2>1. t.phase = "patching" /\ t.job \in Mirror
    BY DEF PatchStatus, MirrorsInductive, TurnsInOrder
  <2>2. worker' = [worker EXCEPT ![w] = u]
    BY <1>3, <2>1, TurnKnows
  <2>3. /\ u.job = t.job /\ u.payload = t.payload /\ u.map = t.map /\ u.mapped = t.mapped
        /\ u.phase = "finishing"
    BY <2>1, TurnKnows DEF Turn
  <2>4. KnownTurn(u)
    BY <2>1, <2>3, TurnKnows DEF KnownTurn
  <2> QED
    BY <1>1, <2>2, <2>4, TurnGoesOn DEF TruthKept
<1> QED
  BY <1>2, <1>3 DEF PatchStatus

---------------------------------------------------------------------------
(* The operator's reconciliation.                                          *)

LEMMA EvidenceKnown ==
    ASSUME MirrorsInductive, Truth, NEW j \in Mirror, NEW p \in Evidence(j)
    PROVE  KnownPayload(j, p)
<1> DEFINE q == job[j].payload
           m == MessageOf(j)
           c == ContactOf[m]
<1>1. /\ j \in Job /\ q \in Payload /\ c = ContactOfJob(j) /\ KnownPayload(j, q)
  BY Parts DEF MirrorsInductive, TypeOK, Row, ContactOfJob, MessageOf, Truth, MapsKnown
<1>2. CASE q.operation = "SEND_MESSAGE"
  <2>1. PICK k \in DOMAIN remote.messages[m] : p = [q EXCEPT !.message = k]
    <3>1. CASE attempt[j].state = "CONFIRMED"
      <4>1. PostedAs(j, attempt[j].message) /\ p = [q EXCEPT !.message = attempt[j].message]
        BY <1>2, <3>1 DEF MirrorsInductive, AttemptsTrue, Evidence
      <4> QED
        BY <4>1 DEF PostedAs
    <3>2. CASE attempt[j].state = "NONE"
      BY <1>2, <3>2 DEF Evidence
    <3> QED
      BY <1>2, <3>1, <3>2 DEF Evidence
  <2>2. p.message = k /\ p.conversation = q.conversation
    BY <1>1, <2>1 DEF Payload
  <2> QED
    BY <1>1, <2>2 DEF KnownPayload, KnownMessage
<1>3. CASE q.operation = "CREATE_CONVERSATION"
  <2>1. PICK k \in 1..remote.conversations[c] : p = [q EXCEPT !.conversation = k]
    BY <1>3 DEF Evidence
  <2>2. p.message = q.message /\ p.conversation = k
    BY <1>1, <2>1 DEF Payload
  <2> QED
    BY <1>1, <2>2 DEF KnownPayload, KnownConversation
<1>4. CASE q.operation \notin {"SEND_MESSAGE", "CREATE_CONVERSATION"}
  <2>1. p \in {[q EXCEPT !.contact = TRUE], [q EXCEPT !.source = TRUE], q}
    BY <1>4 DEF Evidence
  <2>2. p.message = q.message /\ p.conversation = q.conversation
    BY <1>1, <2>1 DEF Payload
  <2> QED
    BY <1>1, <2>2 DEF KnownPayload
<1> QED
  BY <1>2, <1>3, <1>4

LEMMA ReviewTruth ==
    ASSUME MirrorsInductive, Truth,
           ReconcileCommit \/ \E j \in Mirror : ReconcileRead(j)
    PROVE  TruthKept
<1>1. ASSUME NEW j \in Mirror, ReconcileRead(j) PROVE TruthKept
  <2>1. PICK p \in Evidence(j) :
           review' = [job |-> j, seen |-> job[j].payload, patched |-> p, ready |-> ready]
    BY <1>1 DEF ReconcileRead
  <2>2. review'.job = j /\ review'.patched = p /\ KnownPayload(j, p)
    BY <2>1, EvidenceKnown
  <2>3. MapsStay
    BY <1>1, <2>2 DEF MapsStay, ReconcileRead
  <2> QED
    BY <1>1, <2>3, RowsSame, TurnsSame DEF TruthKept, ReconcileRead
<1>2. CASE ReconcileCommit
  <2> DEFINE j == review.job
             p == review.patched
  <2>1. /\ j \in Mirror /\ j \in Job /\ job \in [Job -> Row] /\ job[j] \in Row
        /\ KnownPayload(j, p)
    BY <1>2, Parts DEF ReconcileCommit, MirrorsInductive, TypeOK, Truth, MapsKnown
  <2>2. MapsStay
    BY <1>2 DEF MapsStay, ReconcileCommit, NoReview
  <2>3. ASSUME NEW k \in Mirror PROVE RowStays(k)
    <3>1. k \in Job
      BY Parts
    <3>2. CASE job'[k] = job[k]
      BY <3>2 DEF RowStays, RowKept
    <3>3. CASE job'[k] # job[k]
      <4>1. k = j /\ job[j].status = "UNKNOWN"
            /\ job'[j] = [job[j] EXCEPT !.status = "PENDING", !.due = TRUE, !.payload = p]
        BY <1>2, <2>1, <3>1, <3>3 DEF ReconcileCommit
      <4>2. job'[j].payload = p /\ job'[j].status = "PENDING"
        BY <2>1, <4>1 DEF Row
      <4>3. RowTrue(j, job[j])
        BY <2>1 DEF Truth, MapsKnown, MirrorsAreTrue, RowTrue, Reached
      <4>4. RowTrue(j, job'[j])
        BY <2>1, <4>1, <4>2, <4>3 DEF RowTrue
      <4> QED
        BY <4>1, <4>4 DEF RowStays
    <3> QED
      BY <3>2, <3>3
  <2> QED
    BY <1>2, <2>2, <2>3, TurnsSame DEF TruthKept, ReconcileCommit
<1> QED
  BY <1>1, <1>2

---------------------------------------------------------------------------
(* The theorem.                                                            *)

LEMMA EachKept ==
    ASSUME MirrorsInductive, Truth, [Next]_vars
    PROVE  TruthKept
<1>1. ASSUME NEW w \in Worker, TurnStep(w) PROVE TruthKept
  BY <1>1, ContextTruth, FindTruth, BeforeTruth, AttemptTruth, CallTruth, ReplyTruth, AnswerTruth,
     MapTruth, RecordTruth, PatchTruth, EndTruth DEF TurnStep, MirrorStep
<1>2. ASSUME NEW w \in Worker, Sweep(w) \/ Crash(w) \/ \E j \in Job : Claim(w, j) PROVE TruthKept
  BY <1>2, SweepTruth, CrashTruth, ClaimTruth
<1>3. ASSUME NEW j \in Job, RetryJob(j) \/ LeaseElapses(j) \/ BackoffElapses(j) PROVE TruthKept
  BY <1>3, TimeTruth
<1>4. ASSUME NEW m \in Message, Advance(m) \/ \E k \in DOMAIN remote.messages[m] : EchoArrives(m, k)
      PROVE  TruthKept
  BY <1>4, AdvanceTruth, EnvironmentTruth
<1>5. ASSUME ReconcileCommit \/ Pause \/ Resume \/ (\E j \in Mirror : ReconcileRead(j))
             \/ (\E r \in Reply : ReplyArrives(r))
      PROVE  TruthKept
  BY <1>5, ReviewTruth, EnvironmentTruth
<1>6. CASE UNCHANGED vars
  BY <1>6, EnvironmentTruth
<1> QED
  BY <1>1, <1>2, <1>3, <1>4, <1>5, <1>6 DEF Next

LEMMA TruthInit == Init => Truth
<1> SUFFICES ASSUME Init PROVE Truth
  OBVIOUS
<1>1. ASSUME NEW j \in Mirror
      PROVE  /\ job[j].payload = NoPayload /\ job[j].status = "NONE"
  BY Parts DEF Init, NoRow
<1>2. \A w \in Worker : worker[w].job \notin Mirror
  BY IdleKnowsNothing DEF Init
<1>3. \A j \in Mirror : KnownPayload(j, NoPayload)
  BY DEF KnownPayload, KnownMessage, KnownConversation, NoPayload
<1> QED
  BY <1>1, <1>2, <1>3 DEF Init, NoReview, Truth, MapsKnown, MirrorsAreTrue

\* A mirror that SUCCEEDED is in Chatwoot and what the maps name exists there,
\* through every crash, lost answer, retry, sweep and reconciliation
\* (chatwoot-worker.ts:130-136, 212-222, 687-733; chatwoot-service.ts:853-873).
THEOREM MirrorsTellTheTruth == Spec => []MirrorsAreTrue
<1>1. MirrorsInductive /\ Truth /\ MirrorsInductive' /\ [Next]_vars => Truth'
  <2> SUFFICES ASSUME MirrorsInductive, Truth, MirrorsInductive', [Next]_vars PROVE Truth'
    OBVIOUS
  <2>1. NothingLost
    BY EachGrows
  <2> QED
    BY <2>1, EachKept, TruthStep DEF TruthKept
<1>2. Truth => MirrorsAreTrue
  BY DEF Truth
<1> QED
  BY <1>1, <1>2, TruthInit, InductiveHolds, PTL DEF Spec

===========================================================================
