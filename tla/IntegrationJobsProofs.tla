----------------------- MODULE IntegrationJobsProofs -----------------------
(***************************************************************************)
(* Theorems about IntegrationJobs for every set of messages, contacts,     *)
(* replies and workers and every number of attempts and disturbances.      *)
(***************************************************************************)
EXTENDS IntegrationJobs, FiniteSetTheorems, SequenceTheorems, TLAPS

---------------------------------------------------------------------------
(* Values.                                                                 *)

LEMMA Values ==
    /\ NoPayload \in Payload
    /\ NoRow \in Row
    /\ Idle \in Turn
    /\ Fresh \in Row
    /\ \A r \in Row, s \in Statuses : Put(r, s) \in Row
<1>1. NoPayload \in Payload
  BY DEF NoPayload, Payload
<1>2. NoRow \in Row
  BY <1>1, BoundAssumption DEF NoRow, Row, Statuses
<1>3. Idle \in Turn
  BY <1>1 DEF Idle, Turn, Phases, Verdicts
<1>4. Cardinality({j \in Job : job[j].status # "NONE"}) \in Nat
  <2>1. IsFiniteSet({j \in Job : job[j].status # "NONE"})
    BY BoundAssumption, FS_Subset
  <2> QED
    BY <2>1, FS_CardinalityType
<1>5. Fresh \in Row
  <2> DEFINE n == 1 + Cardinality({j \in Job : job[j].status # "NONE"})
  <2>1. n \in Nat
    BY <1>4
  <2>2. [NoRow EXCEPT !.status = "PENDING", !.due = TRUE, !.born = n] \in Row
    <3> HIDE DEF n
    <3> QED
      BY <1>2, <2>1 DEF Row, Statuses
  <2> QED
    BY <2>2 DEF Fresh
<1>6. ASSUME NEW r \in Row, NEW s \in Statuses PROVE Put(r, s) \in Row
  BY DEF Put, Row
<1> QED
  BY <1>1, <1>2, <1>3, <1>5, <1>6

LEMMA Parts ==
    ASSUME NEW j \in Mirror
    PROVE  j \in Job /\ j \notin Reply /\ MessageOf(j) \in Message /\ ContactOfJob(j) \in Contact
<1>1. j[1] \in Message
  BY DEF Mirror
<1> QED
  BY <1>1, JobAssumption DEF Job, MessageOf, ContactOfJob

\* The row of a turn that owns it.
LEMMA OwnedRow ==
    ASSUME MirrorsInductive, NEW w \in Worker, worker[w].phase # "idle", Owns(w)
    PROVE  /\ worker[w].job \in Job /\ worker[w] \in Turn /\ job[worker[w].job] \in Row
           /\ Holds(w, worker[w].job)
           /\ worker[w].payload = job[worker[w].job].payload
           /\ job[worker[w].job].status = "RUNNING"
<1>1. worker[w] \in Turn /\ worker[w].job \in Job
  BY DEF MirrorsInductive, TypeOK, TurnsInOrder
<1>2. Holds(w, worker[w].job)
  BY DEF Holds, Owns
<1>3. worker[w].payload = job[worker[w].job].payload
  BY <1>1, <1>2 DEF MirrorsInductive, TurnsInOrder
<1> QED
  BY <1>1, <1>2, <1>3, NobodyAssumption DEF MirrorsInductive, TypeOK, RowsInOrder, Owns

\* No POST of j waits for its answer, and one that took effect has its evidence.
Evident(j) == ~InFlight(j) /\ (Posted(j) => attempt[j].state = "CONFIRMED")

LEMMA DecidedIsEvident ==
    ASSUME MirrorsInductive, NEW j \in Mirror, ~Undecided(j)
    PROVE  Evident(j)
<1>1. CASE job[j].payload.message # 0
  BY <1>1 DEF MirrorsInductive, AttemptsTrue, PostsTrue, Awaited, InFlight, Evident
<1>2. CASE job[j].payload.message = 0
  BY <1>2 DEF Undecided, Evident
<1> QED
  BY <1>1, <1>2

\* A turn of an undecided job can only end it as uncertain.
LEMMA Decided ==
    ASSUME MirrorsInductive, NEW w \in Worker, Owns(w), worker[w].job \in Mirror,
           worker[w].phase \in {"claimed", "working", "recorded", "patching", "finishing", "beginning"}
              \/ (worker[w].payload.operation # "SEND_MESSAGE" /\ worker[w].phase # "idle")
    PROVE  /\ ~Undecided(worker[w].job)
           /\ Evident(worker[w].job)
           /\ job[worker[w].job].payload.message # 0 \/ ~Posted(worker[w].job)
<1> DEFINE j == worker[w].job
<1>1. Holds(w, j) /\ worker[w].payload = job[j].payload
  BY OwnedRow
<1>2. ~Undecided(j)
  BY <1>1 DEF MirrorsInductive, UndecidedStays
<1> QED
  BY <1>2, DecidedIsEvident DEF Undecided

\* A turn that does not call with a POST leaves no POST of its own in flight.
LEMMA FlightEnds ==
    ASSUME MirrorsInductive, NEW w \in Worker, NEW t \in Turn, worker' = [worker EXCEPT ![w] = t],
           ~(t.phase = "calling" /\ t.payload.operation = "SEND_MESSAGE")
    PROVE  /\ \A v \in Worker : Posting(v)' => v # w /\ Posting(v) /\ worker'[v] = worker[v]
           /\ \A k : InFlight(k)' => \E v \in Worker \ {w} : Posting(v) /\ worker[v].job = k
<1>1. worker'[w] = t /\ \A v \in Worker \ {w} : worker'[v] = worker[v]
  BY DEF MirrorsInductive, TypeOK
<1>2. \A v \in Worker : Posting(v)' => v # w /\ Posting(v) /\ worker'[v] = worker[v]
  BY <1>1 DEF Posting, Sends
<1> QED
  BY <1>2 DEF InFlight

---------------------------------------------------------------------------
(* Steps that only change rows, or end a turn.                             *)

Quiet(j, r) ==
    /\ r.payload = job[j].payload
    /\ r.status = "NONE" => r = NoRow
    /\ r.holder \in {job[j].holder, None}
    /\ r.holder # None => r.status = "RUNNING"
    /\ r.status = "RUNNING" => job[j].status = "RUNNING"
    /\ r.status = "UNKNOWN" => job[j].status \in {"RUNNING", "UNKNOWN"}
    /\ job[j].status = "UNKNOWN" => r.status = "UNKNOWN"
    /\ j \in Mirror /\ Undecided(j) => r.status \in {"RUNNING", "UNKNOWN"}

LEMMA QuietStep ==
    ASSUME MirrorsInductive, TypeOK', UNCHANGED <<attempt, review, remote, echo>>,
           \A j \in Job : Quiet(j, job'[j]),
           \A w \in Worker : worker'[w] \in {worker[w], Idle}
    PROVE  MirrorsInductive'
<1> USE DEF MirrorsInductive
<1>1. \A j \in Mirror : j \in Job
  BY DEF Job
<1>2. RowsInOrder'
  BY DEF RowsInOrder, Quiet
<1>3. \A w \in Worker : worker'[w].phase # "idle" => worker'[w] = worker[w]
  BY DEF Idle
<1>11. TurnsInOrder'
  <2>1. \A w \in Worker, j \in Job : Holds(w, j)' => Holds(w, j) /\ job'[j].payload = job[j].payload
    BY <1>3, NobodyAssumption DEF Holds, Quiet
  <2> SUFFICES ASSUME NEW v \in Worker
               PROVE  /\ worker'[v].phase # "idle" => worker'[v].job \in Job
                      /\ worker'[v].phase \notin {"idle", "claimed", "settling"} => worker'[v].job \in Mirror
                      /\ worker'[v].phase \in {"calling", "called"} =>
                            worker'[v].payload.operation \in Setup \cup {"SEND_MESSAGE"}
                      /\ worker'[v].phase \in {"beginning", "proved"} => Sends(v)'
                      /\ worker'[v].phase = "beginning" => worker'[v].payload.message = 0
                      /\ \A j \in Job : Holds(v, j)' => worker'[v].payload = job'[j].payload
    BY DEF TurnsInOrder
  <2>2. \A j \in Job : Holds(v, j)' => worker'[v].payload = job'[j].payload
    BY <1>3, <2>1 DEF TurnsInOrder, Holds
  <2> QED
    BY <1>3, <2>2 DEF TurnsInOrder, Sends
<1>4. OneRunning'
  BY DEF OneRunning, Quiet
<1>5. OneUncertain'
  <2>1. \A j \in AtRisk' : j \in AtRisk
    BY <1>1 DEF AtRisk, Quiet
  <2>2. ASSUME NEW r \in Reply, job'[r].status = "RUNNING" PROVE Unknown(job') = {}
    <3>1. r \in Job /\ job[r].status = "RUNNING" /\ Unknown(job) = {}
      BY <2>2 DEF Job, Quiet, OneUncertain
    <3> SUFFICES ASSUME NEW k \in Mirror, job'[k].status = "UNKNOWN" PROVE FALSE
      BY DEF Unknown
    <3>2. job[k].status = "RUNNING"
      BY <1>1, <3>1 DEF Quiet, Unknown
    <3> QED
      BY <1>1, <3>1, <3>2, Parts DEF OneRunning
  <2> QED
    BY <2>1, <2>2 DEF OneUncertain, ContactOfJob
<1>6. UndecidedStays'
  <2> SUFFICES ASSUME NEW j \in Mirror, Undecided(j)'
               PROVE  /\ job'[j].payload.operation = "SEND_MESSAGE"
                      /\ job'[j].status \in {"RUNNING", "UNKNOWN"}
                      /\ \A w \in Worker : Holds(w, j)' =>
                            \/ worker'[w].phase \in {"calling", "called", "proved"}
                            \/ worker'[w].phase = "settling" /\ worker'[w].verdict = "UNKNOWN"
    BY DEF UndecidedStays
  <2>0. InFlight(j)' => InFlight(j)
    BY <1>3 DEF InFlight, Posting, Sends
  <2>1. Undecided(j)
    BY <1>1, <2>0 DEF Undecided, Posted, PostedAs, Quiet
  <2>2. \A w \in Worker : Holds(w, j)' => Holds(w, j)
    BY <1>1, <1>3, NobodyAssumption DEF Holds, Quiet
  <2> QED
    BY <1>1, <1>3, <2>1, <2>2 DEF UndecidedStays, Quiet, Holds
<1>12. \A j \in Mirror : Awaited(j)' = Awaited(j)
  BY <1>1 DEF Awaited, Newest, Quiet
<1>7. AttemptsTrue'
  BY <1>12 DEF AttemptsTrue, Posted, PostedAs
<1>8. PostsTrue' /\ AnswersTrue'
  <2>1. \A w \in Worker : Posting(w)' => Posting(w) /\ worker'[w] = worker[w] /\ worker[w].job \in Mirror
    BY <1>3 DEF Posting, Sends, TurnsInOrder
  <2>2. PostsTrue'
    BY <1>12, <2>1 DEF PostsTrue, Posted, PostedAs
  <2>3. AnswersTrue'
    BY <1>3 DEF AnswersTrue, Sends, PostedAs
  <2> QED
    BY <2>2, <2>3
<1>9. ReviewTrue'
  <2>1. review \in [job: Mirror \cup {None}, seen: Payload, patched: Payload, ready: BOOLEAN]
    BY DEF TypeOK
  <2> QED
    BY <1>1, <2>1 DEF ReviewTrue, Quiet
<1>10. EchoesTrue' /\ JobPostsOnce' /\ OwnEchoNeverHuman'
  BY DEF EchoesTrue, PostedAs, JobPostsOnce, OwnEchoNeverHuman
<1> QED
  BY <1>2, <1>11, <1>4, <1>5, <1>6, <1>7, <1>8, <1>9, <1>10


---------------------------------------------------------------------------
(* Steps that only move a turn.                                            *)

\* Where a turn goes while its row stays: it ends, or goes on with a decided
\* job, or gives up an undecided one as uncertain.
Moves(w, t) ==
    \/ t = Idle
    \/ /\ t.job = worker[w].job /\ t.payload = worker[w].payload
       /\ \/ t.phase = "settling" /\ t.verdict = "UNKNOWN" /\ worker[w].phase # "idle"
          \/ t.phase = "settling" /\ worker[w].phase = "beginning"
          \/ /\ worker[w].phase \in {"claimed", "working", "recorded", "patching"}
             /\ \/ t.phase \in {"settling", "finishing"}
                \/ t.phase \in {"working", "recorded"}
             /\ t.job \in Reply => t.phase = "settling"

LEMMA MovingStep ==
    ASSUME MirrorsInductive, TypeOK', UNCHANGED <<job, attempt, review, remote, echo>>,
           NEW w \in Worker, NEW t \in Turn, Moves(w, t), worker' = [worker EXCEPT ![w] = t]
    PROVE  MirrorsInductive'
<1> USE DEF MirrorsInductive
<1>1. worker' \in [Worker -> Turn] /\ worker'[w] = t /\ \A v \in Worker \ {w} : worker'[v] = worker[v]
  BY DEF TypeOK
<1>2. \A j \in Mirror : j \in Job
  BY DEF Job
<1>3. t.phase \in {"idle", "working", "recorded", "finishing", "settling"}
  BY DEF Moves, Idle
<1>4. \A v \in Worker : \A j : Holds(v, j)' => Holds(v, j)
  BY <1>1 DEF Holds, Moves, Idle
<1>5. RowsInOrder' /\ OneRunning' /\ OneUncertain' /\ AttemptsTrue' /\ ReviewTrue'
      /\ EchoesTrue' /\ JobPostsOnce' /\ OwnEchoNeverHuman'
  BY DEF RowsInOrder, OneRunning, OneUncertain, AtRisk, Unknown, AttemptsTrue, Awaited, Newest, Posted, PostedAs,
         ReviewTrue, EchoesTrue, JobPostsOnce, OwnEchoNeverHuman
<1>10. \A v \in Worker : Posting(v)' => v # w /\ Posting(v) /\ worker'[v] = worker[v]
  BY <1>3, FlightEnds
<1>11. \A k : InFlight(k)' => InFlight(k)
  BY <1>3, FlightEnds DEF InFlight
<1>6. TurnsInOrder'
  <2> SUFFICES ASSUME NEW v \in Worker
               PROVE  /\ worker'[v].phase # "idle" => worker'[v].job \in Job
                      /\ worker'[v].phase \notin {"idle", "claimed", "settling"} => worker'[v].job \in Mirror
                      /\ worker'[v].phase \in {"calling", "called"} =>
                            worker'[v].payload.operation \in Setup \cup {"SEND_MESSAGE"}
                      /\ worker'[v].phase \in {"beginning", "proved"} => Sends(v)'
                      /\ worker'[v].phase = "beginning" => worker'[v].payload.message = 0
                      /\ \A j \in Job : Holds(v, j)' => worker'[v].payload = job'[j].payload
    BY DEF TurnsInOrder
  <2>1. CASE v # w
    BY <1>1, <2>1 DEF TurnsInOrder, Sends, Holds
  <2>2. CASE v = w
    <3>1. t.phase # "idle" => t.job \in Job /\ t.job = worker[w].job /\ t.payload = worker[w].payload
      BY DEF Moves, Idle, TurnsInOrder
    <3>2. t.phase \in {"working", "recorded", "finishing"} => t.job \in Mirror
      BY <3>1 DEF Moves, Job, Idle
    <3>3. \A j \in Job : Holds(w, j)' => t.payload = job[j].payload
      BY <1>1, <1>4, <3>1 DEF TurnsInOrder, Holds
    <3> QED
      BY <1>1, <1>3, <2>2, <3>1, <3>2, <3>3
  <2> QED
    BY <2>1, <2>2
<1>7. UndecidedStays'
  <2> SUFFICES ASSUME NEW j \in Mirror, Undecided(j), NEW v \in Worker, Holds(v, j)'
               PROVE  \/ worker'[v].phase \in {"calling", "called", "proved"}
                      \/ worker'[v].phase = "settling" /\ worker'[v].verdict = "UNKNOWN"
    BY <1>11 DEF UndecidedStays, Undecided, Posted, PostedAs
  <2>1. Holds(v, j)
    BY <1>4
  <2>2. CASE v # w
    BY <1>1, <2>1, <2>2 DEF UndecidedStays
  <2>3. CASE v = w
    <3>1. worker[w].phase \notin {"claimed", "working", "recorded", "patching", "beginning"} /\ t.phase # "idle"
      BY <1>1, <2>1, <2>3 DEF UndecidedStays, Holds
    <3> QED
      BY <1>1, <2>3, <3>1 DEF Moves, Idle
  <2> QED
    BY <2>2, <2>3
<1>8. PostsTrue'
  <2>1. \A j : Posted(j)' = Posted(j) /\ Awaited(j)' = Awaited(j)
    BY DEF Posted, PostedAs, Awaited, Newest
  <2> QED
    BY <1>10, <2>1 DEF PostsTrue
<1>9. AnswersTrue'
  <2>1. \A v \in Worker : worker'[v].phase \in {"called", "proved"} => v # w /\ worker'[v] = worker[v]
    BY <1>1, <1>3
  <2> QED
    BY <2>1 DEF AnswersTrue, PostedAs, Sends
<1> QED
  BY <1>5, <1>6, <1>7, <1>8, <1>9

---------------------------------------------------------------------------
(* Steps of an owner that write the payload of its row.                    *)

LEMMA PayloadStep ==
    ASSUME MirrorsInductive, TypeOK', UNCHANGED <<attempt, review, remote, echo>>,
           NEW w \in Worker, worker[w].phase # "idle", Owns(w), worker[w].job \in Mirror,
           NEW t \in Turn, worker' = [worker EXCEPT ![w] = t], t.job = worker[w].job,
           job' = [job EXCEPT ![worker[w].job].payload = t.payload],
           Evident(t.job), t.payload.message # 0 \/ ~Posted(t.job),
           \/ t.phase \in {"working", "patching"}
           \/ t.phase = "calling" /\ t.payload.operation \in Setup
           \/ t.phase = "beginning" /\ t.payload.operation = "SEND_MESSAGE" /\ t.payload.message = 0
    PROVE  MirrorsInductive'
<1> USE DEF MirrorsInductive
<1> DEFINE j == worker[w].job
<1>1. worker' \in [Worker -> Turn] /\ worker'[w] = t /\ \A v \in Worker \ {w} : worker'[v] = worker[v]
  BY DEF TypeOK
<1>2. /\ j \in Job /\ job[j].holder = w /\ job[j].status = "RUNNING" /\ w # None
      /\ \A k \in Mirror : k \in Job
  BY OwnedRow, NobodyAssumption DEF Owns, Job
<1>3. /\ job'[j].payload = t.payload /\ \A k \in Job \ {j} : job'[k] = job[k]
      /\ \A k \in Job : /\ job'[k].status = job[k].status /\ job'[k].holder = job[k].holder
  BY <1>2 DEF TypeOK, Row
<1>4. \A k : /\ Posted(k)' = Posted(k)
             /\ \A n : PostedAs(k, n)' = PostedAs(k, n)
  BY DEF Posted, PostedAs
<1>5. RowsInOrder' /\ OneRunning'
  BY <1>2, <1>3 DEF RowsInOrder, OneRunning
<1>6. OneUncertain'
  <2>1. AtRisk' = AtRisk /\ Unknown(job') = Unknown(job)
    BY <1>2, <1>3 DEF AtRisk, Unknown
  <2> QED
    BY <1>3, <2>1 DEF OneUncertain, ContactOfJob, Job
<1>7. \A v \in Worker, k \in Job : Holds(v, k)' =>
         (v = w /\ k = j) \/ (v # w /\ k # j /\ Holds(v, k) /\ worker'[v] = worker[v])
  <2> SUFFICES ASSUME NEW v \in Worker, NEW k \in Job, Holds(v, k)'
               PROVE  (v = w /\ k = j) \/ (v # w /\ k # j /\ Holds(v, k) /\ worker'[v] = worker[v])
    OBVIOUS
  <2>1. worker'[v].job = k /\ job[k].holder = v
    BY <1>3 DEF Holds
  <2>2. CASE v = w
    BY <1>1, <2>1, <2>2
  <2>3. CASE v # w
    BY <1>1, <1>2, <2>1, <2>3 DEF Holds
  <2> QED
    BY <2>2, <2>3
<1>8. TurnsInOrder'
  <2> SUFFICES ASSUME NEW v \in Worker
               PROVE  /\ worker'[v].phase # "idle" => worker'[v].job \in Job
                      /\ worker'[v].phase \notin {"idle", "claimed", "settling"} => worker'[v].job \in Mirror
                      /\ worker'[v].phase \in {"calling", "called"} =>
                            worker'[v].payload.operation \in Setup \cup {"SEND_MESSAGE"}
                      /\ worker'[v].phase \in {"beginning", "proved"} => Sends(v)'
                      /\ worker'[v].phase = "beginning" => worker'[v].payload.message = 0
                      /\ \A k \in Job : Holds(v, k)' => worker'[v].payload = job'[k].payload
    BY DEF TurnsInOrder
  <2>1. \A k \in Job : Holds(v, k)' => worker'[v].payload = job'[k].payload
    BY <1>1, <1>3, <1>7 DEF TurnsInOrder
  <2>2. CASE v = w
    BY <1>1, <1>2, <2>1, <2>2 DEF Sends
  <2>3. CASE v # w
    BY <1>1, <2>1, <2>3 DEF TurnsInOrder, Sends
  <2> QED
    BY <2>2, <2>3
<1>16. \A v \in Worker : Posting(v)' => v # w /\ Posting(v) /\ worker'[v] = worker[v]
  BY FlightEnds DEF Setup
<1>17. \A k : InFlight(k)' => k # j /\ InFlight(k)
  BY FlightEnds DEF Setup, InFlight, Evident
<1>18. \A k \in Mirror \ {j} : Awaited(k)' = Awaited(k)
  BY <1>2, <1>3 DEF Awaited, Newest
<1>9. \A k \in Mirror : Undecided(k)' => k # j /\ Undecided(k)
  <2>1. ~Undecided(j)'
    BY <1>3, <1>4, <1>17 DEF Undecided
  <2> QED
    BY <1>2, <1>3, <1>4, <1>17, <2>1 DEF Undecided
<1>10. UndecidedStays'
  BY <1>2, <1>3, <1>7, <1>9 DEF UndecidedStays
<1>11. AttemptsTrue'
  BY <1>4, <1>18 DEF AttemptsTrue, Evident
<1>12. PostsTrue'
  <2>1. \A v \in Worker : Posting(v) => worker[v].job \in Mirror \ {j}
    BY DEF Posting, TurnsInOrder, Evident, InFlight
  <2> QED
    BY <1>4, <1>16, <1>18, <2>1 DEF PostsTrue
<1>13. AnswersTrue'
  <2>1. \A v \in Worker : worker'[v].phase \in {"called", "proved"} => v # w /\ worker'[v] = worker[v]
    BY <1>1
  <2> QED
    BY <1>4, <2>1 DEF AnswersTrue, Sends
<1>14. ReviewTrue'
  <2>1. review.job # None => review.job \in Mirror
    BY DEF TypeOK
  <2> QED
    BY <1>2, <1>3, <2>1 DEF ReviewTrue
<1>15. EchoesTrue' /\ JobPostsOnce' /\ OwnEchoNeverHuman'
  BY <1>4 DEF EchoesTrue, JobPostsOnce, OwnEchoNeverHuman
<1> QED
  BY <1>5, <1>6, <1>8, <1>10, <1>11, <1>12, <1>13, <1>14, <1>15

---------------------------------------------------------------------------
(* Claim.                                                                  *)

LEMMA SweptIsQuiet ==
    ASSUME MirrorsInductive, NEW j \in Job
    PROVE  /\ Quiet(j, Swept(j)) /\ Swept(j) \in Row
           /\ Swept(j).status = "RUNNING" => ~Lapsed(job[j])
           /\ Swept(j).status = "PENDING" => j \in Reply \/ job[j].status = "PENDING"
<1>1. job[j] \in Row
  BY DEF MirrorsInductive, TypeOK
<1>2. CASE ~Lapsed(job[j])
  BY <1>1, <1>2 DEF Swept, Quiet, MirrorsInductive, RowsInOrder, UndecidedStays
<1>3. CASE Lapsed(job[j])
  <2>1. j \in Reply => j \notin Mirror
    BY JobAssumption
  <2>2. CASE j \in Reply
    <3>1. Swept(j) = Put(job[j], "PENDING") /\ Swept(j) \in Row
      BY <1>1, <1>3, <2>2, Values DEF Swept, Statuses
    <3> QED
      BY <1>1, <1>3, <2>1, <2>2, <3>1 DEF Put, Row, Quiet, Lapsed
  <2>3. CASE j \notin Reply
    <3>1. Swept(j) = Put(job[j], "UNKNOWN") /\ Swept(j) \in Row
      BY <1>1, <1>3, <2>3, Values DEF Swept, Statuses
    <3> QED
      BY <1>1, <1>3, <3>1 DEF Put, Row, Quiet, Lapsed
  <2> QED
    BY <2>2, <2>3
<1> QED
  BY <1>2, <1>3

LEMMA ClaimStep ==
    ASSUME MirrorsInductive, NEW w \in Worker, NEW j \in Job, Claim(w, j)
    PROVE  MirrorsInductive'
<1> USE DEF MirrorsInductive
<1> DEFINE r == Swept(j)
           t == [Idle EXCEPT !.phase = "claimed", !.job = j, !.payload = r.payload]
<1>1. \A k \in Job : Quiet(k, Swept(k)) /\ Swept(k) \in Row
  BY SweptIsQuiet
<1>2. \A k \in Mirror : k \in Job
  BY DEF Job
<1>3. /\ r.status = "PENDING" /\ \A k \in Job : Swept(k).status # "RUNNING"
      /\ Eligible([k \in Job |-> Swept(k)], j)
  BY DEF Claim, Candidates, Eligible
<1>4. /\ job' \in [Job -> Row]
      /\ job'[j].status = "RUNNING" /\ job'[j].holder = w /\ job'[j].payload = r.payload
      /\ \A k \in Job \ {j} : job'[k] = Swept(k)
  <2> DEFINE n == IF r.attempts < MaxAttempts THEN r.attempts + 1 ELSE r.attempts
             q == [r EXCEPT !.status = "RUNNING", !.holder = w, !.attempts = n]
  <2>1. r \in Row
    BY <1>1
  <2>2. n \in 0..MaxAttempts
    <3>1. r.attempts \in 0..MaxAttempts /\ MaxAttempts \in Nat
      BY <2>1, BoundAssumption DEF Row
    <3> HIDE DEF r
    <3> QED
      BY <3>1
  <2>3. job' = [[k \in Job |-> Swept(k)] EXCEPT ![j] = q]
    BY DEF Claim
  <2> HIDE DEF r, n
  <2>4. q \in Row /\ q.status = "RUNNING" /\ q.holder = w /\ q.payload = r.payload
    BY <2>1, <2>2 DEF Row, Statuses
  <2> HIDE DEF q
  <2> QED
    BY <1>1, <2>3, <2>4
<1>5. /\ worker' = [worker EXCEPT ![w] = t] /\ worker[w].phase = "idle"
      /\ UNCHANGED <<state, map, mapped, attempt, ready, review, remote, echo, enqueued, faults>>
  BY DEF Claim
<1>6. t \in Turn /\ t.phase = "claimed" /\ t.job = j /\ t.payload = r.payload
  <2>1. Idle \in Turn /\ r.payload \in Payload
    BY <1>1, Values DEF Row
  <2> HIDE DEF r
  <2> QED
    BY <2>1 DEF Turn, Phases, Idle
<1>7. w # None /\ r.payload = job[j].payload /\ (job[j].status = "PENDING" \/ j \in Reply)
  BY <1>1, <1>3, SweptIsQuiet, NobodyAssumption DEF Quiet
<1> HIDE DEF r, t
<1>8. worker' \in [Worker -> Turn] /\ worker'[w] = t /\ \A v \in Worker \ {w} : worker'[v] = worker[v]
  BY <1>5, <1>6 DEF TypeOK
<1>9. TypeOK'
  BY <1>4, <1>5, <1>8 DEF TypeOK
<1>10. \A k \in Job : job'[k].payload = job[k].payload
  BY <1>1, <1>4, <1>7 DEF Quiet
<1>11. RowsInOrder' /\ OneRunning'
  BY <1>1, <1>3, <1>4 DEF RowsInOrder, OneRunning, Quiet
<1>12. \A v \in Worker, k \in Job : Holds(v, k)' =>
         (v = w /\ k = j) \/ (v # w /\ k # j /\ Holds(v, k) /\ worker'[v] = worker[v])
  <2> SUFFICES ASSUME NEW v \in Worker, NEW k \in Job, Holds(v, k)'
               PROVE  (v = w /\ k = j) \/ (v # w /\ k # j /\ Holds(v, k) /\ worker'[v] = worker[v])
    OBVIOUS
  <2>1. CASE k = j
    BY <1>4, <1>6, <1>8, <2>1 DEF Holds
  <2>2. CASE k # j
    <3>1. v # w
      BY <1>6, <1>8, <2>2 DEF Holds
    <3>2. v # None /\ job'[k] = Swept(k) /\ Quiet(k, Swept(k))
      BY <1>1, <1>4, <2>2, NobodyAssumption
    <3> QED
      BY <1>8, <2>2, <3>1, <3>2 DEF Holds, Quiet
  <2> QED
    BY <2>1, <2>2
<1>13. TurnsInOrder'
  <2> SUFFICES ASSUME NEW v \in Worker
               PROVE  /\ worker'[v].phase # "idle" => worker'[v].job \in Job
                      /\ worker'[v].phase \notin {"idle", "claimed", "settling"} => worker'[v].job \in Mirror
                      /\ worker'[v].phase \in {"calling", "called"} =>
                            worker'[v].payload.operation \in Setup \cup {"SEND_MESSAGE"}
                      /\ worker'[v].phase \in {"beginning", "proved"} => Sends(v)'
                      /\ worker'[v].phase = "beginning" => worker'[v].payload.message = 0
                      /\ \A k \in Job : Holds(v, k)' => worker'[v].payload = job'[k].payload
    BY DEF TurnsInOrder
  <2>1. \A k \in Job : Holds(v, k)' => worker'[v].payload = job'[k].payload
    BY <1>4, <1>6, <1>8, <1>10, <1>12 DEF TurnsInOrder
  <2>2. CASE v = w
    BY <1>6, <1>8, <2>1, <2>2
  <2>3. CASE v # w
    BY <1>8, <2>1, <2>3 DEF TurnsInOrder, Sends
  <2> QED
    BY <2>2, <2>3
<1>14. \A k \in Mirror : k # j => (k \in AtRisk' => job'[k].status = "UNKNOWN" /\ k \in AtRisk)
  BY <1>1, <1>2, <1>3, <1>4 DEF AtRisk, Quiet
<1>15. Unknown(job') = Unknown([k \in Job |-> Swept(k)])
  BY <1>2, <1>3, <1>4 DEF Unknown, r
<1>16. OneUncertain'
  <2>1. ASSUME NEW k \in Mirror, NEW l \in Mirror, k \in AtRisk', l \in AtRisk',
               ContactOfJob(k) = ContactOfJob(l)
        PROVE  k = l
    <3>1. CASE k # j /\ l # j
      BY <1>14, <2>1, <3>1 DEF OneUncertain
    <3>2. \A x \in Mirror : x # j /\ x \in AtRisk' /\ j \in Mirror => ContactOfJob(x) # ContactOfJob(j)
      <4> SUFFICES ASSUME NEW x \in Mirror, x # j, x \in AtRisk', j \in Mirror
                   PROVE  ContactOfJob(x) # ContactOfJob(j)
        OBVIOUS
      <4>1. x \in Unknown([k_1 \in Job |-> Swept(k_1)])
        BY <1>14, <1>15 DEF Unknown
      <4> QED
        BY <1>3, <4>1 DEF Eligible
    <3> QED
      BY <2>1, <3>1, <3>2
  <2>2. ASSUME NEW x \in Reply, job'[x].status = "RUNNING" PROVE Unknown(job') = {}
    <3>1. x = j
      BY <1>3, <1>4, <2>2 DEF Job
    <3>2. x \notin Mirror
      BY JobAssumption
    <3> QED
      BY <1>3, <1>15, <3>1, <3>2 DEF Eligible
  <2>3. \A k \in AtRisk' : k \in Mirror
    BY DEF AtRisk
  <2> QED
    BY <2>1, <2>2, <2>3 DEF OneUncertain, ContactOfJob
<1>17. \A k : /\ Posted(k)' = Posted(k) /\ \A n : PostedAs(k, n)' = PostedAs(k, n)
  BY <1>5 DEF Posted, PostedAs
<1>18. \A k \in Mirror : Undecided(k)' => Undecided(k) /\ k # j
  <2>0. \A k : InFlight(k)' => InFlight(k)
    BY <1>5, <1>6, FlightEnds DEF InFlight
  <2>1. \A k \in Mirror : Undecided(k)' => Undecided(k)
    BY <1>2, <1>5, <1>10, <1>17, <2>0 DEF Undecided
  <2>2. j \in Mirror => ~Undecided(j)
    <3>1. j \in Mirror => job[j].status = "PENDING"
      BY <1>7, JobAssumption
    <3> QED
      BY <3>1 DEF UndecidedStays
  <2> QED
    BY <2>1, <2>2
<1>19. UndecidedStays'
  <2> SUFFICES ASSUME NEW k \in Mirror, Undecided(k)'
               PROVE  /\ job'[k].payload.operation = "SEND_MESSAGE"
                      /\ job'[k].status \in {"RUNNING", "UNKNOWN"}
                      /\ \A v \in Worker : Holds(v, k)' =>
                            \/ worker'[v].phase \in {"calling", "called", "proved"}
                            \/ worker'[v].phase = "settling" /\ worker'[v].verdict = "UNKNOWN"
    BY DEF UndecidedStays
  <2>1. Undecided(k) /\ k # j /\ k \in Job
    BY <1>2, <1>18
  <2>2. job'[k].status \in {"RUNNING", "UNKNOWN"}
    BY <1>1, <1>4, <2>1 DEF Quiet
  <2> QED
    BY <1>10, <1>12, <2>1, <2>2 DEF UndecidedStays
<1>24. \A k \in Mirror : Awaited(k)' = Awaited(k)
  BY <1>2, <1>5, <1>10 DEF Awaited, Newest
<1>20. AttemptsTrue'
  BY <1>5, <1>17, <1>24 DEF AttemptsTrue
<1>21. PostsTrue' /\ AnswersTrue'
  <2>1. \A v \in Worker : worker'[v].phase \in {"calling", "called", "proved"} => v # w /\ worker'[v] = worker[v]
    BY <1>6, <1>8
  <2>2. PostsTrue'
    <3>1. \A v \in Worker : Posting(v)' => Posting(v) /\ worker'[v] = worker[v] /\ worker[v].job \in Mirror
      BY <2>1 DEF Posting, Sends, TurnsInOrder
    <3> QED
      BY <1>5, <1>17, <1>24, <3>1 DEF PostsTrue
  <2>3. AnswersTrue'
    BY <1>5, <1>17, <2>1 DEF AnswersTrue, Sends
  <2> QED
    BY <2>2, <2>3
<1>22. ReviewTrue'
  <2> SUFFICES ASSUME review.job # None
               PROVE  /\ job'[review.job].status = "UNKNOWN" /\ job'[review.job].payload = review.seen
                      /\ review.seen.message # 0 \/ review.seen.operation = "SEND_MESSAGE"
                            => review.patched.message # 0
    BY <1>5 DEF ReviewTrue
  <2>1. review.job \in Mirror /\ review.job \in Job
    BY <1>2 DEF TypeOK
  <2>2. job[review.job].status = "UNKNOWN" /\ review.job # j
    BY <1>7, <2>1, JobAssumption DEF ReviewTrue
  <2> QED
    BY <1>1, <1>4, <1>10, <2>1, <2>2 DEF ReviewTrue, Quiet
<1>23. EchoesTrue' /\ JobPostsOnce' /\ OwnEchoNeverHuman'
  BY <1>5, <1>17 DEF EchoesTrue, JobPostsOnce, OwnEchoNeverHuman
<1> QED
  BY <1>9, <1>11, <1>13, <1>16, <1>19, <1>20, <1>21, <1>22, <1>23

---------------------------------------------------------------------------
(* Quiet actions: one row changes, a turn ends.                            *)

LEMMA SameIsQuiet == ASSUME MirrorsInductive PROVE \A j \in Job : Quiet(j, job[j])
  BY DEF MirrorsInductive, TypeOK, RowsInOrder, UndecidedStays, Quiet

LEMMA TurnEnds ==
    ASSUME MirrorsInductive, NEW w \in Worker, worker' = [worker EXCEPT ![w] = Idle]
    PROVE  worker' \in [Worker -> Turn] /\ \A v \in Worker : worker'[v] \in {worker[v], Idle}
<1>1. worker \in [Worker -> Turn] /\ Idle \in Turn
  BY Values DEF MirrorsInductive, TypeOK
<1> QED
  BY <1>1

LEMMA RowStep ==
    ASSUME MirrorsInductive, NEW j \in Job, NEW r \in Row, Quiet(j, r), job' = [job EXCEPT ![j] = r],
           UNCHANGED <<map, mapped, attempt, ready, review, remote, echo>>,
           state' \in [Message -> States \cup {"NEW"}], enqueued' \subseteq Reply, faults' \in Nat,
           \/ UNCHANGED worker
           \/ \E w \in Worker : worker' = [worker EXCEPT ![w] = Idle]
    PROVE  MirrorsInductive'
<1>1. worker' \in [Worker -> Turn] /\ \A v \in Worker : worker'[v] \in {worker[v], Idle}
  <2>1. worker \in [Worker -> Turn]
    BY DEF MirrorsInductive, TypeOK
  <2> QED
    BY <2>1, TurnEnds
<1>2. job' \in [Job -> Row] /\ \A k \in Job : Quiet(k, job'[k])
  BY SameIsQuiet DEF MirrorsInductive, TypeOK
<1>3. TypeOK'
  BY <1>1, <1>2 DEF MirrorsInductive, TypeOK
<1> QED
  BY <1>1, <1>2, <1>3, QuietStep

LEMMA PutIsQuiet ==
    ASSUME MirrorsInductive, NEW j \in Job, job[j].status = "RUNNING",
           NEW s \in {"PENDING", "SUCCEEDED", "FAILED", "UNKNOWN"},
           j \in Mirror /\ Undecided(j) => s = "UNKNOWN"
    PROVE  Put(job[j], s) \in Row /\ Quiet(j, Put(job[j], s))
<1>1. job[j] \in Row /\ s \in Statuses
  BY DEF MirrorsInductive, TypeOK, Statuses
<1> QED
  BY <1>1, Values DEF Put, Row, Quiet

LEMMA AdvanceStep ==
    ASSUME MirrorsInductive, NEW m \in Message, Advance(m) PROVE MirrorsInductive'
<1> DEFINE j == <<m, NextState(m)>>
           r == IF job[j].status = "NONE" THEN Fresh ELSE job[j]
<1>1. state[m] \in States \cup {"NEW"}
  BY DEF MirrorsInductive, TypeOK
<1>2. NextState(m) \in States
  BY <1>1 DEF Advance, NextState, States
<1>3. j \in Job
  BY <1>2 DEF Job, Mirror
<1>4. r \in Row
  BY <1>3, Values DEF MirrorsInductive, TypeOK
<1>5. Quiet(j, r)
  <2>1. CASE job[j].status = "NONE"
    <3>1. job[j] = NoRow
      BY <1>3, <2>1 DEF MirrorsInductive, RowsInOrder
    <3>2. /\ Fresh.payload = NoRow.payload /\ Fresh.status = "PENDING" /\ Fresh.holder = None
          /\ NoRow.status = "NONE"
      BY DEF Fresh, NoRow
    <3>3. j \in Mirror => ~Undecided(j)
      BY <2>1 DEF MirrorsInductive, UndecidedStays
    <3> QED
      BY <2>1, <3>1, <3>2, <3>3 DEF Quiet
  <2>2. CASE job[j].status # "NONE"
    BY <1>3, <2>2, SameIsQuiet
  <2> QED
    BY <2>1, <2>2
<1>6. job' = [job EXCEPT ![j] = r]
  BY DEF Advance
<1>7. state' \in [Message -> States \cup {"NEW"}]
  BY <1>2 DEF Advance, MirrorsInductive, TypeOK
<1> HIDE DEF j, r
<1> QED
  BY <1>3, <1>4, <1>5, <1>6, <1>7, RowStep DEF Advance, MirrorsInductive, TypeOK

LEMMA ReplyArrivesStep ==
    ASSUME MirrorsInductive, NEW j \in Reply, ReplyArrives(j) PROVE MirrorsInductive'
<1>1. j \in Job /\ j \notin Mirror
  BY JobAssumption DEF Job
<1>2. Quiet(j, Fresh)
  <2>1. job[j] = NoRow
    BY <1>1 DEF ReplyArrives, MirrorsInductive, RowsInOrder
  <2>2. /\ Fresh.payload = NoRow.payload /\ Fresh.status = "PENDING" /\ Fresh.holder = None
        /\ NoRow.status = "NONE"
    BY DEF Fresh, NoRow
  <2> QED
    BY <1>1, <2>1, <2>2 DEF Quiet
<1> QED
  BY <1>1, <1>2, RowStep, Values DEF ReplyArrives, MirrorsInductive, TypeOK

LEMMA RetryStep ==
    ASSUME MirrorsInductive, NEW j \in Job, RetryJob(j) PROVE MirrorsInductive'
<1> DEFINE r == [job[j] EXCEPT !.status = "PENDING", !.attempts = 0, !.due = TRUE]
<1>1. r \in Row /\ r.payload = job[j].payload /\ r.status = "PENDING" /\ r.holder = job[j].holder
  <2>1. job[j] \in Row /\ 0 \in 0..MaxAttempts
    BY BoundAssumption DEF MirrorsInductive, TypeOK
  <2> QED
    BY <2>1 DEF Row, Statuses
<1>2. r.holder = None /\ (j \in Mirror => ~Undecided(j))
  BY <1>1 DEF RetryJob, MirrorsInductive, RowsInOrder, UndecidedStays
<1>3. Quiet(j, r)
  BY <1>1, <1>2 DEF Quiet, RetryJob
<1>4. job' = [job EXCEPT ![j] = r]
  BY DEF RetryJob
<1> HIDE DEF r
<1> QED
  BY <1>1, <1>3, <1>4, RowStep DEF RetryJob, MirrorsInductive, TypeOK

LEMMA TimeStep ==
    ASSUME MirrorsInductive, NEW j \in Job, LeaseElapses(j) \/ BackoffElapses(j)
    PROVE  MirrorsInductive'
<1>1. PICK r : /\ r \in {[job[j] EXCEPT !.expired = TRUE], [job[j] EXCEPT !.due = TRUE]}
               /\ job' = [job EXCEPT ![j] = r]
  BY DEF LeaseElapses, BackoffElapses
<1>2. /\ r \in Row /\ r.payload = job[j].payload /\ r.status = job[j].status
      /\ r.holder = job[j].holder /\ r.status # "NONE"
  <2>1. job[j] \in Row /\ job[j].status \in {"RUNNING", "PENDING"}
    BY DEF MirrorsInductive, TypeOK, LeaseElapses, BackoffElapses
  <2> QED
    BY <1>1, <2>1 DEF Row
<1>3. Quiet(j, r)
  BY <1>2, SameIsQuiet DEF Quiet
<1>4. faults' \in Nat
  BY DEF LeaseElapses, BackoffElapses, Disturb, MirrorsInductive, TypeOK
<1> QED
  BY <1>1, <1>2, <1>3, <1>4, RowStep DEF LeaseElapses, BackoffElapses, MirrorsInductive, TypeOK

LEMMA SweepStep ==
    ASSUME MirrorsInductive, NEW w \in Worker, Sweep(w) PROVE MirrorsInductive'
<1>1. job' = [k \in Job |-> Swept(k)]
  BY DEF Sweep
<1>2. job' \in [Job -> Row] /\ \A k \in Job : Quiet(k, job'[k])
  BY <1>1, SweptIsQuiet
<1>3. TypeOK'
  BY <1>2 DEF Sweep, MirrorsInductive, TypeOK
<1> QED
  BY <1>2, <1>3, QuietStep DEF Sweep

LEMMA CrashStep ==
    ASSUME MirrorsInductive, NEW w \in Worker, Crash(w) PROVE MirrorsInductive'
<1>1. worker' \in [Worker -> Turn] /\ \A v \in Worker : worker'[v] \in {worker[v], Idle}
  BY TurnEnds DEF Crash
<1>2. UNCHANGED <<state, job, map, mapped, attempt, ready, review, remote, echo, enqueued>>
  BY DEF Crash
<1>3. faults' \in Nat
  BY DEF Crash, Disturb, MirrorsInductive, TypeOK
<1>4. TypeOK'
  BY <1>1, <1>2, <1>3 DEF MirrorsInductive, TypeOK
<1> QED
  BY <1>1, <1>4, SameIsQuiet, QuietStep DEF Crash

LEMMA EndStep ==
    ASSUME MirrorsInductive, NEW w \in Worker, Settle(w) \/ Finish(w) PROVE MirrorsInductive'
<1>1. CASE ~Owns(w)
  <2>1. UNCHANGED job
    BY <1>1 DEF Settle, Finish
  <2>2. worker' \in [Worker -> Turn] /\ \A v \in Worker : worker'[v] \in {worker[v], Idle}
    BY TurnEnds DEF Settle, Finish
  <2>3. TypeOK'
    BY <2>1, <2>2 DEF Settle, Finish, MirrorsInductive, TypeOK
  <2> QED
    BY <2>1, <2>2, <2>3, SameIsQuiet, QuietStep DEF Settle, Finish
<1>2. CASE Owns(w)
  <2> DEFINE j == worker[w].job
  <2>1. /\ j \in Job /\ worker[w] \in Turn /\ job[j].status = "RUNNING" /\ Holds(w, j)
        /\ worker[w].phase \in {"settling", "finishing"}
    BY <1>2, OwnedRow DEF Settle, Finish
  <2>2. worker[w].verdict \in Verdicts
    BY <2>1 DEF Turn
  <2>3. j \in Mirror /\ Undecided(j) => worker[w].phase = "settling" /\ worker[w].verdict = "UNKNOWN"
    BY <2>1 DEF MirrorsInductive, UndecidedStays
  <2>4. CASE Settle(w)
    <3> DEFINE q == Put(job[j], worker[w].verdict)
               r == [q EXCEPT !.due = FALSE]
    <3>1. q \in Row /\ Quiet(j, q)
      BY <2>1, <2>2, <2>3, PutIsQuiet DEF Verdicts
    <3>4. q.status # "NONE"
      BY <2>1, <2>2 DEF Put, MirrorsInductive, TypeOK, Row, Verdicts
    <3>2. job' = [job EXCEPT ![j] = r]
      BY <1>2, <2>4 DEF Settle
    <3> HIDE DEF q
    <3>3. r \in Row /\ Quiet(j, r)
      BY <3>1, <3>4 DEF Row, Quiet
    <3> HIDE DEF r
    <3> QED
      BY <2>1, <2>4, <3>2, <3>3, RowStep DEF Settle, MirrorsInductive, TypeOK
  <2>5. CASE Finish(w)
    <3>1. j \in Mirror => ~Undecided(j)
      BY <2>3, <2>5 DEF Finish
    <3>2. Put(job[j], "SUCCEEDED") \in Row /\ Quiet(j, Put(job[j], "SUCCEEDED"))
      BY <2>1, <3>1, PutIsQuiet
    <3>3. job' = [job EXCEPT ![j] = Put(job[j], "SUCCEEDED")]
      BY <1>2, <2>5 DEF Finish
    <3> QED
      BY <2>1, <2>5, <3>2, <3>3, RowStep DEF Finish, MirrorsInductive, TypeOK
  <2> QED
    BY <2>4, <2>5
<1> QED
  BY <1>1, <1>2

---------------------------------------------------------------------------
(* Moving actions.                                                         *)

LEMMA ThrowStep ==
    ASSUME MirrorsInductive, NEW w \in Worker, NEW v \in Verdicts, Throw(w, v),
           \/ worker[w].phase \in {"claimed", "working", "recorded", "patching", "beginning"}
           \/ worker[w].phase # "idle" /\ v = "UNKNOWN",
           UNCHANGED <<state, job, map, mapped, attempt, ready, review, remote, echo, enqueued>>,
           faults' \in Nat
    PROVE  MirrorsInductive'
<1> DEFINE t == [worker[w] EXCEPT !.phase = "settling", !.verdict = v]
<1>1. worker \in [Worker -> Turn] /\ worker[w] \in Turn
  BY DEF MirrorsInductive, TypeOK
<1>2. t \in Turn /\ t.phase = "settling" /\ t.verdict = v /\ t.job = worker[w].job /\ t.payload = worker[w].payload
  BY <1>1 DEF Turn, Phases
<1>3. worker' = [worker EXCEPT ![w] = t]
  BY <1>1 DEF Throw
<1> HIDE DEF t
<1>4. worker' \in [Worker -> Turn]
  BY <1>1, <1>2, <1>3
<1>5. TypeOK'
  BY <1>4 DEF MirrorsInductive, TypeOK
<1>6. Moves(w, t)
  BY <1>2 DEF Moves
<1> QED
  BY <1>2, <1>3, <1>5, <1>6, MovingStep

\* The turn goes on without its row.
LEMMA GoStep ==
    ASSUME MirrorsInductive, NEW w \in Worker, NEW t \in Turn, worker' = [worker EXCEPT ![w] = t],
           worker[w].job \in Mirror, worker[w].phase \in {"claimed", "working", "recorded", "patching"},
           t.job = worker[w].job, t.payload = worker[w].payload,
           t.phase \in {"working", "recorded", "finishing"},
           UNCHANGED <<state, job, attempt, ready, review, remote, echo, enqueued, faults>>,
           map' \in [Contact -> Nat], mapped' \in [Message -> Nat]
    PROVE  MirrorsInductive'
<1>1. worker' \in [Worker -> Turn]
  BY DEF MirrorsInductive, TypeOK
<1>2. TypeOK'
  BY <1>1 DEF MirrorsInductive, TypeOK
<1>3. Moves(w, t)
  BY Parts DEF Moves
<1> QED
  BY <1>2, <1>3, MovingStep

LEMMA RepeatableVerdict == ASSUME NEW w \in Worker PROVE Repeatable(w) \in Verdicts
  BY DEF Repeatable, Verdicts

LEMMA DisturbType == ASSUME MirrorsInductive, Disturb \/ UNCHANGED faults PROVE faults' \in Nat
  BY DEF MirrorsInductive, TypeOK, Disturb

LEMMA ReadContextStep ==
    ASSUME MirrorsInductive, NEW w \in Worker, ReadContext(w) PROVE MirrorsInductive'
<1> DEFINE m == MessageOf(worker[w].job)
<1>1. /\ worker \in [Worker -> Turn] /\ worker[w] \in Turn /\ worker[w].phase = "claimed"
      /\ worker[w].job \in Mirror
  BY DEF MirrorsInductive, TypeOK, ReadContext, Mirrors
<1>2. CASE Throw(w, "PENDING")
  BY <1>1, <1>2, ThrowStep, DisturbType DEF ReadContext, Verdicts
<1>3. CASE worker' = [worker EXCEPT ![w].phase = "finishing"]
  <2> DEFINE t == [worker[w] EXCEPT !.phase = "finishing"]
  <2>1. worker' = [worker EXCEPT ![w] = t] /\ t \in Turn /\ t.job = worker[w].job
        /\ t.payload = worker[w].payload /\ t.phase = "finishing"
    BY <1>1, <1>3 DEF Turn, Phases
  <2> HIDE DEF t
  <2> QED
    BY <1>1, <2>1, GoStep DEF ReadContext, MirrorsInductive, TypeOK
<1>4. CASE worker' = [worker EXCEPT ![w].phase = "working", ![w].map = map[ContactOf[m]], ![w].mapped = mapped[m]]
  <2> DEFINE t == [worker[w] EXCEPT !.phase = "working", !.map = map[ContactOf[m]], !.mapped = mapped[m]]
  <2>1. m \in Message /\ ContactOf[m] \in Contact
    BY <1>1, Parts DEF ContactOfJob, MessageOf
  <2>2. map[ContactOf[m]] \in Nat /\ mapped[m] \in Nat
    BY <2>1 DEF MirrorsInductive, TypeOK
  <2> HIDE DEF m
  <2>3. worker' = [worker EXCEPT ![w] = t] /\ t \in Turn /\ t.job = worker[w].job
        /\ t.payload = worker[w].payload /\ t.phase = "working"
    BY <1>1, <1>4, <2>2 DEF Turn, Phases
  <2> HIDE DEF t
  <2> QED
    BY <1>1, <2>3, GoStep DEF ReadContext, MirrorsInductive, TypeOK
<1> QED
  BY <1>2, <1>3, <1>4 DEF ReadContext

LEMMA MapStep ==
    ASSUME MirrorsInductive, NEW w \in Worker, MapConversation(w) PROVE MirrorsInductive'
<1> DEFINE t == [worker[w] EXCEPT !.map = worker[w].payload.conversation]
           c == ContactOfJob(worker[w].job)
<1>1. /\ worker \in [Worker -> Turn] /\ worker[w] \in Turn /\ worker[w].phase = "working"
      /\ worker[w].job \in Mirror /\ c \in Contact
  BY Parts DEF MirrorsInductive, TypeOK, MapConversation, Mirrors
<1>2. worker[w].payload.conversation \in Nat
  BY <1>1 DEF Turn, Payload
<1>3. worker' = [worker EXCEPT ![w] = t] /\ t \in Turn /\ t.job = worker[w].job
      /\ t.payload = worker[w].payload /\ t.phase = "working"
  BY <1>1, <1>2 DEF MapConversation, Turn
<1> HIDE DEF t, c
<1>4. map' \in [Contact -> Nat]
  <2>1. map \in [Contact -> Nat]
    BY DEF MirrorsInductive, TypeOK
  <2> QED
    BY <1>1, <1>2, <2>1 DEF MapConversation, c
<1> QED
  BY <1>1, <1>3, <1>4, GoStep DEF MapConversation, MirrorsInductive, TypeOK

LEMMA RecordStep ==
    ASSUME MirrorsInductive, NEW w \in Worker, Record(w) PROVE MirrorsInductive'
<1> DEFINE m == MessageOf(worker[w].job)
           p == IF m \in Outgoing THEN "recorded" ELSE "finishing"
           t == [worker[w] EXCEPT !.phase = p]
<1>1. /\ worker \in [Worker -> Turn] /\ worker[w] \in Turn /\ worker[w].phase = "working"
      /\ worker[w].job \in Mirror /\ m \in Message
  BY Parts DEF MirrorsInductive, TypeOK, Record, Mirrors
<1>2. worker[w].payload.message \in Nat
  BY <1>1 DEF Turn, Payload
<1>5. p \in {"recorded", "finishing"}
  OBVIOUS
<1>6. worker' = [worker EXCEPT ![w].phase = p]
  BY DEF Record
<1> HIDE DEF p
<1>3. worker' = [worker EXCEPT ![w] = t] /\ t \in Turn /\ t.job = worker[w].job
      /\ t.payload = worker[w].payload /\ t.phase = p
  BY <1>1, <1>5, <1>6 DEF Turn, Phases
<1> HIDE DEF t, m
<1>4. mapped' \in [Message -> Nat]
  <2>1. mapped \in [Message -> Nat]
    BY DEF MirrorsInductive, TypeOK
  <2> QED
    BY <1>1, <1>2, <2>1 DEF Record, m
<1> QED
  BY <1>1, <1>3, <1>4, <1>5, GoStep DEF Record, MirrorsInductive, TypeOK

LEMMA FailSteps ==
    ASSUME MirrorsInductive, NEW w \in Worker, MapFails(w) \/ ReadFails(w) PROVE MirrorsInductive'
<1>1. faults' \in Nat
  BY DisturbType DEF MapFails, ReadFails
<1>2. PICK v \in Verdicts : Throw(w, v)
  BY RepeatableVerdict DEF MapFails, ReadFails, Verdicts
<1> QED
  BY <1>1, <1>2, ThrowStep DEF MapFails, ReadFails, Mirrors

LEMMA PatchStep ==
    ASSUME MirrorsInductive, NEW w \in Worker, PatchStatus(w) PROVE MirrorsInductive'
<1>1. CASE worker' = [worker EXCEPT ![w].phase = "finishing"] /\ UNCHANGED faults
  <2> DEFINE t == [worker[w] EXCEPT !.phase = "finishing"]
  <2>1. worker \in [Worker -> Turn] /\ worker[w] \in Turn /\ worker[w].job \in Mirror
    BY DEF MirrorsInductive, TypeOK, TurnsInOrder, PatchStatus
  <2>2. worker' = [worker EXCEPT ![w] = t] /\ t \in Turn /\ t.job = worker[w].job
        /\ t.payload = worker[w].payload /\ t.phase = "finishing"
    BY <1>1, <2>1 DEF Turn, Phases
  <2> HIDE DEF t
  <2> QED
    BY <1>1, <2>1, <2>2, GoStep DEF PatchStatus, MirrorsInductive, TypeOK
<1>2. CASE Disturb /\ \E v \in {"FAILED", Repeatable(w)} : Throw(w, v)
  <2>1. PICK v \in Verdicts : Throw(w, v)
    BY <1>2, RepeatableVerdict DEF Verdicts
  <2> QED
    BY <1>2, <2>1, ThrowStep, DisturbType DEF PatchStatus
<1> QED
  BY <1>1, <1>2 DEF PatchStatus

LEMMA ReceiveStep ==
    ASSUME MirrorsInductive, NEW w \in Worker, ReceiveReply(w) PROVE MirrorsInductive'
<1> DEFINE j == worker[w].job
<1>1. CASE Leased(w) /\ job' = [job EXCEPT ![j] = Put(@, "SUCCEEDED")] /\ worker' = [worker EXCEPT ![w] = Idle]
           /\ enqueued' = enqueued \cup {j}
  <2>1. j \in Job /\ job[j].status = "RUNNING" /\ j \in Reply /\ j \notin Mirror
    BY <1>1, OwnedRow, JobAssumption DEF Leased, ReceiveReply
  <2>2. Put(job[j], "SUCCEEDED") \in Row /\ Quiet(j, Put(job[j], "SUCCEEDED"))
    BY <2>1, PutIsQuiet
  <2>3. enqueued' \subseteq Reply
    BY <1>1, <2>1 DEF MirrorsInductive, TypeOK
  <2>4. job' = [job EXCEPT ![j] = Put(job[j], "SUCCEEDED")]
    BY <1>1
  <2> QED
    BY <1>1, <2>1, <2>2, <2>3, <2>4, RowStep DEF ReceiveReply, MirrorsInductive, TypeOK
<1>2. CASE UNCHANGED <<enqueued, job>> /\ Throw(w, IF Leased(w) THEN "PENDING" ELSE "FAILED")
  BY <1>2, ThrowStep, DisturbType DEF ReceiveReply, Verdicts
<1> QED
  BY <1>1, <1>2 DEF ReceiveReply

---------------------------------------------------------------------------
(* Actions that write the payload.                                         *)

LEMMA ProgressStep ==
    ASSUME MirrorsInductive, NEW w \in Worker, NEW p \in Payload, Progress(w, p),
           worker[w].phase # "idle", worker[w].job \in Mirror,
           Leased(w) => /\ Evident(worker[w].job)
                        /\ p.message # 0 \/ ~Posted(worker[w].job),
           UNCHANGED <<state, map, mapped, attempt, ready, review, remote, echo, enqueued, faults>>
    PROVE  MirrorsInductive'
<1>1. worker \in [Worker -> Turn] /\ worker[w] \in Turn /\ worker[w].job \in Job
  BY Parts DEF MirrorsInductive, TypeOK
<1>2. CASE ~Leased(w)
  BY <1>2, ThrowStep, DisturbType DEF Progress, Verdicts
<1>3. CASE Leased(w)
  <2> DEFINE t == [worker[w] EXCEPT !.phase = "working", !.payload = p]
  <2>1. worker' = [worker EXCEPT ![w] = t] /\ t \in Turn /\ t.job = worker[w].job
        /\ t.payload = p /\ t.phase = "working"
    BY <1>1, <1>3 DEF Progress, Turn, Phases
  <2> HIDE DEF t
  <2>2. job' = [job EXCEPT ![worker[w].job].payload = t.payload]
    BY <1>3, <2>1 DEF Progress
  <2>3. job' \in [Job -> Row]
    <3>1. job \in [Job -> Row]
      BY DEF MirrorsInductive, TypeOK
    <3> QED
      BY <1>1, <2>1, <2>2, <3>1 DEF Row
  <2>4. worker' \in [Worker -> Turn]
    BY <1>1, <2>1
  <2>5. TypeOK'
    BY <2>3, <2>4 DEF MirrorsInductive, TypeOK
  <2> QED
    BY <1>3, <2>1, <2>2, <2>5, PayloadStep DEF Leased
<1> QED
  BY <1>2, <1>3

LEMMA FindContactStep ==
    ASSUME MirrorsInductive, NEW w \in Worker, FindContact(w) PROVE MirrorsInductive'
<1> DEFINE p == [worker[w].payload EXCEPT !.contact = TRUE]
<1>1. worker[w] \in Turn /\ worker[w].phase = "working" /\ worker[w].job \in Mirror
  BY DEF MirrorsInductive, TypeOK, FindContact, Mirrors
<1>2. p \in Payload /\ p.message = worker[w].payload.message
  BY <1>1 DEF Turn, Payload
<1>3. Progress(w, p)
  BY DEF FindContact
<1> HIDE DEF p
<1>4. Leased(w) => /\ Evident(worker[w].job)
                   /\ p.message # 0 \/ ~Posted(worker[w].job)
  BY <1>1, <1>2, Decided, OwnedRow DEF Leased
<1> QED
  BY <1>1, <1>2, <1>3, <1>4, ProgressStep DEF FindContact

LEMMA KeepAnswerStep ==
    ASSUME MirrorsInductive, NEW w \in Worker, KeepAnswer(w) PROVE MirrorsInductive'
<1> DEFINE q == worker[w].payload
           p == CASE q.operation = "CREATE_CONTACT" -> [q EXCEPT !.contact = TRUE]
                  [] q.operation = "LINK_CONTACT" -> [q EXCEPT !.source = TRUE]
                  [] q.operation = "CREATE_CONVERSATION" -> [q EXCEPT !.conversation = worker[w].answer]
                  [] q.operation = "SEND_MESSAGE" -> [q EXCEPT !.message = worker[w].answer]
<1>1. worker[w] \in Turn /\ worker[w].phase \in {"called", "proved"} /\ worker[w].job \in Mirror
      /\ q.operation \in Setup \cup {"SEND_MESSAGE"}
  BY DEF MirrorsInductive, TypeOK, KeepAnswer, TurnsInOrder, Sends
<1>2. q \in Payload /\ worker[w].answer \in Nat
  BY <1>1 DEF Turn
<1>3. Progress(w, p)
  BY DEF KeepAnswer
<1>4. p \in Payload
  BY <1>1, <1>2 DEF Payload, Setup
<1>5. ASSUME Leased(w)
      PROVE Evident(worker[w].job) /\ (p.message # 0 \/ ~Posted(worker[w].job))
  <2>1. CASE Sends(w)
    <3>1. worker[w].phase = "proved" /\ PostedAs(worker[w].job, worker[w].answer)
          /\ attempt[worker[w].job].state = "CONFIRMED"
      BY <1>1, <2>1 DEF MirrorsInductive, AnswersTrue, KeepAnswer
    <3>2. worker[w].answer # 0
      <4>1. remote.messages[MessageOf(worker[w].job)] \in Seq(Mirror)
        BY <1>1, Parts DEF MirrorsInductive, TypeOK
      <4> QED
        BY <3>1, <4>1 DEF PostedAs
    <3>3. p.message = worker[w].answer
      BY <1>2, <2>1 DEF Sends, Payload
    <3>4. Evident(worker[w].job)
      BY <3>1 DEF MirrorsInductive, PostsTrue, InFlight, Evident
    <3> QED
      BY <3>2, <3>3, <3>4
  <2>2. CASE ~Sends(w)
    <3>1. p.message = q.message
      BY <1>1, <1>2, <2>2 DEF Payload, Setup, Sends
    <3>2. q = job[worker[w].job].payload
      BY <1>1, <1>5, OwnedRow DEF Leased
    <3> HIDE DEF p
    <3> QED
      BY <1>1, <1>5, <2>2, <3>1, <3>2, Decided DEF Leased, Sends
  <2> QED
    BY <2>1, <2>2
<1> HIDE DEF p
<1> QED
  BY <1>1, <1>3, <1>4, <1>5, ProgressStep DEF KeepAnswer

LEMMA BeforeStep ==
    ASSUME MirrorsInductive, NEW w \in Worker, BeforeExternal(w) PROVE MirrorsInductive'
<1> DEFINE q == worker[w].payload
           next == IF worker[w].phase = "recorded" THEN "UPDATE_STATUS" ELSE Needs(worker[w])
           n == IF next = "SEND_MESSAGE" THEN worker[w].map ELSE q.conversation
           named == [q EXCEPT !.operation = next, !.conversation = n]
           go == CASE next \in Setup -> "calling" [] next = "SEND_MESSAGE" -> "beginning"
                   [] next = "UPDATE_STATUS" -> "patching"
           t == [worker[w] EXCEPT !.payload = named, !.phase = go]
<1>1. /\ worker \in [Worker -> Turn] /\ worker[w] \in Turn /\ worker[w].phase \in {"working", "recorded"}
      /\ worker[w].job \in Mirror /\ worker[w].job \in Job
  BY Parts DEF MirrorsInductive, TypeOK, BeforeExternal, Mirrors
<1>2. next \in Operations
  BY DEF BeforeExternal
<1>3. CASE ready /\ Leased(w)
  <2>1. q \in Payload /\ n \in Nat
    BY <1>1 DEF Turn, Payload
  <2>2. /\ job' = [job EXCEPT ![worker[w].job].payload = named]
        /\ worker' = [worker EXCEPT ![w].payload = named, ![w].phase = go]
    BY <1>3 DEF BeforeExternal
  <2>3. /\ next \in Setup => go = "calling"
        /\ next = "SEND_MESSAGE" => go = "beginning" /\ q.message = 0
        /\ next = "UPDATE_STATUS" => go = "patching"
    BY DEF Setup, Needs
  <2> HIDE DEF go, n, next
  <2>4. named \in Payload /\ named.message = q.message /\ named.operation = next
    BY <1>2, <2>1 DEF Payload
  <2> HIDE DEF named
  <2>5. go \in Phases
    BY <1>2, <2>3 DEF Operations, Phases
  <2>6. t \in Turn /\ t.job = worker[w].job /\ t.payload = named /\ t.phase = go
    BY <1>1, <2>4, <2>5 DEF Turn
  <2>7. worker' = [worker EXCEPT ![w] = t]
    BY <1>1, <2>2
  <2> HIDE DEF t
  <2>8. TypeOK'
    <3>1. job \in [Job -> Row]
      BY DEF MirrorsInductive, TypeOK
    <3>2. job' \in [Job -> Row]
      BY <1>1, <2>2, <2>4, <3>1 DEF Row
    <3>3. worker' \in [Worker -> Turn]
      BY <1>1, <2>6, <2>7
    <3> QED
      BY <3>2, <3>3 DEF BeforeExternal, MirrorsInductive, TypeOK
  <2>9. Owns(w) /\ q = job[worker[w].job].payload
    BY <1>1, <1>3, OwnedRow DEF Leased
  <2>10. Evident(worker[w].job) /\ (q.message # 0 \/ ~Posted(worker[w].job))
    BY <1>1, <2>9, Decided
  <2>11. \/ t.phase \in {"working", "patching"}
         \/ t.phase = "calling" /\ t.payload.operation \in Setup
         \/ t.phase = "beginning" /\ t.payload.operation = "SEND_MESSAGE" /\ t.payload.message = 0
    BY <1>2, <2>3, <2>4, <2>6 DEF Operations
  <2> QED
    BY <1>1, <2>2, <2>4, <2>6, <2>7, <2>8, <2>9, <2>10, <2>11, PayloadStep DEF BeforeExternal
<1>4. CASE ~(ready /\ Leased(w))
  <2>1. UNCHANGED job
    BY <1>4 DEF BeforeExternal
  <2>2. PICK v \in Verdicts : Throw(w, v)
    BY <1>4 DEF BeforeExternal, Verdicts
  <2> QED
    BY <1>1, <2>1, <2>2, ThrowStep, DisturbType DEF BeforeExternal
<1> QED
  BY <1>3, <1>4

---------------------------------------------------------------------------
(* Steps around a call to Chatwoot.                                        *)

\* The message of j may appear in Chatwoot, as the POST of j.
Grows(j) ==
    \/ remote'.messages = remote.messages
    \/ /\ ~Posted(j)
       /\ remote'.messages = [remote.messages EXCEPT ![MessageOf(j)] = Append(@, j)]

\* The attempt a of j says what is true of its POST.
AttemptFits(j, a) ==
    /\ a.state = "CONFIRMED" => PostedAs(j, a.message)'
    /\ Posted(j)' => a.state = "CONFIRMED" \/ Awaited(j)'
    /\ \/ a.begun = attempt[j].begun
       \/ \A k \in Mirror \ {j} : MessageOf(k) = MessageOf(j) => ~Undecided(k)

\* Where a turn of j goes around a call.
TurnFits(w, j, t) ==
    /\ t.job = j /\ t.payload = worker[w].payload
    /\ t.phase \in {"calling", "called", "proved", "settling"}
    /\ t.phase \in {"calling", "called"} => t.payload.operation \in Setup \cup {"SEND_MESSAGE"}
    /\ t.phase = "proved" => t.payload.operation = "SEND_MESSAGE"

\* It gives an undecided job up as uncertain.
DoubtFits(w, j, t) ==
    Undecided(j)' =>
        /\ \/ Undecided(j)
           \/ /\ job[j].holder = w /\ job[j].status = "RUNNING"
              /\ job[j].payload.operation = "SEND_MESSAGE"
        /\ Holds(w, j) => \/ t.phase \in {"calling", "called", "proved"}
                          \/ t.phase = "settling" /\ t.verdict = "UNKNOWN"

PostFits(j, t, a) ==
    t.payload.operation = "SEND_MESSAGE" =>
        /\ t.phase = "calling" => a.state = "DISPATCHED" /\ ~Posted(j)' /\ Awaited(j)'
        /\ t.phase \in {"called", "proved"} => PostedAs(j, t.answer)'
        /\ t.phase = "proved" => a.state = "CONFIRMED"

\* Other turns of the job j keep what they know.
OthersFit(w, j, t, a) ==
    \A v \in Worker \ {w} : worker[v].job = j =>
        /\ Posting(v) => /\ a = attempt[j] /\ ~Posted(j)'
                         /\ ~(t.phase = "calling" /\ t.payload.operation = "SEND_MESSAGE")
        /\ worker[v].phase = "proved" => a.state = "CONFIRMED"

\* A turn of the job j goes to t while its attempt becomes a, the message may
\* appear in Chatwoot and echoes may be settled.
LEMMA EvidenceStep ==
    ASSUME MirrorsInductive, TypeOK', UNCHANGED <<job, review>>, EchoesTrue', OwnEchoNeverHuman',
           NEW w \in Worker, NEW j \in Mirror, worker[w].job = j, worker[w].phase # "idle",
           NEW t \in Turn, worker' = [worker EXCEPT ![w] = t], TurnFits(w, j, t),
           NEW a, attempt' = [attempt EXCEPT ![j] = a], AttemptFits(j, a), Grows(j),
           DoubtFits(w, j, t), PostFits(j, t, a), OthersFit(w, j, t, a)
    PROVE  MirrorsInductive'
<1> DEFINE m == MessageOf(j)
<1>1. worker' \in [Worker -> Turn] /\ worker'[w] = t /\ \A v \in Worker \ {w} : worker'[v] = worker[v]
  BY DEF MirrorsInductive, TypeOK
<1>2. /\ j \in Job /\ m \in Message /\ \A k \in Mirror : k \in Job /\ MessageOf(k) \in Message
  BY Parts
<1>3. remote.messages \in [Message -> Seq(Mirror)] /\ remote'.messages \in [Message -> Seq(Mirror)]
  BY DEF MirrorsInductive, TypeOK
<1>4. attempt'[j] = a /\ \A k \in Mirror \ {j} : attempt'[k] = attempt[k]
  BY DEF MirrorsInductive, TypeOK
<1>5. \A x \in Message : \A n \in DOMAIN remote.messages[x] :
         n \in DOMAIN remote'.messages[x] /\ remote'.messages[x][n] = remote.messages[x][n]
  <2>1. CASE remote'.messages = remote.messages
    BY <2>1
  <2>2. CASE remote'.messages = [remote.messages EXCEPT ![m] = Append(@, j)]
    <3> SUFFICES ASSUME NEW x \in Message, NEW n \in DOMAIN remote.messages[x]
                 PROVE  n \in DOMAIN remote'.messages[x] /\ remote'.messages[x][n] = remote.messages[x][n]
      OBVIOUS
    <3>1. CASE x # m
      BY <1>3, <2>2, <3>1
    <3>2. CASE x = m
      <4>1. remote'.messages[m] = Append(remote.messages[m], j) /\ remote.messages[m] \in Seq(Mirror)
        BY <1>2, <1>3, <2>2
      <4> QED
        BY <3>2, <4>1, AppendProperties
    <3> QED
      BY <3>1, <3>2
  <2> QED
    BY <2>1, <2>2 DEF Grows
<1>6. \A x \in Message : \A n \in DOMAIN remote'.messages[x] :
         \/ n \in DOMAIN remote.messages[x] /\ remote'.messages[x][n] = remote.messages[x][n]
         \/ x = m /\ n = Len(remote.messages[m]) + 1 /\ remote'.messages[x][n] = j /\ ~Posted(j)
  <2>1. CASE remote'.messages = remote.messages
    BY <2>1
  <2>2. CASE ~Posted(j) /\ remote'.messages = [remote.messages EXCEPT ![m] = Append(@, j)]
    <3> SUFFICES ASSUME NEW x \in Message, NEW n \in DOMAIN remote'.messages[x]
                 PROVE  \/ n \in DOMAIN remote.messages[x] /\ remote'.messages[x][n] = remote.messages[x][n]
                        \/ x = m /\ n = Len(remote.messages[m]) + 1 /\ remote'.messages[x][n] = j
      BY <2>2
    <3>1. CASE x # m
      BY <1>3, <2>2, <3>1
    <3>2. CASE x = m
      <4>1. remote'.messages[m] = Append(remote.messages[m], j) /\ remote.messages[m] \in Seq(Mirror)
        BY <1>2, <1>3, <2>2
      <4> QED
        BY <3>2, <4>1, AppendProperties
    <3> QED
      BY <3>1, <3>2
  <2> QED
    BY <2>1, <2>2 DEF Grows
<1>7. \A k \in Mirror, n \in Nat : PostedAs(k, n) => PostedAs(k, n)'
  BY <1>2, <1>5 DEF PostedAs
<1>8. \A k \in Mirror \ {j} : Posted(k)' = Posted(k)
  BY <1>2, <1>5, <1>6 DEF Posted, PostedAs
<1>9. RowsInOrder' /\ OneRunning' /\ OneUncertain' /\ ReviewTrue'
  BY DEF MirrorsInductive, RowsInOrder, OneRunning, OneUncertain, AtRisk, Unknown, ReviewTrue
<1>10. \A v \in Worker : \A k : Holds(v, k)' => Holds(v, k)
  BY <1>1 DEF Holds, TurnFits
<1>17. \A k \in Mirror \ {j} : InFlight(k)' => InFlight(k)
  BY <1>1 DEF InFlight, Posting, Sends, TurnFits
<1>18. \A k \in Mirror \ {j} : Undecided(k)' => Undecided(k)
  BY <1>8, <1>17 DEF Undecided
<1>19. \A k \in Mirror \ {j} : Awaited(k) /\ Undecided(k) => Awaited(k)'
  <2> SUFFICES ASSUME NEW k \in Mirror \ {j}, Newest(k), Undecided(k) PROVE Newest(k)'
    BY <1>4 DEF Awaited
  <2>1. MessageOf(k) = m => attempt'[j].begun = attempt[j].begun
    BY <1>4 DEF AttemptFits
  <2> QED
    BY <1>4, <2>1 DEF Newest
<1>11. TurnsInOrder'
  <2> SUFFICES ASSUME NEW v \in Worker
               PROVE  /\ worker'[v].phase # "idle" => worker'[v].job \in Job
                      /\ worker'[v].phase \notin {"idle", "claimed", "settling"} => worker'[v].job \in Mirror
                      /\ worker'[v].phase \in {"calling", "called"} =>
                            worker'[v].payload.operation \in Setup \cup {"SEND_MESSAGE"}
                      /\ worker'[v].phase \in {"beginning", "proved"} => Sends(v)'
                      /\ worker'[v].phase = "beginning" => worker'[v].payload.message = 0
                      /\ \A k \in Job : Holds(v, k)' => worker'[v].payload = job'[k].payload
    BY DEF TurnsInOrder
  <2>1. \A k \in Job : Holds(v, k)' => worker'[v].payload = job'[k].payload
    BY <1>1, <1>10 DEF MirrorsInductive, TurnsInOrder, TurnFits
  <2>2. CASE v = w
    BY <1>1, <1>2, <2>1, <2>2 DEF Sends, TurnFits
  <2>3. CASE v # w
    BY <1>1, <2>1, <2>3 DEF MirrorsInductive, TurnsInOrder, Sends
  <2> QED
    BY <2>2, <2>3
<1>12. UndecidedStays'
  <2> SUFFICES ASSUME NEW k \in Mirror, Undecided(k)'
               PROVE  /\ job'[k].payload.operation = "SEND_MESSAGE"
                      /\ job'[k].status \in {"RUNNING", "UNKNOWN"}
                      /\ \A v \in Worker : Holds(v, k)' =>
                            \/ worker'[v].phase \in {"calling", "called", "proved"}
                            \/ worker'[v].phase = "settling" /\ worker'[v].verdict = "UNKNOWN"
    BY DEF UndecidedStays
  <2>1. CASE k # j
    <3>1. Undecided(k)
      BY <1>18, <2>1
    <3>2. \A v \in Worker : Holds(v, k)' => v # w /\ Holds(v, k)
      BY <1>1, <1>10, <2>1 DEF Holds, TurnFits
    <3> QED
      BY <1>1, <3>1, <3>2 DEF MirrorsInductive, UndecidedStays
  <2>2. CASE k = j
    <3>1. \A v \in Worker : Holds(v, j)' => Holds(v, j) /\ job[j].holder = v
      BY <1>10 DEF Holds
    <3>2. job[j].payload.operation = "SEND_MESSAGE" /\ job[j].status \in {"RUNNING", "UNKNOWN"}
      BY <2>2 DEF MirrorsInductive, UndecidedStays, DoubtFits
    <3>3. \A v \in Worker \ {w} : Holds(v, j) =>
                            \/ worker[v].phase \in {"calling", "called", "proved"}
                            \/ worker[v].phase = "settling" /\ worker[v].verdict = "UNKNOWN"
      BY <2>2 DEF MirrorsInductive, UndecidedStays, Holds, DoubtFits
    <3> QED
      BY <1>1, <2>2, <3>1, <3>2, <3>3 DEF DoubtFits
  <2> QED
    BY <2>1, <2>2
<1>13. AttemptsTrue'
  <2> SUFFICES ASSUME NEW k \in Mirror
               PROVE  /\ attempt'[k].state = "CONFIRMED" => PostedAs(k, attempt[k].message)'
                      /\ Posted(k)' => attempt'[k].state = "CONFIRMED" \/ Awaited(k)'
    BY DEF AttemptsTrue
  <2>1. CASE k = j
    BY <1>4, <2>1 DEF AttemptFits
  <2>2. CASE k # j
    <3>1. attempt[k].message \in Nat
      BY DEF MirrorsInductive, TypeOK
    <3>2. Posted(k) /\ attempt[k].state # "CONFIRMED" => Awaited(k) /\ Undecided(k)
      BY DEF MirrorsInductive, AttemptsTrue, Awaited, Undecided
    <3> QED
      BY <1>4, <1>7, <1>8, <1>19, <2>2, <3>1, <3>2 DEF MirrorsInductive, AttemptsTrue
  <2> QED
    BY <2>1, <2>2
<1>14. PostsTrue'
  <2> SUFFICES ASSUME NEW v \in Worker, Posting(v)'
               PROVE  /\ attempt'[worker'[v].job].state = "DISPATCHED"
                      /\ Awaited(worker[v].job)' /\ ~Posted(worker[v].job)'
                      /\ \A u \in Worker : Posting(u)' /\ worker'[u].job = worker'[v].job => u = v
    BY DEF PostsTrue
  <2>1. \A u \in Worker \ {w} : Posting(u)' => Posting(u) /\ worker'[u].job = worker[u].job /\ worker[u].job \in Mirror
    BY <1>1 DEF MirrorsInductive, Posting, Sends, TurnsInOrder
  <2>2. Posting(w)' => t.phase = "calling" /\ t.payload.operation = "SEND_MESSAGE" /\ worker'[w].job = j
    BY <1>1 DEF Posting, Sends, TurnFits
  <2>3. CASE v = w
    BY <1>4, <2>1, <2>2, <2>3 DEF PostFits, OthersFit
  <2>4. CASE v # w
    <3>1. ASSUME worker[v].job = j
          PROVE  attempt'[j].state = "DISPATCHED" /\ Awaited(j)' /\ ~Posted(j)'
      <4>1. a = attempt[j] /\ ~Posted(j)' /\ attempt[j].state = "DISPATCHED" /\ Awaited(j)
        BY <2>1, <2>4, <3>1 DEF MirrorsInductive, PostsTrue, OthersFit
      <4>2. attempt' = attempt
        BY <4>1 DEF MirrorsInductive, TypeOK
      <4> QED
        BY <4>1, <4>2 DEF Awaited, Newest
    <3>2. ASSUME worker[v].job # j
          PROVE  /\ attempt'[worker[v].job].state = "DISPATCHED"
                 /\ Awaited(worker[v].job)' /\ ~Posted(worker[v].job)'
      <4>0. PICK k \in Mirror \ {j} : k = worker[v].job /\ k = worker'[v].job
        BY <2>1, <2>4, <3>2
      <4>1. attempt[k].state = "DISPATCHED" /\ Awaited(k) /\ ~Posted(k) /\ InFlight(k)
        BY <2>1, <2>4, <4>0 DEF MirrorsInductive, PostsTrue, InFlight
      <4>2. Undecided(k)
        BY <4>1 DEF Awaited, Undecided
      <4>3. attempt'[k].state = "DISPATCHED" /\ Awaited(k)' /\ ~Posted(k)'
        BY <1>4, <1>8, <1>19, <4>1, <4>2
      <4> QED
        BY <4>0, <4>3
    <3>3. \A u \in Worker : Posting(u)' /\ worker'[u].job = worker'[v].job => u = v
      BY <2>1, <2>2, <2>4 DEF MirrorsInductive, PostsTrue, OthersFit
    <3>4. worker'[v].job = worker[v].job
      BY <2>1, <2>4
    <3> QED
      BY <3>1, <3>2, <3>3, <3>4
  <2> QED
    BY <2>3, <2>4
<1>15. AnswersTrue'
  <2> SUFFICES ASSUME NEW v \in Worker, worker'[v].phase \in {"called", "proved"}, Sends(v)'
               PROVE  (/\ PostedAs(worker[v].job, worker[v].answer)
                       /\ worker[v].phase = "proved" => attempt[worker[v].job].state = "CONFIRMED")'
    BY DEF AnswersTrue
  <2>1. CASE v = w
    BY <1>1, <1>4, <2>1 DEF Sends, PostFits, TurnFits
  <2>2. CASE v # w
    <3>1. worker'[v] = worker[v] /\ worker[v].job \in Mirror /\ worker[v].answer \in Nat
      BY <1>1, <2>2 DEF MirrorsInductive, TurnsInOrder, TypeOK, Turn
    <3>2. PostedAs(worker[v].job, worker[v].answer)' /\ PostedAs(worker[v].job, worker[v].answer)
      BY <1>7, <3>1 DEF MirrorsInductive, AnswersTrue, Sends
    <3>3. worker[v].phase = "proved" => attempt'[worker[v].job].state = "CONFIRMED"
      BY <1>4, <2>2, <3>1 DEF MirrorsInductive, AnswersTrue, Sends, OthersFit
    <3> QED
      BY <3>1, <3>2, <3>3
  <2> QED
    BY <2>1, <2>2
<1>16. JobPostsOnce'
  <2> SUFFICES ASSUME NEW x \in Message, NEW b \in DOMAIN remote'.messages[x],
                      NEW c \in DOMAIN remote'.messages[x], b # c,
                      remote'.messages[x][b] = remote'.messages[x][c]
               PROVE  FALSE
    BY DEF JobPostsOnce
  <2>1. CASE b \in DOMAIN remote.messages[x] /\ c \in DOMAIN remote.messages[x]
    BY <1>5, <2>1 DEF MirrorsInductive, JobPostsOnce
  <2>2. CASE ~(b \in DOMAIN remote.messages[x] /\ c \in DOMAIN remote.messages[x])
    <3>1. x = m /\ ~Posted(j) /\ remote'.messages[x][b] = j
      BY <1>6, <2>2
    <3>2. \A n \in DOMAIN remote.messages[m] : remote.messages[m][n] # j
      BY <3>1 DEF Posted, PostedAs
    <3>3. b = Len(remote.messages[m]) + 1 /\ c = Len(remote.messages[m]) + 1
      BY <1>6, <3>1, <3>2
    <3> QED
      BY <3>3
  <2> QED
    BY <2>1, <2>2
<1> QED
  BY <1>9, <1>11, <1>12, <1>13, <1>14, <1>15, <1>16 DEF MirrorsInductive

\* The attempts of a message have a last one.
LEMMA LastBegun ==
    ASSUME MirrorsInductive, NEW m \in Message
    PROVE  Max(Begun(m)) \in Nat /\ \A s \in States : attempt[<<m, s>>].begun <= Max(Begun(m))
<1>1. \A s \in States : attempt[<<m, s>>].begun \in Nat
  <2> SUFFICES ASSUME NEW s \in States PROVE attempt[<<m, s>>].begun \in Nat
    OBVIOUS
  <2>1. <<m, s>> \in Mirror
    BY DEF Mirror
  <2> QED
    BY <2>1 DEF MirrorsInductive, TypeOK
<1>2. PICK n \in [States -> Nat] : \A s \in States : n[s] = attempt[<<m, s>>].begun
  <2> DEFINE f == [s \in States |-> attempt[<<m, s>>].begun]
  <2>1. f \in [States -> Nat] /\ \A s \in States : f[s] = attempt[<<m, s>>].begun
    BY <1>1
  <2> HIDE DEF f
  <2> QED
    BY <2>1
<1>3. PICK x \in Begun(m) : \A s \in States : x >= n[s]
  <2>1. PICK y \in {"RECEIVED", "ACCEPTED"} : n[y] >= n["RECEIVED"] /\ n[y] >= n["ACCEPTED"]
    BY DEF States
  <2>2. PICK z \in {"SENT", "DELIVERED"} : n[z] >= n["SENT"] /\ n[z] >= n["DELIVERED"]
    BY DEF States
  <2>3. PICK v \in {y, z} : n[v] >= n[y] /\ n[v] >= n[z]
    BY DEF States
  <2>4. \A s \in States : n[v] >= n[s]
    BY <2>1, <2>2, <2>3 DEF States
  <2>5. v \in States /\ n[v] \in Begun(m)
    BY <1>2, <2>1, <2>2, <2>3 DEF States, Begun
  <2> QED
    BY <2>4, <2>5
<1>4. \A y \in Begun(m) : x >= y
  BY <1>2, <1>3 DEF Begun
<1>5. Max(Begun(m)) \in Begun(m) /\ \A y \in Begun(m) : Max(Begun(m)) >= y
  BY <1>4 DEF Max
<1>6. \A s \in States : attempt[<<m, s>>].begun \in Begun(m)
  BY DEF Begun
<1>7. Max(Begun(m)) \in Nat
  BY <1>1, <1>5 DEF Begun
<1> QED
  BY <1>1, <1>5, <1>6, <1>7

LEMMA BeginStep ==
    ASSUME MirrorsInductive, NEW w \in Worker, BeginAttempt(w) PROVE MirrorsInductive'
<1>0. PICK j \in Mirror : worker[w].job = j
  BY DEF MirrorsInductive, TurnsInOrder, BeginAttempt
<1>1. /\ worker \in [Worker -> Turn] /\ worker[w] \in Turn /\ worker[w].phase = "beginning"
      /\ j \in Job /\ Sends(w) /\ worker[w].payload.message = 0
  BY Parts DEF MirrorsInductive, TypeOK, TurnsInOrder, BeginAttempt
<1>2. CASE UNCHANGED attempt /\ \E v \in Verdicts : Throw(w, v)
  <2>1. faults' \in Nat
    BY DisturbType DEF BeginAttempt
  <2>2. PICK v \in Verdicts : Throw(w, v)
    BY <1>2
  <2> QED
    BY <1>1, <1>2, <2>1, <2>2, ThrowStep DEF BeginAttempt
<1>3. CASE /\ Leased(w) /\ UNCHANGED faults
           /\ worker' = [worker EXCEPT ![w].phase = "calling"]
           /\ attempt' = [attempt EXCEPT ![j] = [state |-> "DISPATCHED", message |-> 0,
                                                 begun |-> 1 + Max(Begun(MessageOf(j)))]]
  <2>1. PICK t \in Turn : /\ worker' = [worker EXCEPT ![w] = t] /\ t.job = j
                          /\ t.payload = worker[w].payload /\ t.phase = "calling"
    <3> DEFINE s == [worker[w] EXCEPT !.phase = "calling"]
    <3>1. worker' = [worker EXCEPT ![w] = s] /\ s \in Turn /\ s.job = j
          /\ s.payload = worker[w].payload /\ s.phase = "calling"
      BY <1>0, <1>1, <1>3 DEF Turn, Phases
    <3> HIDE DEF s
    <3> QED
      BY <3>1
  <2>2. PICK last \in Nat : last = Max(Begun(MessageOf(j)))
    BY Parts, LastBegun
  <2>3. PICK a \in [state: AttemptStates, message: Nat, begun: Nat] :
           attempt' = [attempt EXCEPT ![j] = a] /\ a.state = "DISPATCHED" /\ a.begun = 1 + last
    <3> DEFINE b == [state |-> "DISPATCHED", message |-> 0, begun |-> 1 + last]
    <3>1. attempt' = [attempt EXCEPT ![j] = b] /\ b \in [state: AttemptStates, message: Nat, begun: Nat]
          /\ b.state = "DISPATCHED" /\ b.begun = 1 + last
      BY <1>3, <2>2 DEF AttemptStates
    <3> HIDE DEF b
    <3> QED
      BY <3>1
  <2>4. TypeOK'
    <3>1. worker' \in [Worker -> Turn]
      BY <1>1, <2>1
    <3>2. attempt' \in [Mirror -> [state: AttemptStates, message: Nat, begun: Nat]]
      BY <1>1, <2>3 DEF MirrorsInductive, TypeOK
    <3> QED
      BY <1>3, <3>1, <3>2 DEF BeginAttempt, MirrorsInductive, TypeOK
  <2>5. /\ worker[w].payload = job[j].payload /\ job[j].status = "RUNNING" /\ job[j].holder = w
        /\ Evident(j) /\ ~Posted(j)
    BY <1>0, <1>1, <1>3, OwnedRow, Decided DEF Leased, Owns
  <2>6. UNCHANGED <<job, review, remote, echo>>
    BY DEF BeginAttempt
  <2>7. ~Posted(j)' /\ EchoesTrue' /\ OwnEchoNeverHuman'
    BY <2>5, <2>6 DEF MirrorsInductive, Posted, PostedAs, EchoesTrue, OwnEchoNeverHuman
  <2>8. TurnFits(w, j, t)
    BY <1>0, <1>1, <2>1 DEF TurnFits, Sends
  <2>9. \A k \in Mirror \ {j} : MessageOf(k) = MessageOf(j) => ~Undecided(k)
    BY <2>5 DEF MirrorsInductive, UndecidedStays, OneUncertain, AtRisk, ContactOfJob, MessageOf
  <2>10. Awaited(j)'
    <3>1. review.job # j
      BY <1>1, <2>5, NobodyAssumption DEF MirrorsInductive, ReviewTrue
    <3>2. attempt'[j] = a /\ \A i \in Mirror \ {j} : attempt'[i] = attempt[i]
      BY <2>3 DEF MirrorsInductive, TypeOK
    <3>3. \A i \in Mirror : MessageOf(i) = MessageOf(j) => attempt[i].begun \in Nat /\ attempt[i].begun <= last
      <4> SUFFICES ASSUME NEW i \in Mirror, MessageOf(i) = MessageOf(j)
                   PROVE  attempt[i].begun \in Nat /\ attempt[i].begun <= last
        OBVIOUS
      <4>1. PICK s \in States : i = <<MessageOf(j), s>>
        BY DEF Mirror, MessageOf
      <4> QED
        BY <2>2, <4>1, Parts, LastBegun DEF MirrorsInductive, TypeOK
    <3>4. \A i \in Mirror : MessageOf(i) = MessageOf(j) /\ i # j => attempt'[i].begun < attempt'[j].begun
      BY <2>3, <3>2, <3>3
    <3> QED
      BY <1>0, <1>1, <2>3, <2>5, <2>6, <3>1, <3>2, <3>4 DEF Awaited, Newest, Open
  <2>11. AttemptFits(j, a)
    BY <2>3, <2>7, <2>9 DEF AttemptFits
  <2>12. DoubtFits(w, j, t)
    BY <1>0, <1>1, <2>1, <2>5 DEF DoubtFits, Sends
  <2>13. PostFits(j, t, a)
    BY <2>1, <2>3, <2>7, <2>10 DEF PostFits
  <2>14. OthersFit(w, j, t, a)
    <3> SUFFICES ASSUME NEW v \in Worker \ {w}, worker[v].job = j, Posting(v) \/ worker[v].phase = "proved"
                 PROVE  FALSE
      BY DEF OthersFit
    <3>1. CASE Posting(v)
      BY <2>5, <3>1 DEF Evident, InFlight
    <3>2. CASE worker[v].phase = "proved"
      <4>1. PostedAs(j, worker[v].answer)
        BY <3>2 DEF MirrorsInductive, TurnsInOrder, AnswersTrue
      <4> QED
        BY <2>5, <4>1 DEF Posted, PostedAs
    <3> QED
      BY <3>1, <3>2
  <2> QED
    BY <1>0, <1>1, <2>1, <2>3, <2>4, <2>6, <2>7, <2>8, <2>11, <2>12, <2>13, <2>14, EvidenceStep DEF Grows
<1> QED
  BY <1>0, <1>2, <1>3 DEF BeginAttempt, Verdicts

LEMMA AppliedRemote ==
    ASSUME MirrorsInductive, NEW w \in Worker, worker[w].phase = "calling"
    PROVE  /\ Applied(w) \in [contacts: SUBSET Contact, linked: SUBSET Contact,
                   conversations: [Contact -> Nat], messages: [Message -> Seq(Mirror)]]
           /\ ~Sends(w) => Applied(w).messages = remote.messages
           /\ Sends(w) => Applied(w).messages =
                 [remote.messages EXCEPT ![MessageOf(worker[w].job)] = Append(@, worker[w].job)]
<1> DEFINE j == worker[w].job
           m == MessageOf(j)
           c == ContactOf[m]
           new == [remote.messages EXCEPT ![m] = Append(@, j)]
           cons == [remote.conversations EXCEPT ![c] = @ + 1]
<1>1. /\ worker[w] \in Turn /\ j \in Mirror /\ m \in Message /\ c \in Contact
      /\ worker[w].payload.operation \in Setup \cup {"SEND_MESSAGE"}
  BY Parts DEF MirrorsInductive, TypeOK, TurnsInOrder, ContactOfJob, MessageOf
<1>2. remote \in [contacts: SUBSET Contact, linked: SUBSET Contact,
                   conversations: [Contact -> Nat], messages: [Message -> Seq(Mirror)]]
  BY DEF MirrorsInductive, TypeOK
<1>3. remote.messages \in [Message -> Seq(Mirror)] /\ remote.conversations \in [Contact -> Nat]
  BY <1>2
<1>4. new \in [Message -> Seq(Mirror)]
  <2>1. Append(remote.messages[m], j) \in Seq(Mirror)
    BY <1>1, <1>3, AppendProperties
  <2> QED
    BY <1>1, <1>3, <2>1
<1>5. cons \in [Contact -> Nat]
  BY <1>1, <1>3
<1>6. CASE Sends(w)
  <2>1. Applied(w) = [remote EXCEPT !.messages = new]
    BY <1>2, <1>6 DEF Applied, Sends
  <2> HIDE DEF new
  <2>2. Applied(w).messages = new
    BY <1>2, <2>1
  <2> QED
    BY <1>2, <1>4, <1>6, <2>1, <2>2 DEF new
<1>7. CASE worker[w].payload.operation = "CREATE_CONVERSATION"
  <2>1. Applied(w) = [remote EXCEPT !.conversations = cons]
    BY <1>2, <1>7 DEF Applied
  <2> HIDE DEF cons
  <2> QED
    BY <1>2, <1>5, <1>7, <2>1 DEF Sends
<1>8. CASE worker[w].payload.operation = "CREATE_CONTACT"
  BY <1>1, <1>2, <1>8 DEF Applied, Sends
<1>9. CASE worker[w].payload.operation = "LINK_CONTACT"
  BY <1>1, <1>2, <1>9 DEF Applied, Sends
<1> QED
  BY <1>1, <1>6, <1>7, <1>8, <1>9 DEF Setup, Sends

\* What is known of a turn whose POST is under way.
LEMMA PostingTurn ==
    ASSUME MirrorsInductive, NEW w \in Worker, Posting(w)
    PROVE  LET j == worker[w].job IN
           /\ attempt[j].state = "DISPATCHED" /\ ~Posted(j) /\ Undecided(j)
           /\ Awaited(j)
           /\ \A v \in Worker \ {w} : worker[v].job = j =>
                 ~Posting(v) /\ worker[v].phase # "proved"
<1> DEFINE j == worker[w].job
<1>1. j \in Mirror
  BY DEF MirrorsInductive, TurnsInOrder, Posting
<1>2. attempt[j].state = "DISPATCHED" /\ ~Posted(j)
  BY DEF MirrorsInductive, PostsTrue
<1>3. Awaited(j)
  BY DEF MirrorsInductive, PostsTrue
<1>4. Undecided(j)
  BY <1>3 DEF Undecided, Awaited, InFlight
<1>5. ASSUME NEW v \in Worker \ {w}, worker[v].job = j PROVE ~Posting(v) /\ worker[v].phase # "proved"
  <2>1. ~Posting(v)
    BY <1>5 DEF MirrorsInductive, PostsTrue
  <2>2. worker[v].phase = "proved" => attempt[j].state = "CONFIRMED"
    BY <1>5 DEF MirrorsInductive, TurnsInOrder, AnswersTrue
  <2> QED
    BY <1>2, <2>1, <2>2
<1> QED
  BY <1>2, <1>3, <1>4, <1>5

\* What is known of a call that creates something else.
LEMMA SetupTurn ==
    ASSUME MirrorsInductive, NEW w \in Worker, worker[w].phase \in {"calling", "called"}, ~Sends(w)
    PROVE  LET j == worker[w].job IN Holds(w, j) => ~Undecided(j)
<1>1. worker[w].job \in Mirror /\ worker[w].job \in Job
  BY Parts DEF MirrorsInductive, TurnsInOrder
<1> QED
  BY <1>1 DEF MirrorsInductive, TurnsInOrder, UndecidedStays, Sends

LEMMA EchoesKept ==
    ASSUME MirrorsInductive, remote'.messages = remote.messages, echo'.waiting \subseteq echo.waiting
    PROVE  EchoesTrue'
<1>1. \A m \in Message : \A k \in DOMAIN remote'.messages[m] : MessageOf(remote'.messages[m][k]) = m
  BY DEF MirrorsInductive, EchoesTrue
<1>2. \A e \in echo'.waiting : MessageOf(e.by) = e.id[1] /\ PostedAs(e.by, e.id[2])'
  BY DEF MirrorsInductive, EchoesTrue, PostedAs
<1> QED
  BY <1>1, <1>2 DEF EchoesTrue

LEMMA EchoesGrown ==
    ASSUME MirrorsInductive, NEW j \in Mirror, echo'.waiting \subseteq echo.waiting,
           remote'.messages = [remote.messages EXCEPT ![MessageOf(j)] = Append(@, j)]
    PROVE  EchoesTrue'
<1> DEFINE m == MessageOf(j)
<1>1. m \in Message /\ remote.messages \in [Message -> Seq(Mirror)] /\ \A e \in echo.waiting : e.by \in Mirror
  BY Parts DEF MirrorsInductive, TypeOK
<1>2. remote.messages[m] \in Seq(Mirror) /\ remote'.messages[m] = Append(remote.messages[m], j)
      /\ \A x \in Message : x # m => remote'.messages[x] = remote.messages[x]
  BY <1>1
<1>3. \A k \in DOMAIN remote'.messages[m] : MessageOf(remote'.messages[m][k]) = m
  <2> SUFFICES ASSUME NEW k \in DOMAIN remote'.messages[m] PROVE MessageOf(remote'.messages[m][k]) = m
    OBVIOUS
  <2>1. CASE k \in DOMAIN remote.messages[m]
    BY <1>1, <1>2, <2>1, AppendProperties DEF MirrorsInductive, EchoesTrue
  <2>2. CASE k \notin DOMAIN remote.messages[m]
    BY <1>2, <2>2, AppendProperties
  <2> QED
    BY <2>1, <2>2
<1>4. \A x \in DOMAIN remote.messages[m] : x \in DOMAIN remote'.messages[m]
         /\ remote'.messages[m][x] = remote.messages[m][x]
  BY <1>2, AppendProperties
<1>5. ASSUME NEW k \in Mirror, NEW x, PostedAs(k, x) PROVE PostedAs(k, x)'
  BY <1>2, <1>4, <1>5, Parts DEF PostedAs
<1>6. \A e \in echo'.waiting : MessageOf(e.by) = e.id[1] /\ PostedAs(e.by, e.id[2])'
  BY <1>1, <1>5 DEF MirrorsInductive, EchoesTrue
<1>7. \A x \in Message : \A k \in DOMAIN remote'.messages[x] : MessageOf(remote'.messages[x][k]) = x
  BY <1>2, <1>3 DEF MirrorsInductive, EchoesTrue
<1> QED
  BY <1>6, <1>7 DEF EchoesTrue

LEMMA AcceptedStep ==
    ASSUME MirrorsInductive, NEW w \in Worker, CallAccepted(w) PROVE MirrorsInductive'
<1>0. PICK j \in Mirror : worker[w].job = j
  BY DEF MirrorsInductive, TurnsInOrder, CallAccepted
<1> DEFINE m == MessageOf(j)
<1>a. PICK a : a = attempt[j]
  OBVIOUS
<1>1. /\ worker \in [Worker -> Turn] /\ worker[w] \in Turn /\ worker[w].phase = "calling"
      /\ m \in Message /\ ContactOf[m] \in Contact
      /\ worker[w].payload.operation \in Setup \cup {"SEND_MESSAGE"}
  BY Parts DEF MirrorsInductive, TypeOK, TurnsInOrder, CallAccepted, ContactOfJob, MessageOf
<1>2. /\ remote' \in [contacts: SUBSET Contact, linked: SUBSET Contact,
                   conversations: [Contact -> Nat], messages: [Message -> Seq(Mirror)]]
      /\ ~Sends(w) => remote'.messages = remote.messages
      /\ Sends(w) => remote'.messages = [remote.messages EXCEPT ![m] = Append(@, j)]
  BY <1>0, <1>1, AppliedRemote DEF CallAccepted
<1>3. PICK n \in Nat : n = IF Sends(w) THEN Len(remote'.messages[m]) ELSE remote'.conversations[ContactOf[m]]
  <2>1. remote'.messages[m] \in Seq(Mirror) /\ remote'.conversations[ContactOf[m]] \in Nat
    BY <1>1, <1>2
  <2> QED
    BY <2>1
<1>4. worker' = [worker EXCEPT ![w].phase = "called", ![w].answer = n]
  BY <1>0, <1>3 DEF CallAccepted
<1>5. Sends(w) => n = Len(remote'.messages[m])
  BY <1>3
<1>6. PICK t \in Turn : /\ worker' = [worker EXCEPT ![w] = t] /\ t.job = j
                        /\ t.payload = worker[w].payload /\ t.phase = "called" /\ t.answer = n
  <2> DEFINE s == [worker[w] EXCEPT !.phase = "called", !.answer = n]
  <2>1. worker' = [worker EXCEPT ![w] = s] /\ s \in Turn /\ s.job = j
        /\ s.payload = worker[w].payload /\ s.phase = "called" /\ s.answer = n
    BY <1>0, <1>1, <1>3, <1>4 DEF Turn, Phases
  <2> HIDE DEF s
  <2> QED
    BY <2>1
<1>7. UNCHANGED <<job, attempt, review, echo>>
  BY DEF CallAccepted
<1>8. TypeOK'
  <2>1. worker' \in [Worker -> Turn]
    BY <1>1, <1>6
  <2> QED
    BY <1>2, <2>1 DEF CallAccepted, MirrorsInductive, TypeOK
<1>9. TurnFits(w, j, t)
  BY <1>1, <1>6 DEF TurnFits
<1>10. attempt' = [attempt EXCEPT ![j] = a]
  BY <1>1, <1>7, <1>a DEF MirrorsInductive, TypeOK
<1>11. remote.messages \in [Message -> Seq(Mirror)]
  BY DEF MirrorsInductive, TypeOK
<1>12. \A k \in Mirror : \A x : PostedAs(k, x) => PostedAs(k, x)' \/ MessageOf(k) = m
  BY <1>0, <1>1, <1>2, <1>11, Parts DEF PostedAs
<1>13. CASE Sends(w)
  <2>1. Posting(w)
    BY <1>1, <1>13 DEF Posting
  <2>2. remote.messages[m] \in Seq(Mirror) /\ remote'.messages[m] = Append(remote.messages[m], j)
    BY <1>1, <1>2, <1>11, <1>13
  <2>3. \A x \in DOMAIN remote.messages[m] : x \in DOMAIN remote'.messages[m]
           /\ remote'.messages[m][x] = remote.messages[m][x]
    BY <2>2, AppendProperties
  <2>4. PostedAs(j, n)'
    BY <1>1, <1>5, <1>13, <2>2, AppendProperties DEF PostedAs
  <2>5. EchoesTrue' /\ OwnEchoNeverHuman'
    <3>1. OwnEchoNeverHuman'
      BY <1>7 DEF MirrorsInductive, OwnEchoNeverHuman
    <3>2. EchoesTrue'
      BY <1>2, <1>7, <1>13, EchoesGrown
    <3> QED
      BY <3>1, <3>2
  <2>6. Grows(j)
    BY <1>0, <1>2, <1>13, <2>1, PostingTurn DEF Grows
  <2>7. AttemptFits(j, a)
    <3>1. Awaited(j)' /\ attempt[j].state = "DISPATCHED"
      BY <1>0, <1>7, <2>1, PostingTurn DEF Awaited, Newest
    <3> QED
      BY <1>a, <3>1 DEF AttemptFits
  <2>8. DoubtFits(w, j, t)
    BY <1>0, <1>6, <2>1, PostingTurn DEF DoubtFits
  <2>9. PostFits(j, t, a)
    BY <1>6, <2>4 DEF PostFits
  <2>10. OthersFit(w, j, t, a)
    BY <1>0, <1>a, <2>1, PostingTurn DEF OthersFit
  <2> QED
    BY <1>0, <1>1, <1>6, <1>7, <1>8, <1>9, <1>10, <2>5, <2>6, <2>7, <2>8, <2>9, <2>10, EvidenceStep
<1>14. CASE ~Sends(w)
  <2>1. remote'.messages = remote.messages
    BY <1>2, <1>14
  <2>2. \A k : Posted(k)' = Posted(k) /\ \A x : PostedAs(k, x)' = PostedAs(k, x)
    BY <2>1 DEF Posted, PostedAs
  <2>3. EchoesTrue' /\ OwnEchoNeverHuman'
    BY <1>7, <2>1, EchoesKept DEF MirrorsInductive, OwnEchoNeverHuman
  <2>4. AttemptFits(j, a)
    BY <1>7, <1>a, <2>2 DEF AttemptFits, MirrorsInductive, AttemptsTrue, Awaited, Newest
  <2>5. DoubtFits(w, j, t)
    <3>1. InFlight(j)' => InFlight(j)
      BY <1>6, FlightEnds DEF InFlight
    <3> QED
      BY <1>6, <1>7, <2>2, <3>1 DEF DoubtFits, Undecided
  <2>6. PostFits(j, t, a)
    BY <1>6, <1>14 DEF PostFits, Sends
  <2>7. OthersFit(w, j, t, a)
    BY <1>a, <1>6, <2>2 DEF OthersFit, MirrorsInductive, PostsTrue, AnswersTrue, TurnsInOrder
  <2> QED
    BY <1>0, <1>1, <1>6, <1>7, <1>8, <1>9, <1>10, <2>1, <2>3, <2>4, <2>5, <2>6, <2>7, EvidenceStep DEF Grows
<1> QED
  BY <1>13, <1>14

LEMMA CallTypes ==
    ASSUME MirrorsInductive, UNCHANGED <<state, job, map, mapped, ready, review, enqueued>>,
           worker' \in [Worker -> Turn], faults' \in Nat,
           attempt' \in [Mirror -> [state: AttemptStates, message: Nat, begun: Nat]],
           remote' \in [contacts: SUBSET Contact, linked: SUBSET Contact,
                   conversations: [Contact -> Nat], messages: [Message -> Seq(Mirror)]],
           echo' \in [heard: SUBSET (Message \X Nat), taken: SUBSET (Message \X Nat),
                      waiting: SUBSET [id: Message \X Nat, by: Mirror]]
    PROVE  TypeOK'
BY DEF MirrorsInductive, TypeOK

\* A call that ends without an answer: refused or uncertain, whether or not the
\* attempt of a POST could be told so.
LEMMA EndedStep ==
    ASSUME MirrorsInductive, NEW w \in Worker, CallRefused(w) \/ CallUncertain(w)
    PROVE  MirrorsInductive'
<1>0. PICK j \in Mirror : worker[w].job = j
  BY DEF MirrorsInductive, TurnsInOrder, CallRefused, CallUncertain
<1> DEFINE m == MessageOf(j)
<1>1. /\ worker \in [Worker -> Turn] /\ worker[w] \in Turn /\ worker[w].phase = "calling"
      /\ m \in Message /\ worker[w].payload.operation \in Setup \cup {"SEND_MESSAGE"}
  BY <1>0, Parts DEF MirrorsInductive, TypeOK, TurnsInOrder, CallRefused, CallUncertain
<1>2. PICK v \in Verdicts : Throw(w, v) /\ (CallUncertain(w) => v = "UNKNOWN")
  BY RepeatableVerdict DEF CallRefused, CallUncertain, Verdicts
<1>3. PICK t \in Turn : /\ worker' = [worker EXCEPT ![w] = t] /\ t.job = j
                        /\ t.payload = worker[w].payload /\ t.phase = "settling" /\ t.verdict = v
  <2> DEFINE s == [worker[w] EXCEPT !.phase = "settling", !.verdict = v]
  <2>1. worker' = [worker EXCEPT ![w] = s] /\ s \in Turn /\ s.job = j
        /\ s.payload = worker[w].payload /\ s.phase = "settling" /\ s.verdict = v
    BY <1>0, <1>1, <1>2 DEF Throw, Turn, Phases
  <2> HIDE DEF s
  <2> QED
    BY <2>1
<1>4. /\ remote' \in [contacts: SUBSET Contact, linked: SUBSET Contact,
                   conversations: [Contact -> Nat], messages: [Message -> Seq(Mirror)]]
      /\ \/ remote'.messages = remote.messages
         \/ /\ CallUncertain(w) /\ Sends(w)
            /\ remote'.messages = [remote.messages EXCEPT ![m] = Append(@, j)]
  <2>1. remote' \in {remote, Applied(w)} /\ (CallUncertain(w) \/ remote' = remote)
    BY DEF CallRefused, CallUncertain
  <2>2. remote \in [contacts: SUBSET Contact, linked: SUBSET Contact,
                   conversations: [Contact -> Nat], messages: [Message -> Seq(Mirror)]]
    BY DEF MirrorsInductive, TypeOK
  <2> QED
    BY <1>0, <1>1, <2>1, <2>2, AppliedRemote
<1>5. UNCHANGED <<job, review>>
  BY DEF CallRefused, CallUncertain
<1>14. UNCHANGED <<state, job, map, mapped, ready, review, enqueued>>
  BY DEF CallRefused, CallUncertain
<1>15. echo' = echo => echo' \in [heard: SUBSET (Message \X Nat), taken: SUBSET (Message \X Nat),
                                 waiting: SUBSET [id: Message \X Nat, by: Mirror]]
  BY DEF MirrorsInductive, TypeOK
<1>6. worker' \in [Worker -> Turn] /\ faults' \in Nat
  BY <1>1, <1>3, DisturbType DEF CallRefused, CallUncertain
<1>7. TurnFits(w, j, t)
  BY <1>3 DEF TurnFits
<1>10. \A e \in echo.waiting : e.by \in Mirror
  BY DEF MirrorsInductive, TypeOK
<1>11. \A a : PostFits(j, t, a)
  BY <1>3 DEF PostFits
<1>12. CASE Sends(w)
  <2>1. Posting(w) /\ worker[w].payload.operation = "SEND_MESSAGE"
    BY <1>1, <1>12 DEF Posting, Sends
  <2>2. /\ attempt[j].state = "DISPATCHED" /\ ~Posted(j) /\ Undecided(j)
        /\ Awaited(j)
        /\ \A u \in Worker \ {w} : worker[u].job = j => ~Posting(u) /\ worker[u].phase # "proved"
    BY <1>0, <2>1, PostingTurn
  <2>3. attempt \in [Mirror -> [state: AttemptStates, message: Nat, begun: Nat]]
    BY DEF MirrorsInductive, TypeOK
  <2>4. Grows(j)
    BY <1>4, <2>2 DEF Grows
  <2>5. CASE CallUncertain(w)
    <3>1. PICK a \in [state: AttemptStates, message: Nat, begun: Nat] :
             /\ attempt' = [attempt EXCEPT ![j] = a]
             /\ a.state \in {"UNKNOWN", "DISPATCHED"} /\ a.begun = attempt[j].begun
      <4> DEFINE b == [attempt[j] EXCEPT !.state = "UNKNOWN"]
      <4>1. b \in [state: AttemptStates, message: Nat, begun: Nat] /\ b.state = "UNKNOWN"
            /\ b.begun = attempt[j].begun
        BY <2>3 DEF AttemptStates
      <4>2. attempt' = [attempt EXCEPT ![j] = b] \/ attempt' = [attempt EXCEPT ![j] = attempt[j]]
        BY <1>0, <1>12, <2>2, <2>3, <2>5 DEF CallUncertain, Failed
      <4> HIDE DEF b
      <4> QED
        BY <2>2, <2>3, <4>1, <4>2
    <3>2. TypeOK'
      <4>1. UNCHANGED echo
        BY <2>5 DEF CallUncertain
      <4>2. attempt' \in [Mirror -> [state: AttemptStates, message: Nat, begun: Nat]]
        BY <2>3, <3>1
      <4> QED
        BY <1>4, <1>6, <1>14, <1>15, <4>1, <4>2, CallTypes
    <3>3. EchoesTrue' /\ OwnEchoNeverHuman'
      BY <1>4, <2>5, EchoesKept, EchoesGrown DEF CallUncertain, MirrorsInductive, OwnEchoNeverHuman
    <3>4. AttemptFits(j, a)
      <4>1. attempt'[j] = a /\ \A i \in Mirror \ {j} : attempt'[i] = attempt[i]
        BY <2>3, <3>1
      <4>2. Awaited(j)'
        BY <1>5, <2>2, <3>1, <4>1 DEF Awaited, Newest, Open
      <4> QED
        BY <3>1, <4>2 DEF AttemptFits
    <3>5. DoubtFits(w, j, t)
      BY <1>2, <1>3, <2>2, <2>5 DEF DoubtFits
    <3>6. OthersFit(w, j, t, a)
      BY <2>2 DEF OthersFit
    <3> QED
      BY <1>0, <1>1, <1>3, <1>5, <1>7, <1>11, <2>4, <3>1, <3>2, <3>3, <3>4, <3>5, <3>6, EvidenceStep
  <2>6. CASE CallRefused(w)
    <3>1. PICK a \in [state: AttemptStates, message: Nat, begun: Nat] :
             /\ attempt' = [attempt EXCEPT ![j] = a]
             /\ a.state \in {"REJECTED", "DISPATCHED"} /\ a.begun = attempt[j].begun
      <4> DEFINE b == [attempt[j] EXCEPT !.state = "REJECTED"]
      <4>1. b \in [state: AttemptStates, message: Nat, begun: Nat] /\ b.state = "REJECTED"
            /\ b.begun = attempt[j].begun
        BY <2>3 DEF AttemptStates
      <4>2. attempt' = [attempt EXCEPT ![j] = b] \/ attempt' = [attempt EXCEPT ![j] = attempt[j]]
        BY <1>0, <1>12, <2>2, <2>3, <2>6 DEF CallRefused, Failed
      <4> HIDE DEF b
      <4> QED
        BY <2>2, <2>3, <4>1, <4>2
    <3>2. UNCHANGED remote /\ ~Posted(j)'
      BY <2>2, <2>6 DEF CallRefused, Posted, PostedAs
    <3>3. echo' = echo \/ echo' = Resolved(j, {})
      BY <1>0, <2>6 DEF CallRefused
    <3>4. \A e \in echo.waiting : e.by # j
      BY <1>10, <2>2 DEF MirrorsInductive, EchoesTrue, Posted, PostedAs
    <3>5. echo'.waiting = echo.waiting /\ echo'.taken = echo.taken /\ echo'.heard = echo.heard
          /\ echo' \in [heard: SUBSET (Message \X Nat), taken: SUBSET (Message \X Nat),
                        waiting: SUBSET [id: Message \X Nat, by: Mirror]]
      <4>1. echo \in [heard: SUBSET (Message \X Nat), taken: SUBSET (Message \X Nat),
                        waiting: SUBSET [id: Message \X Nat, by: Mirror]]
        BY DEF MirrorsInductive, TypeOK
      <4> DEFINE mine == {e \in echo.waiting : e.by = j}
                 back == {e.id : e \in {x \in mine : x.id \notin {}}}
      <4>2. mine = {} /\ back = {}
        BY <3>4
      <4>3. Resolved(j, {}) = [echo EXCEPT !.waiting = @ \ mine, !.taken = @ \cup back]
        BY DEF Resolved
      <4>4. echo.waiting \ {} = echo.waiting /\ echo.taken \cup {} = echo.taken
        OBVIOUS
      <4> HIDE DEF mine, back
      <4> QED
        BY <3>3, <4>1, <4>2, <4>3, <4>4
    <3>6. TypeOK'
      <4>1. attempt' \in [Mirror -> [state: AttemptStates, message: Nat, begun: Nat]]
        BY <2>3, <3>1
      <4> QED
        BY <1>4, <1>6, <1>14, <3>5, <4>1, CallTypes
    <3>7. EchoesTrue' /\ OwnEchoNeverHuman'
      BY <3>2, <3>5, EchoesKept DEF MirrorsInductive, OwnEchoNeverHuman
    <3>8. AttemptFits(j, a)
      BY <3>1, <3>2 DEF AttemptFits
    <3>9. DoubtFits(w, j, t)
      <4>1. InFlight(j)' => \E u \in Worker \ {w} : Posting(u) /\ worker[u].job = j
        BY <1>3, FlightEnds DEF InFlight
      <4>2. ~InFlight(j)'
        BY <2>2, <4>1
      <4> QED
        BY <3>2, <4>2 DEF DoubtFits, Undecided
    <3>10. OthersFit(w, j, t, a)
      BY <2>2 DEF OthersFit
    <3> QED
      BY <1>0, <1>1, <1>3, <1>5, <1>7, <1>11, <2>4, <3>1, <3>6, <3>7, <3>8, <3>9, <3>10, EvidenceStep
  <2> QED
    BY <2>5, <2>6
<1>13. CASE ~Sends(w)
  <2>1. PICK a : a = attempt[j]
    OBVIOUS
  <2>2. UNCHANGED <<attempt, echo>> /\ remote'.messages = remote.messages
    BY <1>0, <1>4, <1>13 DEF CallRefused, CallUncertain, Failed
  <2>3. attempt' = [attempt EXCEPT ![j] = a]
    BY <2>1, <2>2 DEF MirrorsInductive, TypeOK
  <2>4. \A k : Posted(k)' = Posted(k) /\ \A x : PostedAs(k, x)' = PostedAs(k, x)
    BY <2>2 DEF Posted, PostedAs
  <2>5. EchoesTrue' /\ OwnEchoNeverHuman'
    BY <2>2, EchoesKept DEF MirrorsInductive, OwnEchoNeverHuman
  <2>6. TypeOK'
    <3>1. attempt' \in [Mirror -> [state: AttemptStates, message: Nat, begun: Nat]]
      BY <2>2 DEF MirrorsInductive, TypeOK
    <3> QED
      BY <1>4, <1>6, <1>14, <1>15, <2>2, <3>1, CallTypes
  <2>7. AttemptFits(j, a)
    BY <1>5, <2>1, <2>2, <2>4 DEF AttemptFits, MirrorsInductive, AttemptsTrue, Awaited, Newest
  <2>8. DoubtFits(w, j, t)
    <3>0. InFlight(j)' => InFlight(j)
      BY <1>3, FlightEnds DEF InFlight
    <3>1. Undecided(j)' => Undecided(j)
      BY <1>5, <2>4, <3>0 DEF Undecided
    <3>2. Holds(w, j) => ~Undecided(j)
      BY <1>0, <1>1, <1>13, SetupTurn
    <3> QED
      BY <3>1, <3>2 DEF DoubtFits
  <2>9. OthersFit(w, j, t, a)
    BY <1>3, <2>1, <2>4 DEF OthersFit, MirrorsInductive, PostsTrue, AnswersTrue, TurnsInOrder
  <2> QED
    BY <1>0, <1>1, <1>3, <1>5, <1>7, <1>11, <2>2, <2>3, <2>5, <2>6, <2>7, <2>8, <2>9, EvidenceStep DEF Grows
<1> QED
  BY <1>12, <1>13

LEMMA ConfirmStep ==
    ASSUME MirrorsInductive, NEW w \in Worker, ConfirmAttempt(w) PROVE MirrorsInductive'
<1>0. PICK j \in Mirror : worker[w].job = j
  BY DEF MirrorsInductive, TurnsInOrder, ConfirmAttempt
<1>1. /\ worker \in [Worker -> Turn] /\ worker[w] \in Turn /\ worker[w].phase = "called"
      /\ worker[w].payload.operation = "SEND_MESSAGE"
  BY DEF MirrorsInductive, TypeOK, ConfirmAttempt, Sends
<1>2. CASE Throw(w, "UNKNOWN") /\ Disturb /\ UNCHANGED <<attempt, echo>>
  BY <1>1, <1>2, ThrowStep, DisturbType DEF ConfirmAttempt, Verdicts
<1>3. CASE /\ attempt' = [attempt EXCEPT ![j].state = "CONFIRMED", ![j].message = worker[w].answer]
           /\ echo' = Resolved(j, {<<MessageOf(j), worker[w].answer>>})
           /\ worker' = [worker EXCEPT ![w].phase = "proved"]
           /\ UNCHANGED faults
  <2>1. PICK n \in Nat : n = worker[w].answer
    BY <1>1 DEF Turn
  <2>2. PICK t \in Turn : /\ worker' = [worker EXCEPT ![w] = t] /\ t.job = j
                          /\ t.payload = worker[w].payload /\ t.phase = "proved" /\ t.answer = n
    <3> DEFINE s == [worker[w] EXCEPT !.phase = "proved"]
    <3>1. worker' = [worker EXCEPT ![w] = s] /\ s \in Turn /\ s.job = j
          /\ s.payload = worker[w].payload /\ s.phase = "proved" /\ s.answer = n
      BY <1>0, <1>1, <1>3, <2>1 DEF Turn, Phases
    <3> HIDE DEF s
    <3> QED
      BY <3>1
  <2>3. PICK a \in [state: AttemptStates, message: Nat, begun: Nat] :
           /\ attempt' = [attempt EXCEPT ![j] = a]
           /\ a.state = "CONFIRMED" /\ a.message = n /\ a.begun = attempt[j].begun
    <3> DEFINE b == [attempt[j] EXCEPT !.state = "CONFIRMED", !.message = n]
    <3>1. attempt \in [Mirror -> [state: AttemptStates, message: Nat, begun: Nat]]
      BY DEF MirrorsInductive, TypeOK
    <3>2. b \in [state: AttemptStates, message: Nat, begun: Nat]
          /\ b.state = "CONFIRMED" /\ b.message = n /\ b.begun = attempt[j].begun
      BY <2>1, <3>1 DEF AttemptStates
    <3>3. attempt' = [attempt EXCEPT ![j] = b]
      BY <1>3, <2>1, <3>1
    <3> HIDE DEF b
    <3> QED
      BY <3>2, <3>3
  <2>4. UNCHANGED <<job, review, remote>>
    BY DEF ConfirmAttempt
  <2>5. PostedAs(j, n) /\ Posted(j)
    BY <1>0, <1>1, <2>1 DEF MirrorsInductive, AnswersTrue, Sends, Posted, PostedAs
  <2>6. \A k : Posted(k)' = Posted(k) /\ \A x : PostedAs(k, x)' = PostedAs(k, x)
    BY <2>4 DEF Posted, PostedAs
  <2>7. \A e \in echo.waiting : e.by = j => e.id = <<MessageOf(j), n>>
    <3> SUFFICES ASSUME NEW e \in echo.waiting, e.by = j PROVE e.id = <<MessageOf(j), n>>
      OBVIOUS
    <3>1. e.id \in Message \X Nat
      BY DEF MirrorsInductive, TypeOK
    <3>2. e.id[1] = MessageOf(j) /\ PostedAs(j, e.id[2])
      BY DEF MirrorsInductive, EchoesTrue
    <3>3. e.id[2] = n
      BY <2>5, <3>2, Parts DEF MirrorsInductive, JobPostsOnce, PostedAs
    <3> QED
      BY <3>1, <3>2, <3>3
  <2>8. echo'.waiting \subseteq echo.waiting /\ echo'.taken = echo.taken
        /\ echo' \in [heard: SUBSET (Message \X Nat), taken: SUBSET (Message \X Nat),
                      waiting: SUBSET [id: Message \X Nat, by: Mirror]]
    <3>1. echo \in [heard: SUBSET (Message \X Nat), taken: SUBSET (Message \X Nat),
                    waiting: SUBSET [id: Message \X Nat, by: Mirror]]
      BY DEF MirrorsInductive, TypeOK
    <3> DEFINE mine == {e \in echo.waiting : e.by = j}
               back == {e.id : e \in {x \in mine : x.id \notin {<<MessageOf(j), n>>}}}
    <3>2. back = {}
      BY <2>7
    <3>3. echo' = [echo EXCEPT !.waiting = @ \ mine, !.taken = @ \cup back]
      BY <1>3, <2>1 DEF Resolved
    <3> HIDE DEF mine, back
    <3> QED
      BY <3>1, <3>2, <3>3
  <2>9. TypeOK'
    <3>1. worker' \in [Worker -> Turn]
      BY <1>1, <2>2
    <3>2. attempt' \in [Mirror -> [state: AttemptStates, message: Nat, begun: Nat]]
      BY <2>3 DEF MirrorsInductive, TypeOK
    <3>3. UNCHANGED <<state, job, map, mapped, ready, review, enqueued>>
      BY DEF ConfirmAttempt
    <3>4. remote' \in [contacts: SUBSET Contact, linked: SUBSET Contact,
                   conversations: [Contact -> Nat], messages: [Message -> Seq(Mirror)]] /\ faults' \in Nat
      BY <1>3, <2>4, DisturbType DEF MirrorsInductive, TypeOK
    <3> QED
      BY <2>8, <3>1, <3>2, <3>3, <3>4, CallTypes
  <2>10. EchoesTrue' /\ OwnEchoNeverHuman'
    BY <2>4, <2>8, EchoesKept DEF MirrorsInductive, OwnEchoNeverHuman
  <2>11. AttemptFits(j, a)
    BY <2>3, <2>5, <2>6 DEF AttemptFits
  <2>12. DoubtFits(w, j, t)
    BY <2>2, <2>4, <2>5 DEF DoubtFits, Undecided
  <2>13. PostFits(j, t, a)
    BY <2>2, <2>3, <2>5, <2>6 DEF PostFits
  <2>14. OthersFit(w, j, t, a)
    BY <2>3, <2>5 DEF OthersFit, MirrorsInductive, PostsTrue
  <2>15. TurnFits(w, j, t)
    BY <1>1, <2>2 DEF TurnFits
  <2> QED
    BY <1>0, <1>1, <2>2, <2>3, <2>4, <2>9, <2>10, <2>11, <2>12, <2>13, <2>14, <2>15, EvidenceStep DEF Grows
<1> QED
  BY <1>0, <1>2, <1>3 DEF ConfirmAttempt

---------------------------------------------------------------------------
(* The operator and the environment.                                       *)

LEMMA SwitchStep == ASSUME MirrorsInductive, Pause \/ Resume PROVE MirrorsInductive'
<1>1. TypeOK'
  <2>1. faults' \in Nat /\ ready' \in BOOLEAN
    BY DisturbType DEF Pause, Resume
  <2>2. UNCHANGED <<state, job, map, mapped, attempt, worker, review, remote, echo, enqueued>>
    BY DEF Pause, Resume
  <2> QED
    BY <2>1, <2>2 DEF MirrorsInductive, TypeOK
<1> QED
  BY <1>1, SameIsQuiet, QuietStep DEF Pause, Resume

LEMMA EvidenceType ==
    ASSUME MirrorsInductive, NEW j \in Mirror, NEW p \in Evidence(j), job[j].status = "UNKNOWN"
    PROVE  /\ p \in Payload
           /\ job[j].payload.message # 0 \/ job[j].payload.operation = "SEND_MESSAGE" => p.message # 0
           /\ Evident(j)
<1> DEFINE q == job[j].payload
           m == MessageOf(j)
<1>1. /\ j \in Job /\ q \in Payload /\ m \in Message /\ ContactOf[m] \in Contact
      /\ attempt[j] \in [state: AttemptStates, message: Nat, begun: Nat]
  BY Parts DEF MirrorsInductive, TypeOK, Row, ContactOfJob, MessageOf
<1>2. remote.messages[m] \in Seq(Mirror) /\ remote.conversations[ContactOf[m]] \in Nat
  BY <1>1 DEF MirrorsInductive, TypeOK
<1>3. CASE q.operation = "SEND_MESSAGE"
  <2>1. attempt[j].state \in {"CONFIRMED", "NONE"} /\
        \E k \in DOMAIN remote.messages[m] : p = [q EXCEPT !.message = k]
    <3>1. CASE attempt[j].state = "CONFIRMED"
      <4>1. PostedAs(j, attempt[j].message) /\ p = [q EXCEPT !.message = attempt[j].message]
        BY <1>3, <3>1 DEF MirrorsInductive, AttemptsTrue, Evidence
      <4> QED
        BY <3>1, <4>1 DEF PostedAs
    <3>2. CASE attempt[j].state = "NONE"
      BY <1>3, <3>2 DEF Evidence
    <3> QED
      BY <1>3, <3>1, <3>2 DEF Evidence
  <2>2. PICK k \in DOMAIN remote.messages[m] : p = [q EXCEPT !.message = k]
    BY <2>1
  <2>3. k \in Nat /\ k # 0
    BY <1>2
  <2>4. Evident(j)
    BY <2>1 DEF MirrorsInductive, AttemptsTrue, PostsTrue, Awaited, InFlight, Open, Evident
  <2> QED
    BY <1>1, <2>2, <2>3, <2>4 DEF Payload
<1>4. CASE q.operation # "SEND_MESSAGE"
  <2>1. Evident(j)
    BY <1>4, DecidedIsEvident DEF MirrorsInductive, UndecidedStays
  <2>2. p \in Payload /\ p.message = q.message
    <3>1. CASE q.operation = "CREATE_CONVERSATION"
      <4>1. PICK k \in 1..remote.conversations[ContactOf[m]] : p = [q EXCEPT !.conversation = k]
        BY <3>1 DEF Evidence
      <4>2. k \in Nat
        BY <1>2
      <4> QED
        BY <1>1, <4>1, <4>2 DEF Payload
    <3>2. CASE q.operation # "CREATE_CONVERSATION"
      <4>1. p \in {[q EXCEPT !.contact = TRUE], [q EXCEPT !.source = TRUE], q}
        BY <1>4, <3>2 DEF Evidence
      <4> QED
        BY <1>1, <4>1 DEF Payload
    <3> QED
      BY <3>1, <3>2
  <2> QED
    BY <1>4, <2>1, <2>2
<1> QED
  BY <1>3, <1>4

LEMMA ReadReviewStep ==
    ASSUME MirrorsInductive, NEW j \in Mirror, ReconcileRead(j) PROVE MirrorsInductive'
<1>1. PICK p \in Evidence(j) :
         review' = [job |-> j, seen |-> job[j].payload, patched |-> p, ready |-> ready]
  BY DEF ReconcileRead
<1>2. /\ p \in Payload /\ Evident(j)
      /\ job[j].payload.message # 0 \/ job[j].payload.operation = "SEND_MESSAGE" => p.message # 0
      /\ job[j].status = "UNKNOWN" /\ job[j].payload \in Payload
  BY EvidenceType, Parts DEF ReconcileRead, MirrorsInductive, TypeOK, Row
<1>3. UNCHANGED <<state, job, map, mapped, attempt, ready, worker, remote, echo, enqueued, faults>>
  BY DEF ReconcileRead
<1>4. TypeOK'
  BY <1>1, <1>2, <1>3 DEF MirrorsInductive, TypeOK
<1>5. RowsInOrder' /\ TurnsInOrder' /\ OneRunning' /\ OneUncertain' /\ UndecidedStays'
  BY <1>3 DEF MirrorsInductive, RowsInOrder, TurnsInOrder, OneRunning, OneUncertain, UndecidedStays,
              Holds, Sends, AtRisk, Unknown, Undecided, Posted, PostedAs, InFlight, Posting
<1>6. AnswersTrue' /\ EchoesTrue' /\ JobPostsOnce' /\ OwnEchoNeverHuman'
  BY <1>3 DEF MirrorsInductive, AnswersTrue, EchoesTrue, JobPostsOnce, OwnEchoNeverHuman, Sends, PostedAs
<1>9. \A k \in Mirror \ {j} : Awaited(k) => Awaited(k)'
  BY <1>1, <1>3 DEF Awaited, Newest
<1>10. PostsTrue'
  <2> SUFFICES ASSUME NEW v \in Worker, Posting(v)
               PROVE  /\ attempt[worker[v].job].state = "DISPATCHED" /\ Awaited(worker[v].job)'
                      /\ ~Posted(worker[v].job)
                      /\ \A u \in Worker : Posting(u) /\ worker[u].job = worker[v].job => u = v
    BY <1>3 DEF PostsTrue, Posting, Sends, Posted, PostedAs
  <2>1. PICK k \in Mirror \ {j} : k = worker[v].job
    BY <1>2 DEF MirrorsInductive, TurnsInOrder, Posting, Evident, InFlight
  <2> QED
    BY <1>3, <1>9, <2>1 DEF MirrorsInductive, PostsTrue
<1>7. AttemptsTrue'
  BY <1>2, <1>3, <1>9 DEF MirrorsInductive, AttemptsTrue, Posted, PostedAs, Evident
<1>8. ReviewTrue'
  BY <1>1, <1>2, <1>3 DEF ReviewTrue
<1> QED
  BY <1>4, <1>5, <1>6, <1>7, <1>8, <1>10 DEF MirrorsInductive

LEMMA CommitReviewStep ==
    ASSUME MirrorsInductive, ReconcileCommit PROVE MirrorsInductive'
<1>0. PICK j \in Mirror : review.job = j
  BY DEF ReconcileCommit, MirrorsInductive, TypeOK
<1>1. /\ j \in Job /\ review.patched \in Payload
      /\ job[j].status = "UNKNOWN" /\ job[j] \in Row
  BY <1>0, Parts, NobodyAssumption DEF ReconcileCommit, MirrorsInductive, TypeOK, ReviewTrue
<1>2. UNCHANGED <<state, map, mapped, attempt, ready, worker, remote, echo, enqueued, faults>>
  BY DEF ReconcileCommit
<1>3. review' = NoReview /\ NoReview \in [job: Mirror \cup {None}, seen: Payload, patched: Payload, ready: BOOLEAN]
      /\ review'.job = None
  BY Values DEF ReconcileCommit, NoReview
<1>4. PICK r \in Row : /\ job' = [job EXCEPT ![j] = r]
                       /\ r.holder = job[j].holder
                       /\ \/ r.status = "PENDING" /\ r.payload = review.patched
                          \/ r = job[j]
  <2> DEFINE q == [job[j] EXCEPT !.status = "PENDING", !.due = TRUE, !.payload = review.patched]
  <2>1. q \in Row /\ q.holder = job[j].holder /\ q.status = "PENDING" /\ q.payload = review.patched
    BY <1>1 DEF Row, Statuses
  <2>2. job' \in {[job EXCEPT ![j] = q], job}
    BY <1>0 DEF ReconcileCommit
  <2>3. job = [job EXCEPT ![j] = job[j]]
    BY <1>1 DEF MirrorsInductive, TypeOK
  <2> HIDE DEF q
  <2> QED
    BY <1>1, <2>1, <2>2, <2>3
<1>5. /\ job' \in [Job -> Row] /\ job'[j] = r /\ \A k \in Job \ {j} : job'[k] = job[k]
      /\ Mirror \subseteq Job /\ Reply \subseteq Job
  BY <1>1, <1>4 DEF MirrorsInductive, TypeOK, Job
<1>6. TypeOK'
  BY <1>2, <1>3, <1>5 DEF MirrorsInductive, TypeOK
<1>7. job[j].holder = None
  BY <1>1 DEF MirrorsInductive, RowsInOrder
<1>8. \A k : Posted(k)' = Posted(k) /\ \A n : PostedAs(k, n)' = PostedAs(k, n)
  BY <1>2 DEF Posted, PostedAs
<1>9. RowsInOrder' /\ OneRunning'
  BY <1>1, <1>4, <1>5, <1>7 DEF MirrorsInductive, RowsInOrder, OneRunning
<1>10. \A v \in Worker, k \in Job : Holds(v, k)' => k # j /\ Holds(v, k)
  BY <1>2, <1>4, <1>5, <1>7, NobodyAssumption DEF Holds
<1>11. TurnsInOrder'
  BY <1>2, <1>5, <1>10 DEF MirrorsInductive, TurnsInOrder, Sends
<1>12. OneUncertain'
  <2>1. \A k \in AtRisk' : k \in AtRisk
    BY <1>1, <1>5 DEF AtRisk
  <2>2. ASSUME NEW k \in Reply, job'[k].status = "RUNNING" PROVE Unknown(job') = {}
    <3>1. k # j /\ job[k].status = "RUNNING"
      BY <1>1, <1>5, <2>2, JobAssumption
    <3> QED
      BY <1>1, <3>1 DEF MirrorsInductive, OneUncertain, Unknown
  <2> QED
    BY <2>1, <2>2 DEF MirrorsInductive, OneUncertain, ContactOfJob
<1>13. Evident(j)
  BY <1>0 DEF MirrorsInductive, AttemptsTrue, PostsTrue, Awaited, InFlight, Evident
<1>19. \A k : InFlight(k)' = InFlight(k)
  BY <1>2 DEF InFlight, Posting, Sends
<1>20. \A k \in Mirror \ {j} : Awaited(k) => Awaited(k)'
  <2>1. \A k \in Mirror : k # None
    BY <1>5, NobodyAssumption
  <2> QED
    BY <1>2, <1>3, <1>5, <2>1 DEF Awaited, Newest
<1>14. \A k \in Mirror : Undecided(k)' => Undecided(k) /\ (k = j => r = job[j])
  <2>1. ~Undecided(j)' \/ r = job[j]
    <3>1. ASSUME r.payload = review.patched, r.payload.message = 0 PROVE ~Posted(j)
      <4>1. job[j].payload.message = 0 /\ job[j].payload.operation # "SEND_MESSAGE"
        BY <1>0, <1>1, <3>1, NobodyAssumption DEF MirrorsInductive, ReviewTrue
      <4> QED
        BY <1>1, <4>1 DEF MirrorsInductive, UndecidedStays, Undecided
    <3> QED
      BY <1>4, <1>5, <1>8, <1>13, <1>19, <3>1 DEF Undecided, Evident
  <2> QED
    BY <1>5, <1>8, <1>19, <2>1 DEF Undecided
<1>15. UndecidedStays'
  <2> SUFFICES ASSUME NEW k \in Mirror, Undecided(k)'
               PROVE  /\ job'[k].payload.operation = "SEND_MESSAGE"
                      /\ job'[k].status \in {"RUNNING", "UNKNOWN"}
                      /\ \A w \in Worker : Holds(w, k)' =>
                            \/ worker'[w].phase \in {"calling", "called", "proved"}
                            \/ worker'[w].phase = "settling" /\ worker'[w].verdict = "UNKNOWN"
    BY DEF UndecidedStays
  <2>1. Undecided(k) /\ job'[k] = job[k] /\ k \in Job
    BY <1>5, <1>14
  <2> QED
    BY <1>2, <1>10, <2>1 DEF MirrorsInductive, UndecidedStays
<1>16. AttemptsTrue'
  BY <1>2, <1>8, <1>13, <1>20 DEF MirrorsInductive, AttemptsTrue, Evident
<1>17. AnswersTrue' /\ EchoesTrue' /\ JobPostsOnce' /\ OwnEchoNeverHuman'
  BY <1>2 DEF MirrorsInductive, AnswersTrue, EchoesTrue, JobPostsOnce, OwnEchoNeverHuman, Sends, PostedAs
<1>21. PostsTrue'
  <2> SUFFICES ASSUME NEW v \in Worker, Posting(v)
               PROVE  /\ attempt[worker[v].job].state = "DISPATCHED" /\ Awaited(worker[v].job)'
                      /\ ~Posted(worker[v].job)
                      /\ \A u \in Worker : Posting(u) /\ worker[u].job = worker[v].job => u = v
    BY <1>2 DEF PostsTrue, Posting, Sends, Posted, PostedAs
  <2>1. PICK k \in Mirror \ {j} : k = worker[v].job
    BY <1>13 DEF MirrorsInductive, TurnsInOrder, Posting, Evident, InFlight
  <2> QED
    BY <1>2, <1>20, <2>1 DEF MirrorsInductive, PostsTrue
<1>18. ReviewTrue'
  BY <1>3 DEF ReviewTrue
<1> QED
  BY <1>6, <1>9, <1>11, <1>12, <1>15, <1>16, <1>17, <1>18, <1>21 DEF MirrorsInductive

LEMMA EchoStep ==
    ASSUME MirrorsInductive, NEW m \in Message, NEW k \in DOMAIN remote.messages[m], EchoArrives(m, k)
    PROVE  MirrorsInductive'
<1>1. UNCHANGED <<state, job, map, mapped, attempt, ready, worker, review, remote, enqueued, faults>>
  BY DEF EchoArrives
<1>2. PICK p \in Mirror : p = remote.messages[m][k] /\ MessageOf(p) = m /\ PostedAs(p, k)
  BY DEF MirrorsInductive, TypeOK, EchoesTrue, PostedAs
<1>3. \/ Awaited(p)
      \/ attempt[p].state = "CONFIRMED" /\ attempt[p].message = k
  <2>1. attempt[p].state = "CONFIRMED" \/ Awaited(p)
    BY <1>2 DEF MirrorsInductive, AttemptsTrue, Posted, PostedAs
  <2>2. ASSUME attempt[p].state = "CONFIRMED" PROVE attempt[p].message = k
    <3>1. PostedAs(p, attempt[p].message)
      BY <2>2 DEF MirrorsInductive, AttemptsTrue
    <3> QED
      BY <1>2, <3>1 DEF MirrorsInductive, JobPostsOnce, PostedAs
  <2> QED
    BY <2>1, <2>2
<1>4. Awaited(p) =>
         /\ attempt[p].state \in Open
         /\ \A j \in Mirror : MessageOf(j) = m /\ attempt[p].begun <= attempt[j].begun => j = p
  <2>1. \A j \in Mirror : attempt[j].begun \in Nat
    BY DEF MirrorsInductive, TypeOK
  <2> QED
    BY <1>2, <2>1 DEF Awaited, Newest
<1>5. /\ echo'.taken = {}
      /\ \A e \in echo'.waiting : e \in echo.waiting \/ e = [id |-> <<m, k>>, by |-> p]
      /\ echo' \in [heard: SUBSET (Message \X Nat), taken: SUBSET (Message \X Nat),
                    waiting: SUBSET [id: Message \X Nat, by: Mirror]]
  <2>1. echo \in [heard: SUBSET (Message \X Nat), taken: SUBSET (Message \X Nat),
                  waiting: SUBSET [id: Message \X Nat, by: Mirror]] /\ echo.taken = {}
    BY DEF MirrorsInductive, TypeOK, OwnEchoNeverHuman
  <2>2. <<m, k>> \in Message \X Nat
    <3>1. remote.messages[m] \in Seq(Mirror)
      BY DEF MirrorsInductive, TypeOK
    <3>2. k \in Nat
      BY <3>1
    <3> QED
      BY <3>2
  <2> DEFINE heard == echo.heard \cup {<<m, k>>}
             waiting == echo.waiting \cup {[id |-> <<m, k>>, by |-> p]}
  <2>3. echo' = [echo EXCEPT !.heard = heard] \/ echo' = [echo EXCEPT !.heard = heard, !.waiting = waiting]
    BY <1>2, <1>3, <1>4 DEF EchoArrives
  <2>4. heard \in SUBSET (Message \X Nat) /\ waiting \in SUBSET [id: Message \X Nat, by: Mirror]
        /\ \A e \in waiting : e \in echo.waiting \/ e = [id |-> <<m, k>>, by |-> p]
    BY <2>1, <2>2
  <2> HIDE DEF heard, waiting
  <2> QED
    BY <2>1, <2>3, <2>4
<1>6. EchoesTrue'
  BY <1>1, <1>2, <1>5 DEF MirrorsInductive, EchoesTrue, PostedAs
<1>7. TypeOK'
  BY <1>1, <1>5 DEF MirrorsInductive, TypeOK
<1>8. RowsInOrder' /\ TurnsInOrder' /\ OneRunning' /\ OneUncertain' /\ UndecidedStays'
  BY <1>1 DEF MirrorsInductive, RowsInOrder, TurnsInOrder, OneRunning, OneUncertain, UndecidedStays,
              Holds, Sends, AtRisk, Unknown, Undecided, Posted, PostedAs, InFlight, Posting
<1>9. AttemptsTrue' /\ PostsTrue' /\ AnswersTrue' /\ ReviewTrue' /\ JobPostsOnce' /\ OwnEchoNeverHuman'
  <2>1. OwnEchoNeverHuman'
    BY <1>5 DEF OwnEchoNeverHuman
  <2>2. \A j : Awaited(j)' = Awaited(j) /\ Posted(j)' = Posted(j) /\ \A x : PostedAs(j, x)' = PostedAs(j, x)
    BY <1>1 DEF Awaited, Newest, Posted, PostedAs
  <2>3. AttemptsTrue' /\ PostsTrue' /\ AnswersTrue'
    BY <1>1, <2>2 DEF MirrorsInductive, AttemptsTrue, PostsTrue, AnswersTrue, Posting, Sends
  <2>4. ReviewTrue' /\ JobPostsOnce'
    BY <1>1 DEF MirrorsInductive, ReviewTrue, JobPostsOnce
  <2> QED
    BY <2>1, <2>3, <2>4
<1> QED
  BY <1>6, <1>7, <1>8, <1>9 DEF MirrorsInductive

---------------------------------------------------------------------------
(* Theorems.                                                               *)

LEMMA InitHolds == Init => MirrorsInductive
<1> SUFFICES ASSUME Init PROVE MirrorsInductive
  OBVIOUS
<1> USE DEF Init
<1>1. \A j \in Job : job[j] = NoRow /\ NoRow.status = "NONE" /\ NoRow.holder = None
  BY DEF NoRow
<1>2. \A w \in Worker : worker[w] = Idle /\ Idle.phase = "idle"
  BY DEF Idle
<1>3. \A m \in Message : remote.messages[m] = <<>>
  OBVIOUS
<1>4. \A j \in Mirror : ~Posted(j) /\ ~InFlight(j) /\ attempt[j].state = "NONE" /\ j \in Job
  BY <1>2, <1>3, Parts DEF Posted, InFlight, Posting
<1>5. TypeOK
  <2>1. job \in [Job -> Row] /\ worker \in [Worker -> Turn]
    BY Values
  <2>2. review \in [job: Mirror \cup {None}, seen: Payload, patched: Payload, ready: BOOLEAN]
    BY Values DEF NoReview
  <2>3. attempt \in [Mirror -> [state: AttemptStates, message: Nat, begun: Nat]]
    BY DEF AttemptStates
  <2>4. remote \in [contacts: SUBSET Contact, linked: SUBSET Contact,
                   conversations: [Contact -> Nat], messages: [Message -> Seq(Mirror)]]
    <3>1. <<>> \in Seq(Mirror)
      OBVIOUS
    <3> QED
      BY <3>1
  <2>5. state \in [Message -> States \cup {"NEW"}] /\ map \in [Contact -> Nat] /\ mapped \in [Message -> Nat]
        /\ ready \in BOOLEAN /\ enqueued \subseteq Reply /\ faults \in Nat
    OBVIOUS
  <2>6. echo \in [heard: SUBSET (Message \X Nat), taken: SUBSET (Message \X Nat),
                  waiting: SUBSET [id: Message \X Nat, by: Mirror]]
    OBVIOUS
  <2> QED
    BY <2>1, <2>2, <2>3, <2>4, <2>5, <2>6 DEF TypeOK
<1>6. RowsInOrder /\ OneRunning
  BY <1>1 DEF RowsInOrder, OneRunning
<1>7. TurnsInOrder
  BY <1>2 DEF TurnsInOrder, Holds
<1>8. OneUncertain
  <2>1. AtRisk = {}
    BY <1>1, <1>4 DEF AtRisk
  <2> QED
    BY <1>1, <2>1 DEF OneUncertain, Job
<1>9. UndecidedStays /\ AttemptsTrue
  BY <1>4 DEF UndecidedStays, Undecided, AttemptsTrue
<1>10. PostsTrue /\ AnswersTrue
  BY <1>2 DEF PostsTrue, AnswersTrue, Posting
<1>11. ReviewTrue /\ EchoesTrue /\ JobPostsOnce /\ OwnEchoNeverHuman
  BY <1>3 DEF ReviewTrue, EchoesTrue, JobPostsOnce, OwnEchoNeverHuman, NoReview
<1> QED
  BY <1>5, <1>6, <1>7, <1>8, <1>9, <1>10, <1>11 DEF MirrorsInductive

LEMMA StepHolds == MirrorsInductive /\ [Next]_vars => MirrorsInductive'
<1> SUFFICES ASSUME MirrorsInductive, [Next]_vars PROVE MirrorsInductive'
  OBVIOUS
<1>1. CASE UNCHANGED vars
  <2>1. TypeOK' /\ UNCHANGED <<job, worker, attempt, review, remote, echo>>
    BY <1>1 DEF vars, MirrorsInductive, TypeOK
  <2> QED
    BY <2>1, SameIsQuiet, QuietStep
<1>2. ASSUME NEW w \in Worker, MirrorStep(w) PROVE MirrorsInductive'
  BY <1>2, ReadContextStep, FindContactStep, BeforeStep, BeginStep, AcceptedStep, EndedStep, ConfirmStep,
     KeepAnswerStep, MapStep, FailSteps, RecordStep, PatchStep DEF MirrorStep
<1>3. ASSUME NEW w \in Worker, TurnStep(w) PROVE MirrorsInductive'
  BY <1>2, <1>3, ReceiveStep, FailSteps, EndStep DEF TurnStep
<1>4. ASSUME NEW w \in Worker, Sweep(w) \/ Crash(w) \/ \E j \in Job : Claim(w, j)
      PROVE MirrorsInductive'
  BY <1>4, SweepStep, CrashStep, ClaimStep
<1>5. ASSUME NEW j \in Job, RetryJob(j) \/ LeaseElapses(j) \/ BackoffElapses(j) PROVE MirrorsInductive'
  BY <1>5, RetryStep, TimeStep
<1>6. ASSUME NEW m \in Message, Advance(m) \/ \E k \in DOMAIN remote.messages[m] : EchoArrives(m, k)
      PROVE MirrorsInductive'
  BY <1>6, AdvanceStep, EchoStep
<1>7. ASSUME ReconcileCommit \/ Pause \/ Resume \/ (\E j \in Mirror : ReconcileRead(j))
             \/ (\E r \in Reply : ReplyArrives(r))
      PROVE MirrorsInductive'
  BY <1>7, CommitReviewStep, SwitchStep, ReadReviewStep, ReplyArrivesStep
<1> QED
  BY <1>1, <1>3, <1>4, <1>5, <1>6, <1>7 DEF Next

\* Whatever workers, messages and operators do, in every order and with every
\* crash and lost answer, the inductive invariant of the queue holds.
THEOREM InductiveHolds == Spec => []MirrorsInductive
<1>1. Init => MirrorsInductive
  BY InitHolds
<1>2. MirrorsInductive /\ [Next]_vars => MirrorsInductive'
  BY StepHolds
<1> QED
  BY <1>1, <1>2, PTL DEF Spec

\* Rows, turns, attempts, reviews and echoes keep their types.
THEOREM TypeCorrect == Spec => []TypeOK
<1>1. MirrorsInductive => TypeOK
  BY DEF MirrorsInductive
<1> QED
  BY <1>1, InductiveHolds, PTL

\* No mirror job POSTs its message to Chatwoot twice, for every number of
\* attempts, crashes, lost answers and reconciliations.
THEOREM PostsOnce == Spec => []JobPostsOnce
<1>1. MirrorsInductive => JobPostsOnce
  BY DEF MirrorsInductive
<1> QED
  BY <1>1, InductiveHolds, PTL

\* Chatwoot's report of a message we POSTed is never taken for a person's,
\* in whatever order the answer, the crash and the report come.
THEOREM OwnEchoNeverTaken == Spec => []OwnEchoNeverHuman
<1>1. MirrorsInductive => OwnEchoNeverHuman
  BY DEF MirrorsInductive
<1> QED
  BY <1>1, InductiveHolds, PTL

LEMMA InductiveFences == MirrorsInductive => UncertainFences
<1> SUFFICES ASSUME MirrorsInductive, NEW j \in Job, job[j].status = "RUNNING", NEW k, k # j,
                    k \in Unknown(job) \cup {worker[w].job : w \in {v \in Worker : Posting(v)}}
             PROVE  j \in Mirror /\ ContactOfJob(k) # ContactOfJob(j)
  BY DEF UncertainFences
<1>1. k \in Mirror /\ job[k].status \in {"RUNNING", "UNKNOWN"}
  <2>1. CASE k \in Unknown(job)
    BY <2>1 DEF Unknown
  <2>2. CASE k \in {worker[w].job : w \in {v \in Worker : Posting(v)}}
    <3>1. PICK w \in Worker : Posting(w) /\ worker[w].job = k
      BY <2>2
    <3>2. k \in Mirror
      BY <3>1 DEF MirrorsInductive, TurnsInOrder, Posting
    <3> QED
      BY <3>1, <3>2, PostingTurn DEF MirrorsInductive, UndecidedStays
  <2> QED
    BY <2>1, <2>2
<1>2. k \in Job /\ k \in Unknown(job)
  BY <1>1, Parts DEF MirrorsInductive, OneRunning, Unknown
<1>3. j \in Mirror
  BY <1>2 DEF Job, MirrorsInductive, OneUncertain
<1> QED
  BY <1>1, <1>3 DEF AtRisk, MirrorsInductive, OneUncertain

\* While the outcome of a POST is open nothing else of its contact runs, and
\* no reply at all, for every set of contacts, messages and workers.
THEOREM FencesHold == Spec => []UncertainFences
<1>1. MirrorsInductive => UncertainFences
  BY InductiveFences
<1> QED
  BY <1>1, InductiveHolds, PTL

===========================================================================
